SPECIFICATION FairSpec
CONSTANTS
  Stances <- MCStances
  Norm <- MCNorm
  EmptyNorm = Empty
  Responses <- MCResponses
  NoStance = NoStance
  AgentsCount = 3
  MaxRounds = 2
  BudgetTokens = 9
  NoBudget = NoBudget
  yes = yes
  yesToo = yesToo
  no = no
  noise = noise
  Yes = Yes
  No = No
  Empty = Empty
INVARIANTS
  TypeOK
  TokensCountedOnce
  LateAnswersEndIt
  BudgetOvershootsOneRound
PROPERTIES
  ImplementsHonestDebate
  EndsUnlessACallHangs
