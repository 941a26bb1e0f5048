SPECIFICATION ParallelSpec
CONSTANTS
  Stances <- MCStances
  Norm <- MCNorm
  EmptyNorm = Empty
  Responses <- PoolResponses
  NoStance = NoStance
  AgentsCount = 2
  MaxRounds = 0
  BudgetTokens = NoBudget
  NoBudget = NoBudget
  Workers = 2
  MinQuorum = 2
  yes = yes
  yesToo = yesToo
  no = no
  noise = noise
  Yes = Yes
  No = No
  Empty = Empty
INVARIANTS
  QuorumAbortCountsCalls
