SPECIFICATION RunSpec
CONSTANTS
  Stances <- MCStances
  Norm <- MCNorm
  EmptyNorm = Empty
  Responses <- RunResponses
  NoStance = NoStance
  AgentsCount = 2
  MaxRounds = 1
  BudgetTokens = NoBudget
  NoBudget = NoBudget
  MaxInvocations = 2
  Defaults <- MCDefaults
  FreshArgs <- MCFreshArgs
  ResumeArgs <- MCResumeArgs
  Strip <- MCStrip
  EmptyText = EmptyText
  NoModels = NoModels
  Absent = Absent
  Null = Null
  ask = ask
  padded = padded
  stripped = stripped
  yes = yes
  yesToo = yesToo
  no = no
  noise = noise
  Yes = Yes
  No = No
  Empty = Empty
INVARIANTS
  FailedCallIsUnrecorded
