SPECIFICATION FairSpec
CONSTANTS
  NumRuns = 2
  Inodes <- MCInodes
  Writers = {}
  Resumers = {r1}
  Collectors = {g1}
  Inspectors = {}
  MaxCalls = 1
  LocksSupported = TRUE
  Seeds <- MixedSeeds
  None = None
  w1 = w1
  w2 = w2
  r1 = r1
  r2 = r2
  g1 = g1
  g2 = g2
  n1 = n1
  i1 = i1
  i2 = i2
INVARIANTS
  FailedPreflightKeepsAll
  LocksAreHeldOpen
PROPERTIES
  OnlyStaleUnlinked
  CorruptIsUntouched
  EveryoneFinishes
