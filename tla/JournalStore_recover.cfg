SPECIFICATION Spec
CONSTANTS
  NumRuns = 1
  Inodes <- MCInodes
  Writers = {w1}
  Resumers = {r1, r2}
  Collectors = {}
  Inspectors = {}
  MaxCalls = 2
  LocksSupported = TRUE
  Seeds <- CleanSeeds
  None = None
  w1 = w1
  w2 = w2
  r1 = r1
  r2 = r2
  g1 = g1
  g2 = g2
  n1 = n1
  i1 = i1
  i2 = i2
SYMMETRY ResumerSymmetry
INVARIANTS
  TypeOK
  JournalsWellFormed
PROPERTIES
  RecordsOnlyGrow
