SPECIFICATION Spec
CONSTANTS
  NumRuns = 1
  Inodes <- MCInodes
  Writers = {w1, w2}
  Resumers = {r1}
  Collectors = {g1}
  Inspectors = {n1}
  MaxCalls = 2
  LocksSupported = FALSE
  Seeds <- CleanSeeds
  None = None
  w1 = w1
  w2 = w2
  r1 = r1
  r2 = r2
  g1 = g1
  g2 = g2
  n1 = n1
  i1 = i1
  i2 = i2
SYMMETRY FileSymmetry
INVARIANTS
  SingleAppender
