SPECIFICATION ProjectFairSpec
CONSTANTS
  Unset = Unset
  ProjectNames = {p, q}
  Targets = {p}
  Viewers = {v1, v2}
  Concurrency = 1
  Features <- MCFeatures
  Kept <- MCKept
  Ops = {o1, o2}
  Rounds = 2
  MaxRequests = 2
  MaxMishaps = 1
INVARIANT SoloOps
PROPERTY BootRestores
PROPERTY OverviewsAnswered
CHECK_DEADLOCK FALSE
