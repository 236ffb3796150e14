SPECIFICATION FairSpec
CONSTANTS
  Hosts = {h1}
  Tick = Tick
  Rotations = {r1}
  Users = {u1}
  Gates = {"none", "insufficient_scope", "configuration_invalid"}
  MaxRequests = 3
  MaxDays = 1
  MaxFaults = 1
INVARIANT NoReuse
PROPERTY RotationsAnswered
CHECK_DEADLOCK FALSE
