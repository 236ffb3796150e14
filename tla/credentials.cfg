SPECIFICATION LoginSpec
CONSTANTS
  Unset = Unset
  Old = Old
  f1 = f1
  m1 = m1
  m2 = m2
  Flows <- MCFlows
  Models <- MCModels
  Serves <- MCServes
  Responses <- MCResponses
  Jobs = {o1, o2}
  Probes = {p1}
  MaxRequests = 4
  MaxFaults = 1
INVARIANT SoloConnect
CHECK_DEADLOCK FALSE
