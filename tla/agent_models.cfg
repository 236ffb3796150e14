SPECIFICATION FairSpec
CONSTANTS
  Unset = Unset
  a1 = a1
  a2 = a2
  m1 = m1
  Agents <- MCAgents
  NativeAgents <- MCNative
  Models <- MCModels
  Asked <- MCAsked
  Jobs = {j1, j2}
  MaxRequests = 2
  MaxFaults = 1
INVARIANT SoloApply
PROPERTY Transactional
PROPERTY TriggersServed
CHECK_DEADLOCK FALSE
