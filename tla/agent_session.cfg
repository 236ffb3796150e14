CONSTANTS
    MaxReads = 2
    MaxSockets = 2
    MaxCommands = 3
    MaxUiUpgrades = 2
SPECIFICATION FairSpec
INVARIANT NeverStranded
INVARIANT OneConnection
INVARIANT BridgeFollowsSocket
INVARIANT AtMostOnce
PROPERTY DeferredSettles
CHECK_DEADLOCK FALSE
