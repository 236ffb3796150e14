CONSTANTS
    RouteCallers = {}
    AgentCallers = {"agent"}
    Readers = {"sse"}
    ComposeAtStart <- AnyCompose
    Retention = 1
    MaxVersion = 1
    MaxRuns = 2
    MaxEdits = 1
SPECIFICATION FairSpec
INVARIANT EarlierEditsKept
PROPERTY UpgradeSettles
CHECK_DEADLOCK FALSE
