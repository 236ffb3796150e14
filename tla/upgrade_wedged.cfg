CONSTANTS
    RouteCallers = {}
    AgentCallers = {"agent"}
    Readers = {"sse"}
    ComposeAtStart <- RegularCompose
    Retention = 1
    MaxVersion = 1
    MaxRuns = 2
    MaxEdits = 0
SPECIFICATION FairSpec
PROPERTY UpgradeEnds
CHECK_DEADLOCK FALSE
