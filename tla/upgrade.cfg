CONSTANTS
    RouteCallers = {r1, r2}
    AgentCallers = {agent}
    Readers = {}
    ComposeAtStart <- AnyCompose
    Retention = 1
    MaxVersion = 2
    MaxRuns = 2
    MaxEdits = 0
SPECIFICATION Spec
INVARIANT OnePipeline
INVARIANT BackupCoversRun
INVARIANT RolledBackToPriorConfig
INVARIANT EarlyFailureUntouched
SYMMETRY RouteSymmetry
CONSTRAINT MetOnFirstRelease
CHECK_DEADLOCK FALSE
