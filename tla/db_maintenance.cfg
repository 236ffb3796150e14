CONSTANTS
    Sessions = {1, 2}
    MaxRuns = 2
    MaxOutside = 1
    MaxCrashes = 1
SPECIFICATION Spec
INVARIANT SingleWriter
INVARIANT BackupBeforeDelete
INVARIANT NoOrphans
INVARIANT RecentKept
INVARIANT SchedulerAlive
INVARIANT AiDevComesBack
CHECK_DEADLOCK FALSE
