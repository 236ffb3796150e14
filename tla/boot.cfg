CONSTANTS
    MaxWrites = 2
    Images = {1, 2}
    Agents = {"atlas", "hermes", "mine"}
    Ghosts = {"ghost"}
    Ships <- MCShips
    Projects = {"p", "q"}
    MaxFaults = 1
    MaxChanges = 2
    Downgrade = FALSE
SPECIFICATION FairSpec
INVARIANT GateSound
INVARIANT SkillsMarked
PROPERTY RefusedUntouched
PROPERTY UserAgentsKept
PROPERTY RecoveryHeals
CHECK_DEADLOCK FALSE
