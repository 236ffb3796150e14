CONSTANTS
    Routes = {"route"}
    Commands = {"center"}
    Listings = {"list"}
    Values = {v1, v2}
    v1 = v1
    v2 = v2
    Readings = {t1, t2}
    t1 = t1
    t2 = t2
    MaxKeys = 3
    MaxOps = 4
    MaxCrashes = 1
SPECIFICATION Spec
INVARIANT RegistrySound
INVARIANT ActiveKeyApplied
INVARIANT FailureUndone
INVARIANT DeletedKeyUnused
SYMMETRY KeySymmetry
CHECK_DEADLOCK FALSE
