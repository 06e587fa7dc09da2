SPECIFICATION Spec
CHECK_DEADLOCK FALSE
CONSTANTS
    t1 = t1
    t2 = t2
    NoTask = NoTask
    Tasks = {t1, t2}
    Conns = {t1, t2}
    StoreFirst = FALSE
    Reachable = TRUE
    MaxFaults = 1
    MaxRetries = 1
    MaxAttempts = 2
    MayMistype = TRUE
    MayCancel = TRUE
INVARIANTS ChatTypeOK FollowedIsServed SavedWhileSending ShownIsNotSaved
SYMMETRY AnyTaskFirst
