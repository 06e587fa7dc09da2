SPECIFICATION Spec
CHECK_DEADLOCK FALSE
CONSTANTS
    t1 = t1
    t2 = t2
    NoTask = NoTask
    Tasks = {t1, t2}
    Conns = {t1, t2}
    StoreFirst = TRUE
    Reachable = TRUE
    MaxFaults = 0
    MaxRetries = 3
    MaxAttempts = 1
    MayMistype = FALSE
    MayCancel = TRUE
PROPERTY FinalSettles
