CONSTANTS
    t1 = t1
    t2 = t2
    NoTask = NoTask
    Tasks = {t1, t2}
    CliInstalled = TRUE
    MaxMishaps = 3
SPECIFICATION LiveSpec
INVARIANTS ProcessOnlyWhenBusy IInv
PROPERTIES ImplementsQueue TaskSettles StopEndsWhatItFinds
