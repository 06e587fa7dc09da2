CONSTANTS
    t1 = t1
    t2 = t2
    NoTask = NoTask
    Tasks = {t1}
    CliInstalled = TRUE
    MaxMishaps = 0
SPECIFICATION Spec
PROPERTY CompletedByExitZero
