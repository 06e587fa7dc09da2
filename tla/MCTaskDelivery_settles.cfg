CONSTANTS
    t1 = t1
    t2 = t2
    t3 = t3
    a = a
    b = b
    w1 = w1
    w2 = w2
    NoGroup = NoGroup
    NoTask = NoTask
    Tasks = {t1, t2}
    Groups = {a}
    Consumers = {w1, w2}
    Workers = {w1, w2}
    CliWorkers = {w2}
    CapOf <- CapOfSame
    CapsOf <- CapsOfSame
    StreamMaxLen = 9
    MaxFaults = 0
    ConsumeCount = 1
    MaxMishaps = 1
    MaxRetries = 2
    MaxRuns = 0
SPECIFICATION LiveSpec
PROPERTY EveryTaskSettles
