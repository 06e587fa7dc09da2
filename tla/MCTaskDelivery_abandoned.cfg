CONSTANTS
    t1 = t1
    t2 = t2
    t3 = t3
    a = a
    b = b
    w1 = w1
    w2 = w2
    NoGroup = NoGroup
    NoTask = NoTask
    Tasks = {t1, t2}
    Groups = {a}
    Consumers = {w1}
    Workers = {w1}
    CliWorkers = {}
    CapOf <- CapOfSame
    CapsOf <- CapsOfSame
    StreamMaxLen = 9
    MaxFaults = 1
    ConsumeCount = 2
    MaxMishaps = 1
    MaxRetries = 3
    MaxRuns = 0
SPECIFICATION ReaperSpec
PROPERTY AbandonedTasksAreReaped
