CONSTANTS
    t1 = t1
    t2 = t2
    t3 = t3
    a = a
    b = b
    w1 = w1
    w2 = w2
    NoGroup = NoGroup
    NoTask = NoTask
    Tasks = {t1, t2}
    Groups = {a, b}
    Consumers = {w1, w2}
    Workers = {w1, w2}
    CliWorkers = {}
    CapOf <- CapOfMixed
    CapsOf <- CapsOfMixed
    StreamMaxLen = 1
    MaxFaults = 0
    ConsumeCount = 2
    MaxMishaps = 1
    MaxRetries = 2
    MaxRuns = 0
SPECIFICATION Spec
INVARIANTS CapabilityIsolation NoSilentLoss
