SPECIFICATION DirectorySpec
CONSTANTS
    a1 = a1
    a2 = a2
    c1 = c1
    running = running
    stopped = stopped
    Agents = {a1, a2}
    Caps = {c1}
    Statuses = {running, stopped}
    NoRecord = NoRecord
    MaxWrites = 3
    MaxFaults = 1
SYMMETRY Alike
INVARIANTS DirectoryTypeOK RestartKeeps EveryToolIsOffered
CHECK_DEADLOCK FALSE
