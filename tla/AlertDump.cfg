SPECIFICATION AlertSpec
CONSTANTS
    NoLen = NoLen
    DumpLen = {0, 1, 3}
    RingLen = {0, 2}
    MaxEvents = 4
    MaxDumps = 3
    Faults = {"malloc", "create", "put", "request"}
INVARIANTS
    AlertWithinBuffer
    FreedOnce
CHECK_DEADLOCK FALSE
