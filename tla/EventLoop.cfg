SPECIFICATION Spec
CONSTANTS
    Event = {e1, e2}
    QueueSize = 2
    MaxEvents = 4
    Faults = {"hangup", "doneWrite"}
INVARIANTS
    TornDownAfterLoop
    IInv
PROPERTIES
    KeepsPromise
CHECK_DEADLOCK FALSE
