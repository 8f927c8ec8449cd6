SPECIFICATION FairSpec
CONSTANTS
    Event = {e1, e2}
    QueueSize = 2
    MaxEvents = 4
    Faults = {"exitWrite", "hangup", "doneWrite", "doneRead"}
PROPERTIES
    CleanupEnds
CHECK_DEADLOCK FALSE
