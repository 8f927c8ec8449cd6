SPECIFICATION FairSpec
CONSTANTS
    Thread = {loop, client}
    Dumper = {client}
    MaxRequests = 3
    Faults = {"cbAlloc", "create", "send", "put", "malloc"}
INVARIANTS
    AnswersBalance
    OwnUnlessMixed
PROPERTIES
    AllReturn
CHECK_DEADLOCK FALSE
