SPECIFICATION Spec
CONSTANTS
    Command = {c1, c2, c3}
    NoCommand = NoCommand
    RequestId = {r1, r2}
    AnyId = AnyId
    ClassName = {"Hotlist"}
    ApiCalls = {"start", "stop", "cleanup"}
    AllocEventCb = 12
    AllocCmd = 2
    Misuse = {"sameEvents"}
    QueueSize = 1
    MaxEvents = 1
    Faults = {}
SYMMETRY Symmetry
INVARIANTS
    HandlersOwned
CHECK_DEADLOCK FALSE
