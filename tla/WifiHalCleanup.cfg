SPECIFICATION FairSpec
CONSTANTS
    Command = {c1, c2, c3}
    NoCommand = NoCommand
    RequestId = {r1, r2}
    AnyId = AnyId
    ClassName = {"Hotlist", "Rtt", "Alert"}
    ApiCalls = {"start", "stop", "cleanup"}
    AllocEventCb = 12
    AllocCmd = 2
    Misuse = {}
    QueueSize = 1
    MaxEvents = 2
    Faults = {}
INVARIANTS
    Subscribed
PROPERTIES
    CleanupCompletes
    RefinesEventLoop
CHECK_DEADLOCK FALSE
