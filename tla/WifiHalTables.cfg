SPECIFICATION Spec
CONSTANTS
    Command = {c1, c2, c3}
    NoCommand = NoCommand
    RequestId = {r1, r2}
    AnyId = AnyId
    ClassName = {"FullScan", "Scan", "Hotlist", "EPNO", "SigChange", "Anqpo", "RSSI", "Rtt", "Log", "Alert"}
    ApiCalls = {"start", "stop", "stopAny", "rttCancel", "cleanup"}
    AllocEventCb = 4
    AllocCmd = 2
    Misuse = {}
    QueueSize = 1
    MaxEvents = 1
    Faults = {"hangup", "doneWrite"}
SYMMETRY Symmetry
INVARIANTS
    TypeOK
    RefsExact
    HandlersOwned
    NothingLeaked
CHECK_DEADLOCK FALSE
