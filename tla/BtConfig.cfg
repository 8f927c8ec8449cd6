SPECIFICATION FairSpec
CONSTANTS
    MaxActions = 3
    Scripts <- AnyScripts
    MaxSessions = 2
    Faults = {"status", "alloc", "load", "xmit", "uart", "power", "open"}
INVARIANTS
    TypeOK
    BaudAgree
    OneResult
    SuccessMeansDownloaded
    HangsOnlyUnwaited
    FwBalanced
PROPERTIES
    ConfigEnds
CHECK_DEADLOCK FALSE
