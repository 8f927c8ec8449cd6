SPECIFICATION Spec
CONSTANTS
    MaxResults = 3
    DriverMax = 4
    StructLen = 4
    HdrLen = 3
    IeLens = {2, 6}
    ExtraLens = {0, 2, 8, 12}
INVARIANTS
    IInv
    ReportedLive
    FreedWhenDone
    ElementsRight
CHECK_DEADLOCK FALSE
