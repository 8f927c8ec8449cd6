SPECIFICATION Spec
CONSTANTS
    Caps = {1, 2}
    MaxResults = 2
    MaxLen = 4
    MaxAttrs = 3
    MaxNum = 3
    MaxChannels = 2
    FixedLen = 1
    MaxIeLen = 2
    StatusLen = 2
    EntryLen = 3
    SsidAt = 1
    SsidRoom = 1
    Faults = {"new", "create", "put", "malloc"}
INVARIANTS
    InBounds
    CountTrusted
    ReleasedOnReturn
