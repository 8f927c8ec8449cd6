SPECIFICATION FairSpec
CONSTANTS
    Netdev = {wlan0, p2p0, lo}
    WifiDev = {wlan0, p2p0}
    wlan0 = wlan0
    MaxPolls = 2
    MaxPlugs = 3
    MaxCalls = 3
    Faults = {"malloc", "socketpair", "cmd", "event", "get_cb", "resolve", "opendir", "group", "membership"}
INVARIANTS
    TypeOK
    FailureReleases
    LiveIsReady
    TableWhole
PROPERTIES
    ReadyMeansFound
    CallsReturn
CHECK_DEADLOCK FALSE
