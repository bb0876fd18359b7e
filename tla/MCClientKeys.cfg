SPECIFICATION PartsSpec
CONSTANTS
    Requests = {1, 2}
    Names = {x, y}
    MaxKeys = 2
    Jobs = {1, 2}
    Objects = {1, 2}
    Sockets = {1, 2}
    DONE_FIRST = 2
    DONE_NEXT = 1
    MaxFaults = 1
    MaxSessions = 2
    Hosts = {h1, h2}
    Caps = {c1, c2}
    Askers = {1, 2}
    MaxInflight = 1
    Workers = 2
INVARIANTS
    KeysInvariant
    ComfyHolds
    PanelsHold
    DiscoveryHolds
PROPERTIES
    NoSecondMint
    KeysSettle
    ExactIsExact
    ComfyRecovers
    NothingStaysBusy
CHECK_DEADLOCK FALSE
