SPECIFICATION PartsSpec
CONSTANTS
    Series = {s1}
    Values = {1, 2}
    BUCKET_SEC = 2
    CHUNK_SEC = 2
    MAX_CHUNKS_PER_RUN = 2
    DOWNSAMPLE_SEC = 1
    AGG_AFTER = 1
    PURGE_AFTER = 4
    AGG_RETENTION = 5
    BootTime = 10
    MaxJump = 3
    MaxStepBack = 2
    MaxNow = 17
    MaxSamples = 3
    MaxFaults = 2
    Cards = {c1, c2}
    Levels = {1, 4}
    Warn = 2
    Danger = 3
    PowerCap = 2
    MaxAge = 3
    FreshLive = 1
    Ifaces = {i1, i2}
    MaxCount = 2
    MaxGap = 2
    Models = {"m1", "m2", "m3"}
    Amounts = {1, 2}
    Nets = {1}
    MaxRows = 2
INVARIANTS
    StoreInvariant
    HistoryVerified
    FiguresHold
PROPERTIES
    StoreSteps
    ShownWasMeasured
CHECK_DEADLOCK FALSE
