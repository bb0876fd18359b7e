SPECIFICATION FairSpec
CONSTANTS
    Series = {s1, s2}
    Values = {1}
    BUCKET_SEC = 2
    CHUNK_SEC = 4
    MAX_CHUNKS_PER_RUN = 2
    DOWNSAMPLE_SEC = 2
    AGG_AFTER = 1
    PURGE_AFTER = 4
    AGG_RETENTION = 7
    BootTime = 11
    MaxJump = 4
    MaxStepBack = 2
    MaxNow = 19
    MaxSamples = 3
    MaxFaults = 1
PROPERTIES
    ImplementsStore
    RawTierDrains
CHECK_DEADLOCK FALSE
