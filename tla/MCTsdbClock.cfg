SPECIFICATION FastBootSpec
CONSTANTS
    Series = {s1}
    Values = {1, 2}
    BUCKET_SEC = 2
    CHUNK_SEC = 2
    MAX_CHUNKS_PER_RUN = 2
    DOWNSAMPLE_SEC = 1
    AGG_AFTER = 2
    PURGE_AFTER = 4
    AGG_RETENTION = 6
    BootTime = 10
    MaxJump = 3
    MaxStepBack = 2
    MaxNow = 18
    MaxSamples = 3
    MaxFaults = 2
INVARIANT
    NoneSkipped
CHECK_DEADLOCK FALSE
