\* Three chunks, asked for two at a time; every kind of failure.
CONSTANTS
    ChunkCount = 3
    Batch = 2
    ChunkTimeout = 1
    PingAfter = 2
    PingTimeout = 1
    StuckTimeout = 4
    MaxAsked = 2
SPECIFICATION Spec
INVARIANTS TypeOK FinishOnlyComplete WatchdogArmed
PROPERTIES SilenceIsNoticed UpdateEnds
