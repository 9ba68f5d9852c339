SPECIFICATION FairSpec
CONSTANTS
    t1 = t1
    t2 = t2
    Threads <- MCThreads
    Regions = {"app"}
    Configs <- OddConfigs
    AppDisps = {"App"}
    TempFileFails = TRUE
    MaxCalls = 2
    MaxTicks = 2
INVARIANTS
    OrphanedOnlyByFault
    LiveGuardTicks
    OwnerlessIsClean
PROPERTIES
    CallsReturn
