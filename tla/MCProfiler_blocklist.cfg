SPECIFICATION Spec
CONSTANTS
    t1 = t1
    t2 = t2
    Threads <- MCThreads
    Regions = {"app", "lib"}
    Configs <- SafeConfigs
    AppDisps = {"SigDfl"}
    TempFileFails = FALSE
    MaxCalls = 2
    MaxTicks = 1
INVARIANTS
    BlocklistHonoured
