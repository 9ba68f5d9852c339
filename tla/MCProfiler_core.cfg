SPECIFICATION Spec
CONSTANTS
    t1 = t1
    t2 = t2
    Threads <- MCThreads
    Regions = {"app", "lib"}
    Configs <- SafeConfigs
    AppDisps = {"SigDfl"}
    TempFileFails = FALSE
    MaxCalls = 3
    MaxTicks = 2
INVARIANTS
    TypeOK
    GuardExclusive
    OrphanedOnlyByFault
    LiveGuardTicks
    StoppedIsClean
    NoFatalTick
    NoCarryOver
    TraceGetsUnwinder
    ThreadBlocklistHonoured
    ErrnoRestored
PROPERTIES
    ImplementsSessions
