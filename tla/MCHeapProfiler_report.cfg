SPECIFICATION FairSpec
CONSTANTS
    t1 = t1
    t2 = t2
    p1 = p1
    p2 = p2
    s1 = s1
    s2 = s2
    Threads = {t1, t2}
    Ptrs = {p1, p2}
    ShardOf <- MCShardOf
    NumShards = 2
    Unwound <- MCUnwound
    ThreadName <- MCThread
    ThreadId <- MCThread
    Addresses <- MCAddresses
    Demangle <- MCDemangle
    NanosPerSecond = 1000
    Sites = {s1, s2}
    ReportSite = s1
    Sizes = {1}
    Rates = {1}
    Ops = {"alloc", "report", "report_alloc"}
    Profiling = TRUE
    MaxOps = 3
PROPERTIES
    ReportsReturn
CHECK_DEADLOCK FALSE
