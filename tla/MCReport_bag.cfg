SPECIFICATION Spec
CONSTANTS
    k1 = k1
    k2 = k2
    k3 = k3
    k4 = k4
    k5 = k5
    Keys <- FightingKeys
    Buckets = 2
    Hash <- FightingHash
    Addresses <- MCAddresses
    Unwound <- MCUnwound
    ThreadName <- MCThreadName
    ThreadId <- MCThreadId
    Demangle <- MCDemangle
    Frequency = 3
    NanosPerSecond = 1000
    Associativity = 2
    BufferLength = 2
    Clock <- CoarseClock
    DiskFails = TRUE
    MaxAdds = 8
INVARIANTS
    TypeOK
    KeysUnique
    FailedFlushShows
    ShownWasTaken
    FoldedFaithful
    SpeedscopeFaithful
    PprofFaithful
PROPERTIES
    HotStackStays
    ImplementsBag
