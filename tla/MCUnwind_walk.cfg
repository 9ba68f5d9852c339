SPECIFICATION Spec
CONSTANTS
    a1 = a1
    a2 = a2
    hd = hd
    Callers = {hd, a1}
    Handler = hd
    Addrs = {0, 1, 2, 3}
    NumFds = 3
    Capacity = 2
    Unmappable = {2}
    MaxAppOps = 2
    Unwinders = {"frame_pointer", "framehop"}
    Memories <- MCMemories
    Segments <- MCSegments
    AppAddrs = {2}
    MaxDepth = 2
INVARIANTS
    TypeOK
    NoMeansUnreadable
    OnlyOwnFds
    DerefsMapped
    WalkExact
PROPERTIES
    WalkEnds
