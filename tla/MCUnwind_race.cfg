SPECIFICATION Spec
CONSTANTS
    a1 = a1
    a2 = a2
    hd = hd
    Callers = {hd, a1, a2}
    Handler = hd
    Addrs = {0, 1, 2, 3}
    NumFds = 4
    Capacity = 3
    Unmappable = {}
    MaxAppOps = 2
    Unwinders = {"frame_pointer"}
    Memories <- MCMemories
    Segments <- MCSegments
    AppAddrs = {2}
    MaxDepth = 2
INVARIANTS
    ReadableValidates
