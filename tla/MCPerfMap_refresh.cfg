SPECIFICATION Spec
CONSTANTS
    Codes = {0, 1}
    CodeOf <- MCCodeOf
    MaxLines = 3
    MaxCalls = 2
    MaxTime = 3
INVARIANTS
    TypeOK
    FreshUnlessRaced
PROPERTIES
    RefreshEnds
