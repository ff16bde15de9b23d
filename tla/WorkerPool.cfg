SPECIFICATION Spec
CONSTANTS
    Workers = {w1, w2}
    MaxRanges = 2
    MaxReads = 3
INVARIANTS
    TypeOK
    LanesKept
    ResultHonest
PROPERTIES
    ReadsEnd
