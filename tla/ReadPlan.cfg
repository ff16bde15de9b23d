SPECIFICATION Spec
CONSTANTS
    Requests <- AllRequests
    MaxRow = 12
    MaxDistinct = 6
    RowCount = 24
    BlockRows = 8
    BlockStride = 40
    RowBytes = 5
    Alignment = 8
    GapSettings = {0, 1}
    MaxRangeBytes = 24
    WorkerCount = 2
    StagingBytes = 64
    OutputBytes = 30
INVARIANTS
    TypeOK
    RowsExact
    PlansSound
