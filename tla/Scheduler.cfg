SPECIFICATION Spec
CONSTANTS
    Requests = {r1, r2, r3}
    Loaders = 2
    Modes = {"mtp", "pipeline", "async", "transfer", "strict"}
    Prompts = {1, 4}
    MaxTokens = 3
    MaxModelLen = 6
    PoolBlocks = 5
    LoaderBlocks = 3
    BlockSize = 2
    Budget = 5
    Threshold = 0
    MaxRunning = 3
    Stages = 3
    Drafts = 1
    Lookahead = 1
    MaxCalls = 1
INVARIANTS
    TypeOK
    OutputInOrder
    RowsSound
    BlocksSafe
    NoStall
SYMMETRY
    Symmetry
