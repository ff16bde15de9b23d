SPECIFICATION Spec
CONSTANTS
    Converters = {c1, c2}
    Formats = {{c1, c2}, {c1}}
    None = None
    Chunks = 2
    MaxVersion = 2
    MaxCrashes = 1
INVARIANTS
    TypeOK
    CrashSafe
    ReturnedIsDurable
    ServedWhole
    TornIdentityRefused
PROPERTIES
    ImplementsAtomicTable
CHECK_DEADLOCK FALSE
