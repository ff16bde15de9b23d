CONSTANTS
    WorldSize = 2
    OutputRank = 1
    Depth = 2
    MaxCalls = 2
    Modes = {TRUE, FALSE}
    Faults = {"raise", "die", "gone"}
    LateRegister = FALSE
SPECIFICATION Spec
INVARIANTS
    TypeOK
    OwnAnswer
    NoFalseAlarm
PROPERTY Progress
