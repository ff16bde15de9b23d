SPECIFICATION Spec
CONSTANTS
    MaxStep = 3
    Serialize = TRUE
    VerifySteps = 1
    Dispatch = {TRUE, FALSE}
    Faults = {{}, {"read", "timeout"}}
INVARIANTS
    TypeOK
    HandoffSafe
    FailClosed
PROPERTIES
    EveryStepFinishes
CHECK_DEADLOCK FALSE
