SPECIFICATION Spec
CONSTANTS
    MaxStep = 3
    Serialize = TRUE
    VerifySteps = 0
    Dispatch = {TRUE}
    Faults = {{"read"}}
PROPERTIES
    ErrorUnblocksConsumer
CHECK_DEADLOCK FALSE
