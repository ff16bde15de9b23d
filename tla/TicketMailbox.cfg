SPECIFICATION Spec
CONSTANTS
    Requests = {1, 2}
    Slots = {0, 1, 2}
    PipelineSize = 2
    PromptLen = 2
    MaxLen = 5
    MaxSteps = 4
    Opening = {{1}, {1, 2}}
    Modes = {TRUE, FALSE}
    Late = {}
    Faults = {"read", "timeout"}
    FaultSteps = 3
    None = None
    Torn = Torn
INVARIANTS
    TypeOK
    RightRows
    ShadowIsHistory
    DiscardedSlotAlive
    NeverStuck
CHECK_DEADLOCK FALSE
