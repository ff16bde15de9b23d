SPECIFICATION Spec
CONSTANTS
    Requests = {1, 2}
    Slots = {0, 1, 2}
    PipelineSize = 2
    PromptLen = 2
    MaxLen = 5
    MaxSteps = 4
    Opening = {{1}, {1, 2}}
    Modes = {TRUE}
    Late = {"landing"}
    Faults = {}
    FaultSteps = 0
    None = None
    Torn = Torn
INVARIANTS
    DiscardedSlotAlive
CHECK_DEADLOCK FALSE
