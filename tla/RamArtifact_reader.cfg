SPECIFICATION Spec
CONSTANTS
    Generations = {g1, g2}
    None = None
    MaxRuns = 3
INVARIANTS
    DestinationLoads
