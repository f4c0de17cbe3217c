SPECIFICATION Spec
CONSTANTS
    Jobs = {j1}
    Controllers = {c1, c2}
    Workers = {w1, w2}
    Clients = {a1}
    MaxAttempts = 2
    MaxTokens = 2
    MaxFaults = 2
    None = None
SYMMETRY ProcessSymmetry
INVARIANTS TypeOK SingleExecution DeliveriesAreCommitted AnalysesItsOwnFlows CandidatesIffCompleted NoJobForgotten
PROPERTIES TerminalSticky ImplementsJobLifecycle
CHECK_DEADLOCK FALSE
