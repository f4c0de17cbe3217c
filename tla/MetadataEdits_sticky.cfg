\* A metadata edit racing the end of the job's analysis.
SPECIFICATION EditSpec
CONSTANTS
    Jobs = {j1}
    Controllers = {c1}
    Workers = {w1}
    Clients = {a1, a2}
    MaxAttempts = 1
    MaxTokens = 1
    MaxFaults = 0
    None = None
PROPERTY TerminalSticky
CHECK_DEADLOCK FALSE
