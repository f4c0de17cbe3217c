SPECIFICATION RestartingSpec
CONSTANTS
    Exports = {a}
    Synchronous = {}
    Workers = {w1}
    Deleter = deleter
    MaxAttempts = 2
    Modes <- LiveSlow
    SweepParses = FALSE
    MaxGeneration = 0
    MaxCrashes = 0
    MaxErrors = 1
    None = None
    a = a
    w1 = w1
    deleter = deleter
PROPERTIES
    OutboxDrained
