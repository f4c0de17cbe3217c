SPECIFICATION Spec
CONSTANTS
    Exports = {a}
    Synchronous = {}
    Workers = {w1, w2}
    Deleter = deleter
    MaxAttempts = 2
    Modes <- StoredQuick
    SweepParses = TRUE
    MaxGeneration = 0
    MaxCrashes = 1
    MaxErrors = 1
    None = None
    a = a
    w1 = w1
    w2 = w2
    deleter = deleter
INVARIANTS
    BlobsReclaimable
