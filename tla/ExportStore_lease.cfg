SPECIFICATION FairSpec
CONSTANTS
    Exports = {a}
    Synchronous = {}
    Workers = {w1}
    Deleter = deleter
    MaxAttempts = 2
    Modes <- LiveSlow
    SweepParses = TRUE
    MaxGeneration = 1
    MaxCrashes = 0
    MaxErrors = 0
    None = None
    a = a
    w1 = w1
    deleter = deleter
PROPERTIES
    ExpiredLeasesRecovered
