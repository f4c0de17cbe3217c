SPECIFICATION Spec
CONSTANTS
    Exports = {a, b}
    Synchronous = {b}
    Workers = {w1, w2}
    Deleter = deleter
    MaxAttempts = 2
    Modes <- EitherMode
    SweepParses = TRUE
    MaxGeneration = 1
    MaxCrashes = 2
    MaxErrors = 1
    None = None
    a = a
    b = b
    w1 = w1
    w2 = w2
    deleter = deleter
SYMMETRY WorkerSymmetry
CONSTRAINT BothScenes
INVARIANTS
    PublishedIntact
    CancelHonoured
    BlobsAccounted
PROPERTIES
    PublishesCurrentSource
    ImplementsExportLifecycle
