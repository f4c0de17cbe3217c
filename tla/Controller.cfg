SPECIFICATION ControllerSpec
CONSTANTS
    Foci = {"queue", "baseline", "transport", "ai"}
    Messages = {m1, m2}
    Consumers = {c1, c2, c3}
    None = None
    Modes <- EqualOrUnique
    MaxPushes = 2
    MaxFaults = 2
    ScopeIds = {a}
    Creators = {x}
    Sources <- TwoCaptures
    PartialSources = {}
    PoorSources = {}
    MaxScopes = 1
    MaxOperations = 2
    MaxReceipts = 2
    EventHorizon = 1
    MaxRequests = 5
    MaxEdits = 1
    Controllers = {c, d}
    MaxLosses = 1
    Invocations <- SomeCalls
    Slots = 2
    RunKeys = {k}
    AIWorkers = {v, w}
    CandidateCount = 2
    Drafts = {"hunt"}
    Analysts = {y, z}
    MaxAICrashes = 1
    MaxAIFaults = 1
    MaxAIExpiries = 1
INVARIANTS
    NothingStranded ScopesAreSound NothingLeaks 
PROPERTIES
    ImplementsAtLeastOnceQueue RepliesAreTrue CatalogSpec SettledStays
CHECK_DEADLOCK FALSE
