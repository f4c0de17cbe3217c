SPECIFICATION StoresSpec
CONSTANTS
    Foci = {"index", "live", "indexed"}
    Uploads = {u1, u2}
    Segments = {s1, s2}
    IndexWorkers = {w1, w2}
    PostingWorkers = {p1, p2}
    QueueCapacity = 1
    MaxAttempts = 2
    MaxBuilds = 2
    LeaseTicks = 1
    Probes = {1, 2}
    PacketLimits = {1, 3}
    EndTime = 1
    Grace = 1
    LocalModes = {TRUE, FALSE}
    Horizon = 2
    MaxMade = 2
    MaxReplaced = 1
    MaxRestarts = 1
    Absent = Absent
    Requests <- AllRequests
    MaxMeddles = 2
INVARIANTS
    OwnersAreWhole IntentsTellTheTruth DatasetIsRight
    ExportIsTheMatchingPrefix IndexedMatchesScan IndexedReadsAreExact
PROPERTIES
    ImplementsLiveIndexQueue ImplementsPostingIndexQueue ImplementsStructuralIndexStore
    StopsOnlyWhenDue
CHECK_DEADLOCK FALSE
