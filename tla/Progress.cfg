SPECIFICATION FairProgress
CONSTANTS
    Foci = {"index", "spool", "queue", "transport", "ai", "pcap", "capture", "live", "export"}
    NumBatches = 3
    SpoolBytes = 2
    LargestSizes = {2}
    PoisonSets = {{}, {1}}
    MaxLife = 1
    BatchQueueSize = 1
    MaxShift = 1
    MaxSpoolFaults = 1
    MaxMishaps = 0
    Uploads = {}
    Segments = {s1}
    IndexWorkers = {w1}
    PostingWorkers = {p1}
    QueueCapacity = 1
    MaxAttempts = 2
    MaxBuilds = 2
    LeaseTicks = 1
    Messages = {m1, m2}
    Consumers = {c1, c2}
    None = None
    Modes <- Unique
    MaxPushes = 2
    MaxFaults = 2
    Invocations <- SomeCalls
    Slots = 2
    RunKeys = {k}
    AIWorkers = {v, w}
    CandidateCount = 1
    Drafts = {"hunt"}
    Analysts = {}
    MaxAICrashes = 1
    MaxAIFaults = 1
    MaxAIExpiries = 1
    PcapJobs = {j1}
    Interfaces = {i1}
    SegmentUnits = 2
    DiskUnits = 4
    JobUnits = 6
    PcapQueueSize = 1
    NumPackets = 2
    NumUploads = 5
    NumPeers = 0
    MaxPcapFaults = 1
    MaxCrashes = 1
    Lines = {l1}
    MaxVersions = 3
    BadVersions = {2}
    MaxGens = 3
    BudgetUnits = 2
    PacketSizes = {1}
    MaxUpsets = 1
    Probes = {1, 2}
    PacketLimits = {1, 2}
    EndTime = 1
    Grace = 1
    LocalModes = {TRUE, FALSE}
    Horizon = 2
    MaxMade = 1
    MaxReplaced = 0
    MaxRestarts = 1
PROPERTIES
    DeliveriesSettle WorkEnds
CHECK_DEADLOCK FALSE
