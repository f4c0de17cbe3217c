SPECIFICATION SensorSpec
CONSTANTS
    Foci = {"spool", "pcap", "capture"}
    NumBatches = 3
    SpoolBytes = 2
    LargestSizes = {2, 3}
    PoisonSets = {{}}
    MaxLife = 1
    BatchQueueSize = 1
    MaxShift = 1
    MaxSpoolFaults = 1
    MaxMishaps = 1
    PcapJobs = {j1}
    Interfaces = {i1, i2}
    SegmentUnits = 3
    DiskUnits = 4
    JobUnits = 4
    NumPeers = 1
    PcapQueueSize = 1
    NumPackets = 3
    NumUploads = 3
    MaxPcapFaults = 1
    MaxCrashes = 1
    Lines = {l1, l2}
    MaxVersions = 3
    BadVersions = {2}
    MaxGens = 2
    BudgetUnits = 3
    PacketSizes = {1, 2}
    MaxUpsets = 1
INVARIANTS
    SpoolIsSound SegmentsAccounted StoreIsConsistent
    OneGroupCaptures ReadinessIsTrue CaptureIsComplete
CHECK_DEADLOCK FALSE
