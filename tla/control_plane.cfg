SPECIFICATION PlaneSpec
CONSTANTS
    KvEnvs = {"live", "test"}
    KvNumbers = {1, 2, 3}
    KvOps = {"o1", "o2"}
    KvLoads = {"l1"}
    KvClicks = 2
    KvFaults = 2
    MsTabs = {"t1", "t2"}
    MsSecrets = {1, 2, 3}
    MsFaults = 1
    DvTabs = {"t1", "t2"}
    DvFilters = {"ok", "bad"}
    DvSizes = {1, 2}
    DvUses <- MCUses
    SiServers = {"w1"}
    SiTools = {"cli"}
    SiFaults = 1
    RtNumbers = {1, 2}
    RtOptions = {"unfiltered", "manifests", "docs"}
    RtCommands = 2
INVARIANTS
    QuietListIsTrue
    FiguresStaleOnlyByOverlap
    ShownSecretIsStored
    QuietTabAgrees
    PageIsNeverBlank
    ReadyMeansMigrated
    SyncRepairs
CHECK_DEADLOCK FALSE
