\* Two callers, synced log, time-outs and power failures, no snapshots.
CONSTANTS
    c1 = c1
    c2 = c2
    tn = tn
    s1 = s1
    s2 = s2
    Clients <- TwoClients
    Notifier = tn
    Appenders <- ClientsAndNotifier
    Snapshots = {}
    Truncators = {}
    Entries <- AllCommands
    Torn = Torn
    NoEntry = NoEntry
    SyncMode = "always"
    SyncEvery = 0
    SyncMayFail = FALSE
    DiskMayFail = TRUE
    BufferRecords = 2
    ScrapLSNs = {9}
    PowerLoss = TRUE
    TornWrites = TRUE
    QueueCap = 1
    SnapshotDepth = 3
    MaxTradesPerSnapshot = 2
    Timeouts = TRUE
    Separator = "/"
    MaxCalls = 2
    MaxCrashes = 2
SPECIFICATION FairSpec
\* The behaviour ends when the calls and the crashes are used up.
CHECK_DEADLOCK FALSE
INVARIANTS
    AnsweredIsDurable
    SerialRecovery
PROPERTIES
    ImplementsDurableMatching
    CallsReturn
