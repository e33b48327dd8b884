\* Two callers: the log's order is not the actor's.
CONSTANTS
    c1 = c1
    c2 = c2
    tn = tn
    s1 = s1
    s2 = s2
    Clients <- TwoClients
    Notifier = tn
    Appenders <- ClientsAndNotifier
    Snapshots = {}
    Truncators = {}
    Entries <- AllCommands
    Torn = Torn
    NoEntry = NoEntry
    SyncMode = "always"
    SyncEvery = 0
    SyncMayFail = FALSE
    DiskMayFail = FALSE
    BufferRecords = 20
    ScrapLSNs = {}
    PowerLoss = FALSE
    TornWrites = FALSE
    QueueCap = 1
    SnapshotDepth = 3
    MaxTradesPerSnapshot = 2
    Timeouts = FALSE
    Separator = "/"
    MaxCalls = 3
    MaxCrashes = 0
SPECIFICATION Spec
\* The behaviour ends when the calls and the crashes are used up.
CHECK_DEADLOCK FALSE
INVARIANTS
    RecoveryExact
