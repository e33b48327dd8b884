\* Two snapshots beside a caller, and a crash.
CONSTANTS
    c1 = c1
    c2 = c2
    tn = tn
    s1 = s1
    s2 = s2
    Clients <- OneClient
    Notifier = tn
    Appenders <- ClientsAndNotifier
    Snapshots <- TwoSnapshots
    Truncators <- TwoSnapshots
    Entries <- AllCommands
    Torn = Torn
    NoEntry = NoEntry
    SyncMode = "none"
    SyncEvery = 0
    SyncMayFail = FALSE
    DiskMayFail = TRUE
    BufferRecords = 20
    ScrapLSNs = {}
    PowerLoss = FALSE
    TornWrites = FALSE
    QueueCap = 1
    SnapshotDepth = 1
    MaxTradesPerSnapshot = 2
    Timeouts = FALSE
    Separator = "/"
    MaxCalls = 2
    MaxCrashes = 1
SPECIFICATION Spec
\* The behaviour ends when the calls and the crashes are used up.
CHECK_DEADLOCK FALSE
INVARIANTS
    SnapshotBeforeUse
