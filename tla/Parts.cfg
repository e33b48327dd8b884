\* Nine components, each by itself.
CONSTANTS
    Keys = {1, 2, 3, 4}
    MaxLevel = 2
    Appenders = {"a1", "a2"}
    Truncators = {"t1", "t2"}
    Entries = {1, 2}
    Torn = Torn
    NoEntry = NoEntry
    SyncMode = "bycount"
    SyncEvery = 2
    SyncMayFail = TRUE
    DiskMayFail = TRUE
    BufferRecords = 1
    ScrapLSNs = {9}
    PowerLoss = TRUE
    TornWrites = FALSE
    MaxAppends = 2
    MaxCrashes = 1
    Symbols = {"s1", "s2"}
    Submissions = {"c1", "c2"}
    NotifySize = 1
    Workers = {"w1", "w2"}
    Tasks = {"t1", "t2"}
    Stoppers = {"p1", "p2"}
    QueueSize = 1
    Consumers = {"n1", "n2"}
    MaxEvents = 4
    Handled = {1, 2, 4}
    BatchSize = 2
    MaxStops = 2
    Results = {{1}, {2}, {3, 4}}
    PageSize = 1
    MaxTime = 2
    Paths = {"login", "other"}
    Policies <- TwoPolicies
    TTLBuffer = 1
    MinRequests = 2
    MaxRequests = 3
    MaxRetries = 2
    FailureThreshold = 2
    MaxProbes = 1
    MaxCalls = 4
    MaxInFlight = 2
    MaxHandlers = 3
    Qty = 2
    Fills = {1, 2}
SPECIFICATION PartsSpec
\* Calls, stops, crashes, requests and handlers come to an end.
CHECK_DEADLOCK FALSE
INVARIANTS
    ScanMissesNone
    LossIsBounded
    StopIsClean
    TasksAccounted
    EventsAccounted
    PagesMissNone
    WindowBound
    OutageBounded
    ProbesBounded
    ExecutionsAccounted
    RestGivenBackOnce
PROPERTIES
    ImplementsOrderedKeys
    TruncationKeepsNewer
    ShutdownReturns
    HungServiceSurvived
    FinalUnlessBlind
