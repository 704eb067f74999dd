\* What a run leaves behind and the paper runtime around it: two faults of the journal,
\* four crashes of the store, two processes at one backtest, three rows, two pages, a
\* paper session that crashes, two capture processes, an alert evaluator and the gate.
CONSTANTS
    Ordinary = {"a", "b"}
    Reconciliation = {"r"}
    JournalMaxRecords = 4
    CloseFrames = 2
    JournalMaxFaults = 2
    StoreProcesses = {p, q}
    Threads = {t, u}
    StoreMaxRecords = 4
    StoreMaxCrashes = 4
    AttemptProcesses = {"p", "q"}
    Kinds = {"flat", "long", "trip", "rejected"}
    MaxDeaths = 2
    AttemptMaxFaults = 1
    Inodes = {1, 2, 3}
    Versions = {1, 2}
    MaxWrites = 3
    Rows <- SourceRows
    MaxRows = 3
    Windows <- SourceWindows
    SourceMaxTime = 3
    BarsStep = 2
    Horizon = 10
    PageLimit = 2
    MaxPages = 2
    MaxTotal = 5
    Max429 = 2
    MaxRetryAfter = 1
    Deadline = 3
    Queries <- BarsQueries
    Nows <- BarsNows
    Markets <- BarsMarkets
    Junk <- BarsJunk
    Delays = {0, 2}
    SyntheticQuery <- BarsSyntheticQuery
    SyntheticBody <- BarsSyntheticBody
    MaxRoundTrips = 1
    SessionMaxMarkets = 4
    SessionMaxCrashes = 1
    Scopes = {"global"}
    BackupFiles = {f1, f2}
    Capturers = {p1, p2}
    Restorers = {}
    Stamps = {1, 2, 3, 4}
    OldStamps = {2}
    ForeignStamps = {1}
    Keep = 1
    MaxSessions = 2
    DiscardFails = FALSE
    HealthMaxAge = 1
    Runs = {"r1"}
    Evaluators = {e1}
    Inputs <- ThreeSessions
    DiskReadings = {"inactive"}
    NotReadyAfter = 1
    StaleAfter = 1
    MaxResolved = 1
    AlertMaxTime = 2
    MaxEvals = 3
    MaxMoves = 3
    Attempts = {1, 2}
    First = 1
    Required = 2
    GateMaxTime = 2
    MaxEvents = 2
    StreamMaxMarkets = 2
    MaxFacts = 2
    MaxPending = 2
    StreamMaxAge = 1
    StallTimeout = 1
    MaxDrainPolls = 2
    StreamMaxTime = 3
    MaxBack = 1
    Parts = {"journal", "store", "backtest", "source", "bars", "session", "backup", "alerts", "gate"}
SPECIFICATION PaperSpec
INVARIANTS
    JournalSafe
    ResultSafe
    AttemptSafe
    SessionSafe
    
    

    
\* A journal, an attempt or a session that has ended stays as it is.
CHECK_DEADLOCK FALSE
