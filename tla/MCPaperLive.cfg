\* What must end, on smaller instances, and what two restorers, two alerted runs, the
\* capture file and the market stream keep: one process resumes the backtest, a request
\* is answered late or not at all, the stream is stopped and its callbacks fail.
CONSTANTS
    Ordinary = {"a", "b"}
    Reconciliation = {"r"}
    JournalMaxRecords = 5
    CloseFrames = 2
    JournalMaxFaults = 3
    StoreProcesses = {p, q}
    Threads = {t, u}
    StoreMaxRecords = 4
    StoreMaxCrashes = 4
    AttemptProcesses = {"p"}
    Kinds = {"flat", "long", "trip", "rejected"}
    MaxDeaths = 2
    AttemptMaxFaults = 0
    Inodes = {1, 2, 3}
    Versions = {1, 2}
    MaxWrites = 2
    Rows <- SourceRows
    MaxRows = 3
    Windows <- SourceWindows
    SourceMaxTime = 3
    BarsStep = 2
    Horizon = 10
    PageLimit = 2
    MaxPages = 2
    MaxTotal = 5
    Max429 = 2
    MaxRetryAfter = 1
    Deadline = 3
    Queries <- BarsQueries
    Nows <- BarsNows
    Markets <- BarsMarkets
    Junk <- BarsJunk
    Delays = {0, 2}
    SyntheticQuery <- BarsSyntheticQuery
    SyntheticBody <- BarsSyntheticBody
    MaxRoundTrips = 1
    SessionMaxMarkets = 3
    SessionMaxCrashes = 1
    Scopes = {"global"}
    BackupFiles = {f1, f2}
    Capturers = {p1}
    Restorers = {r1, r2}
    Stamps = {3}
    OldStamps = {}
    ForeignStamps = {}
    Keep = 1
    MaxSessions = 1
    DiscardFails = TRUE
    HealthMaxAge = 1
    Runs = {"r1", "r2"}
    Evaluators = {e1}
    Inputs <- TwoSessions
    DiskReadings = {"inactive"}
    NotReadyAfter = 1
    StaleAfter = 1
    MaxResolved = 1
    AlertMaxTime = 2
    MaxEvals = 3
    MaxMoves = 2
    Attempts = {1, 2}
    First = 1
    Required = 2
    GateMaxTime = 2
    MaxEvents = 2
    StreamMaxMarkets = 2
    MaxFacts = 2
    MaxPending = 2
    StreamMaxAge = 1
    StallTimeout = 1
    MaxDrainPolls = 2
    StreamMaxTime = 2
    MaxBack = 1
    Parts = {"backtest", "file", "bars", "session", "backup", "alerts", "stream"}
SPECIFICATION PaperFairSpec

    
PROPERTIES
    PaperSettles
\* An attempt or a session that has ended stays as it is.
CHECK_DEADLOCK FALSE
