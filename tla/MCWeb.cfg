\* Every part of the web service with its safety properties.
CONSTANTS
    Turns = {1, 2}
    Initial = 1
    Extra = 1
    MaxGrants = 0
    MaxEdits = 1
    TurnMaxFaults = 1
    ResearchKinds = {"legacy", "owned"}
    MaxCalls = 3
    MaxRuns = 1
    ResearchMaxFaults = 2
    MaxReports = 1
    Jobs = {"j1", "j2"}
    JobRequests = {"r1", "r2"}
    Batches = TRUE
    JobMaxFaults = 1
    Intents = {"i1", "i2"}
    MaxInput = 2
    LaunchMaxFaults = 2
    MaxAsks = 2
    Ops = {a, b, c}
    DraftNoOp = DraftNoOp
    Datasets = {"short", "long"}
    Limit <- DatasetLimit
    Typed <- TypedEdits
    Proposed <- ProposedEdits
    MaxRevision = 3
    MaxChanges = 2
    MaxProposals = 1
    MaxAsked = 2
    UploadRequests <- PastedUploads
    Threads = {t1, t2}
    UploadReaders = {r1}
    MaxIds = 3
    MaxVersions = 2
    MaxBytes = 6
    MaxSweep = 3
    UploadMaxFaults = 1
    Deciders = {d1}
    PackageReaders = {r1}
    Asks = {"status", "binding", "catalog", "load"}
    Packages = {A, B}
    Bases = {"x"}
    MaxRegisters = 2
    MaxRevokes = 1
    MaxSwaps = 0
    MaxDeaths = 1
    Parts = {"turn", "research", "jobs", "launch", "draft", "uploads", "packages"}
SPECIFICATION WebSpec
INVARIANTS
    
    
    JobSafe
    LaunchSafe
    

    
\* A workspace whose identities, requests and bounds are used up may stop.
CHECK_DEADLOCK FALSE
