\* Smaller parts under the fairness of the service, and what another instance shows.
CONSTANTS
    Turns = {1}
    Initial = 1
    Extra = 1
    MaxGrants = 1
    MaxEdits = 1
    TurnMaxFaults = 2
    ResearchKinds = {"legacy", "owned"}
    MaxCalls = 3
    MaxRuns = 1
    ResearchMaxFaults = 1
    MaxReports = 0
    Jobs = {"j1", "j2"}
    JobRequests = {"r1"}
    Batches = FALSE
    JobMaxFaults = 1
    Intents = {"i1"}
    MaxInput = 1
    LaunchMaxFaults = 1
    MaxAsks = 2
    Ops = {a, b, c}
    DraftNoOp = DraftNoOp
    Datasets = {"short", "long"}
    Limit <- DatasetLimit
    Typed <- TypedEdits
    Proposed <- ProposedEdits
    MaxRevision = 2
    MaxChanges = 2
    MaxProposals = 1
    MaxAsked = 2
    UploadRequests <- ProviderUploads
    Threads = {t1}
    UploadReaders = {}
    MaxIds = 3
    MaxVersions = 2
    MaxBytes = 7
    MaxSweep = 1
    UploadMaxFaults = 1
    Deciders = {d1, d2}
    PackageReaders = {}
    Asks = {"status", "binding", "catalog", "load"}
    Packages = {A, B}
    Bases = {"x"}
    MaxRegisters = 2
    MaxRevokes = 1
    MaxSwaps = 1
    MaxDeaths = 1
    Parts = {"turn", "research", "jobs", "launch", "uploads", "packages"}
SPECIFICATION WebFairSpec

    
PROPERTIES
    WebSettles
CHECK_DEADLOCK FALSE
