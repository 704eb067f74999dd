\* Decisions, messages and corrections, and the two runs that must end: a coordinator
\* whose calls fail, and a replay whose sources keep their contract.
CONSTANTS
    FinalRoot = 2
    Count <- OneNone
    Halting = {}
    Gate = TRUE
    LifecycleOrders = {1}
    FaultKinds = {"append", "lost", "matcher", "fact", "publish", "ack"}
    LifecycleMaxFaults = 2
    AuthOrders = {"a", "b"}
    MaxDrift = 2
    AuthMaxFaults = 2
    Runs = {"r1", "r2"}
    Quanta = {1, 2}
    MessageQuantities = {1, 2}
    Prices = {0, 2}
    Rates = {3750}
    Times = {1}
    MaxIntents = 2
    MaxDecisions = 1
    MaxOrders = 1
    MaxFacts = 1
    o1 = o1
    o2 = o2
    v1 = v1
    v2 = v2
    ReportNone = ReportNone
    ReportOrders = {o1}
    Venues = {v1}
    Quantity = 3
    Bodies <- HistoryBodies
    MaxIngress = 3
    MaxFill = 4
    MatcherOrders <- FourOrders
    Issued <- IssuedOrders
    MatcherId <- OrderIds
    OInst <- OneInstrument
    OSeq <- OrderSeqs
    OAfter <- OrderTimes
    Buys <- BuyOrders
    LastRoot = 3
    Inst <- RootInstruments
    Raw <- RawRoots
    EventAt <- EventTimes
    AvailAt <- AvailTimes
    CloseNum <- Closes
    CloseDen = 1
    Tick = 1
    SlipNum = 1
    SlipDen = 2
    Latency = 0
    MaxSeq = 5
    MaxUint = 2
    Intents <- RiskIntents
    Snapshots <- RiskSnapshots
    Limits <- RiskLimits
    RiskQuantum = 2
    RiskMaxSequence = 2
    PlanRoots <- SignalRoots
    PlanQuantities = {2}
    Covered = {"eu"}
    MaxDispatch = 2
    Top = 2
    MaxRestarts = 1
    Instruments = {"X", "Y"}
    Fills <- ReconFills
    Handoffs <- ReconHandoffs
    NoFill = NoFill
    Fundings = {}
    Frontiers = {"f"}
    LedgerQuantum = 4
    MaxBalance = 16
    MaxVersion = 3
    MaxRefreshes = 0
    Observations <- ReconObservations
    MaxCommands = 2
    MaxPermits = 1
    Batches <- QueueBatches
    QueueSources = {1, 2}
    QueueMaxSequence = 4
    MaxPops = 7
    RuntimeEnd = 2
    Marks = {0, 1}
    MaxCount = 2
    RuntimeMaxSequence = 7
    Honest = TRUE
    Parts = {"lifecycle", "reports", "risk", "messages", "plan", "recon", "runtime"}
SPECIFICATION TradingFairSpec
INVARIANTS
    RiskSafe
    
    OrderFlowSafe
PROPERTIES
    TradingSettles
\* A run whose orders, faults and roots are used up may stop.
CHECK_DEADLOCK FALSE
