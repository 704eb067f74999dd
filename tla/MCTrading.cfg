\* The order path, the ledger and the dispatch order: every kind of fault in the
\* coordinator, two orders competing for one authorization gate, reports that name their
\* orders in every way, four orders at the matcher, five fills, seven batches and sources
\* that may break their contract.
CONSTANTS
    FinalRoot = 3
    Count <- OneOneNone
    Halting <- HaltsAtOne
    Gate = TRUE
    LifecycleOrders = {1, 2}
    FaultKinds = {"append", "lost", "matcher", "fact", "publish", "ack", "crash"}
    LifecycleMaxFaults = 2
    AuthOrders = {"a", "b"}
    MaxDrift = 2
    AuthMaxFaults = 1
    Runs = {"r1", "r2"}
    Quanta = {1, 2}
    MessageQuantities = {1, 2}
    Prices = {0, 2}
    Rates = {3750}
    Times = {1}
    MaxIntents = 2
    MaxDecisions = 1
    MaxOrders = 1
    MaxFacts = 1
    o1 = o1
    o2 = o2
    v1 = v1
    v2 = v2
    ReportNone = ReportNone
    ReportOrders = {o1, o2}
    Venues = {v1, v2}
    Quantity = 2
    Bodies <- NamingBodies
    MaxIngress = 3
    MaxFill = 3
    MatcherOrders <- FourOrders
    Issued <- IssuedOrders
    MatcherId <- OrderIds
    OInst <- OneInstrument
    OSeq <- OrderSeqs
    OAfter <- OrderTimes
    Buys <- BuyOrders
    LastRoot = 3
    Inst <- RootInstruments
    Raw <- RawRoots
    EventAt <- EventTimes
    AvailAt <- AvailTimes
    CloseNum <- Closes
    CloseDen = 1
    Tick = 1
    SlipNum = 1
    SlipDen = 2
    Latency = 0
    MaxSeq = 4
    MaxUint = 2
    Intents <- RiskIntents
    Snapshots <- RiskSnapshots
    Limits <- RiskLimits
    RiskQuantum = 2
    RiskMaxSequence = 2
    PlanRoots <- SignalRoots
    PlanQuantities = {1, 2}
    Covered = {"eu"}
    MaxDispatch = 2
    Top = 2
    MaxRestarts = 1
    Instruments = {"X", "Y"}
    Fills <- LedgerFills
    Handoffs <- LedgerHandoffs
    NoFill = NoFill
    Fundings = {8}
    Frontiers = {"f"}
    LedgerQuantum = 4
    MaxBalance = 16
    MaxVersion = 2
    MaxRefreshes = 1
    Observations = {}
    MaxCommands = 0
    MaxPermits = 0
    Batches <- QueueBatches
    QueueSources = {1, 2}
    QueueMaxSequence = 4
    MaxPops = 7
    RuntimeEnd = 2
    Marks = {0, 1}
    MaxCount = 2
    RuntimeMaxSequence = 6
    Honest = FALSE
    Parts = {"lifecycle", "crashes", "auth", "reports", "matcher", "ledger", "queue", "runtime"}
SPECIFICATION TradingSpec
INVARIANTS
    CoordinatorSafe
    AuthorizationSafe
    FactSafe
    MatcherSafe
    LedgerSafe
    DispatchSafe

    
\* A run whose orders, faults and roots are used up may stop.
CHECK_DEADLOCK FALSE
