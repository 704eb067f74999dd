------------------------------ MODULE MCTrading -----------------------------
(***************************************************************************)
(* The parts of the trading runtime side by side: the lifecycle            *)
(* coordinator, the submission authorization, the execution messages and   *)
(* facts, the historical matcher, the risk gate, the signal planning, the  *)
(* portfolio ledger and its reconciliation, the root queue and the         *)
(* historical runtime.  Each is an authority with its own state in the     *)
(* code and is modelled with what it sees of the others, so each behaviour *)
(* moves one of them, `part', and leaves the others as they start.         *)
(***************************************************************************)
EXTENDS LifecycleCoordinator, SubmissionAuthorization, ExecutionMessages, ExecutionFacts,
        HistoricalMatcher, RiskGate, SignalPlanning, Reconciliation,
        HistoricalRuntime

CONSTANTS Parts, o1, o2, v1, v2

AllParts == {"lifecycle", "crashes", "auth", "messages", "reports", "matcher", "risk", "plan",
             "ledger", "recon", "queue", "runtime"}
ASSUME TradingParts == Parts \subseteq AllParts

VARIABLE part  \* the component that moves

\* Lifecycle: an ingress in each root but the last, and a halt at the first.
OneOneNone == <<1, 1, 0>>
OneNone == <<1, 0>>
HaltsAtOne == {<<1, 1>>}

\* Execution facts: reports that name their order fully, with a venue identity, by the
\* venue only, crossed, and not at all; and every kind of report of one order.
Say(kind, qty, order, client, ven, corr) ==
    [kind |-> kind, qty |-> qty, order |-> order, client |-> client, venue |-> ven,
     corr |-> corr, agrees |-> TRUE, valid |-> TRUE]
Named(kind, qty) ==
    {Say(kind, qty, o1, o1, ReportNone, TRUE), Say(kind, qty, o1, o1, v1, TRUE),
     Say(kind, qty, o1, ReportNone, v2, TRUE), Say(kind, qty, o2, o2, v1, TRUE),
     Say(kind, qty, ReportNone, ReportNone, v1, FALSE),
     Say(kind, qty, o1, o2, ReportNone, TRUE),
     Say(kind, qty, ReportNone, ReportNone, ReportNone, FALSE)}
NamingBodies ==
    Named("trade", 1)
    \cup {Say("expiry", 0, o1, o1, v1, TRUE), Say("acknowledgement", 0, o1, o1, v1, TRUE),
          Say("confirmed_filled", 0, o1, o1, ReportNone, TRUE),
          [Say("trade", 1, o1, o1, ReportNone, TRUE) EXCEPT !.agrees = FALSE],
          [Say("trade", 1, o1, o1, ReportNone, TRUE) EXCEPT !.valid = FALSE]}
HistoryBodies ==
    {Say("trade", q, o1, o1, ReportNone, TRUE) : q \in 1..2}
    \cup {Say(k, 0, o1, o1, ReportNone, TRUE) : k \in Kinds \ {"trade"}}

\* Matcher: three market roots and the end.  Order 3 carries the identity of 1, order 4 is
\* decided on the second root, whose bar ended before the first order could act on it.
\* With half the close as slippage every price falls between two ticks, and the sell at
\* the second root has none in the positive domain.
FourOrders == 1..4
IssuedOrders == {1, 2, 4}
OrderIds == <<1, 2, 1, 4>>
OneInstrument == <<1, 1, 1, 1>>
OrderSeqs == <<1, 1, 1, 2>>
OrderTimes == <<1, 1, 1, 3>>
BuyOrders == {1, 4}
RootInstruments == <<1, 1, 1>>
RawRoots == <<TRUE, TRUE, TRUE>>
EventTimes == <<1, 2, 5>>
AvailTimes == <<1, 3, 5>>
Closes == <<1, 1, 3>>

\* Risk: an instrument with lots of two and a limit, one without, and intents that meet
\* each limit, both limits, neither, and none.
Ask(id, inst, side, qty, ver, lineage) ==
    [id |-> id, inst |-> inst, side |-> side, qty |-> qty, ver |-> ver, lineage |-> lineage]
RiskIntents ==
    {Ask(1, "A", "BUY", 4, 1, "same"), Ask(1, "A", "BUY", 8, 1, "same"),
     Ask(2, "A", "SELL", 8, 2, "same"), Ask(3, "B", "BUY", 2, 1, "same"),
     Ask(4, "A", "BUY", 2, 1, "execution"), Ask(5, "A", "BUY", 3, 1, "same"),
     Ask(6, "A", "BUY", 2, 1, "run")}
Held(ver, lineage, q) ==
    [ver |-> ver, lineage |-> lineage, pos |-> [k \in {"A", "B"} |-> IF k = "A" THEN q ELSE 0]]
RiskSnapshots ==
    {Held(1, "same", -2), Held(1, "same", 2), Held(2, "same", -6), Held(1, "other", 0)}
RiskLimits == [k \in {"A"} |-> [order |-> 4, position |-> 6]]

\* Planning: a bar of an instrument of the policy, one of another instrument, and a root
\* that is not a bar.
SignalRoots == {[n |-> 1, i |-> "eu", bar |-> TRUE], [n |-> 2, i |-> "us", bar |-> TRUE],
                [n |-> 3, i |-> "eu", bar |-> FALSE]}

\* Ledger: a grid of four units and five fills that share ids and facts in every way the
\* ledger tells apart.
FillOf(id, fact, instrument, side, notional, fee, ancestry) ==
    [id |-> id, fact |-> fact, instrument |-> instrument, side |-> side,
     quantity |-> 1, notional |-> notional, fee |-> fee, ancestry |-> ancestry]
SmallBuy == FillOf(1, "a", "X", 1, 2, 4, TRUE)       \* on the half of the grid
LostSell == FillOf(2, "b", "Y", -1, 9, 0, FALSE)     \* its ancestry is missing
AlteredBuy == FillOf(1, "a", "X", 1, 11, 4, TRUE)    \* costs more than the run is funded with
CrossedBuy == FillOf(1, "b", "X", 1, 2, 4, TRUE)     \* the buy's identity, the sell's fact
RefiledBuy == FillOf(3, "a", "X", 1, 2, 4, TRUE)     \* the buy's fact, a new identity
LedgerFills == {SmallBuy, LostSell, AlteredBuy, CrossedBuy, RefiledBuy}
HandoffOf(seq, fill, action, requires) ==
    [seq |-> seq, fill |-> fill, action |-> action, requires |-> requires, halt |-> requires]
LedgerHandoffs ==
    {HandoffOf(1, SmallBuy, "accepted", TRUE), HandoffOf(2, LostSell, "unresolved", FALSE),
     HandoffOf(4, NoFill, "duplicate", FALSE)}

\* Reconciliation: a fill with its ancestry and one without, and observations of each kind
\* that are early, in time or late for the entries they meet.
ReconHandoffs == {HandoffOf(1, FillOf("f2", "f2", "Y", -1, 4, 0, FALSE), "unresolved", TRUE)}
ReconFills == {FillOf("f1", "f1", "X", 1, 4, 0, TRUE)} \cup {h.fill : h \in ReconHandoffs}
ObservationOf(sequence, kind, ours, watermark, balances) ==
    [source |-> "s", sequence |-> sequence, kind |-> kind, ours |-> ours,
     watermark |-> watermark, balances |-> balances]
ReconObservations ==
    {ObservationOf(1, "position", TRUE, 1, "X" :> 2),
     ObservationOf(1, "position", TRUE, 2, "X" :> 2 @@ "Y" :> -1),
     ObservationOf(2, "cash", TRUE, 1, Currency :> 4),
     ObservationOf(3, "order", TRUE, 1, <<>>)}

\* Queue: batches of up to five roots over every domain, with two fact sources, ties in
\* time across domains, a duplicate identity, a bar and its revision.
Brought(at, domain, kind, ns, seq, rev) ==
    [at |-> at, domain |-> domain, kind |-> kind, ns |-> ns, seq |-> seq, rev |-> rev]
QueueBatches ==
    LET fact1  == Brought(2, "fact", 0, 1, 5, 0)
        fact1b == Brought(2, "fact", 1, 1, 4, 0)
        fact2  == Brought(1, "fact", 0, 2, 1, 0)
        bar    == Brought(2, "market", 1, 1, 1, 0)
        bar2   == Brought(2, "market", 1, 1, 2, 1)
        early  == Brought(1, "market", 1, 1, 3, 2)
        safe   == Brought(2, "safety", 0, 1, 1, 0)
        rec    == Brought(2, "reconciliation", 20, 1, 1, 0)
        rec2   == Brought(1, "reconciliation", 30, 1, 1, 0)
        timer  == Brought(1, "timer", 0, 1, 1, 0)
        end    == Brought(3, "end", 0, 1, 0, 0)
    IN  {<<>>, <<bar, fact1, safe, fact2>>, <<end, bar2, bar, timer>>,
         <<fact1, fact1b, fact2, rec>>, <<bar, early>>, <<rec, rec2>>,
         <<timer, safe, rec, bar, end>>}

TradingInit ==
    /\ part \in Parts
    /\ LifecycleInit /\ AuthInit /\ MessageInit /\ ReportInit /\ MatcherInit /\ RiskInit
    /\ PlanInit /\ (part # "plan" => \A q \in PlanQuantities : P.q <= q)
    /\ ReconInit /\ QueueInit
    /\ RuntimeInit /\ (part # "runtime" => observations = 0)

tradingVars == <<lifecycleVars, authVars, messageVars, reportVars, matcherVars,
                 riskVars, planVars, bookVars, reconVars, queueVars,
                 runtimeVars, part>>

LifecycleMoves ==
    /\ part = "lifecycle" /\ LifecycleNext
    /\ UNCHANGED <<authVars, messageVars, reportVars, matcherVars, riskVars,
                   planVars, bookVars, reconVars, queueVars, runtimeVars, part>>
\* The coordinator again, with crashes for its only faults.
CrashMoves ==
    /\ part = "crashes" /\ (LifecycleCrash \/ (Step /\ UNCHANGED faults))
    /\ UNCHANGED <<authVars, messageVars, reportVars, matcherVars, riskVars,
                   planVars, bookVars, reconVars, queueVars, runtimeVars, part>>
AuthMoves ==
    /\ part = "auth" /\ AuthNext
    /\ UNCHANGED <<lifecycleVars, messageVars, reportVars, matcherVars,
                   riskVars, planVars, bookVars, reconVars, queueVars,
                   runtimeVars, part>>
MessageMoves ==
    /\ part = "messages" /\ MessageNext
    /\ UNCHANGED <<lifecycleVars, authVars, reportVars, matcherVars, riskVars,
                   planVars, bookVars, reconVars, queueVars, runtimeVars, part>>
ReportMoves ==
    /\ part = "reports" /\ ReportNext
    /\ UNCHANGED <<lifecycleVars, authVars, messageVars, matcherVars, riskVars,
                   planVars, bookVars, reconVars, queueVars, runtimeVars, part>>
MatcherMoves ==
    /\ part = "matcher" /\ MatcherNext
    /\ UNCHANGED <<lifecycleVars, authVars, messageVars, reportVars, riskVars,
                   planVars, bookVars, reconVars, queueVars, runtimeVars, part>>
RiskMoves ==
    /\ part = "risk" /\ RiskNext
    /\ UNCHANGED <<lifecycleVars, authVars, messageVars, reportVars,
                   matcherVars, planVars, bookVars, reconVars, queueVars,
                   runtimeVars, part>>
PlanMoves ==
    /\ part = "plan" /\ PlanNext
    /\ UNCHANGED <<lifecycleVars, authVars, messageVars, reportVars,
                   matcherVars, riskVars, bookVars, reconVars, queueVars,
                   runtimeVars, part>>
LedgerMoves ==
    /\ part = "ledger" /\ LedgerNext
    /\ UNCHANGED <<lifecycleVars, authVars, messageVars, reportVars,
                   matcherVars, riskVars, planVars, reconVars, queueVars,
                   runtimeVars, part>>
ReconMoves ==
    /\ part = "recon" /\ ReconNext
    /\ UNCHANGED <<lifecycleVars, authVars, messageVars, reportVars,
                   matcherVars, riskVars, planVars, queueVars, runtimeVars,
                   part>>
QueueMoves ==
    /\ part = "queue" /\ QueueNext
    /\ UNCHANGED <<lifecycleVars, authVars, messageVars, reportVars,
                   matcherVars, riskVars, planVars, bookVars, reconVars,
                   runtimeVars, part>>
RuntimeMoves ==
    /\ part = "runtime" /\ RuntimeNext
    /\ UNCHANGED <<lifecycleVars, authVars, messageVars, reportVars,
                   matcherVars, riskVars, planVars, bookVars, reconVars,
                   queueVars, part>>

TradingNext == LifecycleMoves \/ CrashMoves \/ AuthMoves \/ MessageMoves \/ ReportMoves \/ MatcherMoves
               \/ RiskMoves \/ PlanMoves \/ LedgerMoves \/ ReconMoves \/ QueueMoves
               \/ RuntimeMoves

TradingSpec == TradingInit /\ [][TradingNext]_tradingVars

\* The driver of a run resumes, authorizes, submits and completes again and again, and a
\* dead process is restarted.  The sources are polled and the offers they make are
\* selected; the driver pops what is offered and acknowledges what it has popped.
TradingFairness ==
    /\ WF_lifecycleVars(part = "lifecycle" /\ Step)
    /\ SF_lifecycleVars(part = "lifecycle" /\ PrepareAuthorization)
    /\ SF_lifecycleVars(part = "lifecycle" /\ SubmitAuthorizedOrder)
    /\ SF_lifecycleVars(part = "lifecycle" /\ CompleteActiveDispatch)
    /\ WF_runtimeVars(part = "runtime" /\ (PollTheMarket \/ PollTheReconciliation))
    /\ WF_runtimeVars(part = "runtime" /\ (SelectOffer \/ FinishRun \/ AdvanceClock))
    /\ SF_runtimeVars(part = "runtime" /\ RuntimeBegin("pop"))
    /\ SF_runtimeVars(part = "runtime" /\ RuntimeAcknowledge(runtimeDisp.active))

TradingFairSpec == TradingSpec /\ TradingFairness

\* With finitely many faults every run ends: the retries of the staged calls bring the
\* last root to its terminal record.
RunTerminates == (part = "lifecycle") ~> HasTerminal

\* With sources that keep their contract every replay ends: the end of the run is
\* acknowledged and the dispatcher says so.
ReplayEnds == (part = "runtime") ~> runtimeDisp.exhausted

\* The coordinator is safe under every fault and, with crashes for its only
\* faults, its own recovery accepts the journal wherever the process stopped
\* (docs/adr/0020, "Recovery boundary").
CoordinatorSafe ==
    /\ LifecycleSafe /\ (part = "crashes" => RecoveryAccepts)

\* The order of dispatch, in the queue and in the historical dispatcher, is
\* safe.
DispatchSafe ==
    /\ QueueSafe /\ ReplaySafe

\* What no step does: give a burned authorization an effect, pass over a
\* contradiction, reopen a terminal order, thaw a halted matcher or let a
\* verifier back into it, rewrite what the ledger or the planner kept, withdraw
\* an offer, or pop another root than the one shown.
TradingSteps ==
    /\ BurnedHasNoEffect /\ ContradictionHalts /\ TerminalStays /\ HaltFreezes
    /\ ReentryHalts /\ HistoryIsKept /\ ResultsAreKept /\ OffersStand /\ PeekedIsPopped

\* From the plan over its messages to the facts of the venue: planning,
\* decoding and fact histories are safe.
OrderFlowSafe ==
    /\ PlanSafe /\ MessageSafe /\ FactSafe

\* A risk halt and the reason of a planning halt are final, and a coordinated
\* run and a historical replay end.
TradingSettles ==
    /\ HaltIsFinal /\ HaltIsFirstAndFinal /\ RunTerminates /\ ReplayEnds
=============================================================================
