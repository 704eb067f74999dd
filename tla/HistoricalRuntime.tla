-------------------------- MODULE HistoricalRuntime --------------------------
(***************************************************************************)
(* The root queue of a bounded run and the dispatcher of a historical run. *)
(*                                                                         *)
(* The deterministic root queue of a bounded run (runtime/queue.py).  The  *)
(* plan is fixed when the queue is created; pop lends out one root at a    *)
(* time under a lease, and only the exact live lease acknowledges it.  A   *)
(* fact root is lent out only when the authority of its source vouches     *)
(* that it issued it, a question the queue asks at every pop.              *)
(*                                                                         *)
(* First the total order of the roots a run reacts to (core/runtime.py):   *)
(* every root has one key, and a bounded plan is a batch of roots with     *)
(* distinct identities, sorted by that key.  The type-specific suffix of a *)
(* key is abstracted to <<kind rank, namespace, sequence>>, the part of it *)
(* that the identities are made of; namespaces are numbers because only    *)
(* their order matters.                                                    *)
(***************************************************************************)
EXTENDS Integers, Sequences, FiniteSets

CONSTANTS
  Batches,           \* the root batches a caller may bring
  QueueSources,      \* the fact sources with an authority
  QueueMaxSequence,  \* the largest dispatch sequence (2^64 - 1 in the code)
  MaxPops            \* bound: calls of pop

ASSUME QueueAssumption == QueueMaxSequence \in Nat \ {0} /\ MaxPops \in Nat

Domains == {"safety", "fact", "reconciliation", "market", "timer", "end"}

\* The rank that decides between roots of different domains available at
\* one time.
DomainRank(domain) ==
  [safety |-> 0, fact |-> 10, reconciliation |-> 20,
   market |-> 30, timer |-> 40, end |-> 50][domain]

\* runtime_root_order_key.
OrderKey(root) ==
  <<root.at, DomainRank(root.domain), root.kind, root.ns, root.seq>>

\* __lt__: the keys are compared field by field.
KeyLess(a, b) ==
  \E i \in 1..5: a[i] < b[i] /\ \A j \in 1..(i - 1): a[j] = b[j]

\* The identity that must be unique within the root's own domain: the kind
\* and the time are not part of it.
Identity(root) == <<root.domain, root.ns, root.seq>>

Distinct(batch, Op(_)) ==
  Cardinality({Op(batch[i]) : i \in DOMAIN batch}) = Len(batch)

\* Of a market root kind is the event time, that is, which bar it is: the
\* bar's source and event time are its logical key, rev its revision.
SameBar(a, b) ==
  /\ a.domain = "market" /\ b.domain = "market"
  /\ <<a.ns, a.kind>> = <<b.ns, b.kind>>

\* _validate_market_subset: one record per revision of a bar, and a later
\* revision is neither available earlier nor emitted earlier.
MarketSubset(batch) ==
  \A i, j \in DOMAIN batch:
    (i # j /\ SameBar(batch[i], batch[j])) =>
      /\ batch[i].rev # batch[j].rev
      /\ batch[i].rev < batch[j].rev =>
           batch[i].at <= batch[j].at /\ batch[i].seq < batch[j].seq

\* What prepare_bounded_runtime_roots refuses.
Acceptable(batch) ==
  /\ batch # <<>>
  /\ MarketSubset(batch)
  /\ Distinct(batch, Identity)
  /\ Distinct(batch, OrderKey)

\* The roots of a batch in the order of their keys.
Ordered(batch) ==
  LET Before(i) == {j \in DOMAIN batch :
                      KeyLess(OrderKey(batch[j]), OrderKey(batch[i]))}
  IN  [n \in DOMAIN batch |->
         batch[CHOOSE i \in DOMAIN batch: Cardinality(Before(i)) = n - 1]]

QueueNone == <<>>     \* no active dispatch, no sequence left

VARIABLES
  plan,         \* the ordered roots, <<>> before the queue is created
  verifiers,    \* the sources whose authorities are bound
  queueIssued,  \* the facts their authorities have issued
  cursor,       \* how many roots have been popped
  next,         \* the next dispatch sequence, or None
  queueActive,  \* <<the live lease>> as [root, seq], or None
  history,      \* acknowledged fact dispatches, [root, seq]
  leases,       \* every lease ever handed out
  done,         \* ghost: the roots acknowledged, in order
  pops          \* bound: pops called

queueVars == <<plan, verifiers, queueIssued, cursor, next, queueActive, history,
               leases, done, pops>>

QueueFacts(roots) == {r \in {roots[i] : i \in DOMAIN roots} : r.domain = "fact"}

RequiredSources(roots) == {r.ns : r \in QueueFacts(roots)}

QueueInit ==
  /\ plan = <<>> /\ verifiers = {} /\ queueIssued = {} /\ cursor = 0 /\ next = <<1>>
  /\ queueActive = QueueNone /\ history = <<>> /\ leases = {} /\ done = <<>> /\ pops = 0

\* prepare_bounded_runtime_roots, then create_deterministic_root_queue: the
\* bound authorities are exactly those of the sources that occur.
CreateQueue(batch, sources) ==
  /\ plan = <<>>
  /\ Acceptable(batch)
  /\ sources = RequiredSources(batch)
  /\ plan' = Ordered(batch)
  /\ verifiers' = sources
  /\ UNCHANGED <<queueIssued, cursor, next, queueActive, history, leases, done, pops>>

\* Another fact under the identity of this one.
Other(root) == [root EXCEPT !.kind = @ + 1]

\* register_ingress of the source's authority: the first fact under an
\* identity stays, another one under it is refused.
QueueIssue(root) ==
  /\ \A known \in queueIssued: Identity(known) # Identity(root)
  /\ queueIssued' = queueIssued \union {root}
  /\ UNCHANGED <<plan, verifiers, cursor, next, queueActive, history, leases,
                 done, pops>>

\* has_issued_ingress, asked of the authority bound to the root's source.
QueueHasIssued(root) ==
  root.domain = "fact" => root.ns \in verifiers /\ root \in queueIssued

QueueAdvance(seq) == IF seq = QueueMaxSequence THEN QueueNone ELSE <<seq + 1>>

\* Mutant of PopAllowed: a second root is lent out.
PopAnyTime == next # QueueNone

PopAllowed == queueActive = QueueNone /\ next # QueueNone

\* The exact step a successful pop makes, on the root at the cursor.
Lend(root) ==
  LET lease == [root |-> root, seq |-> next[1]]
  IN  /\ cursor' = cursor + 1
      /\ next' = QueueAdvance(next[1])
      /\ queueActive' = <<lease>>
      /\ leases' = leases \union {lease}

Pop ==
  /\ plan # <<>> /\ pops < MaxPops
  /\ pops' = pops + 1
  /\ \/ /\ PopAllowed /\ cursor < Len(plan)
        /\ QueueHasIssued(plan[cursor + 1])
        /\ Lend(plan[cursor + 1])
     \/ /\ ~(PopAllowed /\ cursor < Len(plan) /\ QueueHasIssued(plan[cursor + 1]))
        /\ UNCHANGED <<cursor, next, queueActive, leases>>
  /\ UNCHANGED <<plan, verifiers, queueIssued, history, done>>

LeaseIsLive(lease) == queueActive # QueueNone /\ queueActive[1] = lease

HistoryAfter(lease) ==
  IF lease.root.domain = "fact" THEN Append(history, lease) ELSE history

\* acknowledge: a lease that is not the live one is refused.
QueueAcknowledge(lease) ==
  /\ LeaseIsLive(lease)
  /\ queueActive' = QueueNone
  /\ history' = HistoryAfter(queueActive[1])
  /\ done' = Append(done, lease.root)
  /\ UNCHANGED <<plan, verifiers, queueIssued, cursor, next, leases, pops>>

\* resolve_active_issued_fact_dispatch: the sequence under which a fact is
\* being handled, or None.
ResolveActive(root) ==
  IF queueActive # QueueNone /\ root.domain = "fact" /\ queueActive[1].root = root
  THEN <<queueActive[1].seq>> ELSE QueueNone

QueueNext ==
  \/ \E batch \in Batches, sources \in SUBSET QueueSources: CreateQueue(batch, sources)
  \/ \E root \in QueueFacts(plan): QueueIssue(root) \/ QueueIssue(Other(root))
  \/ Pop
  \/ \E lease \in leases: QueueAcknowledge(lease)

QueueSpec == QueueInit /\ [][QueueNext]_queueVars

-----------------------------------------------------------------------------

QueueTypeOK ==
  /\ verifiers \subseteq Nat
  /\ cursor \in 0..Len(plan)
  /\ next \in {QueueNone} \union {<<n>> : n \in 1..QueueMaxSequence}
  /\ queueActive \in {QueueNone} \union {<<lease>> : lease \in leases}
  /\ \A lease \in leases: lease.seq \in 1..QueueMaxSequence

\* The roots are acknowledged in the order of their keys, the only order a
\* replay can reproduce, whatever order the caller brought them in.
DispatchOrder ==
  \A i, j \in DOMAIN done: i < j => KeyLess(OrderKey(done[i]), OrderKey(done[j]))

\* Every root at or before the cursor was lent out once and only once: the
\* roots acknowledged, then the active one, are a prefix of the plan.
NoRootIsSkipped ==
  LET lent == IF queueActive = QueueNone THEN done ELSE Append(done, queueActive[1].root)
  IN  Len(lent) = cursor /\ lent = SubSeq(plan, 1, cursor)

\* No two leases share a dispatch sequence: at the end of the range the
\* queue stops, it does not wrap.
SequenceIsUnique ==
  \A a, b \in leases: a.seq = b.seq => a = b

\* A fact is never acted on before its own authority vouched for it, not
\* even when it is the head of the queue and everything waits behind it.
FactsAreIssued ==
  \A lease \in leases: lease.root.domain = "fact" =>
    lease.root \in queueIssued /\ lease.root.ns \in verifiers

\* The queue's own record of what it handled: the facts acknowledged, in
\* order, each under the sequence it was lent out with; a fact is resolved
\* as active under that sequence exactly until then.
HistoryIsExact ==
  /\ [i \in DOMAIN history |-> history[i].root]
       = SelectSeq(done, LAMBDA r: r.domain = "fact")
  /\ \A i \in DOMAIN history: history[i] \in leases
  /\ \A root \in QueueFacts(plan):
       ResolveActive(root) # QueueNone <=>
         /\ \E lease \in leases: lease.root = root
         /\ root \notin {history[i].root : i \in DOMAIN history}

\* The queue: no root is skipped or lent twice under one sequence, roots leave
\* in dispatch order and facts only when issued, and the history is exactly
\* what left.
QueueSafe ==
    /\ QueueTypeOK /\ NoRootIsSkipped /\ SequenceIsUnique /\ FactsAreIssued
    /\ DispatchOrder /\ HistoryIsExact
-----------------------------------------------------------------------------
(***************************************************************************)
(* The run-wide dispatcher of a historical run (runtime/historical.py): a  *)
(* virtual clock, the market producer (which also ends the run) and the    *)
(* optional reconciliation producer, and the dispatcher that merges them.  *)
(*                                                                         *)
(* A producer that is polled offers a root due now, or promises that its   *)
(* next root comes no earlier than a later time, or is exhausted.  The     *)
(* dispatcher keeps each answer until the root is acknowledged or the      *)
(* promise falls due, and moves the clock only when nobody offers.  The    *)
(* two sources behind the producers are ports: they may answer anything,   *)
(* and a poll or a commit may fail half-way through a call.                *)
(***************************************************************************)
CONSTANTS
  RuntimeEnd,          \* the end of the replay window; the clock starts at 0
  Marks,               \* the market roots' sequence numbers within one time
  MaxCount,            \* the largest observation count of the reconciliation source
  RuntimeMaxSequence,  \* the largest dispatch sequence (2^64 - 1 in the code)
  Honest               \* TRUE: the sources keep their contract and never fail

ASSUME RuntimeAssumption ==
  /\ RuntimeEnd \in Nat \ {0} /\ Marks \subseteq Nat
  /\ MaxCount \in Nat /\ RuntimeMaxSequence \in Nat \ {0} /\ Honest \in BOOLEAN

Never == -1           \* no time
NoRoot == [domain |-> "none", at |-> Never, seq |-> 0]
NoLease == [root |-> NoRoot, seq |-> 0]
Unpolled == [kind |-> "unpolled", at |-> Never]

VARIABLES
  runtimeClock,   \* the virtual clock
  observations,   \* the observation count bound at creation, 0: no producer
  market,         \* _HistoricalProducerState
  recon,          \* _ReconciliationProducerState with the committed identities
  runtimeDisp,    \* _DispatcherState: active, exhausted, next, responses
  trace,          \* the dispatcher's trace records
  runtimeCall,    \* the call in progress: [op, responses so far]
  runtimeAnswer,  \* what the last call returned, [op, code, root]
  peeked          \* ghost: the root the last peek promised

runtimeVars == <<runtimeClock, observations, market, recon, runtimeDisp, trace, runtimeCall,
                 runtimeAnswer, peeked>>

Producers == IF observations = 0 THEN {"market"} ELSE {"market", "recon"}

\* Every root is one dispatch of its domain; ns and kind are fixed.
MarketRoot(at, mark) == [domain |-> "market", at |-> at, seq |-> mark]
ReconRoot(at, number) == [domain |-> "reconciliation", at |-> at, seq |-> number]
EndRoot == [domain |-> "end", at |-> RuntimeEnd, seq |-> 0]

RootKey(root) ==
  OrderKey([at |-> root.at, domain |-> root.domain, kind |-> 0, ns |-> 0,
            seq |-> root.seq])

Earlier(a, b) == a = NoRoot \/ KeyLess(RootKey(a), RootKey(b))

RuntimeInit ==
  /\ runtimeClock = 0
  /\ observations \in 0..MaxCount
  /\ market = [count |-> 0, offer |-> NoRoot, cursor |-> Never, last |-> NoRoot,
               promise |-> Never, ending |-> FALSE, ended |-> FALSE]
  /\ recon = [count |-> 0, offer |-> NoRoot, last |-> NoRoot,
              promise |-> Never, seen |-> {}]
  /\ runtimeDisp = [active |-> NoLease, exhausted |-> FALSE, next |-> 1,
                    responses |-> [p \in Producers |-> Unpolled]]
  /\ trace = <<>>
  /\ runtimeCall = [op |-> "none", got |-> <<>>]
  /\ runtimeAnswer = [op |-> "none", code |-> "ok", root |-> NoRoot]
  /\ peeked = NoRoot

-----------------------------------------------------------------------------
(* Producers.  An outcome of a poll is [code, state, response].            *)

Offers(root) == [kind |-> "offer", at |-> root.at, root |-> root]
Promises(at) == [kind |-> "bound", at |-> at]
Exhausted == [kind |-> "exhausted", at |-> Never]

RuntimeRefused(code, state) == [code |-> code, state |-> state, response |-> Unpolled]
Answered(state, response) == [code |-> "ok", state |-> state, response |-> response]

OutsideWindow(at) == at < runtimeClock \/ at >= RuntimeEnd

\* A producer polled again answers with the offer it already made.
HeldOffer(state) == state.offer # NoRoot

\* The end of the run: promised until the clock is there, then offered.
PollEnd(state) ==
  IF runtimeClock < RuntimeEnd THEN Answered(state, Promises(RuntimeEnd))
  ELSE IF state.last = NoRoot \/ ~Earlier(state.last, EndRoot)
       THEN RuntimeRefused("conflict", state)
       ELSE Answered([state EXCEPT !.offer = EndRoot], Offers(EndRoot))

\* admit_one's candidate is due now and later in the order than the last.
AdmitMarket(state, root) ==
  IF root.at # runtimeClock \/ ~Earlier(state.last, root)
  THEN RuntimeRefused("conflict", state)
  ELSE Answered([state EXCEPT !.offer = root], Offers(root))

\* The market producer, its source saying sched and handing out root.
PollMarket(sched, root) ==
  LET promised == [market EXCEPT !.promise = sched]
  IN  IF market.ended THEN Answered(market, Exhausted)
      ELSE IF HeldOffer(market) THEN Answered(market, Offers(market.offer))
      ELSE IF market.ending THEN PollEnd(market)
      ELSE IF market.promise = Never
      THEN IF sched = Never
           THEN IF market.count = 0 THEN RuntimeRefused("conflict", market)
                ELSE PollEnd([market EXCEPT !.ending = TRUE])
           ELSE IF OutsideWindow(sched) THEN RuntimeRefused("range", market)
           ELSE IF runtimeClock < sched THEN Answered(promised, Promises(sched))
           ELSE AdmitMarket(promised, root)
      ELSE IF runtimeClock < market.promise THEN Answered(market, Promises(market.promise))
      ELSE IF runtimeClock > market.promise THEN RuntimeRefused("beyond", market)
      ELSE AdmitMarket(market, root)

\* The candidate of the reconciliation source carries a new identity.
AdmitRecon(state, root) ==
  IF root.at # runtimeClock \/ root.seq \in state.seen \/ ~Earlier(state.last, root)
  THEN RuntimeRefused("conflict", state)
  ELSE Answered([state EXCEPT !.offer = root], Offers(root))

ReconExhaustedEarly == recon.count # observations

PollRecon(sched, root) ==
  LET promised == [recon EXCEPT !.promise = sched]
  IN  IF HeldOffer(recon) THEN Answered(recon, Offers(recon.offer))
      ELSE IF recon.promise = Never
      THEN IF sched = Never
           THEN IF ReconExhaustedEarly THEN RuntimeRefused("conflict", recon)
                ELSE Answered(recon, Exhausted)
           ELSE IF recon.count >= observations THEN RuntimeRefused("conflict", recon)
           ELSE IF OutsideWindow(sched) THEN RuntimeRefused("range", recon)
           ELSE IF runtimeClock < sched THEN Answered(promised, Promises(sched))
           ELSE AdmitRecon(promised, root)
      ELSE IF runtimeClock < recon.promise THEN Answered(recon, Promises(recon.promise))
      ELSE IF runtimeClock > recon.promise THEN RuntimeRefused("beyond", recon)
      ELSE AdmitRecon(recon, root)

\* What next_available_at may say (None is Never) and what admit_one may
\* hand out.  An honest source announces the time of a root it has, keeps
\* to the order and to the observation count, and numbers its observations.
MarketSchedules ==
  IF Honest
  THEN {at \in runtimeClock..(RuntimeEnd - 1) :
          \E mark \in Marks: Earlier(market.last, MarketRoot(at, mark))}
       \union (IF market.count = 0 THEN {} ELSE {Never})
  ELSE {Never} \union (0..RuntimeEnd)

MarketCandidates ==
  LET due == {MarketRoot(runtimeClock, mark) : mark \in Marks}
  IN  IF Honest THEN {r \in due : Earlier(market.last, r)}
      ELSE due \union {MarketRoot(RuntimeEnd, 0)}

ReconSchedules ==
  IF Honest
  THEN IF recon.count < observations THEN runtimeClock..(RuntimeEnd - 1) ELSE {Never}
  ELSE {Never} \union (0..RuntimeEnd)

ReconCandidates ==
  IF Honest THEN {ReconRoot(runtimeClock, recon.count)}
  ELSE {ReconRoot(runtimeClock, number) : number \in 0..(MaxCount - 1)}

\* prepare_commit and commit of the producer of a dispatched root.
CommitMarket(root) ==
  IF root.domain = "end"
  THEN [market EXCEPT !.offer = NoRoot, !.ended = TRUE]
  ELSE [market EXCEPT !.count = @ + 1, !.offer = NoRoot, !.cursor = root.at,
                      !.last = root, !.promise = Never]

CommitRecon(root) ==
  [recon EXCEPT !.count = @ + 1, !.offer = NoRoot, !.last = root,
                !.promise = Never, !.seen = @ \union {root.seq}]

\* The evidence prepare_commit asks for again when the root is acknowledged.
CommitIsCurrent(root) ==
  CASE root.domain = "end" -> /\ market.offer = root /\ market.ending
                              /\ runtimeClock = RuntimeEnd
    [] root.domain = "market" -> /\ market.offer = root
                                 /\ market.promise = runtimeClock /\ root.at = runtimeClock
    [] OTHER -> /\ recon.offer = root
                /\ recon.promise = runtimeClock /\ root.at = runtimeClock

\* _trace_record_bytes: a reconciliation record carries the market
\* producer's frontier, an end record no cursor.
TraceRecord(lease) ==
  LET root == lease.root
      after == IF root.domain = "reconciliation" THEN market
               ELSE CommitMarket(root)
  IN  [kind |-> root.domain, root |-> root, key |-> RootKey(root),
       clock |-> runtimeClock, seq |-> lease.seq, count |-> after.count,
       cursor |-> IF root.domain = "end" THEN Never ELSE after.cursor,
       ended |-> root.domain = "end"]

-----------------------------------------------------------------------------
(* The dispatcher.                                                         *)

Returns(op, code, root) ==
  /\ runtimeCall' = [op |-> "none", got |-> <<>>]
  /\ runtimeAnswer' = [op |-> op, code |-> code, root |-> root]

\* peek and pop: refused while a dispatch is active or the run is over.
RuntimeBegin(op) ==
  /\ runtimeCall.op = "none"
  /\ \/ /\ runtimeDisp.active # NoLease
        /\ Returns(op, "conflict", NoRoot)
     \/ /\ runtimeDisp.active = NoLease /\ runtimeDisp.exhausted
        /\ Returns(op, "exhausted", NoRoot)
     \/ /\ runtimeDisp.active = NoLease /\ ~runtimeDisp.exhausted
        /\ runtimeCall' = [op |-> op, got |-> runtimeDisp.responses]
        /\ UNCHANGED runtimeAnswer
  /\ UNCHANGED <<runtimeClock, observations, market, recon, runtimeDisp, trace, peeked>>

RuntimeMissing == {p \in Producers : runtimeCall.got[p] = Unpolled}

\* _validate_response and the frontier check of _poll_missing.
ResponseIsValid(p, response) ==
  /\ response.kind = "offer" => response.at = runtimeClock
  /\ response.kind = "bound" => response.at > runtimeClock
  /\ response.at <= RuntimeEnd
  /\ response.at = RuntimeEnd => p = "market"

Polled(p, outcome) ==
  /\ IF outcome.code = "ok" /\ ResponseIsValid(p, outcome.response)
     THEN /\ runtimeCall' = [runtimeCall EXCEPT !.got[p] = outcome.response]
          /\ UNCHANGED runtimeAnswer
     ELSE Returns(runtimeCall.op, IF outcome.code = "ok" THEN "invalid" ELSE outcome.code,
                  NoRoot)
  /\ UNCHANGED <<runtimeClock, observations, runtimeDisp, trace, peeked>>

\* _poll_missing, one producer at a time in the order of their names; the
\* producer's own state changes even when a later poll fails the call.
PollTheMarket ==
  /\ runtimeCall.op # "none" /\ "market" \in RuntimeMissing
  /\ \E sched \in MarketSchedules \union {market.promise},
        root \in MarketCandidates \union {NoRoot}:
       LET outcome == PollMarket(sched, root)
       IN  /\ Honest => outcome.code = "ok"
           /\ market' = outcome.state
           /\ Polled("market", outcome)
  /\ UNCHANGED recon

PollTheReconciliation ==
  /\ runtimeCall.op # "none" /\ RuntimeMissing = {"recon"}
  /\ \E sched \in ReconSchedules, root \in ReconCandidates:
       LET outcome == PollRecon(sched, root)
       IN  /\ recon' = outcome.state
           /\ Polled("recon", outcome)
  /\ UNCHANGED market

\* A source that raises: the call fails, nothing of it was recorded.
SourceFails ==
  /\ ~Honest /\ runtimeCall.op # "none"
  /\ \/ "market" \in RuntimeMissing /\ ~market.ended /\ ~market.ending
          /\ market.offer = NoRoot
     \/ RuntimeMissing = {"recon"} /\ recon.offer = NoRoot
  /\ Returns(runtimeCall.op, "source", NoRoot)
  /\ UNCHANGED <<runtimeClock, observations, market, recon, runtimeDisp, trace, peeked>>

OffersOf(got) == {got[p].root : p \in {q \in DOMAIN got : got[q].kind = "offer"}}
BoundsOf(got) == {got[p].at : p \in {q \in DOMAIN got : got[q].kind = "bound"}}

\* The earliest of the offered roots.
FirstOffer(roots) ==
  CHOOSE r \in roots: \A other \in roots \ {r}: Earlier(r, other)

Decided == runtimeCall.op # "none" /\ RuntimeMissing = {}

\* peek leaves the answers in place; pop lends the root out.
RuntimeSelected(root) ==
  /\ \/ /\ runtimeCall.op = "peek"
        /\ runtimeDisp' = [runtimeDisp EXCEPT !.responses = runtimeCall.got]
        /\ peeked' = root
        /\ Returns("peek", "ok", root)
     \/ /\ runtimeCall.op = "pop" /\ runtimeDisp.next <= RuntimeMaxSequence
        /\ runtimeDisp' = [runtimeDisp EXCEPT !.responses = runtimeCall.got, !.next = @ + 1,
                                              !.active = [root |-> root, seq |-> runtimeDisp.next]]
        /\ peeked' = NoRoot
        /\ Returns("pop", "ok", root)
     \/ /\ runtimeCall.op = "pop" /\ runtimeDisp.next > RuntimeMaxSequence
        /\ runtimeDisp' = [runtimeDisp EXCEPT !.responses = runtimeCall.got]
        /\ UNCHANGED peeked
        /\ Returns("pop", "sequence", NoRoot)

SelectOffer ==
  /\ Decided /\ OffersOf(runtimeCall.got) # {}
  /\ RuntimeSelected(FirstOffer(OffersOf(runtimeCall.got)))
  /\ UNCHANGED <<runtimeClock, observations, market, recon, trace>>

FinishRun ==
  /\ Decided /\ \A p \in Producers: runtimeCall.got[p] = Exhausted
  /\ runtimeDisp' = [runtimeDisp EXCEPT !.responses = runtimeCall.got, !.exhausted = TRUE]
  /\ Returns(runtimeCall.op, "exhausted", NoRoot)
  /\ UNCHANGED <<runtimeClock, observations, market, recon, trace, peeked>>

Target(bounds) == CHOOSE t \in bounds: \A u \in bounds: t <= u

\* Nobody offers: the clock moves to the nearest promise, and the answers
\* that fall due are asked for again.
AdvanceClock ==
  /\ Decided /\ OffersOf(runtimeCall.got) = {} /\ BoundsOf(runtimeCall.got) # {}
  /\ LET target == Target(BoundsOf(runtimeCall.got))
         kept == [p \in Producers |->
                    IF runtimeCall.got[p].kind = "bound" /\ runtimeCall.got[p].at = target
                    THEN Unpolled ELSE runtimeCall.got[p]]
     IN  /\ runtimeClock' = target
         /\ runtimeDisp' = [runtimeDisp EXCEPT !.responses = kept]
         /\ runtimeCall' = [runtimeCall EXCEPT !.got = kept]
  /\ UNCHANGED <<observations, market, recon, trace, runtimeAnswer, peeked>>

Owner(root) == IF root.domain = "reconciliation" THEN "recon" ELSE "market"

\* Mutant of AfterAcknowledge: the acknowledged answer is kept.
AfterAcknowledgeNone(root) == runtimeDisp.responses

AfterAcknowledge(root) == [runtimeDisp.responses EXCEPT ![Owner(root)] = Unpolled]

\* The producer's commit, the dispatcher's state and the trace record.
CommitRoot(root) ==
  /\ market' = IF Owner(root) = "market" THEN CommitMarket(root) ELSE market
  /\ recon' = IF Owner(root) = "recon" THEN CommitRecon(root) ELSE recon
  /\ trace' = Append(trace, TraceRecord(runtimeDisp.active))
  /\ runtimeDisp' = [runtimeDisp EXCEPT !.active = NoLease, !.responses = AfterAcknowledge(root)]

\* acknowledge: only the exact live lease; a failing source leaves the
\* dispatch active, to be acknowledged again.
RuntimeAcknowledge(lease) ==
  /\ runtimeCall.op = "none" /\ UNCHANGED <<runtimeClock, observations, peeked>>
  /\ \/ /\ lease = runtimeDisp.active /\ lease # NoLease /\ CommitIsCurrent(lease.root)
        /\ CommitRoot(lease.root)
        /\ Returns("ack", "ok", lease.root)
     \/ /\ lease # runtimeDisp.active \/ lease = NoLease \/ ~CommitIsCurrent(lease.root)
        /\ Returns("ack", "conflict", NoRoot)
        /\ UNCHANGED <<market, recon, runtimeDisp, trace>>
     \/ /\ lease = runtimeDisp.active /\ lease # NoLease /\ ~Honest
        /\ lease.root.domain # "end"
        /\ Returns("ack", "source", NoRoot)
        /\ UNCHANGED <<market, recon, runtimeDisp, trace>>

Handed == {[root |-> trace[i].root, seq |-> trace[i].seq] : i \in DOMAIN trace}

RuntimeNext ==
  \/ RuntimeBegin("peek") \/ RuntimeBegin("pop")
  \/ PollTheMarket \/ PollTheReconciliation \/ SourceFails
  \/ SelectOffer \/ FinishRun \/ AdvanceClock
  \/ \E lease \in Handed \union {runtimeDisp.active}: RuntimeAcknowledge(lease)

RuntimeSpec == RuntimeInit /\ [][RuntimeNext]_runtimeVars


-----------------------------------------------------------------------------
(* The validator of a finished trace, historical_runtime_trace_digest.     *)

\* _trace_market_root, _trace_reconciliation_root, _trace_terminal_root: the
\* key is derived again from the root the record carries.
TraceRootKey(record) ==
  CASE record.kind = "market" -> <<record.root.at, 30, 0, 0, record.root.seq>>
    [] record.kind = "reconciliation" -> <<record.root.at, 20, 0, 0, record.root.seq>>
    [] OTHER -> <<record.root.at, 50, 0, 0, 0>>

\* _validate_v2_trace_record.
TraceRecordValid(record) ==
  /\ record.key = TraceRootKey(record)
  /\ record.clock = record.root.at
  /\ record.ended <=> record.kind = "end"
  /\ CASE record.kind = "market" -> record.count >= 1 /\ record.cursor = record.clock
       [] record.kind = "reconciliation" ->
            /\ record.count = 0 <=> record.cursor = Never
            /\ record.cursor <= record.clock
       [] OTHER -> record.cursor = Never /\ record.count >= 1

\* How _validate_v2_trace_history lets one record follow another.
TraceFollows(earlier, later) ==
  /\ later.seq = earlier.seq + 1
  /\ later.clock >= earlier.clock
  /\ later.kind = "end" => later.clock > earlier.clock
  /\ earlier.kind # "end"
  /\ later.clock = earlier.clock => KeyLess(earlier.key, later.key)
  /\ CASE later.kind = "market" -> later.count = earlier.count + 1
       [] later.kind = "reconciliation" ->
            <<later.count, later.cursor>> = <<earlier.count, earlier.cursor>>
       [] OTHER -> later.count = earlier.count

TraceHistoryValid(records) ==
  /\ \A i \in DOMAIN records: TraceRecordValid(records[i])
  /\ \A i, j \in DOMAIN records:
       (/\ records[i].kind = "reconciliation" /\ records[j].kind = "reconciliation"
        /\ records[i].root.seq = records[j].root.seq) => i = j
  /\ records # <<>> =>
       /\ records[1].seq = 1
       /\ records[1].kind = "reconciliation" => records[1].count = 0
       /\ records[1].kind = "market" => records[1].count = 1
       /\ records[1].kind # "end"
  /\ \A i \in 1..(Len(records) - 1): TraceFollows(records[i], records[i + 1])

\* _require_active_market_dispatch_bytes and its two siblings.
RequireActive(root, seq) ==
  runtimeDisp.active # NoLease /\ runtimeDisp.active.root = root /\ runtimeDisp.active.seq = seq

-----------------------------------------------------------------------------

RuntimeTypeOK ==
  /\ runtimeClock \in 0..RuntimeEnd
  /\ observations \in 0..MaxCount
  /\ market.count \in Nat /\ market.promise \in Never..RuntimeEnd
  /\ recon.count \in Nat /\ recon.promise \in Never..RuntimeEnd
  /\ runtimeDisp.next \in 1..(RuntimeMaxSequence + 1)
  /\ DOMAIN runtimeDisp.responses = Producers
  /\ runtimeCall.op \in {"none", "peek", "pop"}

\* Whatever the sources answer and however often a call fails half-way, the
\* trace the run leaves is one its own validator accepts: numbered without
\* a gap, in the order of the keys across both producers, each record with
\* the frontier the one before left (_validate_v2_trace_history).
TraceIsValid == TraceHistoryValid(trace)

\* The clock never passes a promise a producer still holds it to, so that
\* "clock advanced beyond the binding promise" is never raised, however the
\* two producers' promises interleave.
PromisesAreKept ==
  /\ market.promise # Never => runtimeClock <= market.promise
  /\ recon.promise # Never => runtimeClock <= recon.promise
  /\ runtimeAnswer.code # "beyond"

\* The live lease can always be acknowledged: from pop to acknowledge the
\* producer's offer, its promise and the clock stand still, and the
\* dispatcher still holds the answer it will drop.  It is proved active
\* under its own sequence, and no root handed out before passes for it.
ActiveIsCurrent ==
  runtimeDisp.active # NoLease =>
    /\ CommitIsCurrent(runtimeDisp.active.root)
    /\ runtimeDisp.responses[Owner(runtimeDisp.active.root)] = Offers(runtimeDisp.active.root)
    /\ runtimeDisp.next = runtimeDisp.active.seq + 1
    /\ RequireActive(runtimeDisp.active.root, runtimeDisp.next - 1)
    /\ \A lease \in Handed: ~RequireActive(lease.root, lease.seq)

\* The dispatcher says exhausted only after the end of the run was
\* acknowledged as the last root and all announced observations were.
ExhaustedIsComplete ==
  runtimeDisp.exhausted =>
    /\ trace # <<>> /\ trace[Len(trace)].kind = "end"
    /\ recon.count = observations
    /\ market.offer = NoRoot /\ recon.offer = NoRoot

\* What an answer already given to the dispatcher says is still so: a
\* producer that promised a time offers nothing earlier, even if it is not
\* asked again before the other producer's roots are handled.
RetainedAnswersHold ==
  \A p \in Producers:
    LET response == runtimeDisp.responses[p]
        state == IF p = "market" THEN market ELSE recon
    IN  /\ response.kind = "offer" => response.root = state.offer
        /\ response.kind = "bound" => state.offer = NoRoot /\ response.at > runtimeClock

\* A root that was offered is dispatched: the offer goes away only by its
\* own acknowledgement, not by a failed call or by the other producer.
OffersStand ==
  [][/\ market.offer # NoRoot /\ market'.offer # market.offer =>
          trace' # trace /\ trace'[Len(trace')].root = market.offer
     /\ recon.offer # NoRoot /\ recon'.offer # recon.offer =>
          trace' # trace /\ trace'[Len(trace')].root = recon.offer]_runtimeVars

\* The root that peek showed is the root the next pop lends out.
PeekedIsPopped ==
  [][(peeked # NoRoot /\ runtimeCall.op = "pop" /\ runtimeCall'.op = "none" /\ runtimeAnswer'.code = "ok") =>
       runtimeAnswer'.root = peeked]_runtimeVars

\* The historical dispatcher: its trace satisfies the validator, promises and
\* retained answers still hold, the live lease can be acknowledged, and an
\* exhausted replay is complete.
ReplaySafe ==
    /\ RuntimeTypeOK /\ TraceIsValid /\ PromisesAreKept /\ RetainedAnswersHold
    /\ ActiveIsCurrent /\ ExhaustedIsComplete
=============================================================================
