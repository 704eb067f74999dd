------------------------ MODULE LifecycleCoordinator ------------------------
(***************************************************************************)
(* The Phase 1 lifecycle coordinator (runtime/coordinator.py) and its      *)
(* recovery from the audit journal (runtime/_coordinator_recovery.py).     *)
(*                                                                         *)
(* One runtime root at a time is leased, matched, audited, handed to the   *)
(* ledger, opened as a window in which one order may be authorized and     *)
(* submitted, completed in the journal, acknowledged to the runtime; the   *)
(* last root ends the run with a terminal record.  A call is a sequence of *)
(* stages (pc); each append may succeed, be refused, or reach the journal  *)
(* and still raise; the process may stop between any two stages.           *)
(*                                                                         *)
(* A record is identified by its kind and content (the journal derives the *)
(* logical key from the payload), an acknowledgement is its position, and  *)
(* a chain head is the position of a record.  The coordinator object dies  *)
(* in a crash; the runtime, matcher and fact histories are the injected    *)
(* ones, the ledger, risk and refresh authorities start again empty.       *)
(***************************************************************************)
EXTENDS Naturals, Sequences, FiniteSets, FiniteSetsExt, Functions

CONSTANTS FinalRoot,        \* number of roots; the last one is the EndOfRunRoot
          Count,            \* ingresses of the batch of each root
          Halting,          \* <<root, ingress>> whose ledger outcome requires reconciliation
          Gate,             \* the ledger gate is bound (completion v3)
          LifecycleOrders,  \* roots whose window is used to authorize an order
          FaultKinds,       \* subset of {"append", "lost", "matcher", "fact", "publish", "ack", "crash"}
          LifecycleMaxFaults

ASSUME CoordinatorAssumption ==
    /\ FinalRoot \in Nat \ {0} /\ Count \in [1 .. FinalRoot -> Nat] /\ LifecycleMaxFaults \in Nat
    /\ Gate \in BOOLEAN /\ LifecycleOrders \subseteq 1 .. FinalRoot - 1
    /\ \A h \in Halting : h[1] \in 1 .. FinalRoot /\ h[2] \in 1 .. Count[h[1]]

VARIABLES journal,  \* records after RUN_PREPARED, in physical order
          co,       \* the coordinator object, or Down
          pc,       \* stage of the call in progress, "idle" between calls
          err,      \* the pass has met its first error
          rt,       \* runtime: leased root (0: none) and acknowledged roots
          world,    \* matcher batches and receipts, processed facts
          econ,     \* ledger, risk and published refresh
          faults

lifecycleVars == <<journal, co, pc, err, rt, world, econ, faults>>

-----------------------------------------------------------------------------
(* Records and acknowledgements *)

Pos(r) == LET s == {n \in 1 .. Len(journal) : journal[n] = r} IN IF s = {} THEN 0 ELSE Min(s)
Max0(s) == IF s = {} THEN 0 ELSE Max(s)
LifecycleNone == [kind |-> "none"]

Rec(k, d, i) == [kind |-> k, d |-> d, i |-> i]
BatchRec(d) == Rec("batch", d, 0)
PreBatchKey(d) == Rec("batch", d, 1)     \* the batch key formed with the trigger digest
FactRec(d, i) == Rec("fact", d, i)
LedgerRec(d, i) == Rec("ledger", d, i)
AuthRec(d) == Rec("auth", d, 0)
RefreshRec(d, permit) == [kind |-> "refresh", d |-> d, permit |-> permit]
CompletionRec(d, pay) == [kind |-> "completion", d |-> d, frontier |-> pay]
FailingRec(d, pay) == [kind |-> "failing", d |-> d, pay |-> pay]
TerminalRec(pay) == [kind |-> "terminal", d |-> FinalRoot, state |-> pay]

-----------------------------------------------------------------------------
(* Coordinator states *)

Down == [up |-> FALSE]
NoActive == [d |-> 0]
Admitted == [v |-> 1, phase |-> "admitted", code |-> FALSE, head |-> 0, last |-> 0]
NewCoordinator == [up |-> TRUE, st |-> Admitted, failPay |-> LifecycleNone, failAck |-> 0,
                   act |-> NoActive, pre |-> LifecycleNone, done |-> FALSE]

\* _ActiveDispatch, as _capture_lease creates it.
ActiveDispatch(d) ==
    [d |-> d, batch |-> FALSE, batchAck |-> 0,
     out |-> {}, outAck |-> [i \in 1 .. Count[d] |-> 0],
     led |-> {}, ledAck |-> [i \in 1 .. Count[d] |-> 0],
     refresh |-> "none", refreshAck |-> 0, published |-> FALSE,
     win |-> 0, may |-> FALSE, att |-> "none", authAck |-> 0, receipt |-> FALSE,
     comp |-> LifecycleNone, compAck |-> 0]

\* _capture_lease / _recovered_capture_state
Capture(st, d) ==
    [st EXCEPT !.v = @ + 1,
               !.phase = IF d = FinalRoot THEN "draining"
                         ELSE IF @ = "failing" THEN "failing" ELSE "running"]

AllAcked(f) == \A i \in DOMAIN f : f[i] # 0
Handoff(a, i) == i \in a.out /\ a.outAck[i] # 0 /\ a.batchAck # 0

\* _pre_ack_chain_head and, with the completion, _latest_active_chain_head.
ActiveHead(a) ==
    Max0({a.batchAck, a.authAck, a.refreshAck, a.compAck} \cup Range(a.outAck) \cup Range(a.ledAck))

\* _missing_keys: evidence held in memory whose record has no acknowledgement.
LifecycleMissing(a) ==
    (IF a.batch /\ a.batchAck = 0 THEN <<BatchRec(a.d)>> ELSE <<>>)
    \o SelectSeq([i \in 1 .. Count[a.d] |-> FactRec(a.d, i)],
                 LAMBDA r : r.i \in a.out /\ a.outAck[r.i] = 0)
    \o SelectSeq([i \in 1 .. Count[a.d] |-> LedgerRec(a.d, i)],
                 LAMBDA r : r.i \in a.led /\ a.ledAck[r.i] = 0)
    \o (IF Gate /\ Count[a.d] > 0 /\ a.refresh # "none" /\ a.refreshAck = 0
        THEN <<RefreshRec(a.d, a.refresh)>> ELSE <<>>)
    \o (IF a.comp # LifecycleNone /\ a.compAck = 0 THEN <<CompletionRec(a.d, a.comp)>> ELSE <<>>)

\* _failed_logical_key
FailedKey(a, missing) ==
    LET acked == {i \in 1 .. Count[a.d] : a.outAck[i] # 0}
    IN IF missing # <<>> THEN Head(missing)
       ELSE IF a.compAck # 0 THEN CompletionRec(a.d, a.comp)
       ELSE IF acked # {} THEN FactRec(a.d, Max(acked))
       ELSE IF a.batchAck # 0 THEN BatchRec(a.d)
       ELSE PreBatchKey(a.d)

\* What the failing-safety payload binds: the state before, the state after with its
\* acknowledged outcomes and missing keys, and the failed key.
FailingPayload(st, d, batch, outAcks, missing, head, key) ==
    [prev |-> st, batch |-> batch, outAcks |-> outAcks, missing |-> Range(missing),
     head |-> head, key |-> key]
FailingState(st, head) ==
    [st EXCEPT !.v = @ + 1, !.phase = "failing", !.code = TRUE, !.head = head]

\* _enter_failing without its append: nothing when the phase is failing already, otherwise
\* the retained payload is replaced, whether or not an earlier one was acknowledged.
EnterFailing(c, a, missing) ==
    LET head == IF ActiveHead(a) = 0 THEN c.st.head ELSE ActiveHead(a)
        acks == {a.outAck[i] : i \in 1 .. Count[a.d]} \ {0}
    IN IF c.st.phase = "failing" THEN [c EXCEPT !.act = a]
       ELSE [c EXCEPT !.act = a, !.st = FailingState(c.st, head),
                      !.failPay = FailingRec(a.d, FailingPayload(c.st, a.d, a.batch, acks,
                                                 missing, head, FailedKey(a, missing)))]

\* _completion_payload: the pre-acknowledgement state and the frontier of the dispatch.
CompletionPayload(st, a) ==
    [v |-> st.v + 1, phase |-> st.phase, code |-> st.code, last |-> st.last,
     head |-> ActiveHead([a EXCEPT !.compAck = 0]), outAcks |-> a.outAck, ledAcks |-> a.ledAck,
     att |-> a.att, receipt |-> a.receipt]

\* _completed_state
CompletedState(st, a, failAck) ==
    [st EXCEPT !.v = @ + 2, !.phase = IF a.d = FinalRoot THEN "draining" ELSE @,
               !.last = a.d, !.head = IF failAck > a.compAck THEN failAck ELSE a.compAck]

\* _begin_terminalization and _terminal_payload
PreTerminal(st) ==
    [v |-> st.v + 1, failed |-> st.code, head |-> st.head, final |-> econ.published]

\* An active dispatch of a coordinator, and the handle of a new one on it.
WithAct(c, a) == [c EXCEPT !.act = a]
-----------------------------------------------------------------------------
(* Stages of one call *)

At(stage) == <<stage, 0>>
LifecycleFault(k) == k \in FaultKinds /\ faults < LifecycleMaxFaults /\ faults' = faults + 1

\* AuditAppendPort.append: the record is there and acknowledged, or the call raises and
\* the record is there or not.  A present record is acknowledged again, not written twice.
Durable(r) == IF Pos(r) = 0 THEN Append(journal, r) ELSE journal
AppendResults(r) ==
    {[j |-> Durable(r), ack |-> IF Pos(r) = 0 THEN Len(journal) + 1 ELSE Pos(r), bad |-> 0]}
    \cup {[j |-> j, ack |-> 0, bad |-> 1] :
             j \in IF faults = LifecycleMaxFaults THEN {}
                   ELSE (IF "append" \in FaultKinds THEN {journal} ELSE {})
                        \cup (IF "lost" \in FaultKinds THEN {Durable(r)} ELSE {})}
Appended(res) == journal' = res.j /\ faults' = faults + res.bad

\* The call raises after _enter_failing, whose safety append is tried once and suppressed.
Raise(c) ==
    /\ co' = c
    /\ pc' = (IF c.st # co.st /\ c.failAck = 0 THEN At("suppressed") ELSE At("idle"))
    /\ err' = FALSE

LifecycleRunning == co.up /\ co.act.d # 0

\* begin_next_dispatch
BeginNextDispatch ==
    /\ co.up /\ pc = At("idle") /\ co.act.d = 0 /\ co.pre = LifecycleNone /\ ~co.done
    /\ rt.lease = 0 /\ rt.acked < FinalRoot
    /\ LET d == rt.acked + 1
       IN /\ rt' = [rt EXCEPT !.lease = d]
          /\ co' = [co EXCEPT !.st = Capture(@, d), !.act = ActiveDispatch(d)]
    /\ pc' = At("match") /\ err' = FALSE
    /\ UNCHANGED <<journal, world, econ, faults>>

\* resume_active_dispatch
ResumeActiveDispatch ==
    /\ LifecycleRunning /\ pc = At("idle") /\ co.act.compAck = 0 /\ rt.lease = co.act.d
    /\ pc' = At("match") /\ err' = FALSE
    /\ UNCHANGED <<journal, co, rt, world, econ, faults>>

\* The batch: matched once, resolved from the matcher's history afterwards.
Match ==
    /\ LifecycleRunning /\ pc = At("match")
    /\ UNCHANGED <<journal, rt, econ>>
    /\ \/ /\ co' = [co EXCEPT !.act.batch = TRUE]
          /\ world' = [world EXCEPT !.batches = @ \cup {co.act.d}]
          /\ pc' = At("safety")
          /\ UNCHANGED <<err, faults>>
       \/ /\ ~co.act.batch /\ LifecycleFault("matcher")
          /\ Raise(EnterFailing(co, co.act, LifecycleMissing(co.act)))
          /\ UNCHANGED world

\* A failing transition that is not yet durable is appended before anything else.
RetrySafety ==
    /\ LifecycleRunning /\ pc = At("safety")
    /\ UNCHANGED <<rt, world, econ>>
    /\ IF co.failPay = LifecycleNone \/ co.failAck # 0
       THEN pc' = At("batch") /\ UNCHANGED <<journal, co, err, faults>>
       ELSE \E res \in AppendResults(co.failPay) :
               /\ Appended(res)
               /\ IF res.ack # 0
                  THEN co' = [co EXCEPT !.failAck = res.ack] /\ pc' = At("batch") /\ UNCHANGED err
                  ELSE Raise(EnterFailing(co, co.act, LifecycleMissing(co.act)))

AfterFact(d, i) == IF i < Count[d] THEN <<"fact", i + 1>> ELSE IF Gate THEN <<"ledger", 1>> ELSE At("finish")

AppendBatch ==
    /\ LifecycleRunning /\ pc = At("batch")
    /\ UNCHANGED <<rt, world, econ>>
    /\ pc' = AfterFact(co.act.d, 0)
    /\ IF co.act.batchAck # 0
       THEN UNCHANGED <<journal, co, err, faults>>
       ELSE \E res \in AppendResults(BatchRec(co.act.d)) :
               /\ Appended(res)
               /\ co' = [co EXCEPT !.act.batchAck = res.ack]
               /\ err' = (err \/ res.ack = 0)

\* One ingress: process_ingress once, then its outcome record; errors do not stop the batch.
ProcessFact ==
    /\ LifecycleRunning
    /\ \E i \in 1 .. Count[co.act.d] :
          /\ pc = <<"fact", i>>
          /\ pc' = AfterFact(co.act.d, i)
          /\ UNCHANGED <<rt, econ>>
          /\ \/ /\ i \notin co.act.out /\ LifecycleFault("fact")
                /\ err' = TRUE /\ UNCHANGED <<journal, co, world>>
             \/ /\ co.act.outAck[i] # 0
                /\ UNCHANGED <<journal, co, world, err, faults>>
             \/ /\ co.act.outAck[i] = 0
                /\ world' = [world EXCEPT !.facts = @ \cup {<<co.act.d, i>>}]
                /\ \E res \in AppendResults(FactRec(co.act.d, i)) :
                      /\ Appended(res)
                      /\ co' = [co EXCEPT !.act.out = @ \cup {i}, !.act.outAck[i] = res.ack]
                      /\ err' = (err \/ res.ack = 0)

\* _apply_ledger_gate, one handoff: apply once, append its outcome; the first error ends
\* the gate.  A missing handoff is an assertion failure of the gate.
LifecycleApplyHandoff ==
    /\ LifecycleRunning
    /\ \E i \in 1 .. Count[co.act.d] :
          /\ pc = <<"ledger", i>>
          /\ UNCHANGED <<rt, world>>
          /\ IF ~Handoff(co.act, i)
             THEN pc' = At("finish") /\ err' = TRUE /\ UNCHANGED <<journal, co, econ, faults>>
             ELSE /\ econ' = [econ EXCEPT !.applied = @ \cup {<<co.act.d, i>>}]
                  /\ \E res \in IF co.act.ledAck[i] # 0
                                THEN {[j |-> journal, ack |-> co.act.ledAck[i], bad |-> 0]}
                                ELSE AppendResults(LedgerRec(co.act.d, i)) :
                        /\ Appended(res)
                        /\ co' = [co EXCEPT !.act.led = @ \cup {i}, !.act.ledAck[i] = res.ack]
                        /\ err' = (err \/ res.ack = 0)
                        /\ pc' = (IF res.ack = 0 THEN At("finish") ELSE <<"ledger", i + 1>>)

\* _refresh_publication_window_clear
WindowClear(a) ==
    /\ a.batchAck # 0 /\ AllAcked(a.outAck) /\ AllAcked(a.ledAck)
    /\ a.win = 0 /\ a.att = "none" /\ ~a.receipt /\ a.comp = LifecycleNone
    /\ co.failPay = LifecycleNone \/ co.failAck # 0

Permit(b) == IF b THEN "yes" ELSE "no"
Halts(a) == \E i \in a.led : <<a.d, i>> \in Halting

\* _apply_ledger_gate, after the last handoff: the halt, the refresh (created once, with
\* the permission of that moment) and its record.
RefreshRisk ==
    /\ LifecycleRunning /\ pc = <<"ledger", Count[co.act.d] + 1>>
    /\ UNCHANGED <<rt, world>>
    /\ LET a == co.act
           halted == econ.halted \/ Halts(a)
           permit == IF a.refresh # "none" THEN a.refresh
                     ELSE Permit(~halted /\ co.st.phase = "running" /\ WindowClear(a))
       IN /\ econ' = [econ EXCEPT !.halted = halted]
          /\ \E res \in IF a.refreshAck # 0 THEN {[j |-> journal, ack |-> a.refreshAck, bad |-> 0]}
                        ELSE AppendResults(RefreshRec(a.d, permit)) :
                /\ Appended(res)
                /\ co' = [co EXCEPT !.act.refresh = permit, !.act.refreshAck = res.ack]
                /\ err' = (err \/ res.ack = 0)
                /\ pc' = At(IF res.ack = 0 THEN "finish" ELSE "publish")

\* _publish_retained_refresh: the frontier moves from exactly the old to exactly the new.
LifecyclePublish ==
    /\ LifecycleRunning /\ pc = At("publish")
    /\ pc' = At("finish")
    /\ UNCHANGED <<journal, rt, world>>
    /\ \/ /\ econ' = [econ EXCEPT !.published = co.act.d, !.permitted = (co.act.refresh = "yes")]
          /\ co' = [co EXCEPT !.act.published = TRUE]
          /\ UNCHANGED <<err, faults>>
       \/ /\ econ.published # co.act.d /\ LifecycleFault("publish")     \* raised, the frontier is old
          /\ err' = TRUE /\ UNCHANGED <<econ, co>>

\* Mutant of LifecycleFinish: only missing acknowledgements keep the window shut, an error does not.
FinishDespiteError ==
    /\ LifecycleRunning /\ pc = At("finish")
    /\ UNCHANGED <<journal, rt, world, econ, faults>>
    /\ IF LifecycleMissing(co.act) # <<>>
       THEN Raise(EnterFailing(co, co.act, LifecycleMissing(co.act)))
       ELSE /\ co' = WithAct(co, [co.act EXCEPT !.win = co.st.v, !.may = FALSE])
            /\ pc' = At("idle") /\ err' = FALSE

\* The end of the pass: open the window, or enter failing.
LifecycleFinish ==
    /\ LifecycleRunning /\ pc = At("finish")
    /\ UNCHANGED <<journal, rt, world, econ, faults>>
    /\ LET a == co.act
           missing == SelectSeq(LifecycleMissing(a), LAMBDA r : r.kind # "completion")
       IN IF err \/ missing # <<>>
          THEN Raise(EnterFailing(co, a, missing))
          ELSE IF a.win = 0
          THEN /\ co' = WithAct(co, [a EXCEPT !.win = co.st.v,
                               !.may = (a.d # FinalRoot /\ co.st.phase = "running")])
               /\ pc' = At("idle") /\ UNCHANGED err
          ELSE IF a.win = co.st.v THEN pc' = At("idle") /\ UNCHANGED <<co, err>>
          ELSE Raise(EnterFailing(co, a, LifecycleMissing(a)))

\* The one suppressed attempt of _enter_failing.
SuppressedSafety ==
    /\ co.up /\ pc = At("suppressed")
    /\ \E res \in AppendResults(co.failPay) :
          Appended(res) /\ co' = [co EXCEPT !.failAck = res.ack]
    /\ pc' = At("idle")
    /\ UNCHANGED <<err, rt, world, econ>>

OpenWindow == LifecycleRunning /\ pc = At("idle") /\ co.act.win # 0 /\ co.act.win = co.st.v

\* prepare_submission_authorization.  The authority denies a stale or halted order; a raised
\* append is settled: durable is authorized, absent is failed, unknown stays unresolved and
\* is settled again by the next call.
Authorized(a, ack) == WithAct(co, [a EXCEPT !.att = "authorized", !.authAck = ack])
AuthorizationFailed(a) ==
    Raise([EnterFailing(co, a, <<AuthRec(a.d)>>) EXCEPT
              !.act.win = 0, !.act.may = FALSE, !.act.att = "none"])
PrepareAuthorization ==
    /\ OpenWindow /\ co.act.d \in LifecycleOrders /\ co.act.may /\ co.st.phase = "running"
    /\ UNCHANGED <<rt, world, econ>>
    /\ LET a == co.act
       IN \/ /\ a.att = "none" /\ (econ.halted \/ (Gate /\ ~econ.permitted))
             /\ co' = WithAct(co, [a EXCEPT !.att = "denied"])
             /\ UNCHANGED <<journal, pc, err, faults>>
          \/ /\ a.att = "none" /\ ~econ.halted /\ (Gate => econ.permitted)
             /\ \E res \in AppendResults(AuthRec(a.d)) :
                   /\ Appended(res)
                   /\ \/ /\ res.bad = 0 \/ res.j # journal
                         /\ co' = Authorized(a, Len(res.j)) /\ UNCHANGED <<pc, err>>
                      \/ /\ res.bad = 1
                         /\ co' = WithAct(co, [a EXCEPT !.att = "unresolved"])
                         /\ UNCHANGED <<pc, err>>
                      \/ /\ res.bad = 1 /\ res.j = journal
                         /\ AuthorizationFailed(a)
          \/ /\ a.att = "unresolved"
             /\ UNCHANGED <<journal, faults>>
             /\ IF Pos(AuthRec(a.d)) # 0
                THEN co' = Authorized(a, Pos(AuthRec(a.d))) /\ UNCHANGED <<pc, err>>
                ELSE AuthorizationFailed(a)

\* submit_authorized_order; the matcher's verifier wants the running phase and no halt.
SubmitAuthorizedOrder ==
    /\ OpenWindow /\ co.act.att = "authorized" /\ ~co.act.receipt
    /\ co.st.phase = "running" /\ ~econ.halted
    /\ co' = [co EXCEPT !.act.receipt = TRUE]
    /\ world' = [world EXCEPT !.receipts = @ \cup {co.act.d}]
    /\ UNCHANGED <<journal, pc, err, rt, econ, faults>>

\* complete_active_dispatch, up to its record: the payload is built once and retained; an
\* exception is settled, so a durable completion counts as acknowledged.
CompleteActiveDispatch ==
    /\ OpenWindow /\ co.act.compAck = 0
    /\ co.act.att # "unresolved" /\ (co.act.att = "authorized" => co.act.receipt)
    /\ UNCHANGED <<rt, world, econ>>
    /\ LET a == [co.act EXCEPT !.comp = IF @ = LifecycleNone THEN CompletionPayload(co.st, co.act) ELSE @]
       IN \E res \in AppendResults(CompletionRec(a.d, a.comp)) :
             /\ Appended(res)
             /\ \/ /\ res.bad = 0 \/ res.j # journal
                   /\ co' = WithAct(co, [a EXCEPT !.compAck =
                                            IF res.ack # 0 THEN res.ack ELSE Len(res.j)])
                   /\ pc' = At("ack") /\ UNCHANGED err
                \/ /\ res.bad = 1
                   /\ Raise([EnterFailing(co, a, LifecycleMissing(a)) EXCEPT
                                !.act.win = 0, !.act.may = FALSE])

\* retry_active_dispatch_completion
RetryActiveDispatchCompletion ==
    /\ LifecycleRunning /\ pc = At("idle") /\ co.act.compAck # 0
    /\ pc' = At("ack")
    /\ UNCHANGED <<journal, co, err, rt, world, econ, faults>>

\* runtime.acknowledge, the completed state and, at the end root, the pre-terminal state.
Acknowledge ==
    /\ LifecycleRunning /\ pc = At("ack") /\ rt.lease = co.act.d
    /\ UNCHANGED <<journal, world, econ>>
    /\ LET st == CompletedState(co.st, co.act, co.failAck)
       IN \/ /\ rt' = [lease |-> 0, acked |-> co.act.d]
             /\ co' = [co EXCEPT !.st = st, !.act = NoActive,
                                 !.pre = IF co.act.d = FinalRoot THEN PreTerminal(st) ELSE LifecycleNone]
             /\ pc' = At(IF co.act.d = FinalRoot THEN "terminal" ELSE "idle")
             /\ UNCHANGED <<err, faults>>
          \/ /\ LifecycleFault("ack")
             /\ Raise(EnterFailing(co, co.act, LifecycleMissing(co.act)))
             /\ UNCHANGED rt

\* _finish_terminalization and retry_terminalization
FinishTerminalization ==
    /\ co.up /\ pc \in {At("terminal"), At("idle")} /\ co.pre # LifecycleNone /\ ~co.done
    /\ \E res \in AppendResults(TerminalRec(co.pre)) :
          Appended(res) /\ co' = [co EXCEPT !.done = (res.ack # 0)]
    /\ pc' = At("idle")
    /\ UNCHANGED <<err, rt, world, econ>>

\* The process stops: the coordinator and the economic authorities are gone.
FreshEcon == [applied |-> {}, published |-> 0, permitted |-> FALSE, halted |-> FALSE]
LifecycleCrash ==
    /\ co.up /\ ~co.done /\ LifecycleFault("crash")
    /\ co' = Down /\ pc' = At("idle") /\ err' = FALSE /\ econ' = FreshEcon
    /\ UNCHANGED <<journal, rt, world>>

-----------------------------------------------------------------------------
(* Recovery from the journal *)

\* _group_recovery_records: the records of one dispatch, by kind.
Group(d) ==
    LET of(k) == {n \in 1 .. Len(journal) : journal[n].kind = k /\ journal[n].d = d}
    IN [batch |-> Max0(of("batch")), facts |-> of("fact"), ledger |-> of("ledger"),
        refresh |-> Max0(of("refresh")), auth |-> Max0(of("auth")),
        failing |-> Max0(of("failing")), completion |-> Max0(of("completion")),
        one |-> \A k \in {"failing", "completion", "refresh"} : Cardinality(of(k)) <= 1]
Before(s, n) == \A m \in s : m < n
FailedKind(g) == IF g.failing = 0 THEN "none" ELSE journal[g.failing].pay.key.kind

\* _require_recovery_stage_order
StageOrder(g) ==
    LET inbound == ({g.batch} \ {0}) \cup g.facts
        auths == ({g.auth} \ {0}) \cup (IF FailedKind(g) = "auth" THEN {g.failing} ELSE {})
        gated == g.ledger # {} \/ g.refresh # 0
    IN /\ g.one
       /\ inbound \cup auths \cup ({g.failing, g.completion} \ {0}) # {}
       /\ g.auth # 0 => g.batch # 0 /\ Before(inbound, g.auth)
       /\ (auths # {} /\ gated) => g.refresh # 0 /\ \A n \in auths : g.refresh < n
       /\ gated => g.batch # 0 /\ \A l \in g.ledger : g.batch < l /\ Before(g.facts, l)
       /\ g.refresh # 0 => g.batch # 0 /\ Before(inbound \cup g.ledger, g.refresh)
       /\ g.completion # 0 =>
             /\ g.batch # 0
             /\ Before(inbound \cup g.ledger \cup ({g.auth, g.refresh} \ {0}), g.completion)

\* The dispatch groups follow one another: a group starts behind the completion before it.
Contiguous(d) ==
    \A m, n \in 1 .. Len(journal) :
        (journal[m].d < d /\ journal[n].d = d /\ journal[n].kind # "terminal") => m < n

\* The evidence of a recovered dispatch, before its failing transition (_recover_dispatch).
RecoveredActive(d, g) ==
    LET acked(i) == Pos(FactRec(d, i))
        outs == {i \in 1 .. Count[d] : <<d, i>> \in world.facts}
        handoff(i) == i \in outs /\ acked(i) # 0 /\ g.batch # 0
        prefix == {i \in 1 .. Count[d] : \A k \in 1 .. i : handoff(k)}
        complete == g.completion # 0
    IN [ActiveDispatch(d) EXCEPT
          !.batch = (d \in world.batches), !.batchAck = g.batch, !.out = outs,
          !.outAck = [i \in 1 .. Count[d] |-> acked(i)],
          !.led = IF Gate THEN prefix ELSE {},
          !.ledAck = [i \in 1 .. Count[d] |-> IF Gate THEN Pos(LedgerRec(d, i)) ELSE 0],
          !.authAck = g.auth, !.receipt = (d \in world.receipts),
          !.att = IF complete THEN journal[g.completion].frontier.att
                  ELSE IF g.auth # 0 THEN "authorized" ELSE "none"]

\* _recover_ledger_frontier: the permission of the refresh as the recovery derives it.
RecoveredPermission(st, halted, d, g) ==
    LET late == g.refresh # 0 /\ g.failing # 0 /\ g.failing < g.refresh
        retained == late /\ journal[g.failing].pay.key = journal[g.refresh]
        runs == IF retained THEN journal[g.refresh].permit = "yes"
                ELSE IF late THEN FALSE ELSE st.phase = "running" /\ d # FinalRoot
    IN Permit(~halted /\ runs)

LedgerFrontierAgrees(st, halted, d, g, a) ==
    LET permit == RecoveredPermission(st, halted, d, g)
        rebuilt == g.refresh # 0 \/ FailedKind(g) = "refresh"
    IN /\ g.refresh = 0 => g.auth = 0 /\ FailedKind(g) # "auth"
       /\ \A i \in 1 .. Count[d] : a.ledAck[i] # 0 => \A k \in 1 .. i : k \in a.led /\ a.ledAck[k] # 0
       /\ rebuilt => /\ AllAcked(a.ledAck) /\ \A i \in 1 .. Count[d] : Handoff(a, i)
                     /\ IF g.refresh # 0 THEN journal[g.refresh].permit = permit
                        ELSE journal[g.failing].pay.key = RefreshRec(d, permit)

\* _recover_failing_transition: the failing payload is recomputed from record positions.
FailingAgrees(st, d, g, a) ==
    LET f == g.failing
        pay == journal[f].pay
        key == pay.key
        keys == {BatchRec(d)} \cup {FactRec(d, i) : i \in a.out} \cup {LedgerRec(d, i) : i \in a.led}
                \cup (IF a.refresh # "none"
                          /\ (g.refresh = 0 \/ g.refresh < f \/ RefreshRec(d, a.refresh) = key)
                      THEN {RefreshRec(d, a.refresh)} ELSE {})
                \cup (IF key.kind = "completion" THEN {CompletionRec(d, CompletionPayload(st, a))}
                      ELSE {})
        acked == {k \in keys : Pos(k) # 0 /\ Pos(k) < f}
        baseline == {k \in keys : Pos(k) = 0 \/ Pos(k) > f \/ k = key}
                    \cup (IF key.kind = "auth" THEN {key} ELSE {})
        agrees(missing) ==
            LET pos == {Pos(k) : k \in acked \ missing}
            IN pay = [prev |-> st, batch |-> TRUE, missing |-> missing, key |-> key,
                      outAcks |-> {Pos(k) : k \in {x \in acked \ missing : x.kind = "fact"}},
                      head |-> IF pos = {} THEN st.head ELSE Max(pos)]
    IN /\ st.phase # "failing"
       /\ key.kind = "completion" =>
             a.batchAck # 0 /\ AllAcked(a.outAck) /\ key = CompletionRec(d, CompletionPayload(st, a))
       /\ key.kind = "refresh" => a.refresh # "none" /\ key = RefreshRec(d, a.refresh)
       /\ key.kind = "auth" => a.att = "none"
       /\ agrees(baseline) \/ (key \in acked /\ agrees(baseline \ {key}))

\* _recover_pre_batch_failing_transition
PreBatchPayload(st, d) ==
    FailingPayload(st, d, FALSE, {}, <<>>, st.head, PreBatchKey(d))

LifecycleRefused == [ok |-> FALSE]
Recovered(c, halted, applied) == [ok |-> TRUE, co |-> c, halted |-> halted, applied |-> applied]

\* The failing record was written before the dispatch had a batch.
FailedBeforeBatch(d, g) ==
    /\ g.failing # 0 /\ (g.batch = 0 \/ g.failing < g.batch)
    /\ journal[g.failing].pay.key = PreBatchKey(d)

\* The coordinator at the start of the dispatch: failing when there is no batch to resume.
EnteredDispatch(c, d, g) ==
    IF FailedBeforeBatch(d, g) \/ d \notin world.batches
    THEN [c EXCEPT !.st = FailingState(@, @.head),
                   !.failPay = FailingRec(d, PreBatchPayload(c.st, d)), !.failAck = g.failing]
    ELSE c

\* The evidence with the refresh that was recorded or that the failing record names.
RefreshedEvidence(st, halted, d, g, base) ==
    IF Gate /\ (g.refresh # 0 \/ FailedKind(g) = "refresh")
    THEN [base EXCEPT !.refresh = RecoveredPermission(st, halted, d, g),
                      !.refreshAck = g.refresh, !.published = (g.refresh # 0)]
    ELSE base

FailsLater(d, g) == g.failing # 0 /\ ~FailedBeforeBatch(d, g)

\* The coordinator behind the failing record of a dispatch that had its batch.
FailedDispatch(c, d, g) ==
    IF FailsLater(d, g)
    THEN [c EXCEPT !.st = FailingState(@, journal[g.failing].pay.head),
                   !.failPay = journal[g.failing], !.failAck = g.failing]
    ELSE c

RecoveredCompletion(entered, failed, g, a) ==
    IF FailedKind(g) = "completion" THEN CompletionPayload(entered.st, a)
    ELSE IF g.completion # 0 THEN CompletionPayload(failed.st, a) ELSE LifecycleNone

\* The dispatch is completed: its state, and at the end root the pre-terminal state.
ClosedDispatch(c, st, d) ==
    [c EXCEPT !.st = st,
              !.pre = IF d = FinalRoot
                      THEN [v |-> st.v + 1, failed |-> st.code, head |-> st.head,
                            final |-> IF Gate THEN d ELSE 0]
                      ELSE LifecycleNone]

\* The end of _recover_dispatch: an open dispatch needs its lease, a completed one its
\* acknowledgement or its lease.
ResumedDispatch(d, g, c, a, halted, applied) ==
    IF g.completion = 0
    THEN IF rt.lease = d THEN Recovered(WithAct(c, a), halted, applied) ELSE LifecycleRefused
    ELSE IF ~(AllAcked(a.outAck) /\ a.batchAck # 0 /\ journal[g.completion].frontier = a.comp)
    THEN LifecycleRefused
    ELSE IF rt.acked < d
    THEN IF rt.lease = d THEN Recovered(WithAct(c, a), halted, applied) ELSE LifecycleRefused
    ELSE Recovered(ClosedDispatch(c, CompletedState(c.st, a, c.failAck), d), halted, applied)

MatchedDispatch(d, g, entered, failed, base, a, halted, applied) ==
    IF ~(/\ Gate => LedgerFrontierAgrees(entered.st, halted, d, g, base)
         /\ FailsLater(d, g) => FailingAgrees(entered.st, d, g, a))
    THEN LifecycleRefused
    ELSE ResumedDispatch(d, g, failed,
                         [a EXCEPT !.comp = RecoveredCompletion(entered, failed, g, a),
                                   !.compAck = g.completion], halted, applied)

\* The dispatch d with the records g, on the coordinator c that captured its start.
GroupRecovered(d, g, c, entered, base, halted, applied) ==
    IF ~(/\ StageOrder(g) /\ Contiguous(d)
         /\ FailedBeforeBatch(d, g) => journal[g.failing].pay = PreBatchPayload(c.st, d))
    THEN LifecycleRefused
    ELSE IF d \notin world.batches
    THEN IF rt.lease = d /\ g.batch = 0 THEN Recovered(WithAct(entered, base), halted, applied)
         ELSE LifecycleRefused
    ELSE MatchedDispatch(d, g, entered, FailedDispatch(entered, d, g), base,
                         RefreshedEvidence(entered.st, halted, d, g, base), halted, applied)

EvidenceRecovered(r, d, g, c, base) ==
    GroupRecovered(d, g, c, EnteredDispatch(c, d, g), base,
                   r.halted \/ (Gate /\ Halts(base)),
                   r.applied \cup {<<d, i>> : i \in base.led})

\* _recover_dispatch on the coordinator recovered so far.
RecoverRecords(r, d, g) ==
    EvidenceRecovered(r, d, g, [r.co EXCEPT !.st = Capture(@, d)], RecoveredActive(d, g))
RecoverDispatch(r, d) == RecoverRecords(r, d, Group(d))

\* A lease without records behind the last group: a dispatch that fails before its batch.
LeaseRecovered(r, c) ==
    Recovered([c EXCEPT !.st = FailingState(@, @.head),
                 !.failPay = FailingRec(rt.lease, PreBatchPayload(c.st, rt.lease)),
                 !.failAck = 0,
                 !.act = [ActiveDispatch(rt.lease) EXCEPT
                            !.batch = (rt.lease \in world.batches)]],
              r.halted, r.applied)

GroupsRecovered(r, top) ==
    IF r.ok /\ r.co.act.d = 0 /\ rt.lease # 0
    THEN IF rt.lease # top + 1 THEN LifecycleRefused
         ELSE LeaseRecovered(r, [r.co EXCEPT !.st = Capture(@, rt.lease)])
    ELSE IF r.ok /\ r.co.st.last # rt.acked THEN LifecycleRefused ELSE r

\* recover_phase1_lifecycle_coordinator: the groups in order, then a lease without records.
Recovery ==
    LET top == Max0({journal[n].d : n \in 1 .. Len(journal)})
        upTo[d \in 0 .. top] ==
            IF d = 0 THEN Recovered(NewCoordinator, FALSE, {})
            ELSE LET r == upTo[d - 1]
                 IN IF ~r.ok \/ r.co.act.d # 0 THEN LifecycleRefused ELSE RecoverDispatch(r, d)
    IN GroupsRecovered(upTo[top], top)

LastRefresh ==
    LET refreshes == {n \in 1 .. Len(journal) : journal[n].kind = "refresh"}
    IN IF refreshes = {} THEN [d |-> 0, permit |-> "no"] ELSE journal[Max(refreshes)]
Recover ==
    /\ ~co.up /\ ~\E n \in 1 .. Len(journal) : journal[n].kind = "terminal"
    /\ \E r \in {Recovery} :
          /\ r.ok
          /\ co' = r.co
          /\ econ' = [applied |-> r.applied, halted |-> r.halted,
                      published |-> LastRefresh.d, permitted |-> LastRefresh.permit = "yes"]
    /\ UNCHANGED <<journal, pc, err, rt, world, faults>>

\* recover_phase1_terminal_evidence: the prefix recovers to a pre-terminal state whose
\* payload is the terminal record's; no authority is issued.
TerminalAgrees ==
    \E r \in {Recovery} : r.ok /\ r.co.pre = journal[Len(journal)].state

LifecycleInit ==
    /\ journal = <<>> /\ co = NewCoordinator /\ pc = At("idle") /\ err = FALSE
    /\ rt = [lease |-> 0, acked |-> 0]
    /\ world = [batches |-> {}, facts |-> {}, receipts |-> {}]
    /\ econ = FreshEcon /\ faults = 0

Step ==
    \/ BeginNextDispatch \/ ResumeActiveDispatch \/ Match \/ RetrySafety \/ AppendBatch
    \/ ProcessFact \/ LifecycleApplyHandoff \/ RefreshRisk \/ LifecyclePublish \/ LifecycleFinish \/ SuppressedSafety
    \/ PrepareAuthorization \/ SubmitAuthorizedOrder \/ CompleteActiveDispatch
    \/ RetryActiveDispatchCompletion \/ Acknowledge \/ FinishTerminalization \/ Recover

LifecycleNext == Step \/ LifecycleCrash
LifecycleSpec == LifecycleInit /\ [][LifecycleNext]_lifecycleVars

-----------------------------------------------------------------------------
(* Properties *)

LifecycleRecords == {journal[n] : n \in 1 .. Len(journal)}
HasTerminal == journal # <<>> /\ journal[Len(journal)].kind = "terminal"

\* Record, lease and phase domains of the coordinator and its journal.
LifecycleTypeOK ==
    /\ \A r \in LifecycleRecords : r.d \in 1 .. FinalRoot
    /\ rt.lease \in 0 .. FinalRoot /\ rt.acked \in 0 .. FinalRoot /\ faults \in 0 .. LifecycleMaxFaults
    /\ co.up => co.st.phase \in {"admitted", "running", "failing", "draining"}

\* docs/adr/0020, "Recovery boundary": a journal written by the coordinator is one its own
\* recovery accepts, wherever the process stopped and whichever append failed before.
RecoveryAccepts == IF HasTerminal THEN TerminalAgrees ELSE Recovery.ok

\* A root the runtime saw acknowledged is completely in the journal: its batch, then every
\* fact, then every ledger outcome and the refresh of a gated run, then its completion, no
\* matter which stages failed and were retried (_complete_active's order of effects).
AcknowledgedIsJournaled ==
    \A d \in 1 .. rt.acked :
        LET done == {n \in 1 .. Len(journal) : journal[n].kind = "completion" /\ journal[n].d = d}
            facts == {Pos(FactRec(d, i)) : i \in 1 .. Count[d]}
            led == {Pos(LedgerRec(d, i)) : i \in 1 .. Count[d]}
        IN \E c \in done :
              /\ done = {c} /\ Pos(BatchRec(d)) \in 1 .. c
              /\ \A f \in facts : f \in 1 .. c
              /\ Gate => \E b \in {"yes", "no"} :
                            LET n == Pos(RefreshRec(d, b))
                            IN n \in 1 .. c /\ \A l \in led : l \in 1 .. n /\ \A f \in facts : f < l

\* An order reaches the matcher only under a durable authorization that stands behind the
\* dispatch's batch and facts, with no failing transition before it, and in a gated run
\* behind a refresh that permitted it (prepare_submission_authorization, submit).
SubmissionIsAuthorized ==
    \A d \in world.receipts :
        LET p == Pos(AuthRec(d))
        IN /\ p # 0 /\ Pos(BatchRec(d)) \in 1 .. p
           /\ \A i \in 1 .. Count[d] : Pos(FactRec(d, i)) \in 1 .. p
           /\ \A n \in 1 .. p : journal[n].kind # "failing"
           /\ Gate => Pos(RefreshRec(d, "yes")) \in 1 .. p

\* The ledger only ever holds handoffs whose batch and fact outcome are durable, and a
\* durable ledger outcome is in the ledger of the process that is up, restarts included.
LedgerMatchesAudit ==
    /\ \A h \in econ.applied : Pos(FactRec(h[1], h[2])) # 0 /\ Pos(BatchRec(h[1])) # 0
    /\ (co.up /\ Gate) => \A r \in LifecycleRecords : r.kind = "ledger" => <<r.d, r.i>> \in econ.applied

\* docs/adr/0020: the states are "closed and monotone".  A journaled failing transition
\* marks the coordinator for good, across crashes, and the terminal record says so.
FailureSticks ==
    \A r \in LifecycleRecords : r.kind = "failing" =>
        /\ co.up => co.st.code /\ co.st.phase \in {"failing", "draining"}
        /\ HasTerminal => journal[Len(journal)].state.failed

\* Once a halting outcome is in the ledger no later dispatch submits an order.
HaltStopsOrders ==
    \A d \in world.receipts, h \in Halting : h[1] <= d => <<h[1], h[2]>> \notin econ.applied

\* The coordinator: a root is acknowledged only with its evidence journaled,
\* an order submitted only when authorized, the ledger is what the audit says,
\* a failure sticks and a halt stops orders.
LifecycleSafe ==
    /\ LifecycleTypeOK /\ AcknowledgedIsJournaled /\ SubmissionIsAuthorized
    /\ LedgerMatchesAudit /\ FailureSticks /\ HaltStopsOrders
=============================================================================
