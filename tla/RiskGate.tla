----------------------------- MODULE RiskGate -----------------------------
(***************************************************************************)
(* The gate between a strategy's order intents and executable orders: the  *)
(* risk authority (risk/authority.py) decides every intent once, under one *)
(* frozen policy and one portfolio snapshot, and the order authority       *)
(* (execution/authority.py) turns an approval into at most one order,      *)
(* after checking it again with its own copy of the policy.                *)
(*                                                                         *)
(* An intent is its canonical bytes: a record with its identity; two       *)
(* intents with one identity and different fields are an identity          *)
(* conflict.  Digests are the values they are digests of.  The identities  *)
(* a risk decision, an approval and an order get are sequence numbers from *)
(* 1 to RiskMaxSequence (2^64 - 1 in the code), 0 standing for an exhausted    *)
(* sequence.                                                               *)
(***************************************************************************)
EXTENDS Integers, Sequences, FiniteSets

CONSTANTS
  Intents,         \* intents callers submit: [id, inst, side, qty, ver, lineage]
  Snapshots,       \* portfolio snapshots: [ver, lineage, pos : instrument -> Int]
  Limits,          \* the policy: instrument -> [order, position]
  RiskQuantum,     \* the lot of every instrument
  RiskMaxSequence  \* the last number of the identity sequences

ASSUME PolicyAssumption ==
  /\ RiskQuantum \in Nat \ {0} /\ RiskMaxSequence \in Nat \ {0}
  /\ \A k \in DOMAIN Limits : /\ Limits[k].order \in Nat \ {0}
                              /\ Limits[k].position \in Nat

\* Identities are never 0, the side and the agreement of the lineages are closed sets, and
\* a snapshot has a position for every instrument the policy names.
ASSUME InputsAssumption ==
  /\ \A i \in Intents : /\ i.id \in Nat \ {0} /\ i.side \in {"BUY", "SELL"} /\ i.qty \in Int
                        /\ i.ver \in Nat /\ i.lineage \in {"same", "execution", "run"}
  /\ \A s \in Snapshots : s.ver \in Nat /\ \A k \in DOMAIN Limits : s.pos[k] \in Int

VARIABLES
  riskHalt,    \* the risk state: [reason, old, new]
  decNext,     \* the next decision number, 0 when none is left
  appNext,     \* the next approval number, 0 when none is left
  decided,     \* the results registered, in the order of their decisions
  ordNext,     \* the next order number
  riskOrders,  \* the orders created
  riskAnswer   \* the intent of the last evaluate call, and what the last call answered

riskVars == <<riskHalt, decNext, appNext, decided, ordNext, riskOrders, riskAnswer>>

----------------------------------------------------------------------------
RiskNoIntent == [id |-> 0]
RiskRunning == [reason |-> "none", old |-> RiskNoIntent, new |-> RiskNoIntent]
Raised == [kind |-> "RAISED"]
OrderId(o) == [kind |-> "ORDER", id |-> o.id]

Elems(s) == {s[k] : k \in DOMAIN s}
RiskHalted == riskHalt.reason # "none"
RiskExecutable == {"ALLOW", "RESIZE"}

RiskAdvance(n) == IF n = RiskMaxSequence THEN 0 ELSE n + 1

Min2(a, b) == IF a < b THEN a ELSE b

----------------------------------------------------------------------------
(* The risk authority. *)

\* Structural conditions: an intent that fails one is refused, not decided.
Structural(i) == i.lineage # "run" /\ i.qty > 0 /\ i.qty % RiskQuantum = 0

\* The reason for which an intent cannot be evaluated on a snapshot, or "".
LineageFailure(i, s) ==
  IF i.lineage = "execution" \/ s.lineage # "same" THEN "LINEAGE_MISMATCH"
  ELSE IF s.ver < i.ver THEN "STALE_PORTFOLIO_SNAPSHOT"
  ELSE IF s.ver > i.ver \/ \E k \in DOMAIN s.pos : s.pos[k] % RiskQuantum # 0
       THEN "LINEAGE_MISMATCH"
  ELSE ""

\* Mutant of SideCapacity: the position is not counted against its side.
SideCapacityFlat(inst, side, pos) == Limits[inst].position
SideCapacity(inst, side, pos) ==
  LET room == Limits[inst].position - (IF side = "BUY" THEN pos ELSE -pos)
  IN IF room < 0 THEN 0 ELSE room

\* Kind, reason and approved quantity of an intent the limits apply to.
Verdict(i, s) ==
  LET most == Limits[i.inst].order
      room == SideCapacity(i.inst, i.side, s.pos[i.inst])
      qty  == Min2(i.qty, Min2(most, room))
      byOrder == most < i.qty /\ most = qty
      byRoom  == room < i.qty /\ room = qty
  IN CASE qty = 0 -> <<"REJECT", "NO_POSITION_CAPACITY", 0>>
       [] qty = i.qty -> <<"ALLOW", "WITHIN_LIMITS", qty>>
       [] byOrder /\ byRoom -> <<"RESIZE", "ORDER_AND_POSITION", qty>>
       [] byOrder /\ ~byRoom -> <<"RESIZE", "ORDER", qty>>
       [] OTHER -> <<"RESIZE", "POSITION", qty>>

Evaluation(i, s) ==
  IF LineageFailure(i, s) # "" THEN <<"EVALUATION_FAILED", LineageFailure(i, s), 0>>
  ELSE IF RiskHalted THEN <<"REJECT", "HALTED", 0>>
  ELSE IF i.inst \notin DOMAIN Limits THEN <<"REJECT", "INSTRUMENT_NOT_CONFIGURED", 0>>
  ELSE Verdict(i, s)

\* An approval needs a number of its own; without one the evaluation fails (the
\* decisions run out first: approvals never outnumber them).
Registered(v) ==
  IF v[1] \in RiskExecutable /\ appNext = 0
  THEN <<"EVALUATION_FAILED", "APPROVAL_SEQUENCE_EXHAUSTED", 0>> ELSE v

\* The decision and its evidence.
RiskResult(i, s, v) ==
  [intent |-> i, snap |-> s, risk |-> IF RiskHalted THEN 1 ELSE 0,
   kind |-> v[1], reason |-> v[2], qty |-> v[3], dec |-> decNext,
   app |-> IF v[1] \in RiskExecutable THEN appNext ELSE 0]

Register(i, s) ==
  \E r \in {RiskResult(i, s, Registered(Evaluation(i, s)))} :
    /\ decided' = Append(decided, r)
    /\ decNext' = RiskAdvance(decNext)
    /\ appNext' = IF r.app # 0 THEN RiskAdvance(appNext) ELSE appNext
    /\ riskAnswer' = <<i, r>>
    /\ UNCHANGED riskHalt

EngageConflict(old, new) ==
  /\ riskHalt' = IF RiskHalted THEN riskHalt
                 ELSE [reason |-> "INTENT_IDENTITY_CONFLICT", old |-> old, new |-> new]
  /\ riskAnswer' = <<new, Raised>>

Known(i) == {r \in Elems(decided) : r.intent.id = i.id}

\* evaluate: replay, conflict, refusal or a new decision.
Evaluate(i, s) ==
  /\ \/ \E r \in Known(i) :
          \/ /\ r.intent = i
             /\ riskAnswer' = <<i, r>> /\ UNCHANGED <<riskHalt, decNext, appNext, decided>>
          \/ /\ r.intent # i
             /\ EngageConflict(r.intent, i) /\ UNCHANGED <<decNext, appNext, decided>>
     \/ /\ Known(i) = {} /\ Structural(i) /\ decNext # 0
        /\ Register(i, s)
     \/ /\ Known(i) = {} /\ ~(Structural(i) /\ decNext # 0)
        /\ riskAnswer' = <<i, Raised>> /\ UNCHANGED <<riskHalt, decNext, appNext, decided>>
  /\ UNCHANGED <<ordNext, riskOrders>>

\* engage_halt: the first halt stays; the conflict reason is internal.
EngageHalt(reason) ==
  /\ IF reason = "INTENT_IDENTITY_CONFLICT"
     THEN riskAnswer' = <<RiskNoIntent, Raised>> /\ UNCHANGED riskHalt
     ELSE /\ riskHalt' = IF RiskHalted THEN riskHalt
                         ELSE [reason |-> reason, old |-> RiskNoIntent, new |-> RiskNoIntent]
          /\ riskAnswer' = <<RiskNoIntent, [kind |-> "HALTED"]>>
  /\ UNCHANGED <<decNext, appNext, decided, ordNext, riskOrders>>

\* The canonical constructor of a risk state accepts the halt.
RiskStateValid ==
  LET conflict == riskHalt.reason = "INTENT_IDENTITY_CONFLICT"
  IN /\ conflict = (riskHalt.old # RiskNoIntent) /\ conflict = (riskHalt.new # RiskNoIntent)
     /\ conflict => riskHalt.old.id = riskHalt.new.id /\ riskHalt.old # riskHalt.new

----------------------------------------------------------------------------
(* The order authority. *)

\* The reasons and sequence transitions an executable result's evidence shows.
EvidenceOk(i, r) ==
  /\ r.intent = i /\ r.snap.ver = i.ver
  /\ r.dec # 0 /\ r.app # 0
  /\ r.reason \in (IF r.kind = "ALLOW" THEN {"WITHIN_LIMITS"}
                   ELSE {"ORDER", "POSITION", "ORDER_AND_POSITION"})

\* The order authority's own policy and lineage.
FrozenLineage(i) == i.lineage = "same"

\* What the frozen policy alone proves about an approved quantity.
StaticProof(i, r) ==
  /\ i.inst \in DOMAIN Limits
  /\ LET most == Limits[i.inst].order
         reduced == 0 < r.qty /\ r.qty < i.qty
     IN CASE r.kind = "ALLOW" -> r.qty = i.qty /\ i.qty <= most
          [] r.reason \in {"ORDER", "ORDER_AND_POSITION"} ->
               reduced /\ i.qty > most /\ r.qty = most
          [] OTHER -> reduced /\ r.qty < most

RiskHasIssued(i, r) == \E q \in Elems(decided) : q.intent = i /\ q = r

\* Records that occupy one of the identities a submission consumes.
Occupied(i, r) ==
  {o \in Elems(riskOrders) : \/ o.intent.id = i.id \/ o.result.dec = r.dec
                             \/ r.app # 0 /\ o.result.app = r.app}

\* Every check create_order makes of a submission that is no replay.
Creatable(i, r) ==
  /\ r.kind \in RiskExecutable /\ EvidenceOk(i, r) /\ FrozenLineage(i)
  /\ StaticProof(i, r) /\ RiskHasIssued(i, r) /\ ordNext # 0

CreateNew(i, r) ==
  \E o \in {[id |-> ordNext, intent |-> i, result |-> r]} :
    /\ riskOrders' = Append(riskOrders, o)
    /\ ordNext' = RiskAdvance(ordNext)
    /\ riskAnswer' = <<RiskNoIntent, OrderId(o)>>

\* create_order: the same order for the same bytes, a conflict for others.
RiskCreateOrder(i, r) ==
  /\ \/ \E o \in Occupied(i, r) :
          /\ riskAnswer' = IF Cardinality(Occupied(i, r)) = 1 /\ o.intent = i /\ o.result = r
                           THEN <<RiskNoIntent, OrderId(o)>> ELSE <<RiskNoIntent, Raised>>
          /\ UNCHANGED <<riskOrders, ordNext>>
     \/ Occupied(i, r) = {} /\ Creatable(i, r) /\ CreateNew(i, r)
     \/ /\ Occupied(i, r) = {} /\ ~Creatable(i, r)
        /\ riskAnswer' = <<RiskNoIntent, Raised>> /\ UNCHANGED <<riskOrders, ordNext>>
  /\ UNCHANGED <<riskHalt, decNext, appNext, decided>>

----------------------------------------------------------------------------
\* What callers hold: issued results, and copies of them that were altered.
Carriers ==
  Elems(decided) \cup
  UNION {{[r EXCEPT !.qty = @ + RiskQuantum], [r EXCEPT !.dec = RiskAdvance(@)],
          [r EXCEPT !.snap.pos = [k \in DOMAIN @ |-> 0]]} : r \in Elems(decided)}

RiskInit ==
  /\ riskHalt = RiskRunning /\ decNext = 1 /\ appNext = 1 /\ decided = <<>>
  /\ ordNext = 1 /\ riskOrders = <<>> /\ riskAnswer = <<RiskNoIntent, Raised>>

RiskNext ==
  \/ \E i \in Intents, s \in Snapshots : Evaluate(i, s)
  \/ \E reason \in {"OPERATOR", "INTENT_IDENTITY_CONFLICT"} : EngageHalt(reason)
  \/ \E i \in Intents, r \in Carriers : RiskCreateOrder(i, r)

RiskSpec == RiskInit /\ [][RiskNext]_riskVars

----------------------------------------------------------------------------
RiskTypeOK ==
  /\ riskHalt.reason \in {"none", "OPERATOR", "INTENT_IDENTITY_CONFLICT"}
  /\ {decNext, appNext, ordNext} \subseteq 0..RiskMaxSequence
  /\ \A r \in Elems(decided) : /\ r.intent \in Intents /\ r.snap \in Snapshots
                               /\ r.dec \in 1..RiskMaxSequence
                               /\ r.app \in 0..RiskMaxSequence

(* An approved quantity never moves the position of the snapshot it was     *)
(* decided on past the policy's limit on its side, never exceeds the order  *)
(* limit, and is never more than was asked: evaluate's minimum of the three *)
(* and _side_capacity, also when the position is already past the limit.    *)
ApprovalKeepsLimits ==
  \A o \in Elems(riskOrders) :
    LET i == o.intent
        pos == o.result.snap.pos[i.inst]
        lim == Limits[i.inst]
    IN /\ 0 < o.result.qty /\ o.result.qty <= i.qty /\ o.result.qty <= lim.order
       /\ i.side = "BUY" => pos + o.result.qty <= lim.position
       /\ i.side = "SELL" => -lim.position <= pos - o.result.qty

(* Every approval the risk authority issues passes the order authority's    *)
(* separate truth table and evidence check: no approval is issued that can  *)
(* never become an order (_require_static_policy_proof against evaluate).   *)
ApprovalIsOrderable ==
  \A r \in Elems(decided) :
    r.kind \in RiskExecutable => /\ EvidenceOk(r.intent, r) /\ FrozenLineage(r.intent)
                                 /\ StaticProof(r.intent, r)

(* One order for one intent, one decision and one approval, and every order *)
(* carries exactly a result the risk authority registered, whatever altered *)
(* copies were submitted and in whatever order.                             *)
OrderIsIssuedOnce ==
  /\ \A o \in Elems(riskOrders) : \E q \in Elems(decided) : q.intent = o.intent /\ q = o.result
  /\ \A a, b \in DOMAIN riskOrders :
       a # b => /\ riskOrders[a].intent.id # riskOrders[b].intent.id
                /\ riskOrders[a].result.dec # riskOrders[b].result.dec
                /\ riskOrders[a].result.app # riskOrders[b].result.app

(* Decision and approval numbers are given out without a gap or a repeat,   *)
(* and an approval number only to an executable decision, so that the       *)
(* evidence of the sequences (before, after) replays from the first one.    *)
SequencesAreDense ==
  LET approved == {r \in Elems(decided) : r.kind \in RiskExecutable}
  IN /\ \A k \in DOMAIN decided : decided[k].dec = k
     /\ decNext = IF Len(decided) = RiskMaxSequence THEN 0 ELSE Len(decided) + 1
     /\ {r.app : r \in approved} = 1..Cardinality(approved)
     /\ appNext = IF Cardinality(approved) = RiskMaxSequence THEN 0
                  ELSE Cardinality(approved) + 1

(* A halt for an identity conflict names two different intents with one     *)
(* identity, the first of which is the one decided; any other halt names    *)
(* none (the canonical risk state constructor accepts it).                  *)
HaltIsExplained ==
  /\ RiskStateValid
  /\ riskHalt.old # RiskNoIntent => \E r \in Elems(decided) : r.intent = riskHalt.old

(* After a halt nothing more is approved, the first halt's evidence stays,  *)
(* and what was decided before, and its replay, stays as it was.            *)
HaltIsFinal ==
  [][/\ RiskHalted => riskHalt' = riskHalt
     /\ SubSeq(decided', 1, Len(decided)) = decided
     /\ RiskHalted /\ Len(decided') > Len(decided) =>
          decided'[Len(decided')].kind \notin RiskExecutable]_riskVars

(* A caller is only ever given a result of exactly the intent it presented, *)
(* and presenting another intent under an identity already decided leaves   *)
(* the authority halted, whatever happened in between.                      *)
AnswerIsOfTheIntent ==
  /\ riskAnswer[2].kind \notin {"RAISED", "ORDER", "HALTED"} => riskAnswer[2].intent = riskAnswer[1]
  /\ \A r \in Elems(decided) :
       r.intent.id = riskAnswer[1].id /\ r.intent # riskAnswer[1] => RiskHalted

\* Risk and order authority: an approval keeps the limits and can become an
\* order, an order is issued once, the sequences have no gap, a halt is
\* explained and an answer is of its intent.
RiskSafe ==
    /\ RiskTypeOK /\ ApprovalKeepsLimits /\ ApprovalIsOrderable /\ OrderIsIssuedOnce
    /\ SequencesAreDense /\ HaltIsExplained /\ AnswerIsOfTheIntent
============================================================================
