--------------------------- MODULE SignalPlanning ---------------------------
(***************************************************************************)
(* From a market dispatch to an order intent: the signal authority         *)
(* (strategy/authority.py) gives each dispatch at most one signal, and the *)
(* planning authority (portfolio/planning.py) turns a signal into a target *)
(* position and, from the ledger as it stands, the one intent that leads   *)
(* there.  Both number what they issue, keep every answer to give it again *)
(* to a repeated call, and halt for good on the first contradiction.       *)
(*                                                                         *)
(* The runtime that dispatches, and the ledger that fills an intent, are   *)
(* external; a restart rebuilds both authorities from the durable orders   *)
(* (product/paper.py).  Digests are the values they are digests of.        *)
(***************************************************************************)
EXTENDS Integers, Sequences, FiniteSets

CONSTANTS
  PlanRoots,       \* market roots: [n, i, bar]
  PlanQuantities,  \* target quantities a policy may have
  Covered,         \* instruments of the policy
  MaxDispatch,     \* bound: dispatches of the runtime
  Top,             \* the largest number a sequence can give out
  MaxRestarts      \* bound: restarts

ASSUME BoundsAssumption ==
  /\ MaxDispatch \in Nat /\ Top \in Nat \ {0} /\ MaxRestarts \in Nat
  /\ PlanQuantities \subseteq Nat \ {0} /\ PlanQuantities # {}

VARIABLES
  dispatched,  \* the roots this process dispatched, by dispatch number
  planClock,   \* the last dispatch number
  S,           \* the signal authority
  P,           \* the planning authority
  ledger,      \* position per instrument, version, the order with an unresolved fill
  planOrders,  \* durable: the results with an intent, written as they are planned
  open,        \* the places in orders that may still be filled
  restarts,
  planAnswer   \* the answer to the last call

planVars == <<dispatched, planClock, S, P, ledger, planOrders, open, restarts, planAnswer>>

PlanInstruments == {r.i : r \in PlanRoots}
Directions == {"LONG", "SHORT", "FLAT"}
PlanNone == 0              \* an exhausted sequence, an absent number
PlanNoConflict == [kind |-> "none", at |-> 0, last |-> 0]

PlanAdvance(n) == IF n = Top THEN PlanNone ELSE n + 1

Empty == [x \in {} |-> PlanNone]
NewSignals(first, last) ==
  [next |-> first, last |-> last, conflict |-> PlanNoConflict, replay |-> Empty]
NewPlanner(first, last, q) ==
  [tnext |-> first, inext |-> first, last |-> last, conflict |-> PlanNoConflict,
   replay |-> Empty, q |-> q]

PlanInit ==
  /\ dispatched = Empty /\ planClock = 0
  /\ S = NewSignals(1, PlanNone)
  /\ \E q \in PlanQuantities : P = NewPlanner(1, PlanNone, q)
  /\ ledger = [pos |-> [i \in PlanInstruments |-> 0], ver |-> 0, unresolved |-> 0]
  /\ planOrders = <<>> /\ open = {} /\ restarts = 0
  /\ planAnswer = [call |-> "none"]

Put(f, k, v) == [x \in DOMAIN f \cup {k} |-> IF x = k THEN v ELSE f[x]]
Answer(call, how) == planAnswer' = [call |-> call, how |-> how]

----------------------------------------------------------------------------
(* The runtime. *)
Dispatch(r) ==
  /\ planClock < MaxDispatch
  /\ planClock' = planClock + 1 /\ dispatched' = Put(dispatched, planClock', r)
  /\ planAnswer' = [call |-> "dispatch"]
  /\ UNCHANGED <<S, P, ledger, planOrders, open, restarts>>

\* The lease proof: this root at this number is being dispatched now.
VerifyActive(r, n) == n = planClock /\ n \in DOMAIN dispatched /\ dispatched[n] = r

----------------------------------------------------------------------------
(* The signal authority. *)

\* The first contradiction halts the authority and stays its evidence.
PlanPublishConflict(a, kind, n) ==
  IF a.conflict = PlanNoConflict
  THEN [a EXCEPT !.conflict = [kind |-> kind, at |-> n, last |-> a.last]] ELSE a

PlanHalted(a) == a.conflict # PlanNoConflict

\* What decides a call before anything new is issued; same tells whether the
\* answer retained under key k is to this very submission.
Replayed(a, k, n, same(_)) ==
  CASE k \in DOMAIN a.replay /\ same(a.replay[k]) -> "replay"
    [] k \in DOMAIN a.replay -> "IDENTITY_REUSE"
    [] a.last # PlanNone /\ n <= a.last -> "NON_MONOTONE_DISPATCH"
    [] PlanHalted(a) -> "halted"
    [] OTHER -> "new"

IssueNew(r, n, d) == r.bar /\ S.next # PlanNone /\ VerifyActive(r, n)

PlanIssue(r, n, d) ==
  LET how == Replayed(S, n, n, LAMBDA g : g.root = r /\ g.dir = d)
      g == [id |-> S.next, root |-> r, n |-> n, dir |-> d]
  IN /\ \/ how \in {"replay", "halted"} /\ Answer("issue", how) /\ UNCHANGED S
        \/ /\ how \in {"IDENTITY_REUSE", "NON_MONOTONE_DISPATCH"}
           /\ S' = PlanPublishConflict(S, how, n) /\ Answer("issue", how)
        \/ /\ how = "new" /\ ~IssueNew(r, n, d)
           /\ Answer("issue", "refused") /\ UNCHANGED S
        \/ /\ how = "new" /\ IssueNew(r, n, d)
           /\ S' = [S EXCEPT !.next = PlanAdvance(@), !.last = n, !.replay = Put(@, n, g)]
           /\ Answer("issue", "issued")
     /\ UNCHANGED <<dispatched, planClock, P, ledger, planOrders, open, restarts>>

\* Every state the signal authority publishes passes its own document check.
SignalStateDocument ==
  /\ PlanHalted(S) => S.conflict.at \in 1..MaxDispatch
  /\ S.conflict.kind = "IDENTITY_REUSE" => S.conflict.at \in DOMAIN S.replay

----------------------------------------------------------------------------
(* The planning authority. *)
Abs(x) == IF x < 0 THEN -x ELSE x

SignedTarget(q, d) == CASE d = "FLAT" -> 0 [] d = "LONG" -> q [] OTHER -> -q

Delta(target, current) == target - current

Kind(delta) ==
  CASE ledger.unresolved # 0 -> "BLOCKED_UNRESOLVED_FILLS"
    [] delta = 0 -> "ALREADY_AT_TARGET"
    [] OTHER -> "INTENT_EMITTED"

PlanNoIntent == [id |-> PlanNone, side |-> "none", qty |-> 0]
PlanIntentOf(delta) ==
  [id |-> P.inext, side |-> IF delta > 0 THEN "BUY" ELSE "SELL", qty |-> Abs(delta)]

\* The result of planning signal g on the ledger as it stands.
PlanResult(g) ==
  LET target == SignedTarget(P.q, g.dir)
      delta == Delta(target, ledger.pos[g.root.i])
      emits == Kind(delta) = "INTENT_EMITTED"
  IN [signal |-> g, target |-> target, q |-> P.q, tid |-> P.tnext,
      tafter |-> PlanAdvance(P.tnext), ibefore |-> P.inext,
      iafter |-> IF emits THEN PlanAdvance(P.inext) ELSE P.inext,
      snapshot |-> ledger, delta |-> delta, kind |-> Kind(delta),
      intent |-> IF emits THEN PlanIntentOf(delta) ELSE PlanNoIntent]

\* The checks a result passes before it is published, of the outcome alone
\* and of its parts against each other.
OutcomeValid(r) ==
  /\ r.tid \in 1..Top /\ r.tafter = IF r.tid = Top THEN PlanNone ELSE r.tid + 1
  /\ IF r.kind = "INTENT_EMITTED"
     THEN /\ r.intent # PlanNoIntent /\ r.delta # 0 /\ r.ibefore # PlanNone
          /\ r.iafter = IF r.ibefore = Top THEN PlanNone ELSE r.ibefore + 1
     ELSE r.intent = PlanNoIntent /\ r.iafter = r.ibefore
  /\ r.kind = "ALREADY_AT_TARGET" => r.delta = 0

ResultValid(r) ==
  /\ r.delta = r.target - r.snapshot.pos[r.signal.root.i]
  /\ r.kind = (IF r.snapshot.unresolved # 0 THEN "BLOCKED_UNRESOLVED_FILLS"
               ELSE IF r.delta = 0 THEN "ALREADY_AT_TARGET" ELSE "INTENT_EMITTED")
  /\ r.intent # PlanNoIntent =>
       /\ r.intent.side = IF r.delta > 0 THEN "BUY" ELSE "SELL"
       /\ r.intent.qty = Abs(r.delta) /\ r.intent.id = r.ibefore

\* A signal the policy does not cover, or a sequence that ran out, is refused
\* before anything changes.
Plannable(g) ==
  /\ g.root.i \in Covered /\ P.tnext # PlanNone
  /\ Kind(Delta(SignedTarget(P.q, g.dir), ledger.pos[g.root.i])) = "INTENT_EMITTED"
       => P.inext # PlanNone

\* An emitted intent is written before anything else happens.
Written(r, published) ==
  IF r.intent = PlanNoIntent \/ ~published THEN UNCHANGED <<planOrders, open>>
  ELSE planOrders' = Append(planOrders, r) /\ open' = open \cup {Len(planOrders) + 1}

Plan(g) ==
  LET how == Replayed(P, g.id, g.n, LAMBDA r : r.signal = g)
      r == PlanResult(g)
  IN /\ \/ how \in {"replay", "halted"} /\ Answer("plan", how) /\ UNCHANGED <<P, planOrders, open>>
        \/ /\ how \in {"IDENTITY_REUSE", "NON_MONOTONE_DISPATCH"}
           /\ P' = PlanPublishConflict(P, how, g.n) /\ Answer("plan", how)
           /\ UNCHANGED <<planOrders, open>>
        \/ /\ how = "new" /\ ~Plannable(g)
           /\ Answer("plan", "refused") /\ UNCHANGED <<P, planOrders, open>>
        \/ /\ how = "new" /\ Plannable(g)
           /\ P' = IF OutcomeValid(r) /\ ResultValid(r)
                   THEN [P EXCEPT !.tnext = r.tafter, !.inext = r.iafter, !.last = g.n,
                                  !.replay = Put(@, g.id, r)]
                   ELSE P
           /\ Written(r, P' # P)
           /\ Answer("plan", IF P' = P THEN "preflight" ELSE "planned")
     /\ UNCHANGED <<dispatched, planClock, S, ledger, restarts>>

PlanningStateDocument ==
  /\ P.tnext \in 0..Top /\ P.inext \in 0..Top
  /\ PlanHalted(P) => P.conflict.at \in 1..MaxDispatch

\* The caller rebinds only with no order pending; one whose fill is
\* unresolved still is.
RebindFlatPolicy(q) ==
  /\ open = {} /\ ledger.unresolved = 0 /\ ~PlanHalted(P) /\ \A i \in PlanInstruments : ledger.pos[i] = 0
  /\ q # P.q /\ P' = [P EXCEPT !.q = q] /\ planAnswer' = [call |-> "rebind"]
  /\ UNCHANGED <<dispatched, planClock, S, ledger, planOrders, open, restarts>>

----------------------------------------------------------------------------
(* Handoff to the risk authority, the ledger, and restart. *)

\* The intent goes on only with the snapshot it was planned on.
RiskHandoff(r) == r.kind = "INTENT_EMITTED" /\ r.snapshot.ver = ledger.ver

Signed(x) == IF x.side = "BUY" THEN x.qty ELSE -x.qty

Booked(k) == [ledger EXCEPT !.pos[planOrders[k].signal.root.i] = @ + Signed(planOrders[k].intent),
                            !.ver = @ + 1, !.unresolved = 0]

\* The order is filled, or filled in a way the ledger cannot resolve yet.
PlanFill(k) ==
  /\ k \in open /\ RiskHandoff(planOrders[k]) /\ open' = open \ {k}
  /\ \/ ledger' = Booked(k)
     \/ ledger' = [ledger EXCEPT !.ver = @ + 1, !.unresolved = k]
  /\ planAnswer' = [call |-> "fill", k |-> k]
  /\ UNCHANGED <<dispatched, planClock, S, P, planOrders, restarts>>

Resolve ==
  /\ ledger.unresolved # 0 /\ ledger' = Booked(ledger.unresolved)
  /\ planAnswer' = [call |-> "fill", k |-> ledger.unresolved]
  /\ UNCHANGED <<dispatched, planClock, S, P, planOrders, open, restarts>>

\* A restart resumes the numbers after the durable orders, and the dispatch
\* number at the last refresh, which may precede the last order's dispatch.
Restart ==
  /\ restarts < MaxRestarts /\ restarts' = restarts + 1
  /\ LET n == Len(planOrders)
         last == IF n = 0 THEN PlanNone ELSE planOrders[n].signal.n
     IN /\ n < Top
        /\ S' = NewSignals(n + 1, last)
        /\ \E q \in PlanQuantities : P' = NewPlanner(n + 1, last, q)
        /\ \E c \in 0..planClock : c >= last - 1 /\ planClock' = c
  /\ dispatched' = Empty /\ open' = {} /\ planAnswer' = [call |-> "restart"]
  /\ UNCHANGED <<ledger, planOrders>>

----------------------------------------------------------------------------
\* A signal of this process, or one of the same identity and another direction.
Submitted == LET known == {S.replay[n] : n \in DOMAIN S.replay}
             IN known \cup {[g EXCEPT !.dir = d] : g \in known, d \in {"FLAT"}}

PlanNext ==
  \/ \E r \in PlanRoots : Dispatch(r)
  \/ \E r \in PlanRoots, n \in 1..planClock, d \in Directions : PlanIssue(r, n, d)
  \/ \E g \in Submitted : Plan(g)
  \/ \E q \in PlanQuantities : RebindFlatPolicy(q)
  \/ \E k \in open : PlanFill(k)
  \/ Resolve \/ Restart

PlanSpec == PlanInit /\ [][PlanNext]_planVars

----------------------------------------------------------------------------
PlanTypeOK ==
  /\ planClock \in 0..MaxDispatch /\ DOMAIN S.replay \subseteq 1..MaxDispatch
  /\ S.next \in 0..Top /\ P.q \in PlanQuantities
  /\ DOMAIN P.replay \subseteq 1..Top /\ restarts \in 0..MaxRestarts

(* A signal exists only for a bar the runtime dispatched under that number, *)
(* and the signal numbers of a process grow with its dispatches without a   *)
(* gap: no dispatch is signalled twice, none after the fact.                *)
SignalsAreOfDispatches ==
  /\ \A n \in DOMAIN S.replay :
       n \in DOMAIN dispatched /\ S.replay[n].root = dispatched[n] /\ dispatched[n].bar
  /\ \A m, n \in DOMAIN S.replay : m < n => S.replay[m].id < S.replay[n].id
  /\ \A n \in DOMAIN S.replay :
       (S.replay[n].id)..(IF S.next = PlanNone THEN Top ELSE S.next - 1)
         \subseteq {S.replay[m].id : m \in DOMAIN S.replay}

(* No planned result is lost to the authority's own checks: whatever the    *)
(* signal, the policy and the ledger, what it computes passes them.         *)
PreflightHolds ==
  planAnswer # [call |-> "plan", how |-> "preflight"] /\ SignalStateDocument
    /\ PlanningStateDocument

(* Filling an intent takes the position exactly to the target its signal    *)
(* asked for, under the policy it was planned with: no intent planned on an *)
(* older ledger, or twice for the same target, is ever filled.              *)
FillLandsOnTarget ==
  planAnswer.call = "fill" /\ ledger.unresolved = 0 =>
    LET r == planOrders[planAnswer.k]
    IN ledger.pos[r.signal.root.i] = SignedTarget(r.q, r.signal.dir)

(* Durable orders keep their identities over restarts: their intent numbers *)
(* are all different, and no order follows from a dispatch that an earlier  *)
(* order of another signal already used.                                    *)
OrdersAreDistinct ==
  \A j, k \in DOMAIN planOrders : j < k =>
    /\ planOrders[j].intent.id # planOrders[k].intent.id
    /\ planOrders[j].signal.n < planOrders[k].signal.n

(* A result is given once per signal and again unchanged: a replay after    *)
(* the ledger or the policy moved never changes what was planned.           *)
ResultsAreKept ==
  [][restarts' = restarts =>
       /\ \A k \in DOMAIN P.replay : k \in DOMAIN P'.replay /\ P'.replay[k] = P.replay[k]
       /\ \A n \in DOMAIN S.replay : n \in DOMAIN S'.replay /\ S'.replay[n] = S.replay[n]]_planVars

(* After the first contradiction an authority issues nothing more and its   *)
(* evidence stays that first one, until a restart.                          *)
HaltIsFirstAndFinal ==
  [][restarts' = restarts =>
       /\ PlanHalted(S) => S' = S
       /\ PlanHalted(P) => P' = P]_planVars

(* A policy changes only while the book is flat and nothing is on its way,  *)
(* so an open position was planned under the policy still in force, unless  *)
(* a restart rebound it.                                                    *)
PositionIsOfPolicy ==
  restarts = 0 /\ ledger.unresolved = 0 =>
    \A i \in PlanInstruments : ledger.pos[i] \in {0, P.q, -P.q}

\* Planning: signals are of dispatches, the preflight holds, a fill lands on
\* its target under the policy in force and orders are distinct, also after a
\* restart.
PlanSafe ==
    /\ PlanTypeOK /\ SignalsAreOfDispatches /\ PreflightHolds /\ FillLandsOnTarget
    /\ PositionIsOfPolicy /\ OrdersAreDistinct
=============================================================================
