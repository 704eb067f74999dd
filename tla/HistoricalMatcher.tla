--------------------------- MODULE HistoricalMatcher ---------------------------
(***************************************************************************)
(* The historical matcher (execution/matcher.py) and the evidence its      *)
(* published state must carry (core/historical_matching.py).               *)
(*                                                                         *)
(* Orders are submitted under the market root that caused them and wait    *)
(* for the next market root they are eligible for; the end of the run      *)
(* expires what still waits.  Submissions and dispatches are answered from *)
(* the record when they are repeated, and any other use of a taken identity *)
(* halts the matcher for good.                                             *)
(*                                                                         *)
(* Between its checks and its publication a call asks its verifiers, which *)
(* are callbacks: during one the state is fenced, and a verifier that comes *)
(* back into the matcher is remembered and halts it.                       *)
(*                                                                         *)
(* A root is its position in the runtime's order; End comes after them     *)
(* all.  Digests are the values they stand for.                            *)
(***************************************************************************)
EXTENDS Integers, Sequences, FiniteSets, SequencesExt

CONSTANTS MatcherOrders, Issued,                  \* the order contents a caller may hold, and those the authority issued
          MatcherId, OInst, OSeq, OAfter, Buys,   \* of an order
          LastRoot, Inst, Raw, EventAt, AvailAt,  \* of a market root
          CloseNum, CloseDen, Tick,               \* its close, and the price quantum
          SlipNum, SlipDen,                       \* slippage
          Latency,
          MaxSeq,                                 \* dispatch sequences in use
          MaxUint                                 \* the largest submission and fact sequence (2^64 - 1 in the code)

MatcherRoots == 1..LastRoot
MatcherEnd == LastRoot + 1
Seqs == 1..MaxSeq

ASSUME MatcherAssumption ==
    /\ Issued \subseteq MatcherOrders /\ Buys \subseteq MatcherOrders /\ MaxUint \in Nat \ {0}
    /\ \A r \in MatcherRoots : EventAt[r] <= AvailAt[r] /\ CloseDen > 0 /\ Tick > 0 /\ SlipDen > 0
    /\ \A r \in MatcherRoots \ {LastRoot} : AvailAt[r] <= AvailAt[r + 1]

VARIABLES subs,               \* the submission records, in order
          pending,            \* their positions still waiting
          matcherDisp,        \* the dispatch batches, in order
          matcherIssued,      \* the facts, in order
          nextSub, nextFact,  \* 0: the sequence is exhausted
          ended, conflict,
          matcherObserved,    \* the root seen under each dispatch sequence
          matcherActive,      \* the dispatch the runtime has open
          matcherCall,        \* the call in progress: its arguments and the callbacks still to make
          flagged             \* the callback came back into the matcher

state == <<subs, pending, matcherDisp, matcherIssued, nextSub, nextFact, ended, conflict, matcherObserved>>
matcherVars == <<state, matcherActive, matcherCall, flagged>>

MatcherNoConflict == [kind |-> "none", seq |-> 0, last |-> 0, pend |-> 0, sub |-> 0, fact |-> 0]
MatcherIdle == [op |-> "none", o |-> 0, root |-> 0, seq |-> 0, stages |-> <<>>]

MatcherInit ==
    /\ subs = <<>> /\ pending = {} /\ matcherDisp = <<>> /\ matcherIssued = <<>> /\ nextSub = 1 /\ nextFact = 1
    /\ ended = FALSE /\ conflict = MatcherNoConflict /\ matcherObserved = {}
    /\ matcherActive = [root |-> 0, seq |-> 0] /\ matcherCall = MatcherIdle /\ flagged = FALSE

MatcherAdvance(n) == IF n = MaxUint THEN 0 ELSE n + 1
LastDispatch == IF matcherDisp = <<>> THEN 0 ELSE matcherDisp[Len(matcherDisp)].seq

-----------------------------------------------------------------------------
(* Conflicts: the first one is kept, with the state it found *)

PublishConflict(kind, s) ==
    conflict' = IF conflict # MatcherNoConflict THEN conflict
                ELSE [kind |-> kind, seq |-> s, last |-> LastDispatch, pend |-> Cardinality(pending),
                      sub |-> nextSub, fact |-> nextFact]

MatcherHalted == conflict # MatcherNoConflict
KeepBooks == UNCHANGED <<subs, pending, matcherDisp, matcherIssued, nextSub, nextFact, ended, matcherObserved>>

-----------------------------------------------------------------------------
(* What the histories accept *)

\* _append_observed_dispatch_root: one root per sequence and one sequence per root, in order.
Observes(r, s) ==
    \/ <<s, r>> \in matcherObserved
    \/ /\ ~ended
       /\ \A p \in matcherObserved : p[1] # s /\ p[2] # r
       /\ \A p \in matcherObserved : (p[1] < s) = (p[2] < r)
       /\ r = MatcherEnd => \A p \in matcherObserved : p[1] < s

SubmissionAppends(r, s) ==
    /\ \A i \in 1..Len(subs) : subs[i].seq = s => subs[i].root = r
    /\ \A d \in 1..Len(matcherDisp) : matcherDisp[d].seq = s => matcherDisp[d].root = r
    /\ Observes(r, s)
    /\ subs # <<>> => s >= subs[Len(subs)].seq

DispatchAppends(r, s) ==
    /\ ~ended /\ \A d \in 1..Len(matcherDisp) : matcherDisp[d].seq < s /\ matcherDisp[d].root < r
    /\ \A i \in 1..Len(subs) : subs[i].seq = s => subs[i].root = r
    /\ Observes(r, s)

-----------------------------------------------------------------------------
(* Entering a call *)

\* The client submission key is the digest of the whole order, identity included: an order that
\* is new by its identity is new by its key.
ById(o) == {i \in 1..Len(subs) : MatcherId[subs[i].o] = MatcherId[o]}
MatcherBegin(op, o, r, s, stages) ==
    matcherCall' = [op |-> op, o |-> o, root |-> r, seq |-> s, stages |-> stages] /\ UNCHANGED <<state, matcherActive, flagged>>
Conflicts(kind, s) == PublishConflict(kind, s) /\ KeepBooks /\ UNCHANGED <<matcherActive, matcherCall, flagged>>

\* A repeated submission is answered with its receipt and changes nothing.
Submit(o, r, s) ==
    /\ matcherCall = MatcherIdle
    /\ \/ /\ \E i \in ById(o) : subs[i] # [o |-> o, root |-> r, seq |-> s]
          /\ Conflicts("submission_identity", s)
       \/ /\ ById(o) = {} /\ ~MatcherHalted /\ ~ended
          /\ MatcherBegin("submit", o, r, s, <<"bindings", "issuance", "dispatch", "authorization", "bindings">>)

DispatchCall(r, s) ==
    /\ matcherCall = MatcherIdle
    /\ \/ /\ \E d \in 1..Len(matcherDisp) : (matcherDisp[d].seq = s) # (matcherDisp[d].root = r)
          /\ Conflicts("dispatch_identity", s)
       \/ /\ \A d \in 1..Len(matcherDisp) : matcherDisp[d].seq # s /\ matcherDisp[d].root # r
          /\ ~MatcherHalted /\ ~ended
          /\ IF s <= LastDispatch THEN Conflicts("non_monotone_dispatch", s)
             ELSE MatcherBegin("dispatch", 0, r, s, <<"bindings", "dispatch", "bindings">>)

MatchActiveMarketRoot(r, s) == r \in MatcherRoots /\ DispatchCall(r, s)
ExpireAtActiveEnd(s) == DispatchCall(MatcherEnd, s)

-----------------------------------------------------------------------------
(* Publication *)

\* The close of the root, worsened by the slippage, to the nearest tick; half a tick goes against
\* the order.
Ticks(o, r) ==
    LET num == CloseNum[r] * SlipDen + (IF o \in Buys THEN 1 ELSE -1) * SlipNum * CloseNum[r]
        den == CloseDen * SlipDen * Tick
        rest == 2 * (num % den)
    IN  num \div den + (IF rest > den \/ (rest = den /\ o \in Buys) THEN 1 ELSE 0)

EligibleFor(o, causal, r) ==
    /\ OInst[o] = Inst[r] /\ Raw[r] /\ r > causal /\ EventAt[r] - OAfter[o] > Latency

\* Mutant of Eligible: an order may trade as soon as its own information is available.
EligibleAtOnce(r) ==
    {i \in pending : OInst[subs[i].o] = Inst[r] /\ Raw[r] /\ EventAt[r] >= OAfter[subs[i].o]}
Eligible(r) == {i \in pending : EligibleFor(subs[i].o, subs[i].root, r)}

MatcherRecords(r) == SetToSortSeq(IF r = MatcherEnd THEN pending ELSE Eligible(r), <)

Fact(i, r) == [sub |-> i, kind |-> IF r = MatcherEnd THEN "expiry" ELSE "trade", root |-> r,
               price |-> IF r = MatcherEnd THEN 0 ELSE Ticks(subs[i].o, r)]
MatcherFacts(r) == [k \in 1..Len(MatcherRecords(r)) |-> Fact(MatcherRecords(r)[k], r)]

\* The batch raises on an exhausted fact sequence and on a price outside the positive domain.
BatchOk(r, s) ==
    /\ MatcherRecords(r) # <<>> => nextFact # 0 /\ Len(MatcherRecords(r)) <= MaxUint - nextFact + 1
    /\ r # MatcherEnd => \A k \in 1..Len(MatcherRecords(r)) : MatcherFacts(r)[k].price > 0
    /\ DispatchAppends(r, s)

PublishBatch(r, s) ==
    /\ matcherIssued' = matcherIssued \o MatcherFacts(r)
    /\ nextFact' = IF MatcherRecords(r) = <<>> THEN nextFact
                   ELSE IF nextFact + Len(MatcherRecords(r)) = MaxUint + 1 THEN 0 ELSE nextFact + Len(MatcherRecords(r))
    /\ matcherDisp' = Append(matcherDisp, [seq |-> s, root |-> r, facts |-> Len(MatcherRecords(r))])
    /\ pending' = pending \ {MatcherRecords(r)[k] : k \in 1..Len(MatcherRecords(r))}
    /\ matcherObserved' = matcherObserved \cup {<<s, r>>} /\ ended' = (r = MatcherEnd)
    /\ UNCHANGED <<subs, nextSub, conflict>>

SubmissionOk(o, r, s) ==
    /\ OSeq[o] = s /\ r \in MatcherRoots /\ OAfter[o] = AvailAt[r] /\ OInst[o] = Inst[r]
    /\ nextSub # 0 /\ SubmissionAppends(r, s)

PublishSubmission(o, r, s) ==
    /\ subs' = Append(subs, [o |-> o, root |-> r, seq |-> s]) /\ pending' = pending \cup {nextSub}
    /\ nextSub' = MatcherAdvance(nextSub) /\ matcherObserved' = matcherObserved \cup {<<s, r>>}
    /\ UNCHANGED <<matcherDisp, matcherIssued, nextFact, ended, conflict>>

Publishable == IF matcherCall.op = "submit" THEN SubmissionOk(matcherCall.o, matcherCall.root, matcherCall.seq)
               ELSE BatchOk(matcherCall.root, matcherCall.seq)
Publish == IF matcherCall.op = "submit" THEN PublishSubmission(matcherCall.o, matcherCall.root, matcherCall.seq)
           ELSE PublishBatch(matcherCall.root, matcherCall.seq)

-----------------------------------------------------------------------------
(* Callbacks *)

\* The verifier comes back into the matcher; it is refused there and then.
Reenter == matcherCall # MatcherIdle /\ flagged' = TRUE /\ UNCHANGED <<state, matcherActive, matcherCall>>

\* What each verifier vouches for.
Vouches(stage) ==
    CASE stage = "issuance" -> matcherCall.o \in Issued
      [] stage = "dispatch" -> matcherActive = [root |-> matcherCall.root, seq |-> matcherCall.seq]
      [] OTHER -> TRUE

MatcherFinish == matcherCall' = MatcherIdle /\ flagged' = FALSE /\ UNCHANGED matcherActive
Abort == MatcherFinish /\ UNCHANGED state

Return ==
    /\ matcherCall # MatcherIdle /\ ~flagged /\ Vouches(Head(matcherCall.stages))
    /\ IF Len(matcherCall.stages) > 1
       THEN matcherCall' = [matcherCall EXCEPT !.stages = Tail(@)] /\ UNCHANGED <<state, matcherActive, flagged>>
       ELSE IF Publishable THEN Publish /\ MatcherFinish ELSE Abort

\* The callback ends, whatever it answers, and is found to have come back into the matcher.
Drifts == /\ matcherCall # MatcherIdle /\ flagged /\ PublishConflict("retained_binding_drift", matcherCall.seq)
          /\ KeepBooks /\ MatcherFinish

Fail == matcherCall # MatcherIdle /\ ~flagged /\ Abort

-----------------------------------------------------------------------------
(* The validators: a state that fails one cannot be published or read *)

FactsBefore(d) == FoldLeft(LAMBDA n, b : n + b.facts, 0, SubSeq(matcherDisp, 1, d))

\* _require_retained_state: the records, their indexes and the registry of facts agree.
Retained ==
    /\ pending \subseteq 1..Len(subs)
    /\ Cardinality({MatcherId[subs[i].o] : i \in 1..Len(subs)}) = Len(subs)
    /\ \A d, e \in 1..Len(matcherDisp) : d < e => matcherDisp[d].seq < matcherDisp[e].seq /\ matcherDisp[d].root # matcherDisp[e].root
    /\ ended => pending = {} /\ matcherDisp[Len(matcherDisp)].root = MatcherEnd

\* The observed roots, rebuilt from the receipts and the batches, are in order and the ones kept.
ObservedRebuilt == {<<subs[i].seq, subs[i].root>> : i \in 1..Len(subs)}
                   \cup {<<matcherDisp[d].seq, matcherDisp[d].root>> : d \in 1..Len(matcherDisp)}
HistoryValid ==
    /\ \A p, q \in ObservedRebuilt : (p[1] < q[1]) = (p[2] < q[2])
    /\ matcherObserved = ObservedRebuilt /\ FactsBefore(Len(matcherDisp)) = Len(matcherIssued)
    /\ \A d \in 1..Len(matcherDisp) : matcherDisp[d].root = MatcherEnd => d = Len(matcherDisp)

\* The receipts are the orders still waiting and the orders with a fact; the sequences count them.
PartitionValid ==
    /\ nextSub = MatcherAdvance(Len(subs)) /\ nextFact = MatcherAdvance(Len(matcherIssued))
    /\ Cardinality({matcherIssued[k].sub : k \in 1..Len(matcherIssued)}) = Len(matcherIssued)
    /\ pending = (1..Len(subs)) \ {matcherIssued[k].sub : k \in 1..Len(matcherIssued)}
    /\ ended = (matcherDisp # <<>> /\ matcherDisp[Len(matcherDisp)].root = MatcherEnd)

\* The conflict's snapshot is the state's own.
ConflictValid ==
    /\ MatcherHalted => /\ conflict.last = LastDispatch /\ conflict.pend = Cardinality(pending)
                        /\ conflict.sub = nextSub /\ conflict.fact = nextFact
    /\ conflict.kind = "non_monotone_dispatch" =>
          conflict.seq < conflict.last /\ \A d \in 1..Len(matcherDisp) : matcherDisp[d].seq # conflict.seq
    /\ conflict.kind = "dispatch_identity" => matcherDisp # <<>>
    /\ conflict.kind = "submission_identity" => subs # <<>>

-----------------------------------------------------------------------------
(* The runtime: the next root becomes the active dispatch *)

MatcherActivate(r, s) ==
    /\ matcherCall = MatcherIdle /\ r > matcherActive.root /\ s > matcherActive.seq
    /\ matcherActive' = [root |-> r, seq |-> s] /\ UNCHANGED <<state, matcherCall, flagged>>

MatcherNext ==
    \/ \E o \in MatcherOrders, r \in MatcherRoots, s \in Seqs : Submit(o, r, s)
    \/ \E r \in MatcherRoots, s \in Seqs : MatchActiveMarketRoot(r, s)
    \/ \E s \in Seqs : ExpireAtActiveEnd(s)
    \/ \E r \in MatcherRoots \cup {MatcherEnd}, s \in Seqs : MatcherActivate(r, s)
    \/ Reenter \/ Return \/ Drifts \/ Fail

MatcherSpec == MatcherInit /\ [][MatcherNext]_matcherVars

-----------------------------------------------------------------------------
(* Properties *)

MatcherTypeOK ==
    /\ pending \subseteq 1..Len(subs) /\ nextSub \in 0..MaxUint /\ nextFact \in 0..MaxUint
    /\ \A i \in 1..Len(subs) : subs[i].o \in Issued /\ subs[i].root \in MatcherRoots
    /\ matcherCall.op \in {"none", "submit", "dispatch"} /\ flagged \in BOOLEAN /\ (flagged => matcherCall # MatcherIdle)

\* Every state the matcher publishes passes its own validators: no sequence of calls, refused
\* or accepted, makes the matcher find its retained state inconsistent or its snapshot invalid.
StateIsValid == Retained /\ HistoryValid /\ PartitionValid /\ ConflictValid

\* No trade looks ahead: the bar an order trades in began to be known only after everything the
\* order was decided on, and at least the policy's latency later.
NoLookAhead ==
    \A k \in 1..Len(matcherIssued) : matcherIssued[k].kind = "trade" =>
        LET i == matcherIssued[k].sub
        IN  /\ matcherIssued[k].root > subs[i].root
            /\ EventAt[matcherIssued[k].root] > AvailAt[subs[i].root] + Latency

\* An order is good for the next eligible market event: no batch whose root it was eligible for
\* leaves it waiting, so no trade comes from a later root than the first.
TradesAtFirstEligible ==
    \A i \in 1..Len(subs), d \in 1..Len(matcherDisp) :
        matcherDisp[d].root \in MatcherRoots /\ EligibleFor(subs[i].o, subs[i].root, matcherDisp[d].root) =>
            \E k \in 1..FactsBefore(d) : matcherIssued[k].sub = i

\* A trade's price is a tick nearest to the slipped close, and never in the order's favour when
\* two ticks are equally near.
PriceIsAdverse ==
    \A k \in 1..Len(matcherIssued) : matcherIssued[k].kind = "trade" =>
        LET o == subs[matcherIssued[k].sub].o
            sign == IF o \in Buys THEN 1 ELSE -1
            num == CloseNum[matcherIssued[k].root] * (SlipDen + sign * SlipNum)
            den == CloseDen * SlipDen * Tick
            off == 2 * (matcherIssued[k].price * den - num) * sign
        IN  off <= den /\ off > 0 - den

\* A halt is for good: nothing is taken, traded or expired afterwards, and the evidence of the
\* first conflict stays.
HaltFreezes == [][MatcherHalted => UNCHANGED state]_matcherVars

\* A verifier that came back into the matcher never leads to a publication: its call ends halted.
ReentryHalts == [][flagged /\ ~flagged' => conflict' # MatcherNoConflict]_matcherVars

\* The matcher: no order trades on what was known when it was decided, it
\* trades at the first eligible bar and at no price in its favour, and the state
\* is valid after every call.
MatcherSafe ==
    /\ MatcherTypeOK /\ NoLookAhead /\ TradesAtFirstEligible /\ PriceIsAdverse
    /\ StateIsValid
=============================================================================
