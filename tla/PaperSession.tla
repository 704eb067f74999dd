---------------------------- MODULE PaperSession ----------------------------
(***************************************************************************)
(* The local paper trading session (product/paper.py): a strategy's        *)
(* long-only actions become orders, pass two safety gates, are submitted   *)
(* to the in-process paper broker, and the broker's facts become fills of  *)
(* the ledger.  Every stage appends to the audit journal before the next   *)
(* one runs, so the process can die between any two records.  Recovery     *)
(* (product/paper_recovery.py) classifies what the journal says was sent,  *)
(* and restore_paper_trading_session rebuilds a session from it.           *)
(*                                                                         *)
(* The journal is the sequence of the records recovery reads; everything   *)
(* else (session, broker, risk authority, queue) dies with the process.    *)
(* The portfolio is the sequence of orders filled: its length is the       *)
(* ledger's snapshot version and its parity the position.  A trade fact is *)
(* the order it fills and the market event it fills it at.                 *)
(***************************************************************************)
EXTENDS Integers, Sequences, FiniteSets

CONSTANTS
  MaxRoundTrips,      \* round trips the scenario allows
  SessionMaxMarkets,  \* bound: market events the source emits
  SessionMaxCrashes,  \* bound: deaths of the process
  Scopes              \* kill-switch scopes

ASSUME BoundsAssumption ==
  /\ MaxRoundTrips \in Nat \ {0} /\ SessionMaxMarkets \in Nat /\ SessionMaxCrashes \in Nat

VARIABLES
  mode,            \* the stream's phase, or what became of the process
  at,              \* the step of the dispatch being handled
  s,               \* the session's memory
  kill,            \* the kill-switch scopes that are halted
  sessionJournal,  \* the durable records
  sessionMarket,   \* market events so far
  sessionCrashes   \* deaths so far

sessionVars == <<mode, at, s, kill, sessionJournal, sessionMarket, sessionCrashes>>

Elems(q) == {q[k] : k \in DOMAIN q}
Of(k) == SelectSeq(sessionJournal, LAMBDA r : r.k = k)
MaxOrders == 2 * MaxRoundTrips
LastOr(q, d) == IF q = <<>> THEN d ELSE q[Len(q)]

SessionFresh ==
  [seq |-> 0, orders |-> <<>>, begun |-> {}, open |-> {}, filled |-> {},
   queue |-> <<>>, issued |-> 0, pending |-> 0, ledger |-> <<>>,
   committed |-> <<>>, seen |-> {}, halted |-> FALSE, signal |-> 0]

SessionInit ==
  /\ mode = "running" /\ at = "idle" /\ s = SessionFresh /\ kill = {}
  /\ sessionJournal = <<>> /\ sessionMarket = 0 /\ sessionCrashes = 0

Log(r) == sessionJournal' = Append(sessionJournal, r)
Flat == Len(s.ledger) % 2 = 0

----------------------------------------------------------------------------
(* The operator's kill switch: halting is idempotent, resuming needs a halt. *)
KillHalt(k) ==
  /\ kill' = kill \cup {k} /\ kill' # kill
  /\ UNCHANGED <<mode, at, s, sessionJournal, sessionMarket, sessionCrashes>>

KillResume(k) ==
  /\ k \in kill /\ kill' = kill \ {k}
  /\ UNCHANGED <<mode, at, s, sessionJournal, sessionMarket, sessionCrashes>>

----------------------------------------------------------------------------
(* Dispatch. *)

\* An exception in a callback: the facts already queued are still drained.
SessionRaise == mode' = "failing" /\ at' = "idle"

RequestStop == mode' = IF mode = "running" THEN "draining" ELSE mode

\* The broker fills every open order at this market and queues its trade.
Trades == {[k |-> "trade", o |-> o, m |-> sessionMarket + 1] : o \in s.open}
AsSeq(S) == IF S = {} THEN <<>> ELSE <<CHOOSE x \in S : TRUE>>

MatchAtBroker(t) ==
  [t EXCEPT !.filled = @ \cup s.open, !.open = {},
            !.queue = @ \o AsSeq(Trades), !.seq = @ + 1]

\* Conditions under which the strategy is asked for an action.
MayAct == /\ s.pending = 0 /\ Len(s.committed) \div 2 < MaxRoundTrips

\* A new signal, intent, decision and order, refused when the dispatch number
\* is not past the last signal's or the risk authority is halted.
Construct(t) ==
  IF s.issued >= MaxOrders THEN SessionRaise /\ s' = t /\ UNCHANGED sessionJournal
  ELSE IF t.seq <= s.signal
  THEN mode' = "collided" /\ at' = "idle" /\ s' = t /\ UNCHANGED sessionJournal
  ELSE LET o == [ver |-> Len(s.ledger), seq |-> t.seq, born |-> sessionCrashes,
                 side |-> IF Flat THEN "BUY" ELSE "SELL"]
       IN /\ s' = [t EXCEPT !.orders = Append(@, o), !.signal = t.seq]
          /\ Log([k |-> "construction", o |-> Len(s.orders) + 1, order |-> o])
          /\ at' = "built" /\ UNCHANGED mode

\* on_market up to the construction of an order.
Market ==
  /\ mode = "running" /\ at = "idle" /\ s.queue = <<>> /\ sessionMarket < SessionMaxMarkets
  /\ sessionMarket' = sessionMarket + 1
  /\ \E t \in {MatchAtBroker(s)} :
       \/ /\ kill # {}
          /\ RequestStop /\ at' = "refresh" /\ s' = t /\ UNCHANGED sessionJournal
       \/ /\ kill = {} /\ MayAct /\ Construct(t)
       \/ /\ kill = {}                                  \* HOLD, or not asked
          /\ at' = "refresh" /\ s' = t /\ UNCHANGED <<mode, sessionJournal>>
  /\ UNCHANGED <<kill, sessionCrashes>>

\* The safety gate's verdict, from conditions outside this model but for the
\* kill switch.
Verdicts == IF kill # {} THEN {"HALT"} ELSE {"ALLOW", "DENY", "HALT"}

\* The guard that sees a stop request, one that raises (a stale market, too
\* little cash), and a verdict other than ALLOW.
SessionRefused ==
  \/ SessionRaise /\ UNCHANGED <<s, sessionJournal>>
  \/ /\ mode' = "draining" /\ at' = "refresh" /\ UNCHANGED <<s, sessionJournal>>
  \/ \E v \in Verdicts \ {"ALLOW"} :
       /\ Log([k |-> "safety", v |-> v, o |-> Len(s.orders)])
       /\ IF v = "HALT" THEN s' = [s EXCEPT !.halted = TRUE] /\ RequestStop
          ELSE UNCHANGED <<s, mode>>
       /\ at' = "refresh"

\* First gate, then the durable authorization.
AuthorizeOrder ==
  /\ at = "built"
  /\ \/ SessionRefused
     \/ /\ "ALLOW" \in Verdicts
        /\ Log([k |-> "authorization", o |-> Len(s.orders)])
        /\ at' = "authorized" /\ UNCHANGED <<s, mode>>
  /\ UNCHANGED <<kill, sessionMarket, sessionCrashes>>

\* The broker's answer: full, accepted, or an exception with unknown effect.
Answers == IF Cardinality(s.open \cup s.filled) >= MaxOrders
           THEN {"definitely_not_submitted"} ELSE {"submitted", "uncertain"}

BeginSubmit(o) == o \notin s.begun

\* Second gate, the one submission attempt and its durable result.
Submit ==
  /\ at = "authorized"
  /\ \/ SessionRefused
     \/ \E o \in {Len(s.orders)}, a \in Answers :
          /\ "ALLOW" \in Verdicts /\ BeginSubmit(o)
          /\ Log([k |-> "result", o |-> o, state |-> a, run |-> sessionCrashes])
          /\ s' = [s EXCEPT !.begun = @ \cup {o}, !.issued = @ + 1, !.pending = o,
                            !.open = IF a = "submitted" THEN @ \cup {o} ELSE @,
                            !.queue = IF a = "submitted"
                                      THEN Append(@, [k |-> "ack", o |-> o, m |-> 0])
                                      ELSE @]
          /\ IF a = "submitted" THEN at' = "refresh" /\ UNCHANGED mode ELSE SessionRaise
  /\ UNCHANGED <<kill, sessionMarket, sessionCrashes>>

\* The risk refresh that acknowledges the ledger and ends the dispatch.
Refresh ==
  /\ at = "refresh"
  /\ Log([k |-> "refresh", seq |-> s.seq, ledger |-> s.ledger, halted |-> s.halted])
  /\ at' = "idle"
  /\ UNCHANGED <<mode, s, kill, sessionMarket, sessionCrashes>>

\* on_fact: the dispatch record first.
DispatchFact ==
  /\ mode \in {"running", "draining", "failing"} /\ at = "idle" /\ s.queue # <<>>
  /\ s' = [s EXCEPT !.seq = @ + 1]
  /\ Log([k |-> "dispatch", fact |-> s.queue[1]])
  /\ at' = "fact"
  /\ UNCHANGED <<mode, kill, sessionMarket, sessionCrashes>>

\* Whether a fact makes a fill: a trade the fact authority has not seen.
BookFact(f) == f.k = "trade" /\ f \notin s.seen

\* The fact is processed, applied to the ledger and acknowledged by a refresh;
\* a fill settles the pending order and is confirmed by a query, which
\* delivers the same trade once more.  A fill of another order, or any fact
\* under a halted risk authority, raises.
ApplyFact ==
  /\ at = "fact"
  /\ \E f \in {s.queue[1]} :
     /\ s' = IF BookFact(f)
             THEN [s EXCEPT !.queue = Append(Tail(@), f), !.ledger = Append(@, f.o),
                            !.committed = Append(@, f.o), !.pending = 0,
                            !.seen = @ \cup {f}]
             ELSE [s EXCEPT !.queue = Tail(@)]
     /\ Log([k |-> "refresh", seq |-> s.seq, ledger |-> s'.ledger, halted |-> s.halted])
     /\ mode' = IF s.halted \/ (BookFact(f) /\ s.pending # f.o) THEN "conflict" ELSE mode
  /\ at' = "idle"
  /\ UNCHANGED <<kill, sessionMarket, sessionCrashes>>

\* A stop request, the end of the source or a stalled source.
Stop ==
  /\ mode = "running" /\ at = "idle" /\ mode' = "draining"
  /\ UNCHANGED <<at, s, kill, sessionJournal, sessionMarket, sessionCrashes>>

\* What the run's reconciliation replays must be what was acknowledged.
Reconciled == s.committed = s.ledger

\* Drained: reconcile and write the terminal record; or fail after draining.
SessionClose ==
  /\ at = "idle" /\ s.queue = <<>>
  /\ \/ /\ mode = "draining" /\ mode' = IF Reconciled THEN "ended" ELSE "diverged"
        /\ sessionJournal' = IF Reconciled THEN Append(sessionJournal, [k |-> "terminal"]) ELSE sessionJournal
     \/ mode = "failing" /\ mode' = "down" /\ UNCHANGED sessionJournal
  /\ UNCHANGED <<at, s, kill, sessionMarket, sessionCrashes>>

Up == {"running", "draining", "failing"}

\* The process dies: its memory is lost, the journal stays.
SessionCrash ==
  /\ mode \in Up /\ sessionCrashes < SessionMaxCrashes
  /\ mode' = "down" /\ at' = "idle" /\ s' = SessionFresh /\ sessionCrashes' = sessionCrashes + 1
  /\ UNCHANGED <<kill, sessionJournal, sessionMarket>>

----------------------------------------------------------------------------
(* Recovery. *)

Ids == {r.o : r \in Elems(Of("authorization")) \cup Elems(Of("result"))}
       \cup {r.fact.o : r \in Elems(Of("dispatch"))}
FilledIn(o) == \E r \in Elems(Of("dispatch")) : r.fact.k = "trade" /\ r.fact.o = o
ResultOf(o) ==
  LET rs == SelectSeq(Of("result"), LAMBDA r : r.o = o)
  IN IF rs = <<>> THEN "none" ELSE rs[Len(rs)].state

\* The closed classification of one order, from the journal.
Classify(o) ==
  CASE FilledIn(o) -> "sent_confirmed"
    [] ResultOf(o) = "definitely_not_submitted" -> "definitely_not_sent"
    [] ResultOf(o) = "submitted" -> "sent_confirmed"
    [] OTHER -> "unknown"

LocalState(o) ==
  CASE FilledIn(o) -> "filled"
    [] Classify(o) = "definitely_not_sent" -> "not_sent"
    [] Classify(o) = "sent_confirmed" -> "open"
    [] OTHER -> "unknown"

\* What the local broker would answer, derived from the same records.
SessionObserved(o) == CASE FilledIn(o) -> "filled"
                 [] ResultOf(o) = "submitted" -> "submitted"
                 [] OTHER -> "unknown"

\* Broker observation against local state (an observed cancellation never
\* arises: the session cancels nothing).
ReconcileOrder(local, seen) ==
  CASE seen = "unknown" -> IF local \in {"unknown", "not_sent"} THEN "match"
                           ELSE IF local = "open" THEN "unknown" ELSE "broker_behind"
    [] seen = "submitted" -> CASE local = "open" -> "match"
                               [] local = "unknown" -> "local_behind"
                               [] local = "not_sent" -> "conflict"
                               [] OTHER -> "broker_behind"
    [] OTHER -> IF local = "filled" THEN "match" ELSE "local_behind"

\* The joint acceptance: no order diverges.
Divergent == {o \in Ids : ReconcileOrder(LocalState(o), SessionObserved(o))
                            \notin {"match", "local_behind"}}
Recovered == Divergent = {}
RecoveredFills == {o \in Ids \ Divergent : SessionObserved(o) = "filled"}

\* The fills of the journal: each distinct trade once, in dispatch order.
Fills ==
  LET d == Of("dispatch")
      first == {k \in DOMAIN d : /\ d[k].fact.k = "trade"
                                 /\ \A j \in 1..(k - 1) : d[j].fact # d[k].fact}
      nth(n) == CHOOSE k \in first : Cardinality({j \in first : j < k}) = n - 1
  IN [n \in 1..Cardinality(first) |-> d[nth(n)].fact.o]

Orders == [k \in DOMAIN Of("construction") |-> Of("construction")[k].order]

\* Restoration re-evaluates the k-th order with the first k - 1 fills applied;
\* the risk authority accepts it only at the snapshot it was planned on.
Reissuable == \A k \in DOMAIN Orders :
                Orders[k].ver = (IF k - 1 < Len(Fills) THEN k - 1 ELSE Len(Fills))

\* The last acknowledged refresh, if any, must be the replayed ledger under a
\* risk authority that is not halted.
FrontierMatches ==
  LET last == LastOr(Of("refresh"), [ledger |-> Fills, halted |-> FALSE])
  IN last.ledger = Fills /\ ~last.halted

\* The session rebuilt from the journal.
Restored ==
  LET begun == {o \in DOMAIN Orders : ResultOf(o) # "none"}
      sent == {o \in begun : ResultOf(o) = "submitted"}
      open == {o \in sent : ~FilledIn(o)}
  IN [SessionFresh EXCEPT !.seq = LastOr(Of("refresh"), [seq |-> 0]).seq,
                          !.orders = Orders, !.begun = begun, !.open = open,
                          !.filled = sent \ open, !.issued = Len(Orders),
                          !.pending = IF open = {} THEN 0 ELSE CHOOSE o \in open : \A p \in open : o <= p,
                          !.ledger = Fills, !.committed = Fills,
                          !.seen = {r.fact : r \in {x \in Elems(Of("dispatch")) : x.fact.k = "trade"}},
                          !.signal = IF Orders = <<>> THEN 0 ELSE Orders[Len(Orders)].seq]

\* Mutant of Restore: an authorized order without a result is sent again.
RestoreResubmits ==
  /\ mode = "down" /\ FrontierMatches /\ Reissuable
  /\ mode' = "running" /\ s' = Restored
  /\ at' = IF LastOr(sessionJournal, [k |-> "none"]).k = "authorization" THEN "authorized" ELSE at
  /\ UNCHANGED <<kill, sessionJournal, sessionMarket, sessionCrashes>>
\* restore_paper_trading_session.
Restore ==
  /\ mode = "down"
  /\ \/ ~FrontierMatches /\ mode' = "refused_frontier" /\ UNCHANGED s
     \/ FrontierMatches /\ ~Reissuable /\ mode' = "refused_orders" /\ UNCHANGED s
     \/ FrontierMatches /\ Reissuable /\ mode' = "running" /\ s' = Restored
  /\ UNCHANGED <<at, kill, sessionJournal, sessionMarket, sessionCrashes>>

----------------------------------------------------------------------------
Done == mode \notin Up \cup {"down"} /\ UNCHANGED sessionVars

SessionStep == \/ Market \/ AuthorizeOrder \/ Submit \/ Refresh \/ DispatchFact
               \/ ApplyFact \/ SessionClose

SessionNext ==
  \/ \E k \in Scopes : KillHalt(k) \/ KillResume(k)
  \/ SessionStep \/ Stop \/ SessionCrash \/ Restore \/ Done

SessionSpec == SessionInit /\ [][SessionNext]_sessionVars

----------------------------------------------------------------------------
SessionTypeOK ==
  /\ mode \in Up \cup {"down", "ended", "refused_frontier", "refused_orders",
                       "collided", "conflict", "diverged"}
  /\ at \in {"idle", "built", "authorized", "refresh", "fact"}
  /\ kill \subseteq Scopes /\ s.begun \subseteq DOMAIN s.orders
  /\ s.open \cap s.filled = {} /\ Cardinality(s.open) <= 1

(* An order's submission is attempted at most once in the life of the run,  *)
(* and only by the process that built it: after a death in the middle of a  *)
(* submission, whatever its broker effect, nothing sends the order again.   *)
NeverResent ==
  LET res == Of("result")
  IN /\ \A a, b \in DOMAIN res : a # b => res[a].o # res[b].o
     /\ \A a \in DOMAIN res : Orders[res[a].o].born = res[a].run

(* Every order is filled by at most one distinct trade over all restarts,   *)
(* and the recovered fills replay exactly those trades: no order the joint  *)
(* acceptance counts is missing or doubled (recover_paper_continuation's    *)
(* exactly_once).                                                           *)
FilledExactlyOnce ==
  /\ \A a, b \in DOMAIN Fills : a # b => Fills[a] # Fills[b]
  /\ Elems(Fills) = RecoveredFills

(* The position never goes short and never doubles: fills alternate between *)
(* a buy and a sell, across restarts, and every fill is of an order whose   *)
(* submission the journal shows as accepted.                                *)
LongOnly ==
  \A n \in DOMAIN Fills :
    /\ Orders[Fills[n]].side = IF n % 2 = 1 THEN "BUY" ELSE "SELL"
    /\ ResultOf(Fills[n]) = "submitted"

(* Between dispatches the session's fills, its ledger and its open order    *)
(* agree with the broker: a pending order is open there, or its trade is    *)
(* queued, and an order open at the broker is the pending one.              *)
BooksAgree ==
  mode \in {"running", "draining"} /\ at = "idle" =>
    /\ s.committed = s.ledger
    /\ s.pending # 0 => \/ s.pending \in s.open
                        \/ \E f \in Elems(s.queue) : f.k = "trade" /\ f.o = s.pending
    /\ s.open \subseteq {s.pending}
    /\ s.filled = Elems(s.ledger) \cup
                  {f.o : f \in {g \in Elems(s.queue) : g.k = "trade"}}

(* What a refresh acknowledged is never lost: the last acknowledged ledger  *)
(* is a prefix of the ledger of every session that runs, restored ones too, *)
(* and a session that ends has reconciled.                                  *)
AcknowledgedIsKept ==
  /\ mode \in Up \cup {"ended"} =>
       LET last == LastOr(Of("refresh"), [ledger |-> <<>>]).ledger
       IN /\ Len(last) <= Len(s.ledger)
          /\ SubSeq(s.ledger, 1, Len(last)) = last
  /\ mode \notin {"diverged", "conflict"}

(* The journal-derived broker observation never diverges from the scan of   *)
(* the same journal: a local attempt never needs outside reconciliation.    *)
LocalNeverDiverges == Recovered

(* A session that is stopping or failing gets to its end, unless it dies.   *)
StopSettles == mode \in {"draining", "failing"} ~> mode \notin {"draining", "failing"}

\* A paper session across crashes: no order is sent again, the local state
\* never diverges, a fill is booked once and kept, the position never goes
\* short, and the books agree.
SessionSafe ==
    /\ SessionTypeOK /\ NeverResent /\ LocalNeverDiverges /\ FilledExactlyOnce
    /\ LongOnly /\ BooksAgree /\ AcknowledgedIsKept
============================================================================
