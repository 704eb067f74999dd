---------------------------- MODULE ExecutionFacts ----------------------------
(***************************************************************************)
(* The execution fact authority (execution/fact_authority.py) and the      *)
(* snapshots it publishes (core/execution_state.py).                       *)
(*                                                                         *)
(* Venues report facts about orders: trades, lifecycle changes, answers to *)
(* submission queries.  They arrive in any order, twice, contradicting     *)
(* each other, naming the order by its identity, by its client submission  *)
(* key or only by the venue's own identity for it.  Every ingress is       *)
(* classified once; a trade becomes one fill; the projection of its order  *)
(* moves; whatever does not fit asks for a halt and reconciliation.        *)
(*                                                                         *)
(* A fact is a body (what it says) under a deduplication key.  An ingress  *)
(* seen before is answered from the record and changes nothing, so it is   *)
(* not an action here.                                                     *)
(***************************************************************************)
EXTENDS Integers, Sequences, FiniteSets, FiniteSetsExt

CONSTANTS ReportOrders, Venues, ReportNone,
          Quantity,    \* the quantity of every order
          Bodies,      \* what the venue may report
          MaxIngress,  \* bound on the ingresses processed
          MaxFill      \* the largest fill sequence (2^64 - 1 in the code)

ReportLifecycle == [acknowledgement |-> "acknowledged", rejection |-> "rejected",
                    expiry |-> "expired", cancellation |-> "cancelled"]
Query == [confirmed_submitted |-> "submitted", confirmed_not_submitted |-> "definitely_not_submitted",
          confirmed_rejected |-> "rejected", confirmed_filled |-> "filled",
          still_unknown |-> "none"]
Kinds == {"trade"} \cup DOMAIN ReportLifecycle \cup DOMAIN Query

\* order, client, venue: the names the fact gives; corr: it names the correlation as well;
\* agrees: instrument, side, fee and correlation are the order's; valid: the run's context.
Body == [kind : Kinds, qty : 0..Quantity + 1, order : ReportOrders \cup {ReportNone}, client : ReportOrders \cup {ReportNone},
         venue : Venues \cup {ReportNone}, corr : BOOLEAN, agrees : BOOLEAN, valid : BOOLEAN]

ASSUME FactsAssumption ==
    /\ Bodies \subseteq Body /\ MaxIngress \in Nat /\ MaxFill \in Nat /\ Quantity \in Nat \ {0}
    /\ ReportNone \notin ReportOrders \cup Venues
    /\ \A b \in Bodies : /\ (b.kind = "trade") <=> (b.qty > 0)
                         /\ b.kind \in DOMAIN Query => b.order # ReportNone /\ b.client = b.order /\ b.corr

VARIABLES reportIssued,    \* orders the order authority has issued
          known,           \* fact_index: per key, the body first seen
          venue,           \* venue_index: per venue identity, its order
          proj,            \* projection_index
          reportObserved,  \* observed_quantity
          reportFills,     \* the fills, in order
          reportOutcomes,  \* per ingress: its key, action and anomalies
          reportHalt

reportVars == <<reportIssued, known, venue, proj, reportObserved, reportFills, reportOutcomes, reportHalt>>

Terminal == {"filled", "rejected", "expired", "cancelled", "definitely_not_submitted"}
Allowed == [submitted |-> {"acknowledged", "rejected", "partially_filled", "filled", "expired", "cancelled"},
            acknowledged |-> {"partially_filled", "filled", "expired", "cancelled"},
            partially_filled |-> {"partially_filled", "filled", "expired", "cancelled"}]
NoProj == [state |-> "none", qty |-> 0, version |-> 0, venue |-> ReportNone]

ReportInit ==
    /\ reportIssued = {} /\ known = <<>> /\ venue = [v \in Venues |-> ReportNone]
    /\ proj = [o \in ReportOrders |-> NoProj] /\ reportObserved = [o \in ReportOrders |-> 0]
    /\ reportFills = <<>> /\ reportOutcomes = <<>> /\ reportHalt = FALSE

-----------------------------------------------------------------------------
(* Resolution of the order *)

Found(o) == IF o \in reportIssued THEN o ELSE ReportNone
BaseNames(f) == {f.order, f.client} \ {ReportNone}
BaseOrders(f) == {Found(o) : o \in BaseNames(f)}
BaseCoherent(f) == BaseNames(f) # {} /\ ReportNone \notin BaseOrders(f) /\ Cardinality(BaseOrders(f)) = 1
BaseOrder(f) == CHOOSE o \in BaseOrders(f) : TRUE

VenueUnmapped(f) == f.venue # ReportNone /\ venue[f.venue] = ReportNone /\ BaseCoherent(f)
\* The order already goes by another venue identity.
VenueConflict(f) == VenueUnmapped(f) /\ \E v \in Venues : venue[v] = BaseOrder(f)
Staged(f) == VenueUnmapped(f) /\ ~VenueConflict(f)

VenueOrder(f) == IF f.venue = ReportNone THEN ReportNone
                 ELSE IF Staged(f) THEN BaseOrder(f) ELSE venue[f.venue]
Resolved(f) == (BaseOrders(f) \cup {VenueOrder(f)}) \ {ReportNone}
ReportSelected(f) == IF Cardinality(Resolved(f)) = 1 THEN CHOOSE o \in Resolved(f) : TRUE ELSE ReportNone

Contradicts(f, o) == ~f.agrees \/ \E n \in BaseNames(f) : n # o

BindingConflict(f) ==
    \/ Cardinality(Resolved(f)) > 1 \/ VenueConflict(f)
    \/ ReportNone \in BaseOrders(f) /\ BaseOrders(f) # {ReportNone}
    \/ ReportSelected(f) # ReportNone /\ Contradicts(f, ReportSelected(f))

ResolutionAnomalies(f) ==
    (IF Resolved(f) = {} THEN {"unknown_order"} ELSE {})
    \cup (IF BindingConflict(f) THEN {"order_binding_conflict"} ELSE {})
    \cup (IF f.kind = "trade" /\ (f.order = ReportNone \/ ~f.corr) THEN {"missing_ancestry"} ELSE {})

-----------------------------------------------------------------------------
(* Projection of the selected order *)

Observed(f, o) == reportObserved[o] + f.qty
Least(a, b) == IF a < b THEN a ELSE b

TargetState(f, o) ==
    CASE f.kind = "trade" -> IF Observed(f, o) < Quantity THEN "partially_filled" ELSE "filled"
      [] f.kind \in DOMAIN ReportLifecycle -> ReportLifecycle[f.kind]
      [] f.kind \in DOMAIN Query -> Query[f.kind]

TargetQuantity(f, o) ==
    IF TargetState(f, o) = "filled" THEN Quantity ELSE Least(Observed(f, o), Quantity)

\* Mutant of EvidenceAnomalies: more traded than ordered is not noticed.
EvidenceIgnoresOverfill(f, o) ==
    (IF f.kind = "still_unknown" THEN {"insufficient_projection_evidence"} ELSE {})
    \cup (IF f.kind = "confirmed_filled" /\ Observed(f, o) < Quantity
          THEN {"confirmed_fill_without_trade"} ELSE {})
EvidenceAnomalies(f, o) ==
    (IF f.kind = "trade" /\ Observed(f, o) > Quantity THEN {"overfill"} ELSE {})
    \cup (IF f.kind = "still_unknown" THEN {"insufficient_projection_evidence"} ELSE {})
    \cup (IF f.kind = "confirmed_filled" /\ Observed(f, o) < Quantity
          THEN {"confirmed_fill_without_trade"} ELSE {})

Closed(o) == proj[o].state \in Terminal
Moves(f, o) ==
    /\ ~Closed(o) /\ TargetState(f, o) # "none"
    /\ proj[o].state \in {"none", TargetState(f, o)} \/ TargetState(f, o) \in Allowed[proj[o].state]

ProjectionAnomalies(f, o) ==
    EvidenceAnomalies(f, o)
    \cup (IF Closed(o) /\ f.kind = "trade" THEN {"late_after_terminal"} ELSE {})
    \cup (IF Closed(o) /\ f.kind # "trade" /\ TargetState(f, o) \notin {"none", proj[o].state}
          THEN {"terminal_state_conflict"} ELSE {})
    \cup (IF ~Closed(o) /\ TargetState(f, o) # "none" /\ ~Moves(f, o)
          THEN {"projection_transition_conflict"} ELSE {})

ProjectionVenue(f, o) ==
    IF proj[o].venue # ReportNone THEN proj[o].venue
    ELSE IF f.venue # ReportNone /\ VenueOrder(f) = o THEN f.venue ELSE ReportNone

\* The snapshot after the fact; an unchanged projection keeps its version.
After(f, o) ==
    IF ~Moves(f, o) THEN proj[o]
    ELSE LET p == [state |-> TargetState(f, o), qty |-> TargetQuantity(f, o),
                   version |-> proj[o].version, venue |-> ProjectionVenue(f, o)]
         IN  IF p = proj[o] THEN p ELSE [p EXCEPT !.version = @ + 1]

\* create_order_projection_snapshot refuses any other quantity for the state.
SnapshotOk(p) ==
    /\ p.qty \in 0..Quantity
    /\ p.state = "partially_filled" => p.qty \in 1..Quantity - 1
    /\ p.state = "filled" => p.qty = Quantity
    /\ p.state \in {"submitted", "acknowledged", "rejected", "definitely_not_submitted"} => p.qty = 0
    /\ p.state \in {"expired", "cancelled"} => p.qty < Quantity

-----------------------------------------------------------------------------
(* Processing *)

ReportOutcome(k, action, anomalies) == [key |-> k, action |-> action, anomalies |-> anomalies]

ReportPublish(o) == reportOutcomes' = Append(reportOutcomes, o) /\ reportHalt' = (reportHalt \/ o.action \notin {"accepted", "duplicate"})

\* The key is known: the same fact again, or another one under its key.
ShortCircuit(k, f) ==
    /\ k \in 1..Len(known)
    /\ ReportPublish(ReportOutcome(k, IF known[k] = f THEN "duplicate" ELSE "conflict", {}))
    /\ UNCHANGED <<reportIssued, known, venue, proj, reportObserved, reportFills>>

Invalid(k, f) ==
    /\ k = Len(known) + 1 /\ ~f.valid
    /\ known' = Append(known, f)
    /\ ReportPublish(ReportOutcome(k, "invalid", {"context_invalid"}))
    /\ UNCHANGED <<reportIssued, venue, proj, reportObserved, reportFills>>

Projects(f) == ReportSelected(f) # ReportNone /\ ~BindingConflict(f)
Anomalies(f) == ResolutionAnomalies(f)
                \cup (IF Projects(f) THEN ProjectionAnomalies(f, ReportSelected(f)) ELSE {})
Raises(f) == \/ f.kind = "trade" /\ Len(reportFills) >= MaxFill
             \/ Projects(f) /\ ~SnapshotOk(After(f, ReportSelected(f))) /\ After(f, ReportSelected(f)) # proj[ReportSelected(f)]

\* Mutant of FillsAfter: only a trade whose order is resolved is booked.
FillsAfterResolved(k, f) ==
    IF f.kind = "trade" /\ Projects(f) THEN Append(reportFills, [key |-> k, order |-> f.order, qty |-> f.qty])
    ELSE reportFills
\* A trade has its fill whether or not its order is resolved.
FillsAfter(k, f) ==
    IF f.kind = "trade" THEN Append(reportFills, [key |-> k, order |-> f.order, qty |-> f.qty]) ELSE reportFills

FirstFact(k, f) ==
    /\ k = Len(known) + 1 /\ f.valid /\ ~Raises(f)
    /\ known' = Append(known, f)
    /\ ReportPublish(ReportOutcome(k, IF Anomalies(f) = {} THEN "accepted" ELSE "unresolved", Anomalies(f)))
    /\ reportFills' = FillsAfter(k, f)
    /\ venue' = IF Staged(f) /\ Projects(f) THEN [venue EXCEPT ![f.venue] = ReportSelected(f)] ELSE venue
    /\ proj' = IF Projects(f) THEN [proj EXCEPT ![ReportSelected(f)] = After(f, ReportSelected(f))] ELSE proj
    /\ reportObserved' = IF Projects(f) THEN [reportObserved EXCEPT ![ReportSelected(f)] = Observed(f, ReportSelected(f))]
                         ELSE reportObserved
    /\ UNCHANGED reportIssued

ProcessIngress ==
    /\ Len(reportOutcomes) < MaxIngress
    /\ \E k \in 1..Len(known) + 1, f \in Bodies : ShortCircuit(k, f) \/ Invalid(k, f) \/ FirstFact(k, f)

\* The order authority issues an order at any time.
ReportIssue(o) ==
    /\ o \notin reportIssued /\ reportIssued' = reportIssued \cup {o}
    /\ UNCHANGED <<known, venue, proj, reportObserved, reportFills, reportOutcomes, reportHalt>>

ReportNext == ProcessIngress \/ \E o \in ReportOrders : ReportIssue(o)

ReportSpec == ReportInit /\ [][ReportNext]_reportVars

-----------------------------------------------------------------------------
(* Properties *)

ReportTypeOK ==
    /\ reportIssued \subseteq ReportOrders /\ known \in Seq(Bodies) /\ reportHalt \in BOOLEAN
    /\ venue \in [Venues -> ReportOrders \cup {ReportNone}] /\ reportObserved \in [ReportOrders -> Nat]
    /\ \A o \in ReportOrders : proj[o].state = "none" \/ SnapshotOk(proj[o])
    /\ Len(known) <= Len(reportOutcomes) /\ Len(reportFills) <= Len(known)

FillsOf(o) == {n \in 1..Len(reportFills) : reportFills[n].order = o}
Filled(o) == MapThenSumSet(LAMBDA n : reportFills[n].qty, FillsOf(o))

\* While no halt is requested the books agree: every fill names its order, and for every order
\* what was filled, what was observed and what its projection shows are the same quantity, within
\* the order, which is filled exactly when all of it traded.
BooksAgreeUntilHalt ==
    ~reportHalt => /\ \A n \in 1..Len(reportFills) : reportFills[n].order \in reportIssued
                   /\ \A o \in ReportOrders : /\ Filled(o) = reportObserved[o] /\ proj[o].qty = reportObserved[o]
                                              /\ reportObserved[o] <= Quantity
                                              /\ (proj[o].state = "filled") <=> (reportObserved[o] = Quantity)

\* A trade is booked once: however often and however differently it is reported under its key,
\* it has one fill, with the quantity first reported.
TradeIsFilledOnce ==
    /\ \A m, n \in 1..Len(reportFills) : reportFills[m].key = reportFills[n].key => m = n
    /\ \A n \in 1..Len(reportFills) : reportFills[n].qty = known[reportFills[n].key].qty
    /\ \A k \in 1..Len(known) : known[k].kind = "trade" /\ known[k].valid =>
          \E n \in 1..Len(reportFills) : reportFills[n].key = k

\* No report changes an order that is over: a late trade is kept as an anomaly, never projected.
TerminalStays == [][\A o \in ReportOrders : Closed(o) => proj'[o] = proj[o]]_reportVars

\* A contradiction under a known key always asks for a halt.
ContradictionHalts ==
    [][\A k \in 1..Len(known), f \in Bodies : ShortCircuit(k, f) /\ f # known[k] => reportHalt']_reportVars

\* A venue identity and an order belong together one to one, and the projection shows that pair.
VenueIsOneToOne ==
    /\ \A v, w \in Venues : venue[v] = venue[w] /\ venue[v] # ReportNone => v = w
    /\ \A o \in ReportOrders : proj[o].venue # ReportNone => venue[proj[o].venue] = o

\* No report of a venue makes the authority fail: whatever the history, the next fact is
\* classified and the snapshot it leads to is one the constructor accepts.
NoReportIsStuck ==
    \A f \in Bodies : f.valid /\ Len(reportFills) < MaxFill => ~Raises(f)

\* The fact authority: a trade is filled once, venue identities are one to
\* one, no report is stuck, and the books agree with the facts until a halt.
FactSafe ==
    /\ ReportTypeOK /\ TradeIsFilledOnce /\ VenueIsOneToOne /\ NoReportIsStuck
    /\ BooksAgreeUntilHalt
=============================================================================
