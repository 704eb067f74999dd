--------------------------- MODULE AttemptProofs ----------------------------
(***************************************************************************)
(* What the writes of the Store methods do to one row, for every row they  *)
(* may read: the lemmas the proofs about the store and about the core's    *)
(* event loop share.  bt is the current boot of every machine.             *)
(***************************************************************************)
EXTENDS QuineAttempt, TLAPS

\* What a write, or several in one handler, guarantees about the row it leaves
\* over an existing row: closed rows are left alone, the slot is never re-taken,
\* the binding and the dispatch evidence stay, a result needs that no
\* cancellation is on record after the write (barred), a stop needs that one is.
Overwrites(row, new, barred, bt) ==
    /\ new \in Row
    /\ RowInv(new, bt)
    /\ new.active => row.active
    /\ Closed(row) => new = row
    /\ new.binding = row.binding
    /\ (new.status = "absent") = (row.status = "absent")
    /\ new.status = "eligible" => new = row
    /\ row.status # "eligible" => new.origin = row.origin
    /\ new.status \in {"succeeded", "failed"} => ~barred
    /\ new.status \in {"stopping", "cancelled"} => barred

\* One method's write: a change moves the revision by one.
GoodWrite(row, new, barred, bt) ==
    /\ Overwrites(row, new, barred, bt)
    /\ new # row => new.revision = row.revision + 1

\* The open store's c, when it is known, is the host as it stands.
HostNow(c, bt) == c # None => c.boot = bt[c.machine]
-----------------------------------------------------------------------------
\* A fresh row is typed and consistent.
LEMMA GoodConfirm ==
    ASSUME NEW bt, NEW b \in Bindings
    PROVE  ConfirmRow(b) \in Row /\ RowInv(ConfirmRow(b), bt)
  BY NoneAssumption
     DEF ConfirmRow, Row, NoRow, RowInv, RowCheck, EvidenceOrdered, Status,
         Held, Final

\* Moving the lifecycle of an open row, as most methods do, is a good write.
LEMMA GoodMove ==
    ASSUME NEW bt, NEW row \in Row, RowInv(row, bt),
           NEW st \in Status, NEW act \in BOOLEAN, NEW barred \in BOOLEAN,
           row.status \in Held, row.release = None,
           \/ st \in Held \ {"eligible"} /\ act
           \/ st \in Final /\ ~act,
           st \in {"succeeded", "failed"} => ~barred,
           st \in {"stopping", "cancelled"} => barred
    PROVE  GoodWrite(row, Moved(row, st, act), barred, bt)
  <1> DEFINE new == Moved(row, st, act)
  <1>1. new \in Row
    BY DEF Moved, Row
  <1>2. /\ new.status = st /\ new.active = act
        /\ new.revision = row.revision + 1
        /\ new.binding = row.binding /\ new.origin = row.origin
        /\ new.prep = row.prep /\ new.release = row.release
    BY DEF Moved, Row
  <1>3. row.active /\ row.status # "absent" /\ row.status \notin Final
    BY DEF RowInv, RowCheck, Held, Final
  <1>4. st # "absent" /\ st # "eligible"
    BY DEF Held, Final
  <1> HIDE DEF new
  <1>5. EvidenceOrdered(new, bt)
    BY <1>2 DEF RowInv, EvidenceOrdered
  <1>6. RowCheck(new)
    BY <1>2 DEF RowCheck, Held, Final
  <1>7. RowInv(new, bt)
    BY <1>2, <1>3, <1>4, <1>5, <1>6 DEF RowInv
  <1>8. ~Closed(row)
    BY <1>3 DEF Closed, Released
  <1>9. GoodWrite(row, new, barred, bt)
    BY <1>1, <1>2, <1>3, <1>4, <1>7, <1>8 DEF GoodWrite, Overwrites
  <1> QED
    BY <1>9 DEF new

\* Leaving a row alone is a good write when it agrees with its barrier.
LEMMA GoodKeep ==
    ASSUME NEW bt, NEW row \in Row, RowInv(row, bt), NEW barred \in BOOLEAN,
           row.status \in {"succeeded", "failed"} => ~barred,
           row.status \in {"stopping", "cancelled"} => barred
    PROVE  GoodWrite(row, row, barred, bt)
  BY DEF GoodWrite, Overwrites

\* An open row that is not released holds the slot.
LEMMA OpenRow ==
    ASSUME NEW bt, NEW row \in Row, RowInv(row, bt), row.release = None,
           row.status \notin Final, row.status # "absent"
    PROVE  row.status \in Held /\ row.active
  BY DEF RowInv, RowCheck, Row, Status, Held, Final

LEMMA GoodCancel ==
    ASSUME NEW bt, NEW row \in Row, RowInv(row, bt), NEW barred \in BOOLEAN,
           MayCancel(row), row.status \in {"stopping", "cancelled"} => barred
    PROVE  GoodWrite(row, CancelRow(row, barred), TRUE, bt)
  <1>1. row.release = None /\ row.status \notin {"succeeded", "failed"}
    BY DEF MayCancel
  <1>2. CASE ~barred /\ row.status = "eligible"
    <2>1. CancelRow(row, barred) = Moved(row, "cancelled", FALSE)
      BY <1>2 DEF CancelRow
    <2> QED
      BY <1>1, <1>2, <2>1, GoodMove DEF Status, Held, Final
  <1>3. CASE ~barred /\ row.status \in {"dispatched", "running", "unknown"}
    <2>1. CancelRow(row, barred) = Moved(row, "stopping", TRUE)
      BY <1>3 DEF CancelRow
    <2> QED
      BY <1>1, <1>3, <2>1, GoodMove DEF Status, Held, Final
  <1>4. CASE barred \/ row.status \notin {"eligible", "dispatched", "running",
                                          "unknown"}
    <2>1. CancelRow(row, barred) = row
      BY <1>4 DEF CancelRow
    <2> QED
      BY <1>1, <2>1, GoodKeep
  <1> QED
    BY <1>2, <1>3, <1>4

\* The two writes that move the lifecycle and two further columns, for any
\* status they may move to.
OwnedRow(row, st, act, o, c) ==
    [Moved([row EXCEPT !.owner = o], st, act) EXCEPT !.origin = c]

ResultRow(row, st, act, r, f) ==
    [Moved([row EXCEPT !.result = r], st, act) EXCEPT !.fence = f]

LEMMA OwnedTyped ==
    ASSUME NEW row \in Row, NEW st \in Status, NEW act \in BOOLEAN,
           NEW o \in Owners, NEW c \in RecoveryContext \cup {None}
    PROVE  OwnedRow(row, st, act, o, c) \in Row
  BY DEF OwnedRow, Moved, Row

LEMMA ResultTyped ==
    ASSUME NEW row \in Row, NEW st \in Status, NEW act \in BOOLEAN,
           NEW r \in Results, NEW f \in Nat
    PROVE  ResultRow(row, st, act, r, f) \in Row
  BY DEF ResultRow, Moved, Row

LEMMA GoodDispatch ==
    ASSUME NEW bt \in [Machines -> Nat], NEW row \in Row, RowInv(row, bt),
           NEW barred \in BOOLEAN, NEW o \in Owners, NEW c \in RecoveryContext \cup {None}, HostNow(c, bt),
           MayDispatch(row, o),
           row.status \in {"stopping", "cancelled"} => barred
    PROVE  GoodWrite(row, DispatchRow(row, o, c), barred, bt)
  <1>1. CASE row.status # "eligible"
    BY <1>1, GoodKeep DEF MayDispatch, DispatchRow
  <1>2. CASE row.status = "eligible"
    <2> DEFINE new == DispatchRow(row, o, c)
    <2>1. new \in Row
      <3>1. new = OwnedRow(row, "dispatched", TRUE, o, c)
        BY <1>2 DEF DispatchRow, OwnedRow
      <3>2. c \in RecoveryContext \cup {None} /\ "dispatched" \in Status
        BY DEF Status, Held
      <3> HIDE DEF new
      <3> QED
        BY <3>1, <3>2, OwnedTyped
    <2>2. /\ new.status = "dispatched" /\ new.active
          /\ new.revision = row.revision + 1
          /\ new.binding = row.binding /\ new.origin = c
          /\ new.prep = row.prep /\ new.release = row.release
      BY <1>2 DEF DispatchRow, Moved, Row
    <2>3. /\ row.active /\ row.prep = None /\ row.release = None
          /\ row.binding # None
      BY <1>2 DEF RowInv, RowCheck, Held, Final
    <2>4. c # None => c.boot = bt[c.machine]
      BY DEF HostNow
    <2>5. c # None => bt[c.machine] \in Nat
      BY DEF RecoveryContext
    <2> HIDE DEF new
    <2>6. RowInv(new, bt)
      <3>1. EvidenceOrdered(new, bt)
        BY <2>2, <2>3, <2>4, <2>5 DEF EvidenceOrdered
      <3> QED
        BY <2>2, <2>3, <3>1 DEF RowInv, RowCheck, Held
    <2>7. ~Closed(row)
      BY <1>2, <2>3 DEF Closed, Released, Final
    <2>8. GoodWrite(row, new, barred, bt)
      BY <1>2, <2>1, <2>2, <2>3, <2>6, <2>7 DEF GoodWrite, Overwrites
    <2> QED
      BY <2>8 DEF new
  <1> QED
    BY <1>1, <1>2

\* mark_running and mark_unknown move a row whose compute is owned.
LEMMA GoodAdvance ==
    ASSUME NEW bt, NEW row \in Row, RowInv(row, bt), NEW barred \in BOOLEAN,
           row.status \in {"dispatched", "running", "stopping"},
           NEW to \in {"running", "unknown"}
    PROVE  GoodWrite(row, Moved(row, to, TRUE), barred, bt)
  <1>1. row.release = None
    BY DEF RowInv, RowCheck, Held, Final
  <1> QED
    BY <1>1, GoodMove DEF Status, Held, Final

LEMMA GoodSettle ==
    ASSUME NEW bt, NEW row \in Row, RowInv(row, bt), row.status = "stopping"
    PROVE  GoodWrite(row, SettleCancelledRow(row), TRUE, bt)
  <1>1. row.release = None
    BY DEF RowInv, RowCheck, Held, Final
  <1> QED
    BY <1>1, GoodMove DEF SettleCancelledRow, Status, Held, Final

LEMMA GoodReconcile ==
    ASSUME NEW bt, NEW row \in Row, RowInv(row, bt), NEW barred \in BOOLEAN,
           row.status \in {"succeeded", "failed"} => ~barred,
           row.status \in {"stopping", "cancelled"} => barred
    PROVE  GoodWrite(row, ReconcileRow(row), barred, bt)
  <1>1. CASE row.status \in {"dispatched", "running", "stopping"}
    BY <1>1, GoodAdvance DEF ReconcileRow
  <1>2. CASE row.status \notin {"dispatched", "running", "stopping"}
    BY <1>2, GoodKeep DEF ReconcileRow
  <1> QED
    BY <1>1, <1>2

\* A result is committed over a live row, or replayed over the same result.
LEMMA GoodCommit ==
    ASSUME NEW bt, NEW row \in Row, RowInv(row, bt), NEW barred \in BOOLEAN,
           NEW k \in Keys, NEW s \in Submission,
           CommitReply(k, row, barred, s) = "ok",
           row.status \in {"succeeded", "failed"} => ~barred
    PROVE  GoodWrite(row, CommitRow(row, s), barred, bt)
  <1>1. CASE row.status \in {"succeeded", "failed"}
    BY <1>1, GoodKeep DEF CommitRow
  <1>2. CASE row.status \notin {"succeeded", "failed"}
    <2> DEFINE new == CommitRow(row, s)
    <2>1. row.status \in {"dispatched", "running"} /\ ~barred
      BY <1>2 DEF CommitReply
    <2>2. new = ResultRow(row, s.outcome, FALSE, s.result, s.fence)
      BY <1>2 DEF CommitRow, ResultRow
    <2>3. /\ s.outcome \in Status \cap {"succeeded", "failed"}
          /\ s.result \in Results /\ s.fence \in Nat
      BY DEF Submission, Status, Final
    <2>4. new \in Row
      BY <2>2, <2>3, ResultTyped
    <2>5. /\ new.status = s.outcome /\ new.active = FALSE
          /\ new.revision = row.revision + 1
          /\ new.binding = row.binding /\ new.origin = row.origin
          /\ new.prep = row.prep /\ new.release = row.release
      BY <2>2 DEF ResultRow, Moved, Row
    <2>6. row.active /\ row.release = None /\ row.binding # None
      BY <2>1 DEF RowInv, RowCheck, Held, Final
    <2> HIDE DEF new
    <2>7. RowInv(new, bt)
      <3>1. EvidenceOrdered(new, bt)
        BY <2>5 DEF RowInv, EvidenceOrdered
      <3> QED
        BY <2>3, <2>5, <2>6, <3>1 DEF RowInv, RowCheck, Final
    <2>8. ~Closed(row)
      BY <2>1, <2>6 DEF Closed, Released, Final
    <2>9. GoodWrite(row, new, barred, bt)
      BY <2>1, <2>3, <2>4, <2>5, <2>6, <2>7, <2>8 DEF GoodWrite, Overwrites
    <2> QED
      BY <2>9 DEF new
  <1> QED
    BY <1>1, <1>2

\* What a recovery call may rely on: the open store's context is the machine
\* the attempt was dispatched on, now.
LEMMA RecoverableHere ==
    ASSUME NEW bt \in [Machines -> Nat], NEW row \in Row, RowInv(row, bt),
           NEW c \in RecoveryContext \cup {None}, HostNow(c, bt),
           Recoverable(row, c)
    PROVE  /\ c \in RecoveryContext /\ row.origin \in RecoveryContext
           /\ row.status = "unknown" /\ row.release = None /\ row.active
           /\ c.machine = row.origin.machine
           /\ c.workspace = row.origin.workspace
           /\ c.boot = bt[row.origin.machine]
           /\ row.origin.boot <= c.boot
  <1>1. /\ row.status = "unknown" /\ row.release = None /\ row.active
        /\ c # None /\ row.origin # None
        /\ c.machine = row.origin.machine
        /\ c.workspace = row.origin.workspace
    BY DEF Recoverable, same_origin
  <1>2. c \in RecoveryContext /\ row.origin \in RecoveryContext
    BY <1>1 DEF Row
  <1>3. c.boot = bt[c.machine]
    BY <1>1 DEF HostNow
  <1>4. row.origin.boot <= bt[row.origin.machine]
    BY <1>1 DEF RowInv, EvidenceOrdered
  <1> QED
    BY <1>1, <1>2, <1>3, <1>4

\* prepare_recovery and release_unknown move the lifecycle and one receipt.
PreparedRow(row, st, act, p) == [Moved(row, st, act) EXCEPT !.prep = p]

ReleasedRow(row, st, act, p) == [Moved(row, st, act) EXCEPT !.release = p]

LEMMA PreparedTyped ==
    ASSUME NEW row \in Row, NEW st \in Status, NEW act \in BOOLEAN,
           NEW p \in Preparation
    PROVE  PreparedRow(row, st, act, p) \in Row
  BY DEF PreparedRow, Moved, Row

LEMMA ReleasedTyped ==
    ASSUME NEW row \in Row, NEW st \in Status, NEW act \in BOOLEAN,
           NEW p \in Release
    PROVE  ReleasedRow(row, st, act, p) \in Row
  BY DEF ReleasedRow, Moved, Row

LEMMA GoodPrepare ==
    ASSUME NEW bt \in [Machines -> Nat], NEW row \in Row, RowInv(row, bt),
           NEW c \in RecoveryContext \cup {None}, HostNow(c, bt),
           NEW barred \in BOOLEAN, NEW id \in PrepIds, NEW expected,
           MayPrepare(row, c, id, expected)
    PROVE  GoodWrite(row, PrepareRow(row, c, id), barred, bt)
  <1> DEFINE p == [id |-> id, context |-> c, base |-> row.revision]
             new == PrepareRow(row, c, id)
  <1>1. Recoverable(row, c)
    BY DEF MayPrepare
  <1>2. /\ c \in RecoveryContext /\ row.origin \in RecoveryContext
        /\ row.status = "unknown" /\ row.release = None /\ row.active
        /\ c.machine = row.origin.machine
        /\ c.workspace = row.origin.workspace
        /\ c.boot = bt[row.origin.machine]
        /\ row.origin.boot <= c.boot
    BY <1>1, RecoverableHere
  <1>3. p \in Preparation /\ p.context = c
    BY <1>2 DEF Preparation, Row
  <1>4. new = PreparedRow(row, row.status, row.active, p)
    BY DEF PrepareRow, PreparedRow
  <1> HIDE DEF p, new
  <1>5. new \in Row
    <2>1. row.status \in Status /\ row.active \in BOOLEAN
      BY DEF Row
    <2> QED
      BY <1>3, <1>4, <2>1, PreparedTyped
  <1>6. /\ new.status = row.status /\ new.active = row.active
        /\ new.revision = row.revision + 1
        /\ new.binding = row.binding /\ new.origin = row.origin
        /\ new.prep = p /\ new.release = row.release
    BY <1>4 DEF PreparedRow, Moved, Row
  <1>7. c.boot \in Nat /\ row.origin.boot \in Nat
    BY <1>2 DEF RecoveryContext
  <1>8. p # None /\ row.origin # None
    BY <1>2, <1>3, NoneIsNoRecord
  <1>9. RowInv(new, bt)
    <2>1. EvidenceOrdered(new, bt)
      BY <1>2, <1>3, <1>6, <1>7, <1>8 DEF EvidenceOrdered, same_origin
    <2> QED
      BY <1>2, <1>6, <2>1 DEF RowInv, RowCheck, Held, Final
  <1>10. ~Closed(row)
    BY <1>2 DEF Closed, Released, Final
  <1>11. GoodWrite(row, new, barred, bt)
    BY <1>2, <1>5, <1>6, <1>9, <1>10 DEF GoodWrite, Overwrites
  <1> QED
    BY <1>11 DEF new

LEMMA GoodRelease ==
    ASSUME NEW bt \in [Machines -> Nat], NEW row \in Row, RowInv(row, bt),
           NEW c \in RecoveryContext \cup {None}, HostNow(c, bt),
           NEW barred \in BOOLEAN, NEW id, NEW expected,
           MayRelease(row, c, id, expected)
    PROVE  GoodWrite(row, ReleaseRow(row, c), barred, bt)
  <1> DEFINE p == [id |-> row.prep.id, context |-> c,
                   base |-> row.revision]
             new == ReleaseRow(row, c)
  <1>1. Recoverable(row, c) /\ row.prep # None
        /\ c.boot # row.prep.context.boot
    BY DEF MayRelease, PrepCurrent
  <1>2. /\ c \in RecoveryContext /\ row.origin \in RecoveryContext
        /\ row.status = "unknown" /\ row.release = None /\ row.active
        /\ c.machine = row.origin.machine
        /\ c.workspace = row.origin.workspace
        /\ c.boot = bt[row.origin.machine]
        /\ row.origin.boot <= c.boot
    BY <1>1, RecoverableHere
  <1>3. row.prep \in Preparation /\ row.prep.id \in PrepIds
        /\ row.prep.context \in RecoveryContext
    BY <1>1 DEF Row, Preparation
  <1>4. p \in Release /\ p.context = c
    BY <1>2, <1>3 DEF Release, Row
  <1>5. new = ReleasedRow(row, row.status, FALSE, p)
    BY DEF ReleaseRow, ReleasedRow
  <1> HIDE DEF p, new
  <1>6. new \in Row
    <2>1. row.status \in Status
      BY DEF Row
    <2> QED
      BY <1>4, <1>5, <2>1, ReleasedTyped
  <1>7. /\ new.status = row.status /\ new.active = FALSE
        /\ new.revision = row.revision + 1
        /\ new.binding = row.binding /\ new.origin = row.origin
        /\ new.prep = row.prep /\ new.release = p
    BY <1>5 DEF ReleasedRow, Moved, Row
  <1>8. c.boot \in Nat /\ row.prep.context.boot \in Nat
    BY <1>2, <1>3 DEF RecoveryContext
  <1>9. p # None /\ row.origin # None
    BY <1>2, <1>4, NoneIsNoRecord
  <1>10. row.prep.context.boot <= bt[row.origin.machine]
    BY <1>1 DEF RowInv, EvidenceOrdered
  <1>11. row.prep.context.boot < c.boot
    BY <1>1, <1>2, <1>8, <1>10
  <1>12. RowInv(new, bt)
    <2>1. EvidenceOrdered(new, bt)
      BY <1>1, <1>2, <1>4, <1>7, <1>9, <1>11
         DEF RowInv, EvidenceOrdered, same_origin
    <2> QED
      BY <1>1, <1>2, <1>7, <1>9, <2>1 DEF RowInv, RowCheck, Held, Final
  <1>13. ~Closed(row)
    BY <1>2 DEF Closed, Released, Final
  <1>14. GoodWrite(row, new, barred, bt)
    BY <1>2, <1>6, <1>7, <1>12, <1>13 DEF GoodWrite, Overwrites
  <1> QED
    BY <1>14 DEF new
-----------------------------------------------------------------------------
\* A row that a write changes was held, and keeps the slot without a verdict or
\* leaves it with one.
LEMMA ChangeHoldsOrEnds ==
    ASSUME NEW bt, NEW row \in Row, RowInv(row, bt), NEW new,
           NEW barred \in BOOLEAN, Overwrites(row, new, barred, bt), new # row
    PROVE  /\ row.active /\ VerdictOf(row) = None
           /\ \/ new.active /\ VerdictOf(new) = None
              \/ /\ ~new.active
                 /\ VerdictOf(new) \in {"succeeded", "failed", "cancelled",
                                        "released"}
                 /\ VerdictOf(new) \in {"succeeded", "failed"} => ~barred
                 /\ VerdictOf(new) = "cancelled" => barred
  <1>1. row.status # "absent" /\ new.status # "absent"
    BY DEF Overwrites, RowInv
  <1>2. RowCheck(row) /\ RowCheck(new) /\ ~Closed(row)
    BY <1>1 DEF Overwrites, RowInv
  <1>3. row.active /\ row.release = None /\ row.status \notin Final
    BY <1>2 DEF RowCheck, Closed, Released
  <1>4. CASE new.active
    BY <1>2, <1>3, <1>4 DEF RowCheck, VerdictOf, Released, Held, Final
  <1>5. CASE ~new.active
    BY <1>2, <1>3, <1>5 DEF RowCheck, VerdictOf, Released, Held, Final, Overwrites
  <1> QED
    BY <1>4, <1>5
=============================================================================
