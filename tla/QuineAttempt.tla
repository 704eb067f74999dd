---------------------------- MODULE QuineAttempt ----------------------------
(***************************************************************************)
(* One row of quine-core's durable `attempt` table and what every Store    *)
(* method (crates/quine-core/src/store.rs) does to it.  A method is a pair *)
(* of operators: the condition under which the method writes, in terms of  *)
(* the row it reads inside its transaction, and the row it then leaves.    *)
(* QuineStore calls them one transaction at a time, on behalf of any       *)
(* caller; QuineCore calls them from the handlers of the event loop.       *)
(*                                                                         *)
(* Identities (strategy and intent, request, job and attempt ids) are one  *)
(* key; a confirmation's draft revision, preview, budget and frozen digest *)
(* are one binding; a result document is one value.                        *)
(***************************************************************************)
EXTENDS Naturals

CONSTANTS
    Keys,        \* confirmed experiment identities (strategy_id, intent_id)
    Bindings,    \* what a confirmation freezes
    Results,     \* official result and failure documents
    Owners,      \* dispatch owners
    PrepIds,     \* client-chosen recovery preparation ids
    Machines,    \* hosts a workspace can be opened on
    Workspaces,  \* canonical path, device and inode of the database
    HoldoutOf,   \* the holdout reference a binding carries, or None
    None         \* SQL NULL, an absent value

\* A holdout names a source run, its frozen input and its official result.
Holdout == [source : Keys, frozen : Bindings, result : Results]

ASSUME HoldoutAssumption == HoldoutOf \in [Bindings -> Holdout \cup {None}]

ASSUME NoneAssumption ==
    /\ None \notin Bindings \cup Results \cup Owners \cup Nat
    /\ None \notin Holdout
-----------------------------------------------------------------------------
Held == {"eligible", "dispatched", "running", "stopping", "unknown"}
Final == {"succeeded", "failed", "cancelled"}
Status == Held \cup Final \cup {"absent"}

RecoveryContext ==
    [machine : Machines, boot : Nat, workspace : Workspaces]

Preparation == [id : PrepIds, context : RecoveryContext, base : Nat]
Release == [id : PrepIds, context : RecoveryContext, base : Nat]

ASSUME NoneIsNoRecord ==
    None \notin RecoveryContext \cup Preparation \cup Release

Row == [status   : Status,
        active   : BOOLEAN,
        revision : Nat,
        binding  : Bindings \cup {None},
        owner    : Owners \cup {None},
        result   : Results \cup {None},
        fence    : Nat \cup {None},
        origin   : RecoveryContext \cup {None},
        prep     : Preparation \cup {None},
        release  : Release \cup {None}]

NoRow == [status |-> "absent", active |-> FALSE, revision |-> 0,
          binding |-> None, owner |-> None, result |-> None, fence |-> None,
          origin |-> None, prep |-> None, release |-> None]

is_terminal(status) == status \in Final

\* The table's CHECK constraint: which columns may stand together.
RowCheck(row) ==
    \/ row.status \in Held /\ row.active /\ row.release = None
    \/ row.status \in Final /\ ~row.active /\ row.release = None
    \/ /\ row.status = "unknown" /\ ~row.active
       /\ row.release # None /\ row.prep # None /\ row.origin # None
-----------------------------------------------------------------------------
(* confirm: a fresh confirmation, or the replay of the same one.           *)

HoldoutAdmissible(rows, binding) ==
    HoldoutOf[binding] # None =>
      LET h == HoldoutOf[binding] IN
        /\ rows[h.source].status = "succeeded"
        /\ rows[h.source].binding = h.frozen
        /\ rows[h.source].result = h.result

\* The partial unique index one_active_attempt: one active row in the table.
SlotFree(rows) == \A j \in Keys : ~rows[j].active

MayConfirm(rows, barriers, k, binding) ==
    /\ rows[k].status = "absent"
    /\ k \notin barriers
    /\ HoldoutAdmissible(rows, binding)
    /\ SlotFree(rows)

ConfirmRow(binding) ==
    [NoRow EXCEPT !.status = "eligible", !.active = TRUE, !.revision = 1,
                  !.binding = binding]

IsReplay(row, binding) == row.status # "absent" /\ row.binding = binding

\* A write of the lifecycle columns: the revision moves, the rest stays.
Moved(row, status, active) ==
    [status |-> status, active |-> active, revision |-> row.revision + 1,
     binding |-> row.binding, owner |-> row.owner, result |-> row.result,
     fence |-> row.fence, origin |-> row.origin, prep |-> row.prep,
     release |-> row.release]
-----------------------------------------------------------------------------
(* cancel: accepted before a result, once; compute that may exist keeps    *)
(* the slot.                                                               *)

\* Mutant of MayCancel: after a release.
MayCancelReleased(row) == row.status \notin {"succeeded", "failed"}

MayCancel(row) ==
    row.release = None /\ row.status \notin {"succeeded", "failed"}

\* Mutant of CancelRow: the slot is freed while compute may still run.
CancelRowAtOnce(row, barred) ==
    IF barred \/ row.status \notin Held THEN row
    ELSE Moved(row, "cancelled", FALSE)

CancelRow(row, barred) ==
    IF barred THEN row
    ELSE IF row.status = "eligible" THEN Moved(row, "cancelled", FALSE)
    ELSE IF row.status \in {"dispatched", "running", "unknown"}
         THEN Moved(row, "stopping", TRUE)
    ELSE row
-----------------------------------------------------------------------------
(* dispatch, mark_running, mark_unknown, settle_cancelled and the          *)
(* reconciliation of what an earlier owner left.                           *)

MayDispatch(row, owner) ==
    /\ row.release = None
    /\ \/ row.status = "eligible"
       \/ /\ row.status \in {"dispatched", "running", "stopping", "unknown"}
          /\ row.owner = owner

DispatchRow(row, owner, context) ==
    IF row.status = "eligible"
    THEN [Moved([row EXCEPT !.owner = owner], "dispatched", TRUE)
            EXCEPT !.origin = context]
    ELSE row

MayAdvance(row, fence, from) == row.status \in from /\ row.revision = fence

AdvanceRow(row, to) == Moved(row, to, TRUE)

MayMarkRunning(row, fence) == MayAdvance(row, fence, {"dispatched"})
MarkRunningRow(row) == AdvanceRow(row, "running")

MayMarkUnknown(row, fence) == MayAdvance(row, fence, {"dispatched", "running"})
MarkUnknownRow(row) == AdvanceRow(row, "unknown")

MaySettleCancelled(row, fence) ==
    row.status = "stopping" /\ row.revision = fence

SettleCancelledRow(row) == Moved(row, "cancelled", FALSE)

\* Mutant of ReconcileRow: the revision does not move.
ReconcileRowUnfenced(row) ==
    IF row.status \in {"dispatched", "running", "stopping"}
    THEN [row EXCEPT !.status = "unknown"] ELSE row

ReconcileRow(row) ==
    IF row.status \in {"dispatched", "running", "stopping"}
    THEN Moved(row, "unknown", TRUE)
    ELSE row
-----------------------------------------------------------------------------
(* commit_result: the submission s names its attempt, what it was frozen   *)
(* on, the fence it read, its outcome and its document.                    *)

Submission == [attempt : Keys, binding : Bindings, fence : Nat,
               outcome : {"succeeded", "failed"}, result : Results]

SameIdentity(k, row, s) == s.attempt = k /\ s.binding = row.binding

\* Mutant of CommitReply: a live attempt takes any result at its fence, whether
\* or not its cancellation was accepted.
CommitReplyUnarbitrated(k, row, barred, s) ==
    IF row.status \in Held /\ SameIdentity(k, row, s) /\ row.revision = s.fence
    THEN "ok" ELSE "invalid_state"

\* The reply code of commit_result, in the order the method decides it.
CommitReply(k, row, barred, s) ==
    CASE row.status = "absent" -> "not_found"
      [] row.status # "absent" /\ ~SameIdentity(k, row, s) -> "conflict"
      [] SameIdentity(k, row, s) /\ row.status \in {"succeeded", "failed"} ->
           IF row.status # s.outcome \/ row.result # s.result THEN "conflict"
           ELSE IF row.fence # s.fence THEN "stale_fence" ELSE "ok"
      [] OTHER ->
           IF barred THEN "invalid_state"
           ELSE IF row.revision # s.fence THEN "stale_fence"
           ELSE IF row.status \notin {"dispatched", "running"}
                THEN "invalid_state"
           ELSE "ok"

CommitRow(row, s) ==
    IF row.status \in {"succeeded", "failed"} THEN row
    ELSE [Moved([row EXCEPT !.result = s.result], s.outcome, FALSE)
            EXCEPT !.fence = s.fence]
-----------------------------------------------------------------------------
(* Recovery of an unknown attempt: prepare, restart the machine, release.  *)

same_origin(context, origin) ==
    /\ context.machine = origin.machine
    /\ context.workspace = origin.workspace

Recoverable(row, context) ==
    /\ row.status = "unknown"
    /\ row.release = None
    /\ context # None /\ row.origin # None
    /\ same_origin(context, row.origin)
    /\ row.active

\* Nothing changed the row since its preparation was recorded.
PrepCurrent(row) == row.prep # None /\ row.revision = row.prep.base + 1

MayPrepare(row, context, id, expected) ==
    /\ Recoverable(row, context)
    /\ ~PrepCurrent(row)
    /\ row.prep # None => row.prep.id # id
    /\ row.revision = expected

PrepareRow(row, context, id) ==
    [Moved(row, row.status, row.active)
       EXCEPT !.prep = [id |-> id, context |-> context, base |-> row.revision]]

\* Mutant of MayRelease: no restart is asked for.
MayReleaseUnrestarted(row, context, id, expected) ==
    /\ Recoverable(row, context)
    /\ PrepCurrent(row)
    /\ row.prep.id = id
    /\ same_origin(context, row.prep.context)
    /\ row.revision = expected

MayRelease(row, context, id, expected) ==
    /\ Recoverable(row, context)
    /\ PrepCurrent(row)
    /\ row.prep.id = id
    /\ same_origin(context, row.prep.context)
    /\ row.revision = expected
    /\ context.boot # row.prep.context.boot

ReleaseRow(row, context) ==
    [Moved(row, row.status, FALSE)
       EXCEPT !.release = [id |-> row.prep.id, context |-> context,
                           base |-> row.revision]]

\* The recovery advice a query or a list shows for an unknown attempt.
RecoveryAdvice(row, context) ==
    IF row.release # None THEN "released"
    ELSE IF context = None \/ row.origin = None THEN "unavailable"
    ELSE IF ~same_origin(context, row.origin) THEN "unavailable"
    ELSE IF ~PrepCurrent(row) THEN "prepare_required"
    ELSE IF ~same_origin(context, row.prep.context) THEN "unavailable"
    ELSE IF context.boot # row.prep.context.boot THEN "ready"
    ELSE "restart_required"
-----------------------------------------------------------------------------
(* What every method keeps of a row, and what a closed row tells.  bt is   *)
(* the current boot of every machine.                                      *)

Released(row) == row.release # None
Closed(row) == row.status \in Final \/ Released(row)

\* How a closed row ended, or None.
VerdictOf(row) == IF Released(row) THEN "released"
                  ELSE IF row.status \in Final THEN row.status ELSE None

\* Dispatch, preparation and release follow each other in the boots of one
\* machine, none of them in a boot that has not happened yet.
EvidenceOrdered(row, bt) ==
    /\ row.origin # None => row.origin.boot <= bt[row.origin.machine]
    /\ row.prep # None =>
         /\ row.origin # None
         /\ same_origin(row.prep.context, row.origin)
         /\ row.origin.boot <= row.prep.context.boot
         /\ row.prep.context.boot <= bt[row.origin.machine]
    /\ row.release # None =>
         /\ same_origin(row.release.context, row.origin)
         /\ row.prep.context.boot < row.release.context.boot

RowInv(row, bt) ==
    /\ row.status = "absent" => row = NoRow
    /\ row.status # "absent" => RowCheck(row)
    /\ row.status # "absent" => row.binding # None
    /\ row.status = "eligible" => row.origin = None /\ row.prep = None
    /\ EvidenceOrdered(row, bt)
=============================================================================
