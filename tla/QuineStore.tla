----------------------------- MODULE QuineStore -----------------------------
(***************************************************************************)
(* The durable store of confirmed experiments (crates/quine-core/src/      *)
(* store.rs) under an arbitrary caller: whoever holds the workspace lock,  *)
(* the supervising core or the sequential command line, may call any       *)
(* method with any argument, however stale.  Every method is one SQLite    *)
(* transaction, so one action.  A refused call changes nothing and is a    *)
(* stuttering step.  The lock holder may die between any two calls, its    *)
(* machine may restart, and the workspace may be carried to another place. *)
(***************************************************************************)
EXTENDS QuineAttempt

CONSTANTS
    Fences,    \* the revisions a caller may present, fresh or stale
    MaxBoot    \* bound on the number of starts of one machine

ASSUME StoreBounds == Fences \subseteq Nat /\ MaxBoot \in Nat

VARIABLES
    rows,      \* the attempt table, joined with its experiment row
    barriers,  \* the barrier table: keys whose cancellation was accepted
    open,      \* the workspace lock is held and the database is open
    context,   \* Store::recovery_context, read once when the store opens
    place,     \* the machine and workspace identity the database is at
    boots      \* the current boot of every machine

table == <<rows, barriers>>
session == <<open, context>>
world == <<place, boots>>
vars == <<table, session, world>>

Place == [machine : Machines, workspace : Workspaces]

\* What RecoveryContext::read sees where the database is now.
HostContext == [machine |-> place.machine, boot |-> boots[place.machine],
                workspace |-> place.workspace]

TypeOK ==
    /\ rows \in [Keys -> Row]
    /\ barriers \subseteq Keys
    /\ open \in BOOLEAN
    /\ context \in RecoveryContext \cup {None}
    /\ place \in Place
    /\ boots \in [Machines -> Nat]

Init ==
    /\ rows = [k \in Keys |-> NoRow]
    /\ barriers = {}
    /\ open = FALSE
    /\ context = None
    /\ place \in Place
    /\ boots = [m \in Machines |-> 1]
-----------------------------------------------------------------------------
\* One committed transaction that leaves `row` at key k.
Write(k, row) ==
    /\ open
    /\ rows' = [rows EXCEPT ![k] = row]
    /\ UNCHANGED <<session, world>>

confirm(k, binding) ==
    /\ MayConfirm(rows, barriers, k, binding)
    /\ Write(k, ConfirmRow(binding))
    /\ UNCHANGED barriers

cancel(k) ==
    /\ MayCancel(rows[k])
    /\ Write(k, CancelRow(rows[k], k \in barriers))
    /\ barriers' = barriers \cup {k}

dispatch(k, owner) ==
    /\ MayDispatch(rows[k], owner)
    /\ Write(k, DispatchRow(rows[k], owner, context))
    /\ UNCHANGED barriers

mark_running(k, fence) ==
    /\ MayMarkRunning(rows[k], fence)
    /\ Write(k, MarkRunningRow(rows[k]))
    /\ UNCHANGED barriers

mark_unknown(k, fence) ==
    /\ MayMarkUnknown(rows[k], fence)
    /\ Write(k, MarkUnknownRow(rows[k]))
    /\ UNCHANGED barriers

commit_result(k, s) ==
    /\ CommitReply(k, rows[k], k \in barriers, s) = "ok"
    /\ Write(k, CommitRow(rows[k], s))
    /\ UNCHANGED barriers

settle_cancelled(k, fence) ==
    /\ MaySettleCancelled(rows[k], fence)
    /\ Write(k, SettleCancelledRow(rows[k]))
    /\ UNCHANGED barriers

prepare_recovery(k, id, expected) ==
    /\ MayPrepare(rows[k], context, id, expected)
    /\ Write(k, PrepareRow(rows[k], context, id))
    /\ UNCHANGED barriers

release_unknown(k, id, expected) ==
    /\ MayRelease(rows[k], context, id, expected)
    /\ Write(k, ReleaseRow(rows[k], context))
    /\ UNCHANGED barriers

reconcile_uncertain ==
    /\ open
    /\ rows' = [k \in Keys |-> ReconcileRow(rows[k])]
    /\ UNCHANGED <<barriers, session, world>>
-----------------------------------------------------------------------------
\* Store::open: take the lock; the host evidence may be unreadable.
Open ==
    /\ ~open
    /\ open' = TRUE
    /\ context' \in {HostContext, None}
    /\ UNCHANGED <<table, world>>

\* The lock holder releases the store or dies.
Close ==
    /\ open
    /\ open' = FALSE
    /\ context' = None
    /\ UNCHANGED <<table, world>>

\* A machine restarts; a store that is open on it dies with it.
Reboot(m) ==
    /\ boots[m] < MaxBoot
    /\ boots' = [boots EXCEPT ![m] = @ + 1]
    /\ IF m = place.machine THEN open' = FALSE /\ context' = None
                            ELSE UNCHANGED session
    /\ UNCHANGED <<table, place>>

\* The workspace is carried to another machine or path while nobody has it open.
Carry(p) ==
    /\ ~open
    /\ place' = p
    /\ UNCHANGED <<table, session, boots>>

StoreCall(k) ==
    \/ \E b \in Bindings : confirm(k, b)
    \/ cancel(k)
    \/ \E o \in Owners : dispatch(k, o)
    \/ \E f \in Fences : mark_running(k, f)
    \/ \E f \in Fences : mark_unknown(k, f)
    \/ \E f \in Fences : settle_cancelled(k, f)
    \/ \E s \in [attempt : Keys, binding : Bindings, fence : Fences,
                 outcome : {"succeeded", "failed"}, result : Results] :
         commit_result(k, s)
    \/ \E id \in PrepIds, e \in Fences : prepare_recovery(k, id, e)
    \/ \E id \in PrepIds, e \in Fences : release_unknown(k, id, e)

Next ==
    \/ \E k \in Keys : StoreCall(k)
    \/ reconcile_uncertain
    \/ Open
    \/ Close
    \/ \E m \in Machines : Reboot(m)
    \/ \E p \in Place : Carry(p)

Spec == Init /\ [][Next]_vars
-----------------------------------------------------------------------------
\* At most one experiment holds the single active slot, whatever the order of
\* confirmations, cancellations, restarts and recoveries: only the unique index
\* on confirm's insert guards it, no other write may re-activate a row.
OneActive == \A j, k \in Keys : rows[j].active /\ rows[k].active => j = k

\* No write ever relies on the table's CHECK constraint to be refused: status,
\* slot and release receipt stay consistent after every method.
RowsConsistent == \A k \in Keys : rows[k].status # "absent" => RowCheck(rows[k])

\* An accepted cancellation wins over every later or concurrent submission of a
\* result: its attempt never reads succeeded or failed.
CancelWins == \A k \in barriers : rows[k].status \notin {"succeeded", "failed"}

\* A stored holdout experiment always points at a source this store registered
\* as a success, with the frozen input and the result the holdout names: the
\* guard ran in the admitting transaction and the source can never change after.
HoldoutSourceRegistered ==
    \A k \in Keys : rows[k].status # "absent" =>
        HoldoutAdmissible(rows, rows[k].binding)

\* A slot freed by recovery was freed on the machine that dispatched the
\* attempt, in a boot later than the preparation's, which itself is not earlier
\* than the dispatch: a full machine restart separates compute from release.
ReleasedAfterRestart ==
    \A k \in Keys : Released(rows[k]) =>
        LET r == rows[k] IN
          /\ same_origin(r.release.context, r.origin)
          /\ r.origin.boot <= r.prep.context.boot
          /\ r.prep.context.boot < r.release.context.boot

\* The advice a query shows agrees with what the recovery methods accept: ready
\* means the shown receipt releases now, prepare_required means a fresh
\* preparation is accepted, and any other advice means neither is.
AdviceIsHonest ==
    \A k \in Keys : open /\ rows[k].status = "unknown" =>
        LET r == rows[k]
            advice == RecoveryAdvice(r, context)
            canPrepare == \E id \in PrepIds : MayPrepare(r, context, id, r.revision)
            canRelease == \E id \in PrepIds : MayRelease(r, context, id, r.revision)
        IN /\ canRelease <=> advice = "ready"
           /\ canPrepare => advice = "prepare_required"
           /\ advice = "prepare_required" =>
                \A id \in PrepIds : r.prep = None \/ r.prep.id # id =>
                    MayPrepare(r, context, id, r.revision)

\* A settled or released record is final: no method, caller or reconciliation
\* ever changes it again.
ClosedIsFinal ==
    [][\A k \in Keys : Closed(rows[k]) => rows'[k] = rows[k]]_vars

\* Every write to a row moves its revision by exactly one, so a fence read
\* before any other write is stale after it.
RevisionFences ==
    [][\A k \in Keys : rows'[k] # rows[k] =>
           rows'[k].revision = rows[k].revision + 1]_vars
-----------------------------------------------------------------------------
(* The inductive invariant.  The properties above are not inductive: they   *)
(* need to know that a row's recovery evidence is ordered by boots that     *)
(* really happened, and that the open store's context is where it stands.   *)

ContextIsHost == context # None => open /\ context = HostContext

\* A stop or an end by cancellation has its barrier on record.
CancelRecorded ==
    \A k \in Keys : rows[k].status \in {"stopping", "cancelled"} => k \in barriers

\* What every method preserves: the conjunction behind all of the above.
StoreInv ==
    /\ TypeOK
    /\ OneActive
    /\ \A k \in Keys : RowInv(rows[k], boots)
    /\ ContextIsHost
    /\ CancelRecorded
    /\ CancelWins
    /\ HoldoutSourceRegistered

\* The store's safety: the inductive invariant, no write that leans on the CHECK
\* constraint, a release only across a restart, and honest recovery advice.
StoreSafe ==
    /\ StoreInv
    /\ RowsConsistent /\ ReleasedAfterRestart /\ AdviceIsHonest
-----------------------------------------------------------------------------
(* The store implements the ledger it promises: the holder is the one active *)
(* row, the verdict is how a closed row ended.                               *)

Holder == IF \E k \in Keys : rows[k].active
          THEN CHOOSE k \in Keys : rows[k].active ELSE None

Ledger == INSTANCE SlotLedger WITH
    holder <- Holder,
    verdict <- [k \in Keys |-> VerdictOf(rows[k])],
    cancelled <- barriers

\* Every transaction of the store is a step of the slot ledger or invisible to
\* it: admissions, cancellations and endings as a client may rely on them.
ImplementsLedger == Ledger!Spec
=============================================================================
