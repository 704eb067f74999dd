------------------------------ MODULE QuineCore ------------------------------
(***************************************************************************)
(* The supervising core (crates/quine-core/src/core.rs): one event loop    *)
(* that answers client requests and ticks every owned run through          *)
(* freeze, worker, validate and commit.  The loop is single-threaded, so a *)
(* handler is one action; what interleaves with it is everything outside:  *)
(* clients, the process groups it spawned, store writes that fail or whose *)
(* receipt is lost, the death of the core, of the desktop or of the        *)
(* machine, and the workspace being carried elsewhere.  A core that dies   *)
(* in the middle of a handler leaves what the same handler leaves when the *)
(* writes after that point fail and the core dies next.                    *)
(***************************************************************************)
EXTENDS QuineAttempt

CONSTANTS
    CoreOwner,    \* CoreConfig::owner
    OfficialDoc,  \* the verified official result document
    FailureDoc,   \* the failure document
    Faults,       \* store faults that may occur: subset of {"fail", "lost"}
    Fences,       \* revisions a recovery request may present
    MaxBoot       \* bound on the number of starts of one machine

ASSUME CoreConstants ==
    /\ CoreOwner \in Owners
    /\ OfficialDoc \in Results /\ FailureDoc \in Results
    /\ OfficialDoc # FailureDoc
    /\ Faults \subseteq {"fail", "lost"}
    /\ Fences \subseteq Nat /\ MaxBoot \in Nat

ASSUME NoneIsNoMachine == None \notin Machines

VARIABLES
    rows, barriers,  \* the durable store
    official,        \* official/<job>: "no", "partial" or "complete"
    coreState,       \* "down", "serving", or "drained" after a clean exit
    context,         \* the open store's recovery context
    quiescing,       \* admission is closed
    admitted,        \* runs this process admitted
    runs,            \* Core::runs
    groups,          \* the machine each run's process group lives on, or None
    launches,        \* how many workers were ever started for a key
    place, boots     \* where the workspace is; the boot of every machine

store == <<rows, barriers, official>>
process == <<coreState, context, quiescing, admitted>>
world == <<place, boots>>
coreVars == <<store, process, runs, groups, launches, world>>

ChildPhases == {"freeze", "worker", "validate"}
Run == [phase    : ChildPhases \cup {"none", "idle", "committing"},
        stop     : BOOLEAN,   \* an accepted cancellation
        aborted  : BOOLEAN,   \* the running-state receipt or the group is unproven
        stopped  : BOOLEAN,   \* no child, or the last group was proven absent
        captured : BOOLEAN]   \* the guard holds the group's identity

NoRun == [phase |-> "none", stop |-> FALSE, aborted |-> FALSE,
          stopped |-> TRUE, captured |-> FALSE]
IdleRun == [NoRun EXCEPT !.phase = "idle"]

Place == [machine : Machines, workspace : Workspaces]
HostContext == [machine |-> place.machine, boot |-> boots[place.machine],
                workspace |-> place.workspace]

CoreTypeOK ==
    /\ rows \in [Keys -> Row]
    /\ barriers \subseteq Keys
    /\ official \in [Keys -> {"no", "partial", "complete"}]
    /\ coreState \in {"down", "serving", "drained"}
    /\ context \in RecoveryContext \cup {None}
    /\ quiescing \in BOOLEAN
    /\ admitted \subseteq Keys
    /\ runs \in [Keys -> Run]
    /\ groups \in [Keys -> Machines \cup {None}]
    /\ launches \in [Keys -> Nat]
    /\ place \in Place
    /\ boots \in [Machines -> Nat]

CoreInit ==
    /\ rows = [k \in Keys |-> NoRow]
    /\ barriers = {}
    /\ official = [k \in Keys |-> "no"]
    /\ coreState = "down"
    /\ context = None
    /\ quiescing = FALSE
    /\ admitted = {}
    /\ runs = [k \in Keys |-> NoRun]
    /\ groups = [k \in Keys |-> None]
    /\ launches = [k \in Keys |-> 0]
    /\ place \in Place
    /\ boots = [m \in Machines |-> 1]
-----------------------------------------------------------------------------
(* One store call under faults F: it succeeds, it fails and changes        *)
(* nothing, or it commits and its receipt is lost.                         *)

Outcome(F) == {"ok"} \cup F
After(o, old, new) == IF o = "fail" THEN old ELSE new
ReadOutcome(F) == {"ok"} \cup (F \cap {"fail"})

SetRow(k, row) == rows' = [rows EXCEPT ![k] = row]
SetRun(k, run) == runs' = [runs EXCEPT ![k] = run]
HasRun(k) == runs[k].phase # "none"
Serving == coreState = "serving"

\* Start one supervised child of k; the capture of its group may fail.
SpawnChild(k, run, phase, captured) ==
    /\ groups' = [groups EXCEPT ![k] = place.machine]
    /\ SetRun(k, [run EXCEPT !.phase = phase, !.stopped = FALSE,
                             !.captured = captured])

FailureSubmission(k, row) ==
    [attempt |-> k, binding |-> row.binding, fence |-> row.revision,
     outcome |-> "failed", result |-> FailureDoc]

\* record_failure: what registering a failure leaves of k's row.
FailureRow(k, row, o) ==
    CASE row.status = "stopping" -> After(o, row, SettleCancelledRow(row))
      [] row.status = "unknown" -> row
      [] OTHER ->
           LET s == FailureSubmission(k, row) IN
             IF CommitReply(k, row, k \in barriers, s) = "ok"
             THEN After(o, row, CommitRow(row, s)) ELSE row

\* record_failure_for: register the failure and leave the run idle.
RecordFailure(k, run, F) ==
    /\ \E o \in Outcome(F) : SetRow(k, FailureRow(k, rows[k], o))
    /\ SetRun(k, [run EXCEPT !.phase = "idle"])
    /\ UNCHANGED <<barriers, groups, launches>>
-----------------------------------------------------------------------------
(* Requests.                                                               *)

\* begin_run, and the failure its caller records when it returns an error.
BeginRun(k, row, F) ==
    LET dispatched == DispatchRow(row, CoreOwner, context) IN
    /\ admitted' = admitted \cup {k}
    /\ UNCHANGED launches
    /\ \/ \* the dispatch is not known to have been written: no run exists
          /\ \E d \in F, o \in Outcome(F) :
               SetRow(k, FailureRow(k, After(d, row, dispatched), o))
          /\ UNCHANGED <<runs, groups>>
       \/ \* dispatched, but the input check did not start
          /\ \E o \in Outcome(F) : SetRow(k, FailureRow(k, dispatched, o))
          /\ SetRun(k, IdleRun)
          /\ UNCHANGED groups
       \/ \* dispatched, and the input check runs
          /\ SetRow(k, dispatched)
          /\ \E c \in BOOLEAN : SpawnChild(k, IdleRun, "freeze", c)

confirm(k, binding) ==
    /\ Serving /\ ~quiescing
    /\ \/ /\ MayConfirm(rows, barriers, k, binding)
          /\ \/ BeginRun(k, ConfirmRow(binding), Faults)
             \/ \* committed, but the core never saw the receipt
                /\ "lost" \in Faults
                /\ SetRow(k, ConfirmRow(binding))
                /\ UNCHANGED <<admitted, runs, groups, launches>>
       \/ /\ IsReplay(rows[k], binding)
          /\ rows[k].status = "eligible"
          /\ ~HasRun(k)
          /\ BeginRun(k, rows[k], Faults)
    /\ UNCHANGED <<barriers, official, coreState, context, quiescing, world>>

\* Core::cancel: only an accepted cancellation whose receipt arrived reaches
\* the run.
CancelStep(k, o) ==
    /\ MayCancel(rows[k])
    /\ SetRow(k, After(o, rows[k], CancelRow(rows[k], k \in barriers)))
    /\ barriers' = After(o, barriers, barriers \cup {k})
    /\ IF o = "ok" /\ HasRun(k) THEN SetRun(k, [runs[k] EXCEPT !.stop = TRUE])
                                ELSE UNCHANGED runs
    /\ UNCHANGED <<official, coreState, context, admitted, groups, launches, world>>

cancel(k) ==
    /\ Serving
    /\ \E o \in Outcome(Faults) : CancelStep(k, o)
    /\ UNCHANGED quiescing

\* drain_status: what this process admitted and has not proven ended.
Pending == {k \in admitted :
              \/ ~is_terminal(rows[k].status)
              \/ ~runs[k].stopped
              \/ runs[k].phase \notin {"none", "idle"}}

\* Admission closes, then every admitted run that has not ended is cancelled.
\* One that still can be holds the slot, so there is at most one.
quiesce ==
    /\ Serving
    /\ quiescing' = TRUE
    /\ LET unended == {k \in admitted : ~is_terminal(rows[k].status)} IN
         \/ /\ "fail" \in Faults \/ \A k \in unended : ~MayCancel(rows[k])
            /\ UNCHANGED <<store, coreState, context, admitted, runs, groups,
                           launches, world>>
         \/ \E k \in unended, o \in Outcome(Faults) : CancelStep(k, o)

\* recovery_action: prepare_recovery or release_unknown.
recovery_action(k, id, expected, release) ==
    /\ Serving /\ ~quiescing
    /\ IF release
       THEN /\ MayRelease(rows[k], context, id, expected)
            /\ SetRow(k, ReleaseRow(rows[k], context))
       ELSE /\ MayPrepare(rows[k], context, id, expected)
            /\ SetRow(k, PrepareRow(rows[k], context, id))
    /\ UNCHANGED <<barriers, official, process, runs, groups, launches, world>>
-----------------------------------------------------------------------------
(* The tick of one run.  F is the set of store faults it may meet.         *)

\* Mutant of settle_cancelled: the pending stop is cleared without readback.
settle_cancelledOnce(k, run, F) ==
    /\ \E o \in Outcome(F) :
         SetRow(k, IF rows[k].status = "stopping"
                   THEN After(o, rows[k], SettleCancelledRow(rows[k]))
                   ELSE rows[k])
    /\ SetRun(k, [run EXCEPT !.phase = "idle", !.stop = FALSE])

\* A cancellation this core accepted, with the whole group proven gone.
settle_cancelled(k, run, F) ==
    LET row == rows[k]
        idle == [run EXCEPT !.phase = "idle"]
    IN /\ run.stopped
       /\ \/ \* the record cannot be read: try again on a later tick
             /\ "fail" \in F
             /\ SetRun(k, idle)
             /\ UNCHANGED rows
          \/ \E o \in Outcome(F), reread \in ReadOutcome(F) :
               LET after == IF row.status = "stopping"
                            THEN After(o, row, SettleCancelledRow(row)) ELSE row
               IN /\ SetRow(k, after)
                  /\ SetRun(k, IF reread = "ok" /\ is_terminal(after.status)
                               THEN [idle EXCEPT !.stop = FALSE,
                                                 !.aborted = FALSE]
                               ELSE idle)

\* A run without its running-state receipt, with the whole group proven gone.
settle_aborted(k, run, F) ==
    LET row == rows[k]
        idle == [run EXCEPT !.phase = "idle"]
    IN /\ run.stopped
       /\ \/ /\ "fail" \in F
             /\ SetRun(k, idle)
             /\ UNCHANGED rows
          \/ /\ row.status = "unknown"
             /\ SetRun(k, [idle EXCEPT !.aborted = FALSE])
             /\ UNCHANGED rows
          \/ /\ MayMarkUnknown(row, row.revision)
             /\ \E o \in Outcome(F) :
                  /\ SetRow(k, After(o, row, MarkUnknownRow(row)))
                  /\ SetRun(k, [idle EXCEPT !.aborted = (o # "ok")])
          \/ \* neither unknown nor advanceable: the write is refused, retried
             /\ row.status # "unknown" /\ ~MayMarkUnknown(row, row.revision)
             /\ SetRun(k, idle)
             /\ UNCHANGED rows

\* The frozen input was proved and written out: spawn the worker, then record
\* that it runs.  Without that receipt the run is aborted, never registered.
StartWorker(k, run, F) ==
    /\ launches' = [launches EXCEPT ![k] = @ + 1]
    /\ \E c \in BOOLEAN, o \in Outcome(F) :
         LET may == MayMarkRunning(rows[k], rows[k].revision) IN
         /\ SpawnChild(k, [run EXCEPT !.aborted = ~may \/ o # "ok"], "worker", c)
         /\ SetRow(k, IF may THEN After(o, rows[k], MarkRunningRow(rows[k]))
                             ELSE rows[k])
    /\ UNCHANGED barriers

finish_freeze(k, run, F) == RecordFailure(k, run, F) \/ StartWorker(k, run, F)

finish_worker(k, run, F) ==
    \/ RecordFailure(k, run, F)
    \/ /\ \E c \in BOOLEAN : SpawnChild(k, run, "validate", c)
       /\ UNCHANGED <<rows, barriers, launches>>

finish_validate(k, run, F) ==
    \/ RecordFailure(k, run, F)
    \/ /\ SetRun(k, [run EXCEPT !.phase = "committing"])
       /\ UNCHANGED <<rows, barriers, groups, launches>>

\* settle: a cancellation first, then an abort, then the phase that finished.
settle(k, run, F) ==
    IF run.stop THEN /\ settle_cancelled(k, run, F)
                     /\ UNCHANGED <<barriers, groups, launches>>
    ELSE IF run.aborted THEN /\ settle_aborted(k, run, F)
                             /\ UNCHANGED <<barriers, groups, launches>>
    ELSE \/ run.phase = "freeze" /\ finish_freeze(k, run, F)
         \/ run.phase = "worker" /\ finish_worker(k, run, F)
         \/ run.phase = "validate" /\ finish_validate(k, run, F)

SettleIdle(k, F) ==
    /\ runs[k].phase = "idle" /\ runs[k].stopped
    /\ runs[k].stop \/ runs[k].aborted
    /\ settle(k, runs[k], F)
    /\ UNCHANGED official

\* The guard reports Stopped only for a captured group that is gone.
PollStopped(k, F) ==
    /\ runs[k].phase \in ChildPhases
    /\ runs[k].captured /\ groups[k] = None
    /\ settle(k, [runs[k] EXCEPT !.stopped = TRUE], F)
    /\ UNCHANGED official

\* The guard reports Unconfirmed or Abandoned: a stop was asked for, or the
\* leader left something behind, and absence is not proven.
PollUnproven(k, F) ==
    /\ runs[k].phase \in ChildPhases
    /\ \/ runs[k].aborted
       \/ groups[k] # None
       \/ ~runs[k].captured
    /\ ~runs[k].stop
    /\ SetRun(k, [runs[k] EXCEPT !.aborted = TRUE])
    /\ IF MayMarkUnknown(rows[k], rows[k].revision)
       THEN \E o \in Outcome(F) :
              SetRow(k, After(o, rows[k], MarkUnknownRow(rows[k])))
       ELSE UNCHANGED rows
    /\ UNCHANGED <<barriers, official, groups, launches>>

SuccessSubmission(k) ==
    [attempt |-> k, binding |-> rows[k].binding, fence |-> rows[k].revision,
     outcome |-> "succeeded", result |-> OfficialDoc]

\* The verified bytes are durable; register them under the current fence.
RegisterPublished(k, run, F) ==
    LET s == SuccessSubmission(k)
        reply == CommitReply(k, rows[k], k \in barriers, s)
    IN \/ /\ reply = "ok"
          /\ \E o \in Outcome(F) :
               SetRow(k, After(o, rows[k], CommitRow(rows[k], s)))
          /\ SetRun(k, run)
       \/ /\ reply = "invalid_state"
          /\ settle_cancelled(k, run, F)
       \/ /\ reply \notin {"ok", "invalid_state"} \/ "fail" \in F
          /\ SetRun(k, run)
          /\ UNCHANGED rows

commit_validated(k, F) ==
    LET run == [runs[k] EXCEPT !.phase = "idle"] IN
    /\ runs[k].phase = "committing" /\ ~runs[k].stop
    /\ \/ \* the publication failed, before or after its directory appeared
          /\ \E p \in {official[k], "partial"} :
               official' = [official EXCEPT ![k] = p]
          /\ RecordFailure(k, runs[k], F)
       \/ /\ official[k] = "no"
          /\ official' = [official EXCEPT ![k] = "complete"]
          /\ RegisterPublished(k, run, F)
          /\ UNCHANGED <<barriers, groups, launches>>

CommitStopped(k, F) ==
    /\ runs[k].phase = "committing" /\ runs[k].stop
    /\ settle(k, runs[k], F)
    /\ UNCHANGED official

tick(k, F) ==
    /\ Serving
    /\ \/ SettleIdle(k, F)
       \/ PollStopped(k, F)
       \/ PollUnproven(k, F)
       \/ commit_validated(k, F)
       \/ CommitStopped(k, F)
    /\ UNCHANGED <<process, world>>
-----------------------------------------------------------------------------
(* The process, its machine and the workspace.                             *)

\* Core::open: take the lock, reconcile, bind the socket.  A core that fails
\* after the reconciliation leaves it behind.
CoreOpen ==
    /\ ~Serving
    /\ rows' = [k \in Keys |-> ReconcileRow(rows[k])]
    /\ \/ /\ coreState' = "serving"
          /\ context' \in {HostContext, None}
       \/ /\ coreState' = "down"
          /\ context' = None
    /\ quiescing' = FALSE
    /\ admitted' = {}
    /\ UNCHANGED <<barriers, official, runs, groups, launches, world>>

\* The process is gone: nothing it held in memory survives.
ProcessEnds(state) ==
    /\ coreState' = state
    /\ context' = None
    /\ quiescing' = FALSE
    /\ admitted' = IF state = "drained" THEN admitted ELSE {}
    /\ runs' = [k \in Keys |-> NoRun]

\* serve: the desktop closed the liveness pipe.  Only a completed quiesce is a
\* clean exit.
OwnerGone ==
    /\ Serving
    /\ ProcessEnds(IF quiescing /\ Pending = {} THEN "drained" ELSE "down")
    /\ UNCHANGED <<store, groups, launches, world>>

Crash ==
    /\ Serving
    /\ ProcessEnds("down")
    /\ UNCHANGED <<store, groups, launches, world>>

\* A process group ends, by itself, by a signal, or because its owner is gone.
GroupExits(k) ==
    /\ groups[k] # None
    /\ groups' = [groups EXCEPT ![k] = None]
    /\ UNCHANGED <<store, process, runs, launches, world>>

\* A machine restarts: no process of the earlier boot survives.
Reboot(m) ==
    /\ boots[m] < MaxBoot
    /\ boots' = [boots EXCEPT ![m] = @ + 1]
    /\ groups' = [k \in Keys |-> IF groups[k] = m THEN None ELSE groups[k]]
    /\ IF Serving /\ m = place.machine THEN ProcessEnds("down")
                                       ELSE UNCHANGED <<process, runs>>
    /\ UNCHANGED <<store, launches, place>>

Carry(p) ==
    /\ ~Serving
    /\ place' = p
    /\ UNCHANGED <<store, process, runs, groups, launches, boots>>

\* The sequential command line: the same store methods, no supervision.
OfflineConfirm(k, binding) ==
    /\ ~Serving
    /\ MayConfirm(rows, barriers, k, binding)
    /\ SetRow(k, ConfirmRow(binding))
    /\ UNCHANGED <<barriers, official, process, runs, groups, launches, world>>

OfflineCancel(k) ==
    /\ ~Serving
    /\ MayCancel(rows[k])
    /\ SetRow(k, CancelRow(rows[k], k \in barriers))
    /\ barriers' = barriers \cup {k}
    /\ UNCHANGED <<official, process, runs, groups, launches, world>>

CoreNext ==
    \/ \E k \in Keys, b \in Bindings : confirm(k, b)
    \/ \E k \in Keys : cancel(k)
    \/ quiesce
    \/ \E k \in Keys, id \in PrepIds, e \in Fences, release \in BOOLEAN :
         recovery_action(k, id, e, release)
    \/ \E k \in Keys : tick(k, Faults)
    \/ CoreOpen
    \/ OwnerGone
    \/ Crash
    \/ \E k \in Keys : GroupExits(k)
    \/ \E m \in Machines : Reboot(m)
    \/ \E p \in Place : Carry(p)
    \/ \E k \in Keys, b \in Bindings : OfflineConfirm(k, b)
    \/ \E k \in Keys : OfflineCancel(k)

CoreSpec == CoreInit /\ [][CoreNext]_coreVars

\* A captured group that is told to stop dies of SIGKILL at the latest.
Killed(k) ==
    Serving /\ runs[k].captured /\ (runs[k].stop \/ runs[k].aborted)

-----------------------------------------------------------------------------
\* A live process group always belongs to the experiment that holds the slot,
\* on whatever machine, across crashes, lost receipts, cancellations of unknown
\* attempts and recoveries: the slot is never free, nor another's, while
\* compute may be running.
ComputeHoldsSlot == \A k \in Keys : groups[k] # None => rows[k].active

\* Two experiments never compute at the same time, although a core that lost its
\* children cannot see them and its successor admits the next experiment.
OneCompute ==
    \A j, k \in Keys : groups[j] # None /\ groups[k] # None => j = k

\* One confirmation buys one run: a worker is started at most once for a key,
\* however often it is confirmed again, cancelled or recovered.
OneLaunch == \A k \in Keys : launches[k] <= 1

\* A registered success has its verified bytes completely published, also when
\* the core died or the write failed between publication and registration.
SuccessIsPublished ==
    \A k \in Keys : rows[k].status = "succeeded" => official[k] = "complete"

\* A clean exit leaves nothing behind: everything this process admitted has
\* ended durably and none of its process groups is alive.
CleanExit ==
    coreState = "drained" =>
        \A k \in admitted : is_terminal(rows[k].status) /\ groups[k] = None

\* While a run is owned, what its memory calls stopped is really stopped: the
\* flag survives failed writes and is never left over from an earlier child.
StoppedIsProven ==
    \A k \in Keys : HasRun(k) /\ runs[k].stopped => groups[k] = None

\* A cancellation that reached its run is settled: once the group dies and the
\* store writes again, the attempt ends, unless the core itself is lost.
CancelSettles ==
    \A k \in Keys :
        (Serving /\ runs[k].stop /\ (runs[k].stopped \/ runs[k].captured))
            ~> (~Serving \/ is_terminal(rows[k].status))

\* An aborted run is not left half-way: its record becomes unknown, or a
\* cancellation or an end was recorded for it.
AbortSettles ==
    \A k \in Keys :
        (Serving /\ runs[k].aborted /\ (runs[k].stopped \/ runs[k].captured))
            ~> (\/ ~Serving
                \/ rows[k].status \in Final \cup {"unknown"}
                \/ k \in barriers)
-----------------------------------------------------------------------------
(* The inductive invariant: what the durable record of a key, the run that  *)
(* this core's memory holds for it and its process group know of each other. *)

\* At most one record holds the slot.
OneActive == \A j, k \in Keys : rows[j].active /\ rows[k].active => j = k

\* The open store's context is the host as it stands.
ContextIsHost == context # None => Serving /\ context = HostContext

\* A live group was dispatched, holds the slot, and runs on the machine and in
\* the boot its record names, if it names one.
ComputeIsRecorded(k) ==
    LET row == rows[k] IN
    /\ row.active /\ row.status # "eligible"
    /\ row.origin # None => /\ groups[k] = row.origin.machine
                            /\ boots[row.origin.machine] = row.origin.boot

\* A run in memory was dispatched by this very core, its proof of absence is
\* true, and until it is idle its attempt holds the slot.
RunIsOwned(k) ==
    /\ Serving
    /\ rows[k].status \notin {"absent", "eligible"}
    /\ rows[k].origin = context
    /\ runs[k].stopped => groups[k] = None
    /\ runs[k].phase = "committing" => runs[k].stopped
    /\ runs[k].phase # "idle" => rows[k].active

KeyInv(k) ==
    /\ RowInv(rows[k], boots)
    /\ rows[k].status \in {"stopping", "cancelled"} => k \in barriers
    /\ rows[k].status \in {"succeeded", "failed"} => k \notin barriers
    /\ groups[k] # None => ComputeIsRecorded(k)
    /\ HasRun(k) => RunIsOwned(k)
    /\ launches[k] <= 1
    /\ \/ rows[k].status \in {"absent", "eligible"}
       \/ runs[k].phase = "freeze"
       => launches[k] = 0
    /\ rows[k].status = "succeeded" => official[k] = "complete"

CoreInv ==
    /\ CoreTypeOK /\ OneActive /\ ContextIsHost
    /\ \A k \in Keys : KeyInv(k)
    /\ CleanExit
-----------------------------------------------------------------------------
Holder == IF \E k \in Keys : rows[k].active
          THEN CHOOSE k \in Keys : rows[k].active ELSE None

Ledger == INSTANCE SlotLedger WITH
    holder <- Holder,
    verdict <- [k \in Keys |-> VerdictOf(rows[k])],
    cancelled <- barriers

\* Every handler of the core, with all the writes it makes, is one step of the
\* slot ledger or invisible to it.
ImplementsLedger == Ledger!Spec

\* The event loop's safety: compute only under the slot and one at a time, one
\* launch per confirmation, success only with published bytes, a clean exit
\* that leaves nothing, and memory that calls stopped only what is.
CoreSafe ==
    /\ CoreInv
    /\ ComputeHoldsSlot /\ OneCompute /\ OneLaunch
    /\ SuccessIsPublished /\ StoppedIsProven
=============================================================================
