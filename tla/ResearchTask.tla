---------------------------- MODULE ResearchTask ----------------------------
(***************************************************************************)
(* One research task (web/research.py): its durable record, the operation  *)
(* that owns it, the model provider and the job it may run.                *)
(*                                                                         *)
(* Every write goes through _transition, one locked reload, reduction and  *)
(* save.  One operation owns the task at a time; a cancellation needs no   *)
(* ownership and may land between any two writes of the operation.  A save *)
(* may raise, having replaced the record or not: the exception ends the    *)
(* operation and the task stays owned until the process restarts.          *)
(***************************************************************************)
EXTENDS Naturals

CONSTANTS ResearchKinds,      \* which tasks are explored: "legacy", "owned"
          MaxCalls,           \* the model calls of a task's budget
          MaxRuns,            \* its backtests
          ResearchMaxFaults,  \* crashes and failed saves
          MaxReports          \* how often the verified report changes

ASSUME ResearchAssumption ==
    /\ ResearchKinds \subseteq {"legacy", "owned"} /\ {MaxCalls, MaxRuns, ResearchMaxFaults, MaxReports} \subseteq Nat

VARIABLES task,          \* the durable record
          owned,         \* an operation owns the task in this process
          researchOp,    \* the operation in progress
          next,          \* what the caller does once its operation has finished
          job,           \* the run published under the task's request identity
          rep,           \* the verified report: 0 when unreadable
          cancel,        \* the cancellation request: none, stopping its runs, answered
          researchGhost  \* provider calls made, faults, an unconfirmed save, whether it succeeded

researchVars == <<task, owned, researchOp, next, job, rep, cancel, researchGhost>>

ResearchNoOp == [pc |-> "none"]
ResearchNoCall == [st |-> "none", seq |-> 0]
Live == {"accepted", "stopping"}

Owned == task.kind = "owned"
\* _conclusion_closed
Closed(t) == t.concl # 0 \/ t.ierr # "none"

-----------------------------------------------------------------------------
(* Writing *)

\* The end of _reduce: a cancelled task takes usage and evidence from a late result, never
\* a status, a spec or a conclusion.
Reduced(t) ==
    IF task.status # "cancelled" THEN t
    ELSE [task EXCEPT !.calls = t.calls, !.spent = t.spent, !.last = t.last, !.bound = t.bound,
                      !.res = t.res, !.bres = t.bres, !.runs = t.runs, !.evid = t.evid]

ResearchFault == researchGhost.faults < ResearchMaxFaults /\ researchGhost' = [researchGhost EXCEPT !.faults = @ + 1]
Saw(t) == researchGhost' = [researchGhost EXCEPT !.was = @ \/ t.status = "succeeded"]

\* _transition: the reduced record is saved and the operation goes on at pc, or the save
\* raises, visibly or not, and ends the operation without releasing the task.
ResearchSave(t, finish, nextOp) ==
    \/ /\ task' = Reduced(t) /\ researchOp' = nextOp /\ owned' = ~finish /\ Saw(Reduced(t))
    \/ /\ researchGhost.faults < ResearchMaxFaults /\ researchGhost' = [researchGhost EXCEPT !.faults = @ + 1, !.lost = TRUE]
       /\ task' \in {task, Reduced(t)} /\ researchOp' = ResearchNoOp /\ UNCHANGED owned
ResearchAt(pc) == [researchOp EXCEPT !.pc = pc]
Go(t, pc) == ResearchSave(t, FALSE, ResearchAt(pc)) /\ UNCHANGED next
Finish(t) == ResearchSave(t, TRUE, ResearchNoOp) /\ next' = IF researchOp.then = "none" THEN next ELSE researchOp.then
Noop == Finish(task)
Failed(err, step) == [task EXCEPT !.status = "failed", !.err = err, !.step = step]
\* _interpretation_failure: a closed axis keeps its answer.
InterpretFailed(t) == IF Closed(t) THEN t ELSE [t EXCEPT !.ierr = "failed"]
ResearchDoing(pc) == researchOp.pc = pc
\* A rejected transition is an exception: the operation ends and keeps the task.
Raise == researchOp' = ResearchNoOp /\ UNCHANGED <<task, owned, next, researchGhost>>
Others == UNCHANGED <<job, rep, cancel>>

-----------------------------------------------------------------------------
(* _begin: an unconfirmed save of the new generation keeps the task owned. *)

Enter(pc, then) == researchOp' = [pc |-> pc, then |-> then, rep |-> 0] /\ owned' = TRUE
Begin(pc, then) ==
    /\ researchOp = ResearchNoOp /\ ~owned
    /\ \/ Enter(pc, then) /\ UNCHANGED researchGhost
       \/ /\ researchGhost.faults < ResearchMaxFaults /\ researchGhost' = [researchGhost EXCEPT !.faults = @ + 1, !.lost = TRUE]
          /\ owned' = TRUE /\ UNCHANGED researchOp
    /\ UNCHANGED <<task, job, rep, cancel>>

BeginNext ==
    /\ next # "none" /\ task.status # "cancelled"
    /\ Begin(CASE next = "propose" -> "reserve" [] next = "backtest" -> "start" [] next = "retry" -> "retry",
             "none")
    /\ next' = "none"
\* _begin finds the task owned or cancelled: the request only reads it.
DropNext ==
    /\ next # "none" /\ (owned \/ task.status = "cancelled") /\ next' = "none"
    /\ UNCHANGED <<task, owned, researchOp, job, rep, cancel, researchGhost>>
BeginConfirm == ~Owned /\ task.status # "cancelled" /\ Begin("confirm", "backtest") /\ UNCHANGED next
BeginEdit == ~Owned /\ task.status # "cancelled" /\ Begin("edit", "none") /\ UNCHANGED next
BeginInterpret == task.status # "cancelled" /\ Begin("interpret", "none") /\ UNCHANGED next
BeginReconcile == Begin("reconcile", "none") /\ UNCHANGED next
\* retry reconciles first.
BeginRetry == ~Owned /\ Begin("reconcile", "retry") /\ UNCHANGED next

-----------------------------------------------------------------------------
(* Model calls: reservation, dispatch, settlement *)

ReserveCall(t) == [t EXCEPT !.res = [st |-> "pending", seq |-> t.spent + 1], !.calls = @ + 1]
Refunded(t) == [t EXCEPT !.res = ResearchNoCall, !.calls = @ - 1]
\* Mutant of ReleasePending: the charge is returned whatever the reservation says.
ReleaseAnyway(t) == IF t.res = ResearchNoCall THEN t ELSE Refunded(t)
\* "model_pending_release": only a reservation that was not dispatched is returned.
ReleasePending(t) == IF t.res.st = "pending" THEN Refunded(t) ELSE t
\* "model_observed", "model_concluded" and "model_unknown": the call is spent.
Settled(t, outcome) ==
    IF t.res = ResearchNoCall THEN t ELSE [t EXCEPT !.res = ResearchNoCall, !.spent = t.res.seq, !.last = outcome]
\* "model_observed"/"model_unknown" with an error: a closed conclusion axis keeps its run.
WithError(t, err, step) ==
    IF Closed(t) THEN t ELSE [t EXCEPT !.status = "failed", !.err = err, !.step = step]

\* One call is held back for the conclusion.
ProposeReserve ==
    /\ ResearchDoing("reserve") /\ Others
    /\ IF task.status = "cancelled" THEN Noop
       ELSE IF task.res # ResearchNoCall THEN Raise
       ELSE IF task.calls + 1 >= MaxCalls THEN Finish(Failed("retry", "propose"))
       ELSE Go(ReserveCall(task), "dispatch")

ProposeDispatch ==
    /\ ResearchDoing("dispatch") /\ Others
    /\ \/ IF task.status = "cancelled" THEN Finish(ReleasePending(task))
          ELSE Go([task EXCEPT !.res.st = "dispatched"], "call")
       \/ Finish(WithError(ReleasePending(task), "retry", "propose"))

Called == researchGhost' = [researchGhost EXCEPT !.sends = @ + 1]
\* The provider answers, its outcome stays unknown, or no provider is configured.
ProposeCall ==
    /\ ResearchDoing("call") /\ Others
    /\ \/ Called /\ researchOp' \in {ResearchAt("observed"), ResearchAt("unknown")} /\ UNCHANGED <<task, owned, next>>
       \/ Finish(WithError(Refunded(task), "retry", "propose"))
ProposeUnknown == ResearchDoing("unknown") /\ Others /\ Finish(WithError(Settled(task, "unknown"), "retry", "propose"))
ProposeObserved == ResearchDoing("observed") /\ Others /\ Go(Settled(task, "observed"), "tools")

\* A usable spec, an unsupported idea, a rejected proposal that asks again, or none.
ProposeTools ==
    /\ ResearchDoing("tools") /\ Others
    /\ IF task.status = "cancelled" THEN Noop
       ELSE \/ Finish([task EXCEPT !.status = "awaiting_confirmation", !.err = "none", !.draft = TRUE])
            \/ Finish([task EXCEPT !.status = "unsupported", !.err = "none"])
            \/ researchOp' = ResearchAt("reserve") /\ UNCHANGED <<task, owned, next, researchGhost>>
            \/ Finish(Failed("retry", "propose"))

\* confirm: the draft becomes the confirmed spec.
Confirm ==
    /\ ResearchDoing("confirm") /\ Others
    /\ \/ /\ task.draft /\ task.status # "cancelled"
          /\ Finish([task EXCEPT !.draft = FALSE, !.conf = TRUE, !.status = "confirmed", !.err = "none"])
       \/ ResearchSave(task, TRUE, ResearchNoOp) /\ UNCHANGED next           \* no draft, or it no longer validates

\* edit_spec: the draft is read, and written if it is still unconfirmed; a cancellation in
\* between makes the write an exception.
EditRead ==
    /\ ResearchDoing("edit") /\ Others
    /\ \/ task.draft /\ researchOp' = ResearchAt("editw") /\ UNCHANGED <<task, owned, next, researchGhost>>
       \/ Noop
EditWrite ==
    /\ ResearchDoing("editw") /\ Others
    /\ IF task.status = "awaiting_confirmation" THEN Finish([task EXCEPT !.err = "none"]) ELSE Raise

-----------------------------------------------------------------------------
(* _start_backtest *)

JobRead == job.st \notin {"none", "hidden"}
UnknownJob == Finish(Failed("unknown", "backtest"))

StartBacktest ==
    /\ ResearchDoing("start") /\ Others
    /\ IF task.status = "cancelled" THEN Noop
       ELSE \/ UnknownJob                             \* the job index cannot be read
            \/ IF JobRead THEN researchOp' = ResearchAt("bind") /\ UNCHANGED <<task, owned, next, researchGhost>>
               ELSE IF task.bres # "none"
               THEN researchOp' = ResearchAt("recover") /\ UNCHANGED <<task, owned, next, researchGhost>>
               ELSE IF ~task.conf \/ (~Owned /\ task.calls >= MaxCalls)
               THEN Finish(Failed("retry", "backtest"))
               ELSE \/ Finish(Failed("retry", "backtest"))   \* the scenario or the binding is refused
                    \/ researchOp' = ResearchAt("breserve") /\ UNCHANGED <<task, owned, next, researchGhost>>

\* "backtest_reserve"
BacktestReserve ==
    /\ ResearchDoing("breserve") /\ Others
    /\ IF task.status = "cancelled" THEN Noop
       ELSE IF task.bres # "none" \/ task.bound THEN Raise
       ELSE IF task.runs >= MaxRuns THEN Finish(Failed("retry", "backtest"))
       ELSE Go([task EXCEPT !.status = "running", !.bres = "pending", !.runs = @ + 1],
               IF Owned THEN "submit" ELSE "bdispatch")

\* "backtest_pending_release"
ReleaseRun(err) ==
    IF task.bres = "pending"
    THEN [task EXCEPT !.bres = "none", !.runs = @ - 1, !.status = "failed", !.err = err, !.step = "backtest"]
    ELSE task
\* A legacy task records its dispatch before the job boundary.
BacktestDispatch ==
    /\ ResearchDoing("bdispatch") /\ Others
    /\ IF task.status = "cancelled" THEN Finish(ReleaseRun("retry"))
       ELSE Go([task EXCEPT !.bres = "dispatched"], "submit")

\* _legacy_dispatch_gate and _dispatch_reserved_backtest, under the service lock.
DispatchGate == task.status # "cancelled" /\ (Owned => task.bres = "pending")
\* create_job up to its gate: the service may refuse for reasons of its own.
SubmitJob ==
    /\ ResearchDoing("submit") /\ Others
    /\ \/ UnknownJob                                  \* the second lookup fails
       \/ /\ researchOp' = ResearchAt("refused") /\ UNCHANGED <<task, owned, next, researchGhost>>
       \/ IF DispatchGate
          THEN IF Owned THEN Go([task EXCEPT !.bres = "dispatched"], "publish")
               ELSE researchOp' = ResearchAt("publish") /\ UNCHANGED <<task, owned, next, researchGhost>>
          ELSE researchOp' = ResearchAt("refused") /\ UNCHANGED <<task, owned, next, researchGhost>>
\* The service publishes the job; its write may raise, and then the index does not know
\* the job even if the record is on disk.
PublishJob ==
    /\ ResearchDoing("publish") /\ UNCHANGED <<rep, cancel, task, owned, next>>
    /\ \/ job' = [st |-> "accepted"] /\ researchOp' = ResearchAt("bind") /\ UNCHANGED researchGhost
       \/ ResearchFault /\ job' \in {job, [st |-> "hidden"]} /\ researchOp' = ResearchAt("refused")

\* _submission_refused_or_unknown
SubmissionRefused ==
    /\ ResearchDoing("refused") /\ Others
    /\ IF task.bres = "none" THEN Noop
       ELSE IF task.bres = "dispatched" THEN UnknownJob
       ELSE Finish(ReleaseRun("retry"))

\* _bind: two writes.
BindFound ==
    /\ ResearchDoing("bind") /\ Others
    /\ Go([task EXCEPT !.bound = TRUE, !.bres = "none", !.status = "running", !.err = "none"], "state")
BindState ==
    /\ ResearchDoing("state") /\ Others
    /\ IF ~task.bound THEN Raise
       ELSE Finish(CASE job.st \in Live -> [task EXCEPT !.status = "running", !.err = "none"]
                     [] job.st = "succeeded" -> [task EXCEPT !.status = "succeeded", !.err = "none"]
                     [] OTHER -> Failed("retry", "backtest"))

\* _recover_backtest: pending proves no dispatch, a dispatched submission stays unknown.
RecoverBacktest ==
    /\ ResearchDoing("recover") /\ Others
    /\ IF JobRead THEN researchOp' = ResearchAt("bind") /\ UNCHANGED <<task, owned, next, researchGhost>>
       ELSE IF task.bres = "pending" THEN Finish(ReleaseRun("retry"))
       ELSE UnknownJob

-----------------------------------------------------------------------------
(* interpret *)

Interpret ==
    /\ ResearchDoing("interpret") /\ Others
    /\ IF Closed(task) \/ task.status # "succeeded" THEN Noop
       ELSE IF task.evid # 0 THEN researchOp' = ResearchAt("publishc") /\ UNCHANGED <<task, owned, next, researchGhost>>
       ELSE IF rep = 0 THEN Finish(InterpretFailed(task))
       ELSE \/ Go([task EXCEPT !.evid = rep], "publishc")     \* no criterion was frozen
            \/ researchOp' = [ResearchAt("ireserve") EXCEPT !.rep = rep] /\ UNCHANGED <<task, owned, next, researchGhost>>

InterpretReserve ==
    /\ ResearchDoing("ireserve") /\ Others
    /\ IF Closed(task) \/ task.res # ResearchNoCall \/ task.status = "cancelled" THEN Noop
       ELSE IF task.calls >= MaxCalls THEN Finish(InterpretFailed(task))
       ELSE Go(ReserveCall(task), "idispatch")

\* The cancellation that closed the axis released the reservation already.
InterpretDispatch ==
    /\ ResearchDoing("idispatch") /\ Others
    /\ IF task.res.st # "pending" THEN Noop
       ELSE Go([task EXCEPT !.res.st = "dispatched"], "icall")

InterpretCall ==
    /\ ResearchDoing("icall") /\ Others
    /\ \/ Called /\ researchOp' \in {ResearchAt("concluded"), ResearchAt("iunknown")} /\ UNCHANGED <<task, owned, next>>
       \/ Go(IF task.res = ResearchNoCall THEN task ELSE Refunded(task), "ifail")
InterpretUnknown == ResearchDoing("iunknown") /\ Others /\ Go(Settled(task, "unknown"), "ifail")
InterpretFail == ResearchDoing("ifail") /\ Others /\ Finish(InterpretFailed(task))
\* The charge and the evidence are one write.
InterpretConcluded ==
    /\ ResearchDoing("concluded") /\ Others
    /\ Go([Settled(task, "observed") EXCEPT !.evid = researchOp.rep], "publishc")

Publishable == ~Closed(task) /\ task.status # "cancelled"
\* _publish_interpretation re-verifies the report the evidence names.
PublishInterpretation ==
    /\ ResearchDoing("publishc") /\ Others
    /\ IF task.evid = 0 \/ task.status = "cancelled" THEN Noop
       ELSE IF rep # task.evid THEN Finish(InterpretFailed(task))
       ELSE \/ Finish(InterpretFailed(task))                  \* the claim is rejected
            \/ Finish(IF Publishable THEN [task EXCEPT !.concl = task.evid] ELSE task)

-----------------------------------------------------------------------------
(* reconcile and retry *)

ResearchReconcile ==
    /\ ResearchDoing("reconcile") /\ Others
    /\ LET to(pc) == researchOp' = ResearchAt(pc) /\ UNCHANGED <<task, owned, next, researchGhost>>
       IN IF task.res # ResearchNoCall /\ task.status = "succeeded"
          THEN Go(IF task.res.st = "pending" THEN ReleasePending(task) ELSE Settled(task, "unknown"), "ifail")
          ELSE IF task.status = "succeeded" /\ task.concl # 0
          THEN IF rep = task.concl THEN Noop
               ELSE Finish([task EXCEPT !.concl = 0, !.ierr = "failed"])
          ELSE IF task.status = "succeeded" /\ task.evid # 0 THEN to("publishc")
          ELSE IF task.res.st = "pending" THEN Go(ReleasePending(task), "rfail")
          ELSE IF task.res.st = "dispatched" THEN Finish(WithError(Settled(task, "unknown"), "unknown", "propose"))
          ELSE IF task.bres # "none" THEN to("recover")
          ELSE IF task.bound THEN to("bind") \/ Noop
          ELSE IF task.status \in {"drafting", "confirmed"}
          THEN \/ Noop
               \/ IF JobRead THEN to("bind")
                  ELSE IF task.err # "none" \/ task.last = "observed" THEN Noop
                  ELSE Finish(Failed(IF task.last = "unknown" THEN "unknown" ELSE "retry", "propose"))
          ELSE Noop
ReconcileFail == ResearchDoing("rfail") /\ Others /\ Finish(Failed("retry", "propose"))

Retryable == task.status = "failed" /\ task.err = "retry" /\ task.last # "unknown"
Retry ==
    /\ ResearchDoing("retry") /\ Others
    /\ IF Retryable
       THEN researchOp' = ResearchAt(IF task.step = "propose" THEN "reserve" ELSE "start") /\ UNCHANGED <<task, owned, next, researchGhost>>
       ELSE Noop

-----------------------------------------------------------------------------
(* cancel *)

\* "cancel": a completed run keeps its status, and its conclusion axis is closed.
CancelRecord ==
    CASE task.status = "succeeded" ->
           IF Closed(task) THEN task ELSE [ReleasePending(task) EXCEPT !.ierr = "cancelled"]
      [] task.status \in {"unsupported", "cancelled"} -> task
      [] OTHER -> [task EXCEPT !.status = "cancelled", !.err = "none"]
CancelResearch ==
    /\ cancel = "none"
    /\ \/ task' = CancelRecord /\ cancel' = "stop" /\ UNCHANGED researchGhost
       \/ ResearchFault /\ task' \in {task, CancelRecord} /\ UNCHANGED cancel
    /\ UNCHANGED <<owned, researchOp, next, job, rep>>
\* _stop_bound_jobs waits for the service lock a publication holds, and looks the request
\* identity up as well as the bound jobs.
StopBoundJobs ==
    /\ cancel = "stop" /\ ~ResearchDoing("publish")
    /\ job' = IF job.st = "accepted" THEN [st |-> "stopping"] ELSE job
    /\ cancel' = "answered" /\ UNCHANGED <<task, owned, researchOp, next, rep, researchGhost>>

-----------------------------------------------------------------------------
(* The job, the report and the process *)

ResearchJobEnds ==
    /\ job.st \in Live
    /\ job' \in IF job.st = "stopping" THEN {[st |-> "stopped"]} ELSE {[st |-> "succeeded"], [st |-> "failed"]}
    /\ UNCHANGED <<task, owned, researchOp, next, rep, cancel, researchGhost>>
ReportChanges ==
    /\ researchGhost.reports < MaxReports /\ rep' \in {0, rep + 1}
    /\ researchGhost' = [researchGhost EXCEPT !.reports = @ + 1]
    /\ UNCHANGED <<task, owned, researchOp, next, job, cancel>>
\* The process restarts: ownership is gone, live and unindexed jobs are interrupted.
ResearchCrash ==
    /\ researchGhost.faults < ResearchMaxFaults /\ researchGhost' = [researchGhost EXCEPT !.faults = @ + 1, !.lost = FALSE]
    /\ researchOp' = ResearchNoOp /\ owned' = FALSE /\ next' = "none"
    /\ cancel' = IF cancel = "stop" THEN "none" ELSE cancel
    /\ job' = IF job.st \in Live \cup {"hidden"} THEN [st |-> "interrupted"] ELSE job
    /\ UNCHANGED <<task, rep>>

ResearchInit ==
    /\ \E k \in ResearchKinds :
         /\ task = [kind |-> k, status |-> IF k = "owned" THEN "confirmed" ELSE "drafting",
                    draft |-> FALSE, conf |-> k = "owned", calls |-> 0, spent |-> 0, res |-> ResearchNoCall,
                    runs |-> 0, bres |-> "none", bound |-> FALSE, err |-> "none", step |-> "propose",
                    last |-> "none", evid |-> 0, concl |-> 0, ierr |-> "none"]
         /\ next = IF k = "owned" THEN "backtest" ELSE "propose"
    /\ owned = FALSE /\ researchOp = ResearchNoOp /\ job = [st |-> "none"] /\ rep = 1 /\ cancel = "none"
    /\ researchGhost = [sends |-> 0, faults |-> 0, reports |-> 0, was |-> FALSE, lost |-> FALSE]

ResearchStep ==
    \/ ProposeReserve \/ ProposeDispatch \/ ProposeCall \/ ProposeUnknown \/ ProposeObserved
    \/ ProposeTools \/ Confirm \/ EditRead \/ EditWrite \/ StartBacktest \/ BacktestReserve \/ BacktestDispatch \/ SubmitJob
    \/ PublishJob \/ SubmissionRefused \/ BindFound \/ BindState \/ RecoverBacktest \/ Interpret
    \/ InterpretReserve \/ InterpretDispatch \/ InterpretCall \/ InterpretUnknown \/ InterpretFail
    \/ InterpretConcluded \/ PublishInterpretation \/ ResearchReconcile \/ ReconcileFail \/ Retry
ResearchNext ==
    \/ ResearchStep \/ BeginNext \/ DropNext \/ BeginConfirm \/ BeginEdit \/ BeginInterpret \/ BeginReconcile \/ BeginRetry
    \/ CancelResearch \/ StopBoundJobs \/ ResearchJobEnds \/ ReportChanges \/ ResearchCrash
ResearchSpec == ResearchInit /\ [][ResearchNext]_researchVars

-----------------------------------------------------------------------------
(* Properties *)

\* The shape of the record.
ResearchTypeOK ==
    /\ task.status \in {"drafting", "awaiting_confirmation", "confirmed", "running", "succeeded",
                        "failed", "cancelled", "unsupported"}
    /\ task.calls \in 0 .. MaxCalls /\ task.runs \in 0 .. MaxRuns
    /\ task.res.st \in {"none", "pending", "dispatched"} /\ task.bres \in {"none", "pending", "dispatched"}

\* Every call that reached the provider stays charged, through cancellations, crashes,
\* failed saves and the reconciliation of what they left.
SendsAreCharged == researchGhost.sends <= task.calls

\* A run that exists is charged, and only a reservation that never left is returned.
RunIsCharged == job.st # "none" => task.runs > 0

\* No open task is left owned by an operation that ended, except after a save that did not
\* confirm: a task nobody works on could neither be reconciled nor retried.
OwnerIsLive == (owned /\ researchOp = ResearchNoOp /\ task.status # "cancelled") => researchGhost.lost

\* Once a cancellation was answered no run of the cancelled task is left running, not even
\* one published while the cancellation was on its way.
CancelStopsTheRun == (cancel = "answered" /\ task.status = "cancelled") => job.st # "accepted"

\* A conclusion is the reading of the report its evidence was made for.
ConclusionIsEvidenced == task.concl # 0 => task.concl = task.evid

\* A closed conclusion axis is not revived, and a cancelled task neither concludes nor
\* takes up a new spec, run or call.
ClosedStaysClosed ==
    [][/\ (task.concl = 0 /\ task.ierr # "none") => task'.concl = 0
       /\ task.status = "cancelled" =>
            /\ task'.status = "cancelled" /\ task'.conf = task.conf /\ task'.concl = task.concl
            /\ task'.res.st = "dispatched" => task.res.st = "dispatched"
            /\ task'.bres = "dispatched" => task.bres = "dispatched"]_researchVars

\* A proposal whose outcome stayed unknown is not sent again, by a retry neither.
UnknownProposalIsNotResent ==
    [][(researchGhost'.sends # researchGhost.sends /\ task.status # "succeeded") => task.last # "unknown"]_researchVars

\* What an operation reserved is settled by itself or, after a crash, by the next read; a
\* save that did not confirm blocks the task until a restart.
ReservationsSettle ==
    (task.res # ResearchNoCall \/ task.bres = "pending") ~> ((task.res = ResearchNoCall /\ task.bres # "pending") \/ researchGhost.lost)

\* A research task: what was sent is charged, the owner is live, a
\* cancellation stops the run, and a conclusion rests on the report it read.
ResearchSafe ==
    /\ ResearchTypeOK /\ SendsAreCharged /\ RunIsCharged /\ OwnerIsLive
    /\ CancelStopsTheRun /\ ConclusionIsEvidenced
=============================================================================
