----------------------------- MODULE JobService -----------------------------
(***************************************************************************)
(* The local job service (web/service.py) and its worker processes         *)
(* (web/worker.py).                                                        *)
(*                                                                         *)
(* A job has a durable record and an index entry in memory.  Creation,     *)
(* cancellation, admission, finalization and shutdown each hold the        *)
(* service lock, so each is one action.  One executor thread carries one   *)
(* attempt, or the members of one batch, at a time.  A write of a record   *)
(* may raise having replaced the file or not; an adopting write reads it   *)
(* back, and freezes the job when even that fails.                         *)
(***************************************************************************)
EXTENDS Sequences, Naturals, FiniteSets

CONSTANTS Jobs,         \* job identities
          JobRequests,  \* idempotency keys of the callers
          Batches,      \* whether batches are explored
          JobMaxFaults  \* crashes and writes that raise

ASSUME ServiceAssumption == IsFiniteSet(Jobs) /\ JobMaxFaults \in Nat /\ Batches \in BOOLEAN

VARIABLES jobDisk,  \* the durable record of each job
          mem,      \* its record in the index of this process
          frozen,   \* jobs this process no longer writes
          svc,      \* whether the service is up, closing or refused
          thread,   \* the executor thread
          grp,      \* the process group of each job's worker
          result,   \* the result document a worker left
          reports,  \* published reports
          jobFaults

jobVars == <<jobDisk, mem, frozen, svc, thread, grp, result, reports, jobFaults>>

JobAbsent == [st |-> "absent", req |-> "none"]
LiveStates == {"accepted", "running", "stopping"}
Terminal == {"succeeded", "failed", "stopped", "interrupted"}
JobIdle == [pc |-> "idle", job |-> "none", rest |-> <<>>, stop |-> FALSE, sent |-> "no", known |-> TRUE,
            out |-> "none", ended |-> FALSE]
Fresh(j) == jobDisk[j] = JobAbsent /\ mem[j] = JobAbsent
Alive(j) == grp[j] \in {"running", "left", "dying"}
Raises == jobFaults < JobMaxFaults /\ jobFaults' = jobFaults + 1

-----------------------------------------------------------------------------
(* Writing *)

\* _store_adopting
StoreAdopting(j, rec) ==
    \/ jobDisk' = [jobDisk EXCEPT ![j] = rec] /\ mem' = [mem EXCEPT ![j] = rec] /\ UNCHANGED <<frozen, jobFaults>>
    \/ /\ Raises
       /\ \E d \in {jobDisk[j], rec} :
            /\ jobDisk' = [jobDisk EXCEPT ![j] = d]
            /\ \/ mem' = [mem EXCEPT ![j] = d] /\ UNCHANGED frozen
               \/ frozen' = frozen \cup {j} /\ UNCHANGED mem

StopRequested(j) == mem[j].st = "stopping" \/ (svc = "closing" /\ mem[j].st \in LiveStates)

-----------------------------------------------------------------------------
(* Creation *)

JobBegin(js) == thread' = [JobIdle EXCEPT !.pc = "admit", !.job = Head(js), !.rest = Tail(js)]
JobFree == svc = "up" /\ thread.pc = "idle"
JobQuiet == UNCHANGED <<frozen, svc, grp, result, reports>>

\* create_job: a key that is already bound answers with its job.
CreateJob(j, r) ==
    /\ JobFree /\ Fresh(j) /\ \A k \in Jobs : mem[k].req # r
    /\ LET rec == [st |-> "accepted", req |-> r] IN
       \/ /\ jobDisk' = [jobDisk EXCEPT ![j] = rec] /\ mem' = [mem EXCEPT ![j] = rec] /\ JobBegin(<<j>>)
          /\ UNCHANGED jobFaults
       \/ Raises /\ jobDisk' \in {jobDisk, [jobDisk EXCEPT ![j] = rec]} /\ UNCHANGED <<mem, thread>>
    /\ JobQuiet

\* create_batch: a write that raises rolls back the members stored before it; the record
\* whose own write raised is not among them.
CreateBatch(j, k) ==
    /\ Batches /\ JobFree /\ j # k /\ Fresh(j) /\ Fresh(k)
    /\ LET of(x) == [st |-> "accepted", req |-> "batch"] IN
       \/ /\ jobDisk' = [jobDisk EXCEPT ![j] = of(j), ![k] = of(k)]
          /\ mem' = [mem EXCEPT ![j] = of(j), ![k] = of(k)] /\ JobBegin(<<j, k>>) /\ UNCHANGED jobFaults
       \/ /\ Raises /\ jobDisk' \in {jobDisk, [jobDisk EXCEPT ![j] = of(j)], [jobDisk EXCEPT ![k] = of(k)]}
          /\ UNCHANGED <<mem, thread>>
    /\ JobQuiet

\* create_holdout: the record and its relation appear in one rename; a failure removes both.
CreateHoldout(source, j) ==
    /\ JobFree /\ Fresh(j) /\ mem[source].st = "succeeded"
    /\ LET rec == [st |-> "accepted", req |-> "holdout"] IN
       \/ jobDisk' = [jobDisk EXCEPT ![j] = rec] /\ mem' = [mem EXCEPT ![j] = rec] /\ JobBegin(<<j>>) /\ UNCHANGED jobFaults
       \/ Raises /\ UNCHANGED <<jobDisk, mem, thread>>
    /\ JobQuiet

-----------------------------------------------------------------------------
(* Cancellation and shutdown *)

Registered(j) == thread.pc = "supervise" /\ thread.job = j
\* A signal reaches only a group whose identity was captured.
Signalled(j) == IF Registered(j) /\ thread.known /\ Alive(j) THEN [grp EXCEPT ![j] = "dying"] ELSE grp

\* stop_job
StopJob(j) ==
    /\ svc \in {"up", "closing"} /\ mem[j].st \in LiveStates /\ j \notin frozen
    /\ StoreAdopting(j, [mem[j] EXCEPT !.st = "stopping"])
    /\ grp' = IF jobFaults' = jobFaults THEN Signalled(j) ELSE grp
    /\ UNCHANGED <<svc, thread, result, reports>>

\* _stop_live_workers: the mark in memory comes first; the durable marks may stop short.
Shutdown ==
    /\ svc = "up" /\ svc' = "closing"
    /\ LET mark(S) == [j \in Jobs |-> IF j \in S THEN [mem[j] EXCEPT !.st = "stopping"] ELSE mem[j]]
           live == {j \in Jobs \ frozen : mem[j].st \in LiveStates}
       IN \/ /\ mem' = mark(live) /\ UNCHANGED jobFaults
             /\ jobDisk' = [j \in Jobs |-> IF j \in live THEN mark(live)[j] ELSE jobDisk[j]]
             /\ grp' = IF thread.pc = "supervise" THEN Signalled(thread.job) ELSE grp
          \/ /\ Raises /\ live # {} /\ UNCHANGED grp
             /\ \E S \in SUBSET live, x \in live :
                  /\ x \notin S /\ mem' = mark(S)
                  /\ \E seen \in BOOLEAN :
                       jobDisk' = [j \in Jobs |-> IF j \in S \/ (seen /\ j = x)
                                                  THEN [mem[j] EXCEPT !.st = "stopping"] ELSE jobDisk[j]]
    /\ UNCHANGED <<frozen, thread, result, reports>>
\* stop: the executor has drained and the lease is released.
Down ==
    /\ svc = "closing" /\ thread.pc = "idle" /\ svc' = "down"
    /\ mem' = [j \in Jobs |-> JobAbsent] /\ frozen' = {}
    /\ grp' = [j \in Jobs |-> IF Alive(j) THEN "dying" ELSE grp[j]]
    /\ UNCHANGED <<jobDisk, thread, result, reports, jobFaults>>

-----------------------------------------------------------------------------
(* The executor thread *)

JobAt(pc) == thread' = [thread EXCEPT !.pc = pc]
Intend(out, ended) == thread' = [thread EXCEPT !.pc = "final", !.out = out, !.ended = ended]
\* The end of _run: the next member of the batch, or the slot is released.
Finished == IF thread.rest = <<>> THEN thread' = JobIdle ELSE JobBegin(thread.rest)
\* An exception that leaves _run also ends the batch.
Escapes == thread' = JobIdle
JobDoing(pc) == svc \in {"up", "closing"} /\ thread.pc = pc
Job == thread.job

Admissible == mem[Job].st = "accepted" /\ svc # "closing" /\ Job \notin frozen
\* _admit
Admit ==
    /\ JobDoing("admit") /\ UNCHANGED <<svc, grp, result, reports>>
    /\ IF Admissible
       THEN StoreAdopting(Job, [mem[Job] EXCEPT !.st = "running"]) /\ IF jobFaults' = jobFaults THEN JobAt("prepare") ELSE Escapes
       ELSE Intend("stopped", TRUE) /\ UNCHANGED <<jobDisk, mem, frozen, jobFaults>>

Same == UNCHANGED <<jobDisk, mem, frozen, svc, reports, jobFaults>>
\* _execute up to the spawn: nothing here can have started compute.
Prepare ==
    /\ JobDoing("prepare") /\ Same /\ UNCHANGED <<grp, result>>
    /\ IF StopRequested(Job) THEN Intend("stopped", TRUE) ELSE Intend("failed", TRUE) \/ JobAt("spawn")
\* A spawn that raises may have left a child no handle is registered for.
SpawnFailed == Intend("failed", FALSE)
Spawn ==
    /\ JobDoing("spawn") /\ Same /\ UNCHANGED result
    /\ \/ JobAt("supervise") /\ grp' = [grp EXCEPT ![Job] = "running"]
       \/ thread' = [thread EXCEPT !.pc = "supervise", !.known = FALSE] /\ grp' = [grp EXCEPT ![Job] = "gone"]
       \/ SpawnFailed /\ grp' \in {grp, [grp EXCEPT ![Job] = "running"]}

Gone == grp[Job] = "gone" /\ thread.known
\* Mutant of SuperviseEnd: the leader's exit counts as the end of the group.
SuperviseLeaderEnd ==
    /\ JobDoing("supervise") /\ Same /\ UNCHANGED <<grp, result>> /\ grp[Job] \in {"left", "gone"} /\ thread.known
    /\ IF thread.stop THEN Intend("stopped", TRUE) ELSE JobAt("settle")
\* _supervise: the whole group is gone; with a stop seen it is the stop that is confirmed.
SuperviseEnd ==
    /\ JobDoing("supervise") /\ Same /\ UNCHANGED <<grp, result>> /\ Gone
    /\ IF thread.stop THEN Intend("stopped", TRUE) ELSE JobAt("settle")
SuperviseStop ==
    /\ JobDoing("supervise") /\ Same /\ UNCHANGED result /\ ~Gone /\ thread.sent = "no"
    /\ StopRequested(Job)
    /\ thread' = [thread EXCEPT !.stop = TRUE, !.sent = "term"] /\ grp' = Signalled(Job)
\* A leader that is finished leaves nothing behind, and one whose group is unknown cannot be signalled.
SuperviseLeftover ==
    /\ JobDoing("supervise") /\ Same /\ UNCHANGED result /\ ~Gone /\ thread.sent = "no"
    /\ ~StopRequested(Job) /\ grp[Job] \in {"left", "gone"}
    /\ thread' = [thread EXCEPT !.sent = "kill"] /\ grp' = Signalled(Job)
SuperviseKill ==
    /\ JobDoing("supervise") /\ Same /\ UNCHANGED result /\ ~Gone /\ thread.sent = "term"
    /\ thread' = [thread EXCEPT !.sent = "kill"] /\ grp' = Signalled(Job)
\* A stop that is accepted while the kill is out is seen too; the group outlives the bound.
SuperviseDeadline ==
    /\ JobDoing("supervise") /\ Same /\ UNCHANGED <<grp, result>> /\ ~Gone /\ thread.sent = "kill"
    /\ Intend(IF thread.stop \/ StopRequested(Job) THEN "unconfirmed" ELSE "failed", FALSE)

\* _settle: what the worker staged is verified, or refused.
JobSettle ==
    /\ JobDoing("settle") /\ Same /\ UNCHANGED <<grp, result>>
    /\ Intend("failed", TRUE) \/ (result[Job] = "ok" /\ Intend("succeeded", TRUE))

Stopping == mem[Job].st = "stopping" \/ (svc = "closing" /\ mem[Job].st \in LiveStates)
To(st) == StoreAdopting(Job, [mem[Job] EXCEPT !.st = st])
\* _publish: a promotion that fails makes a failed job.
Publish ==
    IF thread.out = "succeeded"
    THEN \/ To("succeeded") /\ reports' = reports \cup {Job}
         \/ To("failed") /\ reports' \in {reports, reports \cup {Job}}
    ELSE To("failed") /\ UNCHANGED reports
Confirmed == IF thread.ended THEN "stopped" ELSE "stopping"
\* _finalize, the one commit gate.
Finalize ==
    /\ JobDoing("final") /\ UNCHANGED <<svc, grp, result>>
    /\ IF Job \in frozen \/ (~Stopping /\ mem[Job].st # "running")
       THEN Finished /\ UNCHANGED <<jobDisk, mem, frozen, jobFaults, reports>>
       ELSE /\ IF Stopping THEN To(Confirmed) /\ UNCHANGED reports
               ELSE IF thread.out = "unconfirmed" THEN To("stopping") /\ UNCHANGED reports
               ELSE Publish
            /\ IF jobFaults' = jobFaults THEN Finished ELSE Escapes

Thread ==
    \/ Admit \/ Prepare \/ Spawn \/ SuperviseEnd \/ SuperviseStop \/ SuperviseLeftover
    \/ SuperviseKill \/ SuperviseDeadline \/ JobSettle \/ Finalize

-----------------------------------------------------------------------------
(* The worker *)

\* main: one result document, or none; something it started may outlive it.
WorkerEnds(j) ==
    /\ grp[j] = "running" /\ grp' \in {[grp EXCEPT ![j] = g] : g \in {"left", "gone"}}
    /\ result' \in {[result EXCEPT ![j] = r] : r \in {"ok", "failed", "none"}}
    /\ UNCHANGED <<jobDisk, mem, frozen, svc, thread, reports, jobFaults>>
GroupDies(j) ==
    /\ grp[j] = "dying" /\ grp' = [grp EXCEPT ![j] = "gone"]
    /\ UNCHANGED <<jobDisk, mem, frozen, svc, thread, result, reports, jobFaults>>

-----------------------------------------------------------------------------
(* Crash and restart *)

\* The worker's liveness channel closes with the service: _watch_controller.
JobCrash ==
    /\ svc \in {"up", "closing"} /\ Raises /\ svc' = "down"
    /\ mem' = [j \in Jobs |-> JobAbsent] /\ frozen' = {} /\ thread' = JobIdle
    /\ grp' = [j \in Jobs |-> IF Alive(j) THEN "dying" ELSE grp[j]]
    /\ reports' \in IF thread.pc = "final" /\ thread.out = "succeeded" THEN {reports, reports \cup {Job}} ELSE {reports}
    /\ UNCHANGED <<jobDisk, result>>

Conflict == \E j, k \in Jobs : j # k /\ jobDisk[j].req = jobDisk[k].req /\ jobDisk[j].req \in JobRequests
\* _load_jobs: what was live is interrupted, never rerun.
Loaded(rec) == IF rec.st \in LiveStates THEN [rec EXCEPT !.st = "interrupted"] ELSE rec
JobStart ==
    /\ svc = "down"
    /\ IF Conflict THEN svc' = "refused" /\ UNCHANGED <<jobDisk, mem, jobFaults>>
       ELSE \/ /\ svc' = "up" /\ jobDisk' = [j \in Jobs |-> Loaded(jobDisk[j])] /\ mem' = jobDisk' /\ UNCHANGED jobFaults
            \/ /\ Raises /\ UNCHANGED <<svc, mem>>
               /\ \E S \in SUBSET Jobs : jobDisk' = [j \in Jobs |-> IF j \in S THEN Loaded(jobDisk[j]) ELSE jobDisk[j]]
    /\ UNCHANGED <<frozen, thread, grp, result, reports>>

JobInit ==
    /\ jobDisk = [j \in Jobs |-> JobAbsent] /\ mem = jobDisk /\ frozen = {} /\ svc = "up" /\ thread = JobIdle
    /\ grp = [j \in Jobs |-> "none"] /\ result = [j \in Jobs |-> "none"] /\ reports = {} /\ jobFaults = 0
JobNext ==
    \/ Thread \/ Shutdown \/ Down \/ JobCrash \/ JobStart
    \/ \E j \in Jobs : StopJob(j) \/ WorkerEnds(j) \/ GroupDies(j) \/ (\E r \in JobRequests : CreateJob(j, r))
    \/ \E j, k \in Jobs : CreateBatch(j, k) \/ CreateHoldout(j, k)
JobSpec == JobInit /\ [][JobNext]_jobVars

-----------------------------------------------------------------------------
(* Properties *)

\* The shape of the records and of the thread.
JobTypeOK ==
    /\ \A j \in Jobs : {jobDisk[j].st, mem[j].st} \subseteq {"absent"} \cup LiveStates \cup Terminal
    /\ \A j \in Jobs : grp[j] \in {"none", "running", "left", "dying", "gone"}
    /\ svc \in {"up", "closing", "down", "refused"} /\ (thread.pc # "idle" => thread.job \in Jobs)

\* A job that succeeded has its report, whatever failed or crashed on the way.
SuccessIsPublished == \A j \in Jobs : jobDisk[j].st = "succeeded" => j \in reports

\* No compute of a run outlives its recorded outcome, except one that says it was never
\* confirmed: a failed job may have lost its handle, an interrupted one its service.
OutcomeMeansGone == \A j \in Jobs : jobDisk[j].st \in {"succeeded", "stopped"} => ~Alive(j)

\* A reader is never told an outcome that is not the durable one.
ServedIsDurable == \A j \in Jobs : mem[j].st \in Terminal => jobDisk[j] = mem[j]

\* A durable outcome is final, and a run whose stop was recorded does not succeed later.
OutcomeIsFinal ==
    [][\A j \in Jobs : /\ jobDisk[j].st \in Terminal => jobDisk'[j] = jobDisk[j]
                       /\ jobDisk[j].st = "stopping" => jobDisk'[j].st # "succeeded"]_jobVars

\* Once shutdown has begun, nothing is published any more.
NothingPublishedWhileClosing ==
    [][svc = "closing" => \A j \in Jobs : jobDisk'[j].st = "succeeded" => jobDisk[j].st = "succeeded"]_jobVars

\* The executor slot is given back, by a failing write too.
SlotIsReleased == (thread.pc # "idle") ~> (thread.pc = "idle")

\* An accepted job does not stay accepted or running, unless a write raises or the process
\* dies on the way.
JobIsSettled ==
    \A j \in Jobs : (mem[j].st \in {"accepted", "running"})
                        ~> (mem[j].st \notin {"accepted", "running"} \/ jobFaults > 0)

\* A job: success has its report published, an outcome means the process group
\* is gone, and what is served is durable.
JobSafe ==
    /\ JobTypeOK /\ SuccessIsPublished /\ OutcomeMeansGone /\ ServedIsDurable
=============================================================================
