---------------------------- MODULE PaperAlerts ----------------------------
(***************************************************************************)
(* The durable alert stream of a host (product/paper_alerts.py and         *)
(* product/paper_alert_evaluation.py, driven by `ea paper alerts           *)
(* evaluate').  Paper sessions publish their status and die or end; each   *)
(* evaluation is a process of its own that reads the stream, the clock,    *)
(* the status of one run, that run's writer lease and the host, folds what *)
(* it read into the stream and replaces the file.  No lock is taken.       *)
(*                                                                         *)
(* First the health projection (product/paper_health.py): the judgments of *)
(* a running session are folded into one document that the session         *)
(* publishes with its status, and a reader overlays what it sees live (the *)
(* writer lease, the age of the document) on that durable document.        *)
(***************************************************************************)
EXTENDS Integers, FiniteSets

CONSTANTS
  HealthMaxAge,   \* how old a projection a reader still takes for current
  Runs,           \* paper runs on this host
  Evaluators,     \* evaluation processes
  Inputs,         \* what the parts of a session may say when it publishes
  DiskReadings,   \* what the file system may say
  NotReadyAfter,  \* not_ready_seconds
  StaleAfter,     \* backup_stale_seconds
  MaxResolved,    \* _MAX_RESOLVED_ALERTS
  AlertMaxTime,   \* bound: the last instant of the clock
  MaxEvals,       \* bound: evaluations that are published
  MaxMoves        \* bound: what the sessions and the host do meanwhile

ASSUME HealthAssumption == HealthMaxAge \in Nat

\* What the session's own parts say when it publishes.  `guard' is the
\* answer of the safety authority to the probe: a guard's name, "allow", or
\* "none" when no market was seen and no probe is made.
HealthInput ==
  [phase : {"running", "draining", "stopped"},
   reason : {"none", "stop_requested", "stale_market", "callback_failed"},
   recovery : {"not_required", "admitted", "reconciliation_required",
               "terminal", "unknown"},
   reconciled : BOOLEAN, age : {"none", "young", "old"}, broker : BOOLEAN,
   storage : {"available", "unavailable", "unknown"},
   switch : {"active", "halted", "not_configured"},
   guard : {"allow", "none", "blocked"}]

RuntimeState(i) ==
  CASE i.phase # "stopped" -> i.phase
    [] i.reason \in {"stop_requested", "none"} -> "stopped"
    [] OTHER -> "faulted"

MarketState(i) ==
  CASE i.reason = "stale_market" -> "stale"
    [] i.age = "none" -> "unknown"
    [] i.age = "young" -> "fresh"
    [] OTHER -> "stale"

\* The dependencies readiness is the conjunction of, as the session sees
\* them: it publishes itself alive, and its heartbeat is its own phase.
Unhealthy(i) ==
  {d \in {"recovery", "reconciliation", "market", "broker", "heartbeat", "storage"} :
     CASE d = "recovery" -> i.recovery \notin {"not_required", "admitted"}
       [] d = "reconciliation" -> ~i.reconciled
       [] d = "market" -> MarketState(i) # "fresh"
       [] d = "broker" -> ~i.broker
       [] d = "heartbeat" -> i.phase # "running"
       [] d = "storage" -> i.storage # "available"}

\* A slot without a projection, or one the session marked unavailable.
NoHealth == [ready |-> FALSE, permitted |-> FALSE, clean |-> FALSE,
             switch |-> "none", why |-> {}, at |-> 0]

\* build_paper_health for a session that is alive at `now'.
BuildHealth(i, now) ==
  [ready |-> Unhealthy(i) = {},
   permitted |-> i.guard = "allow",
   clean |-> i.reconciled,
   switch |-> i.switch,
   why |-> Unhealthy(i)
             \cup (IF RuntimeState(i) \in {"stopped", "faulted"}
                   THEN {RuntimeState(i)} ELSE {})
             \cup (IF i.guard = "allow" THEN {} ELSE {"trade"}),
   at |-> now]

\* observed_paper_health: liveness is the lease, and a projection that no
\* held lease corroborates, or that is too old, is never ready.
ObservedHealth(h, held, now) ==
  LET stale == ~held \/ now - h.at > HealthMaxAge
  IN  [ready |-> h.ready /\ ~stale, permitted |-> h.permitted,
       clean |-> h.clean, switch |-> h.switch,
       why |-> h.why \cup (IF held THEN {} ELSE {"not_alive"})
                     \cup (IF stale THEN {"stale"} ELSE {}),
       at |-> h.at]

ASSUME AlertsAssumption ==
  /\ Inputs \subseteq HealthInput
  /\ NotReadyAfter \in Nat \ {0} /\ StaleAfter \in Nat \ {0}
  /\ MaxResolved \in Nat /\ AlertMaxTime \in Nat /\ MaxEvals \in Nat /\ MaxMoves \in Nat
  /\ DiskReadings \subseteq {"active", "inactive", "unavailable"}

AlertNever == -1
Time == 0..AlertMaxTime
RunSignals == {"runtime_down", "not_ready", "reconciliation", "halt", "restart"}
HostSignals == {"backup_stale", "disk_low"}
Signals == RunSignals \cup HostSignals
Conditions == {"active", "inactive", "unavailable"}

\* alert_id_for: one key for each run and run-scoped signal, one for the host
\* and each host-scoped signal.
AlertKeys == (Runs \X RunSignals) \cup ({"host"} \X HostSignals)
KeyOf(run, s) == IF s \in HostSignals THEN <<"host", s>> ELSE <<run, s>>

NoAlert == [state |-> "none", first |-> 0, last |-> 0]
Alert(state, first, last) == [state |-> state, first |-> first, last |-> last]
Nothing == [kind |-> "absent", at |-> 0, run |-> "none",
            alerts |-> [k \in AlertKeys |-> NoAlert],
            cond |-> [s \in Signals |-> "inactive"],
            since |-> [s \in Signals |-> AlertNever]]
NoStatus == [state |-> "starting", durable |-> "unsaid", slot |-> "none",
             health |-> NoHealth]
AlertIdle == [pc |-> "idle", run |-> "none", prev |-> Nothing, now |-> 0,
              readable |-> FALSE, status |-> NoStatus, doc |-> Nothing]

VARIABLES
  alertNow,     \* the wall clock
  status,       \* each run's published status document
  alertLease,   \* whether each run's writer holds its lease
  alertBackup,  \* the creation of the newest verified backup, or Never
  stream,       \* the alert stream file; its `run' field is a ghost
  eval,         \* the evaluation processes
  seen,         \* ghost: the readings of the evaluations that were published
  evals,        \* how many evaluations were published
  moves         \* how often something around the evaluations moved

alertVars == <<alertNow, status, alertLease, alertBackup, stream, eval, seen, evals, moves>>

AlertInit ==
  /\ alertNow = 0 /\ alertBackup = AlertNever /\ stream = Nothing /\ seen = {} /\ evals = 0 /\ moves = 0
  /\ status = [r \in Runs |-> NoStatus] /\ alertLease = [r \in Runs |-> TRUE]
  /\ eval = [e \in Evaluators |-> AlertIdle]

AlertTerminal == {"stopped", "failed"}

-----------------------------------------------------------------------------
(* The paper sessions, the clock and the backups around the evaluations. *)

\* A heartbeat of the session publishes its status and its health, or the
\* marker that the health could not be produced.
Publish(r) ==
  /\ alertLease[r] /\ status[r].state \notin AlertTerminal
  /\ \E h \in {BuildHealth(i, alertNow) : i \in Inputs} :
       status' = [status EXCEPT ![r] =
                    [state |-> "running", durable |-> "unsaid",
                     slot |-> "projection", health |-> h]]
  /\ UNCHANGED <<alertNow, alertLease, alertBackup, stream, eval, seen, evals>>

PublishUnavailable(r) ==
  /\ alertLease[r] /\ status[r].state \notin AlertTerminal
  /\ status' = [status EXCEPT ![r] =
                  [state |-> "running", durable |-> "unsaid",
                   slot |-> "none", health |-> NoHealth]]
  /\ UNCHANGED <<alertNow, alertLease, alertBackup, stream, eval, seen, evals>>

\* The end of the session: the terminal record is durable and the status says
\* so, or the session failed and says it wrote none.
AlertEnd(r) ==
  /\ alertLease[r] /\ status[r].state \notin AlertTerminal
  /\ \E end \in {<<"stopped", "yes">>, <<"failed", "no">>} :
       status' = [status EXCEPT ![r] =
                    [state |-> end[1], durable |-> end[2],
                     slot |-> @.slot, health |-> @.health]]
  /\ UNCHANGED <<alertNow, alertLease, alertBackup, stream, eval, seen, evals>>

\* The writer lease goes when the session closes it, or when it dies.
LeaseGone(r) ==
  /\ alertLease[r]
  /\ alertLease' = [alertLease EXCEPT ![r] = FALSE]
  /\ UNCHANGED <<alertNow, status, alertBackup, stream, eval, seen, evals>>

\* The wall clock moves on, or is set back.
ClockMoves ==
  /\ alertNow' \in {alertNow - 1, alertNow + 1} \cap Time
  /\ UNCHANGED <<status, alertLease, alertBackup, stream, eval, seen, evals>>

BackUp ==
  /\ alertBackup' = alertNow /\ alertBackup' # alertBackup
  /\ UNCHANGED <<alertNow, status, alertLease, stream, eval, seen, evals>>

\* The file goes bad: it is there and is not a stream.
Damage ==
  /\ stream.kind = "stream"
  /\ stream' = [Nothing EXCEPT !.kind = "damaged"]
  /\ UNCHANGED <<alertNow, status, alertLease, alertBackup, eval, seen, evals>>

-----------------------------------------------------------------------------
(* The readings. *)

\* _observed_status: a run that is not terminal and whose lease is free reads
\* as interrupted.
ObservedState(st, held) ==
  IF st.state \notin AlertTerminal /\ ~held THEN "interrupted" ELSE st.state

Mark(active, inactive) ==
  CASE active -> "active" [] inactive -> "inactive" [] OTHER -> "unavailable"

RuntimeDown(st, held) ==
  Mark(~held /\ ObservedState(st, held) \notin AlertTerminal,
       held \/ ObservedState(st, held) \in AlertTerminal)

NotReady(h, present, held) ==
  Mark(held /\ present /\ ~h.ready, held /\ present /\ h.ready)

Halted(h, present) ==
  Mark(present /\ h.switch = "halted", present /\ h.switch = "active")

UnexpectedRestart(st, held) ==
  Mark(~held /\ st.durable # "yes", ~held /\ st.durable = "yes")

\* _read_run_signals.
RunReading(st, readable, held, s, at) ==
  LET h == ObservedHealth(st.health, held, at)
      present == st.slot = "projection"
  IN  CASE ~readable -> "unavailable"
        [] s = "runtime_down" -> RuntimeDown(st, held)
        [] s = "not_ready" -> NotReady(h, present, held)
        [] s = "reconciliation" -> Mark(present /\ ~h.clean, present /\ h.clean)
        [] s = "halt" -> Halted(h, present)
        [] s = "restart" -> UnexpectedRestart(st, held)

\* observe_backup_staleness.
BackupStale(at) ==
  Mark(alertBackup # AlertNever /\ at - alertBackup > StaleAfter,
       alertBackup # AlertNever /\ at - alertBackup <= StaleAfter)

-----------------------------------------------------------------------------
(* project_alert_stream. *)

Resolved(alerts) == {k \in AlertKeys : alerts[k].state = "resolved"}

\* Of the resolved alerts the newest are kept; ties go by id, which is any
\* fixed order here.
Kept(alerts) ==
  LET R == Resolved(alerts)
  IN  IF Cardinality(R) <= MaxResolved THEN R
      ELSE CHOOSE K \in SUBSET R :
             /\ Cardinality(K) = MaxResolved
             /\ \A k \in K, j \in R \ K : alerts[j].last <= alerts[k].last

\* _prune_resolved: an open alert is never discarded.
Pruned(alerts) ==
  [k \in AlertKeys |-> IF k \in Resolved(alerts) \ Kept(alerts) THEN NoAlert ELSE alerts[k]]

\* Since when a condition is active: the previous evaluation's answer for the
\* same signal, whichever run that was about.
Since(prev, s, cond, at) ==
  CASE cond # "active" -> AlertNever
    [] prev.kind = "stream" /\ prev.cond[s] = "active" -> prev.since[s]
    [] OTHER -> at

\* What one reading makes of the alert with its key.
Folded(old, s, cond, since, at) ==
  CASE cond = "unavailable" -> old
    [] cond = "inactive" ->
         IF old.state = "active" THEN Alert("resolved", old.first, at) ELSE old
    [] s = "not_ready" /\ at - since < NotReadyAfter -> old
    [] OTHER -> Alert("active", IF old.state = "active" THEN old.first ELSE at, at)

Project(prev, run, cond, at) ==
  LET since == [s \in Signals |-> Since(prev, s, cond[s], at)]
      folded == [k \in AlertKeys |->
                   IF k \in {KeyOf(run, s) : s \in Signals}
                   THEN Folded(prev.alerts[k], k[2], cond[k[2]], since[k[2]], at)
                   ELSE prev.alerts[k]]
  IN  [kind |-> "stream", at |-> at, run |-> run, alerts |-> Pruned(folded),
       cond |-> cond, since |-> since]

-----------------------------------------------------------------------------
(* One evaluation: `ea paper alerts evaluate'. *)

\* read_alert_stream: an absent stream starts an empty one, a file that is
\* there and is not a stream stops the evaluation.
ReadStream(e, r) ==
  /\ eval[e].pc = "idle" /\ stream.kind # "damaged" /\ evals < MaxEvals
  /\ eval' = [eval EXCEPT ![e] =
                [AlertIdle EXCEPT !.pc = "clock", !.run = r, !.prev = stream]]
  /\ UNCHANGED <<alertNow, status, alertLease, alertBackup, stream, seen, evals, moves>>

ReadClock(e) ==
  /\ eval[e].pc = "clock"
  /\ eval' = [eval EXCEPT ![e].pc = "status", ![e].now = alertNow]
  /\ UNCHANGED <<alertNow, status, alertLease, alertBackup, stream, seen, evals, moves>>

\* The status file of the run, or a failure to read the attempt.
ReadStatus(e) ==
  /\ eval[e].pc = "status"
  /\ \E ok \in BOOLEAN :
       eval' = [eval EXCEPT ![e].pc = "lease", ![e].readable = ok,
                            ![e].status = IF ok THEN status[eval[e].run] ELSE NoStatus]
  /\ UNCHANGED <<alertNow, status, alertLease, alertBackup, stream, seen, evals, moves>>

\* An evaluation cannot travel backwards.
AlertRefused(prev, at) == prev.kind = "stream" /\ at < prev.at

\* The lease of the run and the host are observed and everything is projected.
Evaluate(e) ==
  LET p == eval[e]
  IN  /\ p.pc = "lease"
      /\ IF AlertRefused(p.prev, p.now)
         THEN eval' = [eval EXCEPT ![e] = AlertIdle]
         ELSE \E disk \in DiskReadings :
                \E cond \in {[s \in Signals |->
                                CASE s = "backup_stale" -> BackupStale(p.now)
                                  [] s = "disk_low" -> disk
                                  [] OTHER -> RunReading(p.status, p.readable,
                                                         alertLease[p.run], s, p.now)]} :
                  eval' = [eval EXCEPT ![e] = [AlertIdle EXCEPT !.pc = "write",
                             !.doc = Project(p.prev,
                                                IF p.readable THEN p.run ELSE "none",
                                                cond, p.now)]]
      /\ UNCHANGED <<alertNow, status, alertLease, alertBackup, stream, seen, evals, moves>>

\* write_alert_stream: the file is replaced in one step.
WriteStream(e) ==
  LET doc == eval[e].doc
  IN  /\ eval[e].pc = "write"
      /\ stream' = doc /\ evals' = evals + 1
      /\ seen' = seen \cup {[key |-> KeyOf(doc.run, s), at |-> doc.at,
                             cond |-> doc.cond[s]] :
                              s \in {x \in Signals : KeyOf(doc.run, x) \in AlertKeys}}
      /\ eval' = [eval EXCEPT ![e] = AlertIdle]
      /\ UNCHANGED <<alertNow, status, alertLease, alertBackup, moves>>

\* The process dies, or the write fails before the rename.
Abandon(e) ==
  /\ eval[e].pc # "idle"
  /\ eval' = [eval EXCEPT ![e] = AlertIdle]
  /\ UNCHANGED <<alertNow, status, alertLease, alertBackup, stream, seen, evals, moves>>

AlertNext ==
  \/ /\ moves < MaxMoves /\ moves' = moves + 1
     /\ \/ ClockMoves \/ BackUp \/ Damage
        \/ \E r \in Runs : Publish(r) \/ PublishUnavailable(r) \/ AlertEnd(r) \/ LeaseGone(r)
  \/ \E e \in Evaluators :
       \/ \E r \in Runs : ReadStream(e, r)
       \/ ReadClock(e) \/ ReadStatus(e) \/ Evaluate(e) \/ WriteStream(e) \/ Abandon(e)

AlertSpec == AlertInit /\ [][AlertNext]_alertVars

-----------------------------------------------------------------------------
(* Properties. *)

Said(k, at, cond) == [key |-> k, at |-> at, cond |-> cond] \in seen

\* The stream is a document its own decoder accepts: times in order, resolved
\* alerts within their bound, a start time exactly for active conditions.
AlertTypeOK ==
  /\ alertNow \in Time /\ alertBackup \in Time \cup {AlertNever}
  /\ stream.kind \in {"absent", "damaged", "stream"} /\ stream.at \in Time
  /\ \A k \in AlertKeys : LET a == stream.alerts[k] IN
       /\ a.state \in {"none", "active", "resolved"}
       /\ a.first <= a.last /\ a.last <= stream.at
  /\ Cardinality(Resolved(stream.alerts)) <= MaxResolved
  /\ \A s \in Signals : (stream.since[s] # AlertNever) <=> (stream.cond[s] = "active")

\* An alert tells one incident as the evaluations saw it: the condition was
\* read active when it opened, never read inactive between that and its last
\* sight, and read inactive when it was resolved (project_alert_stream keeps
\* first_seen and holds the alert when a signal is unavailable).
IncidentIsContinuous ==
  \A k \in AlertKeys : LET a == stream.alerts[k] IN
    a.state # "none" =>
      /\ Said(k, a.first, "active")
      /\ a.state = "resolved" => Said(k, a.last, "inactive")
      /\ \A t \in a.first + 1 .. a.last - 1 : ~Said(k, t, "inactive")

\* What an evaluation published as active stays open until an evaluation of
\* the same run reads it inactive: evaluations of another run, unavailable
\* readings, pruning and a clock that was set back do not lose it.
OpenIsRemembered ==
  stream.kind = "stream" =>
    \A x \in seen :
      (/\ x.cond = "active" /\ x.key[2] # "not_ready"
       /\ ~\E y \in seen : y.key = x.key /\ y.cond = "inactive" /\ y.at >= x.at)
      => stream.alerts[x.key].state = "active"

\* Whatever the last evaluation read active has its alert, the not-ready
\* condition once it lasted for the threshold.
ActiveIsAlerted ==
  stream.kind = "stream" =>
    \A s \in Signals : LET k == KeyOf(stream.run, s) IN
      (/\ k \in AlertKeys /\ stream.cond[s] = "active"
       /\ s = "not_ready" => stream.at - stream.since[s] >= NotReadyAfter)
      => stream.alerts[k].state = "active" /\ stream.alerts[k].last = stream.at

\* A run is reported recovered from being down, or from an ending without a
\* terminal record, only when its status says it ended: a dead writer is never
\* reported well again (_read_run_signals reads an interrupted run as down).
NoFalseRecovery ==
  \A r \in Runs :
    /\ stream.alerts[<<r, "runtime_down">>].state = "resolved"
         => status[r].state \in AlertTerminal
    /\ stream.alerts[<<r, "restart">>].state = "resolved"
         => status[r].durable = "yes"

\* A not-ready alert opens only after the run was read not ready for the whole
\* threshold, with no other reading of it in between: "the Paper runtime is
\* alive but has not been ready for longer than the alerting policy allows".
NotReadyIsSustained ==
  \A r \in Runs : LET k == <<r, "not_ready">> a == stream.alerts[k] IN
    a.state # "none" =>
      \E t \in 0 .. a.first - NotReadyAfter :
        /\ Said(k, t, "active")
        /\ \A u \in t + 1 .. a.first - 1 :
             ~Said(k, u, "inactive") /\ ~Said(k, u, "unavailable")

\* An alert leaves the stream only for newer ones, also when it is resolved and
\* dropped in the same evaluation (_prune_resolved keeps the newest by last_seen).
DroppedIsOldest ==
  [][stream'.kind = "stream" /\ stream.kind = "stream" =>
       \A k \in AlertKeys : LET a == stream.alerts[k] IN
         a.state # "none" /\ stream'.alerts[k].state = "none" =>
           \A j \in Resolved(stream'.alerts) :
             stream'.alerts[j].last >= IF a.state = "active" THEN stream'.at ELSE a.last]_alertVars

\* Alerts: an incident is continuous, not-ready is sustained, no recovery is
\* announced falsely, an open alert is remembered and an active condition
\* alerted.
AlertSafe ==
    /\ AlertTypeOK /\ IncidentIsContinuous /\ NotReadyIsSustained
    /\ NoFalseRecovery /\ OpenIsRemembered /\ ActiveIsAlerted
=============================================================================
