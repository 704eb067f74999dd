------------------------------ MODULE PaperGate ------------------------------
(***************************************************************************)
(* The long-soak gate of the Paper runtime: an observer appends rows about *)
(* the running attempt (product/paper_interval_capture.py), seals the      *)
(* interval, binds settled backups to the attempts it saw, and the gate    *)
(* judges the whole interval from that evidence                            *)
(* (product/paper_gate_history.py, product/paper_evidence.py).             *)
(*                                                                         *)
(* Attempts, the launch log, backups and the clock are the world the       *)
(* observer looks at.  The gate identity is one version number; whether a  *)
(* snapshot satisfies the hard rules besides lease and state is one        *)
(* Boolean.  A Paper attempt records only the paper terminal, never the    *)
(* "success" of a bounded run.  unbroken is what the evidence is about:    *)
(* since the interval began one attempt has been running and recorded no   *)
(* failing transition.                                                     *)
(***************************************************************************)
EXTENDS Integers, Sequences, FiniteSets, SequencesExt

CONSTANTS
    Attempts,     \* run identifiers
    First,        \* the attempt running when the observer starts
    Required,     \* required_duration of the gate
    GateMaxTime,  \* the last tick
    MaxEvents     \* bound on what happens to the runtime and its files

ASSUME PaperGateAssumption ==
    /\ First \in Attempts
    /\ 0 \notin Attempts
    /\ {Required, GateMaxTime, MaxEvents} \subseteq Nat

VARIABLES
    gateClock, events,
    att,         \* every attempt: phase, end stamp, failing transition, directory
    current,     \* the attempt the current-run file names
    log,         \* the launch log
    gateBackup,  \* what a captured backup of an attempt holds
    healthy,     \* the hard rules of a snapshot
    version,     \* the identity a read of the repository would give
    rows,        \* observations.jsonl
    gateTorn,    \* an append was cut short
    saved,       \* history.json
    verdict,     \* the last answer of evaluate_interval
    unbroken

world == <<att, current, log, gateBackup, healthy, version>>
gateVars == <<gateClock, events, world, rows, gateTorn, saved, verdict, unbroken>>

NoStamp == -1
NoVersion == -1
NoHistory == [known |-> FALSE]

Live(a) == att[a].phase = "live"
GateOpen == rows # <<>> /\ Last(rows).kind # "end"
Sealed == rows # <<>> /\ Last(rows).kind = "end"

-----------------------------------------------------------------------------
(* What happens to the runtime: external, one event at a time.             *)

Event ==
    /\ events < MaxEvents
    /\ events' = events + 1
    /\ UNCHANGED <<gateClock, rows, gateTorn, saved, verdict>>

Breaks(yes) == unbroken' = (unbroken /\ ~(GateOpen /\ yes))

(* An attempt ends: stopped by its operator, failed, or crashed, which     *)
(* leaves neither a terminal record nor an end stamp.                      *)
GateEnds(a, phase) ==
    /\ Event
    /\ Live(a)
    /\ att' = [att EXCEPT ![a].phase = phase,
                          ![a].ended = IF phase = "crashed" THEN NoStamp ELSE gateClock]
    /\ Breaks(TRUE)
    /\ UNCHANGED <<current, log, gateBackup, healthy, version>>

(* A launch is logged first; it may never produce a readable attempt. *)
Launch(a, works) ==
    /\ Event
    /\ att[a].phase = "none"
    /\ \A b \in Attempts : ~Live(b)
    /\ log' = Append(log, a)
    /\ att' = [att EXCEPT ![a] = IF works
                                 THEN [phase |-> "live", ended |-> NoStamp,
                                       failing |-> FALSE, dir |-> "ok"]
                                 ELSE [phase |-> "stillborn", ended |-> NoStamp,
                                       failing |-> FALSE, dir |-> "absent"]]
    /\ current' = IF works THEN a ELSE current
    /\ UNCHANGED <<gateBackup, healthy, version, unbroken>>

(* RUNTIME_FAILING_SAFETY_TRANSITION is recorded and the run goes on. *)
FailingTransition(a) ==
    /\ Event
    /\ Live(a)
    /\ att' = [att EXCEPT ![a].failing = TRUE]
    /\ Breaks(TRUE)
    /\ UNCHANGED <<current, log, gateBackup, healthy, version>>

(* A directory is lost, the log truncated, the health or identity changes, *)
(* a backup is damaged.                                                    *)
Disturb ==
    /\ Event
    /\ \/ \E a \in Attempts, how \in {"absent", "unreadable"} :
             /\ att[a].dir = "ok"
             /\ att' = [att EXCEPT ![a].dir = how]
             /\ UNCHANGED <<log, gateBackup, healthy, version>>
       \/ log # <<>> /\ log' = Front(log) /\ UNCHANGED <<att, gateBackup, healthy, version>>
       \/ healthy' = ~healthy /\ UNCHANGED <<att, log, gateBackup, version>>
       \/ version' = 1 - version /\ UNCHANGED <<att, log, gateBackup, healthy>>
       \/ \E a \in Attempts :
             /\ gateBackup[a] \notin {"none", "corrupt"}
             /\ gateBackup' = [gateBackup EXCEPT ![a] = "corrupt"]
             /\ UNCHANGED <<att, log, healthy, version>>
    /\ UNCHANGED <<current, unbroken>>

\* Mutant of Outcome: a clean terminal erases a failing transition.
OutcomeByTerminal(x) ==
    CASE x.phase = "stopped" -> "clean"
      [] x.phase = "failed"  -> "failed"
      [] OTHER               -> "incomplete"

(* _summarise_journal and _terminal_outcome: what a captured journal says  *)
(* of how its attempt ended.                                               *)
Outcome(x) ==
    CASE x.phase = "stopped" /\ ~x.failing -> "clean"
      [] x.phase = "stopped" /\ x.failing  -> "failed"
      [] x.phase = "failed"                -> "failed"
      [] OTHER                             -> "incomplete"

(* A backup of an attempt is captured, once, whenever the operator likes. *)
Capture(a) ==
    /\ att[a].dir = "ok"
    /\ gateBackup[a] = "none"
    /\ gateBackup' = [gateBackup EXCEPT ![a] = Outcome(att[a])]
    /\ UNCHANGED <<gateClock, events, att, current, log, healthy, version, rows, gateTorn, saved,
                   verdict, unbroken>>

GateTick ==
    /\ gateClock < GateMaxTime
    /\ gateClock' = gateClock + 1
    /\ UNCHANGED <<events, world, rows, gateTorn, saved, verdict, unbroken>>

-----------------------------------------------------------------------------
(* The observer.                                                           *)

(* _observe.  reads: how far the boundary observation came.  A directory   *)
(* that cannot be read, or a log that does not parse, is an error of the   *)
(* row; an end without a snapshot is demoted to an observation.            *)
Inventory ==
    [a \in {b \in Attempts : att[b].dir # "absent"} |->
        [readable |-> att[a].dir = "ok", lease |-> Live(a), ended |-> att[a].ended]]

Row(kind, reads) ==
    [kind     |-> IF kind = "end" /\ reads # "all" THEN "observe" ELSE kind,
     at       |-> gateClock,
     snapshot |-> reads = "all",
     run      |-> current,
     lease    |-> Live(current),
     ok       |-> healthy /\ Live(current),
     version  |-> IF reads = "none" THEN NoVersion ELSE version,
     inv      |-> Inventory,
     error    |-> reads # "all" \/ \E a \in Attempts : att[a].dir = "unreadable",
     log      |-> log]

Reads == IF att[current].dir = "ok" THEN {"all", "identity", "none"} ELSE {"identity", "none"}

(* begin_interval: only over a running attempt holding its lease. *)
Begin ==
    /\ rows = <<>>
    /\ ~gateTorn
    /\ "all" \in Reads
    /\ Live(current)
    /\ rows' = <<Row("begin", "all")>>
    /\ unbroken' = ~att[current].failing
    /\ UNCHANGED <<gateClock, events, world, gateTorn, saved, verdict>>

(* observe_interval: rows are appended until the end row; time must move. *)
Observe(end, reads) ==
    /\ GateOpen
    /\ ~gateTorn
    /\ reads \in Reads
    /\ gateClock > Last(rows).at
    /\ rows' = Append(rows, Row(IF end THEN "end" ELSE "observe", reads))
    /\ UNCHANGED <<gateClock, events, world, gateTorn, saved, verdict, unbroken>>

(* The observer dies in the middle of an append: _read_observations        *)
(* refuses the file from then on.                                          *)
TornAppend ==
    /\ GateOpen
    /\ ~gateTorn
    /\ gateTorn' = TRUE
    /\ UNCHANGED <<gateClock, events, world, rows, saved, verdict, unbroken>>

-----------------------------------------------------------------------------
(* _history.                                                               *)

Baseline == rows[1].inv
Names(i) == DOMAIN rows[i].inv
GateLater == 2 .. Len(rows)

(* The launches appended between a row and the one before it. *)
Appended(i) ==
    IF IsPrefix(rows[i - 1].log, rows[i].log)
    THEN {rows[i].log[j] : j \in Len(rows[i - 1].log) + 1 .. Len(rows[i].log)}
    ELSE {}

GateSelected ==
    {a \in DOMAIN Baseline : ~Baseline[a].readable \/ Baseline[a].lease}
    \cup UNION {Names(i) \ DOMAIN Baseline : i \in GateLater}
    \cup UNION {Appended(i) : i \in GateLater}

(* The inventory and the launch log may only grow. *)
InventoryErrors ==
    \E i \in GateLater :
        \/ \E a \in GateSelected :
              /\ \E k \in 1 .. i - 1 : a \in Names(k)
              /\ a \notin Names(i)
        \/ ~IsPrefix(rows[i - 1].log, rows[i].log)
        \/ \E a \in Appended(i) : a \notin Names(i)

Entry(i, a) == a \in Names(i) /\ rows[i].inv[a].readable

Bound(a) == \E i \in 1 .. Len(rows) : Entry(i, a)

LiveRows(a) == {i \in 1 .. Len(rows) : rows[i].snapshot /\ rows[i].run = a /\ rows[i].lease}

Least(S) == CHOOSE i \in S : \A j \in S : i <= j
Greatest(S) == CHOOSE i \in S : \A j \in S : i >= j

BeginOf(a) == rows[Least(LiveRows(a))].at

(* The first row that shows the attempt without its lease. *)
EndedRows(a) == {i \in 1 .. Len(rows) :
                    Entry(i, a) /\ ~rows[i].inv[a].lease /\ rows[i].at >= BeginOf(a)}

Stamped(a) == LET i == Least(EndedRows(a))
              IN  BeginOf(a) < rows[i].inv[a].ended /\ rows[i].inv[a].ended <= rows[i].at

FinishOf(a) ==
    IF EndedRows(a) = {} THEN rows[Greatest(LiveRows(a))].at
    ELSE LET i == Least(EndedRows(a))
         IN  IF Stamped(a) THEN rows[i].inv[a].ended ELSE rows[i].at

HistoryErrors ==
    \/ \E i \in 1 .. Len(rows) : rows[i].error
    \/ InventoryErrors
    \/ \E a \in GateSelected :
          \/ ~Bound(a)
          \/ LiveRows(a) # {} /\ EndedRows(a) # {} /\ ~Stamped(a)

(* PaperIntervalHistory, built from the rows and the backups given. *)
History(given) ==
    [known     |-> TRUE,
     locked    |-> rows[1].version,
     start     |-> rows[1].at,
     end       |-> Last(rows).at,
     coverage  |-> IF HistoryErrors THEN Last(rows).at ELSE rows[1].at,
     attempts  |-> {a \in GateSelected : Bound(a)},
     given     |-> given,
     assoc     |-> {[run |-> a, begin |-> BeginOf(a), end |-> FinishOf(a),
                     version |-> rows[Least(LiveRows(a))].version] :
                       a \in {b \in GateSelected : /\ Bound(b)
                                                   /\ LiveRows(b) # {}
                                                   /\ BeginOf(b) < FinishOf(b)}}]

(* settle_interval: sealed, every backup of an observed attempt, and the   *)
(* history written once.                                                   *)
Settle(given) ==
    /\ Sealed
    /\ ~gateTorn
    /\ ~saved.known
    /\ \A a \in given : gateBackup[a] # "none" /\ Bound(a)
    /\ saved' = History(given)
    /\ UNCHANGED <<gateClock, events, world, rows, gateTorn, verdict, unbroken>>

(* history.json is edited after it was settled, an attempt dropped or its   *)
(* association stretched to the end of the interval: external.              *)
Edit ==
    /\ saved.known
    /\ \/ \E a \in saved.attempts :
             saved' = [saved EXCEPT !.attempts = @ \ {a},
                                    !.given = @ \ {a},
                                    !.assoc = {x \in @ : x.run # a}]
       \/ saved' = [saved EXCEPT !.assoc = {[x EXCEPT !.end = saved.end] : x \in @}]
    /\ UNCHANGED <<gateClock, events, world, rows, gateTorn, verdict, unbroken>>

-----------------------------------------------------------------------------
(* The gate.                                                               *)

(* read_attempt_evidence, for an attempt whose backup was given. *)
Evidence(h, a) == IF a \in h.given THEN gateBackup[a] ELSE "missing"

Intersects(x, h) == x.begin < h.end /\ x.end > h.start

(* Associations of the frozen identity; the others cannot cover. *)
Covering(h) == {x \in h.assoc : x.version = h.locked}

InWindow(h) == {x \in Covering(h) : Intersects(x, h)}

(* _covers_window *)
CoversWindow(h) ==
    \A t \in h.start .. h.end - 1 : \E x \in Covering(h) : x.begin <= t /\ t < x.end

(* The rows of the interval the gate looks at. *)
GateObserved == {rows[i] : i \in {k \in 1 .. Len(rows) : rows[k].version # NoVersion}}

(* The gap reasons of _interval_reasons. *)
Gaps(h) ==
    \/ \E r \in GateObserved : ~r.snapshot
    \/ h.end - h.start < Required
    \/ h.coverage > h.start
    \/ h.attempts = {}
    \/ \E a \in h.attempts : \A x \in h.assoc : x.run # a
    \/ \E x \in InWindow(h) : Evidence(h, x.run) \in {"missing", "corrupt"}
    \/ ~CoversWindow(h)

(* Its certain incidents: a failed or interrupted attempt, and a           *)
(* deliberate stop before the window closes.                               *)
Incidents(h) ==
    \E x \in InWindow(h) :
        \/ Evidence(h, x.run) \in {"failed", "incomplete"}
        \/ Evidence(h, x.run) = "clean" /\ x.end < h.end

(* The boundary snapshot must be of a run that reaches the window's end. *)
Represented(h) == \E x \in InWindow(h) : x.run = Last(rows).run /\ x.end >= h.end

(* _identity_drift_reasons and _hard_rule_reasons over every observation. *)
Drifted(h) == \E r \in GateObserved : r.version # h.locked

GateUnhealthy == \E r \in GateObserved : r.snapshot /\ ~(r.lease /\ r.ok)

(* evaluate_gate: drift, then incidents, then gaps. *)
Verdict(h) ==
    CASE Drifted(h)                                    -> "invalid"
      [] ~Drifted(h) /\ (Incidents(h) \/ GateUnhealthy)    -> "fail"
      [] ~Drifted(h) /\ ~Incidents(h) /\ ~GateUnhealthy
           /\ (Gaps(h) \/ ~Represented(h))             -> "invalid"
      [] OTHER                                         -> "pass"

(* evaluate_interval: the saved history must be the one the rows give. *)
GateEvaluate ==
    /\ Sealed
    /\ saved.known
    /\ verdict' = IF saved = History(saved.given) THEN Verdict(saved) ELSE "conflict"
    /\ UNCHANGED <<gateClock, events, world, rows, gateTorn, saved, unbroken>>

-----------------------------------------------------------------------------
GateInit ==
    /\ gateClock = 0
    /\ events = 0
    /\ att = [a \in Attempts |->
                IF a = First
                THEN [phase |-> "live", ended |-> NoStamp, failing |-> FALSE, dir |-> "ok"]
                ELSE [phase |-> "none", ended |-> NoStamp, failing |-> FALSE, dir |-> "absent"]]
    /\ current = First
    /\ log = <<First>>
    /\ gateBackup = [a \in Attempts |-> "none"]
    /\ healthy = TRUE
    /\ version = 0
    /\ rows = <<>>
    /\ gateTorn = FALSE
    /\ saved = NoHistory
    /\ verdict = "none"
    /\ unbroken = FALSE

World ==
    \/ \E a \in Attempts :
          \/ \E phase \in {"stopped", "failed", "crashed"} : GateEnds(a, phase)
          \/ \E works \in BOOLEAN : Launch(a, works)
          \/ FailingTransition(a)
          \/ Capture(a)
    \/ Disturb
    \/ GateTick

Observer ==
    \/ Begin
    \/ \E end \in BOOLEAN, reads \in Reads : Observe(end, reads)
    \/ TornAppend
    \/ \E given \in SUBSET Attempts : Settle(given)
    \/ Edit
    \/ GateEvaluate

GateNext == World \/ Observer

GateSpec == GateInit /\ [][GateNext]_gateVars

-----------------------------------------------------------------------------
(* The state of the world, the observer's files and the last answer have   *)
(* the shapes the code gives them; a torn file is never a sealed one.      *)
GateTypeOK ==
    /\ gateClock \in 0 .. GateMaxTime /\ events \in 0 .. MaxEvents
    /\ att \in [Attempts -> [phase : {"none", "live", "stopped", "failed", "crashed", "stillborn"},
                             ended : {NoStamp} \cup 0 .. GateMaxTime,
                             failing : BOOLEAN,
                             dir : {"ok", "absent", "unreadable"}]]
    /\ current \in Attempts
    /\ gateBackup \in [Attempts -> {"none", "clean", "failed", "incomplete", "corrupt"}]
    /\ \A i \in 1 .. Len(rows) :
          /\ rows[i].kind = "begin" <=> i = 1
          /\ rows[i].kind = "end" => i = Len(rows) /\ rows[i].snapshot
          /\ i > 1 => rows[i - 1].at < rows[i].at
    /\ gateTorn => ~Sealed
    /\ saved.known => Sealed
    /\ verdict \in {"none", "pass", "fail", "invalid", "conflict"}

(* A passing gate is evidence of an uninterrupted soak: from the first row  *)
(* to the sealed one a single attempt ran without a failing transition, for *)
(* the required duration, and every row saw it healthy under the identity   *)
(* of the first - whatever ended, restarted, vanished or was edited between *)
(* the observations (evaluate_interval, _interval_reasons).                 *)
PassIsUninterrupted ==
    verdict = "pass" =>
        /\ unbroken
        /\ Last(rows).at - rows[1].at >= Required
        /\ \A i \in 1 .. Len(rows) :
              /\ rows[i].version = rows[1].version
              /\ rows[i].snapshot /\ rows[i].ok /\ rows[i].run = rows[1].run

(* The protocol can be passed: an unbroken interval of the required         *)
(* duration, every row of it complete and healthy under one identity,       *)
(* sealed before its only attempt stops cleanly, settled with that          *)
(* attempt's backup and left alone, is never refused (settle_interval,      *)
(* evaluate_interval).                                                      *)
CleanIntervalPasses ==
    /\ verdict # "none"
    /\ unbroken
    /\ Last(rows).at - rows[1].at >= Required
    /\ \A i \in 1 .. Len(rows) :
          /\ rows[i].snapshot /\ rows[i].ok /\ ~rows[i].error
          /\ rows[i].version = rows[1].version
          /\ rows[i].log = rows[1].log
          /\ DOMAIN rows[i].inv = {First}
    /\ gateBackup[First] = "clean"
    /\ First \in saved.given
    /\ saved = History(saved.given)
    => verdict = "pass"

\* The gate: a pass is an uninterrupted interval, and a clean interval passes.
GateSafe ==
    /\ GateTypeOK /\ PassIsUninterrupted /\ CleanIntervalPasses
=============================================================================
