--------------------------- MODULE BacktestAttempt ---------------------------
(***************************************************************************)
(* One offline backtest attempt (product/backtest.py and, for the          *)
(* multi-trade scenarios, product/round_trip.py): run_backtest_scenario    *)
(* executes a scenario against the durable audit journal and publishes its *)
(* result; resume_backtest_attempt takes up what a dead process left,      *)
(* by replaying the same execution over the journal or, once the journal   *)
(* is terminal, by reconstructing it in memory.                            *)
(*                                                                         *)
(* Execution is deterministic, so what a file must hold follows from the   *)
(* scenario: a file is absent, torn (created, its bytes not yet durable)   *)
(* or complete.  kind is what the scenario leads to: no trade, one fill    *)
(* (scenario schemas 1-3), a round trip (4, 5), or a risk rejection.  A    *)
(* death stands for a crash and for an I/O error of a write, which leave   *)
(* the same files.                                                         *)
(***************************************************************************)
EXTENDS Naturals, Sequences, FiniteSets, SequencesExt

CONSTANTS
    AttemptProcesses,  \* processes that run or resume the attempt
    Kinds,             \* the scenarios considered
    MaxDeaths,         \* bound: processes that die
    AttemptMaxFaults   \* bound: unexpected errors inside an execution

AttemptNobody == "nobody"
ASSUME BacktestAssumption ==
    /\ AttemptNobody \notin AttemptProcesses
    /\ Kinds \subseteq {"flat", "long", "trip", "rejected"}
    /\ {MaxDeaths, AttemptMaxFaults} \subseteq Nat

VARIABLES
    kind,
    attemptJournal,  \* the durable records
    attemptDisk,     \* the files of the attempt
    failure,         \* what failure.json says
    lock,            \* the holder of the writer lock
    attemptProc,     \* what each process is doing
    born,            \* the attempt directory exists
    returned,        \* some call returned success
    deaths, attemptFaults

attemptVars == <<kind, attemptJournal, attemptDisk, failure, lock, attemptProc, born, returned, deaths, attemptFaults>>

AttemptFiles == {"funding", "audit", "pending", "publication", "result", "failure"}

-----------------------------------------------------------------------------
(* _execute and execute_round_trip: what one execution does, in order.     *)

A(rec)  == [op |-> "append", arg |-> rec]
F(name) == [op |-> "frontier", arg |-> <<name, 0>>]
Funding == [op |-> "write", arg |-> <<"funding", 0>>]
Reject  == [op |-> "reject", arg |-> <<"risk", 0>>]

Fill(k) == << A(<<"fact", k>>), A(<<"handoff", k>>), A(<<"completed", k>>),
              F("dispatch_durable") >>
Cash     == << A(<<"cash", 0>>), F("reconciliation_durable") >>
Balances == << A(<<"position", 0>>), A(<<"cash", 0>>), F("reconciliation_durable") >>
Terminal == << A(<<"terminal", 0>>), F("terminal_durable") >>

Program ==
    << A(<<"prepared", 0>>), Funding, F("funding_durable") >> \o
    CASE kind = "flat"     -> Cash \o Terminal
      [] kind = "long"     -> Fill(1) \o Balances \o Terminal
      [] kind = "trip"     -> Fill(1) \o Fill(2) \o Balances \o Terminal
      [] kind = "rejected" -> << A(<<"window", 0>>), Reject >>

(* The journal of an execution nothing interrupts. *)
FillRecords(k) == << <<"fact", k>>, <<"handoff", k>>, <<"completed", k>> >>
EndRecords     == << <<"cash", 0>>, <<"terminal", 0>> >>

Records ==
    << <<"prepared", 0>> >> \o
    CASE kind = "flat"     -> EndRecords
      [] kind = "long"     -> FillRecords(1) \o << <<"position", 0>> >> \o EndRecords
      [] kind = "trip"     -> FillRecords(1) \o FillRecords(2) \o << <<"position", 0>> >> \o EndRecords
      [] kind = "rejected" -> << <<"window", 0>> >>

AttemptIsTerminal == attemptJournal # <<>> /\ Last(attemptJournal)[1] = "terminal"

(* _verified_persisted_frontier *)
Dispatches(what) == {r[2] : r \in {q \in Range(attemptJournal) : q[1] = what}}
Durable == Dispatches("fact") \cap Dispatches("handoff") \cap Dispatches("completed")
Partial == \E what \in {"fact", "handoff", "completed"} : Dispatches(what) # Durable

Reconciliations == Cardinality({r \in Range(attemptJournal) : r[1] \in {"position", "cash"}})

PersistedFrontier ==
    IF Reconciliations = (IF Durable # {} THEN 2 ELSE 1) THEN "reconciliation_durable"
    ELSE IF Durable # {} THEN "dispatch_durable" ELSE "funding_durable"

-----------------------------------------------------------------------------
(* A process.                                                              *)

AttemptIdle(ans) == [mode |-> "idle", stage |-> "run", at |-> 1, open |-> FALSE,
                     last |-> "attempt_prepared", base |-> 0, from |-> "attempt_prepared", ans |-> ans]

Busy(mode, frontier) ==
    [mode |-> mode, stage |-> "run", at |-> 1, open |-> FALSE,
     last |-> frontier, base |-> Len(attemptJournal), from |-> frontier, ans |-> "none"]

Is(p, mode) == attemptProc[p].mode = mode
Working(p) == attemptProc[p].mode # "idle"
At(p, stage) == Working(p) /\ attemptProc[p].stage = stage
Item(p) == Program[attemptProc[p].at]
Executing(p, op) == At(p, "run") /\ attemptProc[p].at <= Len(Program) /\ Item(p).op = op

Unlocked(p) == IF lock = p THEN AttemptNobody ELSE lock

(* The call of p ends with an answer and gives up the lock. *)
AttemptAnswer(p, ans) ==
    /\ attemptProc' = [attemptProc EXCEPT ![p] = AttemptIdle(ans)]
    /\ lock' = Unlocked(p)
    /\ returned' = (returned \/ ans = "success")

Goto(p, stage) == attemptProc' = [attemptProc EXCEPT ![p].stage = stage, ![p].open = FALSE]

(* run_backtest_scenario: the attempt directory is created once. *)
Start(p) ==
    /\ ~Working(p)
    /\ ~born
    /\ born' = TRUE
    /\ lock' = p
    /\ attemptProc' = [attemptProc EXCEPT ![p] = Busy("fresh", "attempt_prepared")]
    /\ UNCHANGED <<kind, attemptJournal, attemptDisk, failure, returned, deaths, attemptFaults>>

(* resume_backtest_attempt: what it makes of the evidence it finds. *)
ResumeMode ==
    IF attemptDisk["failure"] # "absent" \/ attemptDisk["publication"] # "absent" THEN "refused"
    ELSE IF attemptDisk["result"] # "absent"
         THEN IF AttemptIsTerminal /\ attemptDisk["audit"] = "ok" /\ attemptDisk["funding"] = "ok"
              THEN "success" ELSE "refused"
    ELSE IF AttemptIsTerminal THEN "rebuild"
    ELSE IF attemptDisk["pending"] # "absent" \/ attemptDisk["funding"] # "ok" \/ (kind = "trip" /\ Partial)
         THEN "refused"
    ELSE "replay"

Resume(p) ==
    /\ ~Working(p) /\ born /\ lock = AttemptNobody
    /\ IF ResumeMode \in {"rebuild", "replay"}
       THEN /\ attemptProc' = [attemptProc EXCEPT ![p] = Busy(ResumeMode, PersistedFrontier)]
            /\ lock' = p /\ UNCHANGED returned
       ELSE AttemptAnswer(p, ResumeMode)
    /\ UNCHANGED <<kind, attemptJournal, attemptDisk, failure, born, deaths, attemptFaults>>

-----------------------------------------------------------------------------
(* The execution.                                                          *)

Advanced(p) == [attemptProc EXCEPT ![p].at = @ + 1, ![p].open = FALSE]

(* A record already in the journal is an exact retry; a reconstruction     *)
(* appends to memory only.                                                 *)
AttemptAppendRecord(p) ==
    /\ Executing(p, "append")
    /\ attemptJournal' = IF Is(p, "rebuild") \/ Item(p).arg \in Range(attemptJournal) THEN attemptJournal
                         ELSE Append(attemptJournal, Item(p).arg)
    /\ attemptProc' = Advanced(p)
    /\ UNCHANGED <<kind, attemptDisk, failure, lock, born, returned, deaths, attemptFaults>>

(* retain_frontier: a resume reports a frontier only when the journal grew. *)
Frontier(p) ==
    /\ Executing(p, "frontier")
    /\ LET q == Advanced(p)[p]
           news == Is(p, "fresh") \/ (Is(p, "replay") /\ Len(attemptJournal) > q.base)
       IN  attemptProc' = [attemptProc EXCEPT ![p] = IF news THEN [q EXCEPT !.last = Item(p).arg[1],
                                                                            !.base = Len(attemptJournal)] ELSE q]
    /\ UNCHANGED <<kind, attemptJournal, attemptDisk, failure, lock, born, returned, deaths, attemptFaults>>

(* The risk authority rejects the order.  Only run_backtest_scenario knows *)
(* the failure for what it is.                                             *)
Rejected(p) ==
    /\ Executing(p, "reject")
    /\ failure' = [class |-> IF Is(p, "fresh") THEN "product" ELSE "internal",
                   frontier |-> attemptProc[p].last, from |-> attemptProc[p].from]
    /\ Goto(p, IF Is(p, "fresh") THEN "failaudit" ELSE "failure")
    /\ UNCHANGED <<kind, attemptJournal, attemptDisk, lock, born, returned, deaths, attemptFaults>>

(* An unexpected error; a reconstruction retains no evidence of it. *)
AttemptFault(p) ==
    /\ \E op \in {"append", "frontier"} : Executing(p, op)
    /\ attemptFaults < AttemptMaxFaults
    /\ attemptFaults' = attemptFaults + 1
    /\ IF Is(p, "rebuild") THEN AttemptAnswer(p, "refused") /\ UNCHANGED failure
       ELSE /\ failure' = [class |-> "internal", frontier |-> attemptProc[p].last,
                           from |-> attemptProc[p].from]
            /\ Goto(p, "failure") /\ UNCHANGED <<lock, returned>>
    /\ UNCHANGED <<kind, attemptJournal, attemptDisk, born, deaths>>

(* The execution is over.  The first process closes the store, which gives *)
(* up the lock, before it writes audit.jsonl and the result.               *)
Executed(p) ==
    /\ At(p, "run") /\ attemptProc[p].at > Len(Program)
    /\ Goto(p, "audit")
    /\ lock' = IF Is(p, "fresh") THEN Unlocked(p) ELSE lock
    /\ UNCHANGED <<kind, attemptJournal, attemptDisk, failure, born, returned, deaths, attemptFaults>>

-----------------------------------------------------------------------------
(* Files.                                                                  *)

AttemptStages == [audit |-> "audit", funding |-> "funding", pending |-> "pending",
                  marker |-> "publication", failaudit |-> "audit", failure |-> "failure"]
After == [audit |-> "funding", funding |-> "check", pending |-> "marker",
          marker |-> "rename", failaudit |-> "failure", failure |-> "run"]

Writes(p, f) == \/ Executing(p, "write") /\ f = "funding"
                \/ \E s \in DOMAIN AttemptStages : At(p, s) /\ f = AttemptStages[s]

Written(p) ==
    /\ attemptProc' = IF At(p, "failure") THEN [attemptProc EXCEPT ![p] = AttemptIdle("failed")]
                      ELSE IF At(p, "run") THEN Advanced(p)
                      ELSE [attemptProc EXCEPT ![p].stage = After[@], ![p].open = FALSE]
    /\ lock' = IF At(p, "failure") THEN Unlocked(p) ELSE lock
    /\ UNCHANGED returned

(* _write_once: created exclusively. *)
OpenFile(p, f) ==
    /\ Writes(p, f) /\ ~attemptProc[p].open
    /\ attemptDisk[f] = "absent"
    /\ attemptDisk' = [attemptDisk EXCEPT ![f] = "torn"]
    /\ attemptProc' = [attemptProc EXCEPT ![p].open = TRUE]
    /\ UNCHANGED <<kind, attemptJournal, failure, lock, born, returned, deaths, attemptFaults>>

SyncFile(p, f) ==
    /\ Writes(p, f) /\ attemptProc[p].open
    /\ attemptDisk' = [attemptDisk EXCEPT ![f] = "ok"]
    /\ Written(p)
    /\ UNCHANGED <<kind, attemptJournal, failure, born, deaths, attemptFaults>>

\* Mutant of VerifyFile: a torn file is taken for a complete one.
VerifyFileThere(p, f) ==
    /\ Writes(p, f) /\ ~attemptProc[p].open
    /\ attemptDisk[f] # "absent"
    /\ IF f # "publication" THEN Written(p) ELSE AttemptAnswer(p, "refused")
    /\ UNCHANGED <<kind, attemptJournal, attemptDisk, failure, born, deaths, attemptFaults>>

(* _write_or_verify of a file that is there; the marker is never verified. *)
VerifyFile(p, f) ==
    /\ Writes(p, f) /\ ~attemptProc[p].open
    /\ attemptDisk[f] # "absent"
    /\ IF attemptDisk[f] = "ok" /\ f # "publication" THEN Written(p) ELSE AttemptAnswer(p, "refused")
    /\ UNCHANGED <<kind, attemptJournal, attemptDisk, failure, born, deaths, attemptFaults>>

(* _publish_success: a result that is there is verified, unless its        *)
(* publication is still under way.                                         *)
PublishCheck(p) ==
    /\ At(p, "check")
    /\ IF attemptDisk["result"] = "absent" THEN Goto(p, "pending") /\ UNCHANGED <<lock, returned>>
       ELSE AttemptAnswer(p, IF attemptDisk["publication"] = "absent" THEN "success" ELSE "refused")
    /\ UNCHANGED <<kind, attemptJournal, attemptDisk, failure, born, deaths, attemptFaults>>

(* The staged result is renamed while the marker stands. *)
PublishRename(p) ==
    /\ At(p, "rename")
    /\ IF attemptDisk["result"] = "absent" /\ attemptDisk["pending"] # "absent"
       THEN /\ attemptDisk' = [attemptDisk EXCEPT !["result"] = attemptDisk["pending"], !["pending"] = "absent"]
            /\ Goto(p, "unlink") /\ UNCHANGED <<lock, returned>>
       ELSE AttemptAnswer(p, "refused") /\ UNCHANGED attemptDisk
    /\ UNCHANGED <<kind, attemptJournal, failure, born, deaths, attemptFaults>>

PublishUnlink(p) ==
    /\ At(p, "unlink")
    /\ attemptDisk' = [attemptDisk EXCEPT !["publication"] = "absent"]
    /\ AttemptAnswer(p, IF attemptDisk["publication"] = "absent" THEN "refused" ELSE "success")
    /\ UNCHANGED <<kind, attemptJournal, failure, born, deaths, attemptFaults>>

(* The process dies; the system gives up its lock. *)
Die(p) ==
    /\ Working(p)
    /\ deaths < MaxDeaths
    /\ deaths' = deaths + 1
    /\ AttemptAnswer(p, "died")
    /\ UNCHANGED <<kind, attemptJournal, attemptDisk, failure, born, attemptFaults>>

-----------------------------------------------------------------------------
AttemptInit ==
    /\ kind \in Kinds
    /\ attemptJournal = <<>>
    /\ attemptDisk = [f \in AttemptFiles |-> "absent"]
    /\ failure = [class |-> "none", frontier |-> "attempt_prepared", from |-> "attempt_prepared"]
    /\ lock = AttemptNobody
    /\ attemptProc = [p \in AttemptProcesses |-> AttemptIdle("none")]
    /\ born = FALSE /\ returned = FALSE
    /\ deaths = 0 /\ attemptFaults = 0

AttemptStep(p) ==
    \/ AttemptAppendRecord(p) \/ Frontier(p) \/ Rejected(p) \/ Executed(p)
    \/ \E f \in AttemptFiles : OpenFile(p, f) \/ SyncFile(p, f) \/ VerifyFile(p, f)
    \/ PublishCheck(p) \/ PublishRename(p) \/ PublishUnlink(p)

AttemptNext == \E p \in AttemptProcesses : Start(p) \/ Resume(p) \/ AttemptStep(p) \/ AttemptFault(p) \/ Die(p)

AttemptSpec == AttemptInit /\ [][AttemptNext]_attemptVars


-----------------------------------------------------------------------------
Rank(name) == CHOOSE i \in 1 .. 5 :
    <<"attempt_prepared", "funding_durable", "dispatch_durable", "reconciliation_durable",
      "terminal_durable">>[i] = name

(* Files, answers and failure evidence have the shapes the code gives      *)
(* them; a journal never runs ahead of the attempt directory.              *)
AttemptTypeOK ==
    /\ kind \in Kinds
    /\ attemptDisk \in [AttemptFiles -> {"absent", "torn", "ok"}]
    /\ lock \in AttemptProcesses \cup {AttemptNobody}
    /\ failure.class \in {"none", "product", "internal"}
    /\ \A p \in AttemptProcesses :
          /\ attemptProc[p].mode \in {"idle", "fresh", "replay", "rebuild"}
          /\ attemptProc[p].ans \in {"none", "success", "failed", "refused", "died"}
    /\ ~born => attemptJournal = <<>> /\ \A f \in AttemptFiles : attemptDisk[f] = "absent"

(* However often an attempt is interrupted and resumed, its journal is the *)
(* beginning of the one the uninterrupted execution writes: no economic    *)
(* effect is recorded twice, left out or recorded out of order.            *)
EffectsOnce == IsPrefix(attemptJournal, Records)

(* A result stands only beside the evidence it rests on: a terminal        *)
(* journal, the complete audit and funding files, and no failure           *)
(* (_publish_success, resume_backtest_attempt).                            *)
SuccessIsProven ==
    attemptDisk["result"] # "absent" =>
        /\ attemptDisk["result"] = "ok"
        /\ attemptJournal = Records /\ kind # "rejected"
        /\ attemptDisk["audit"] = "ok" /\ attemptDisk["funding"] = "ok"
        /\ attemptDisk["failure"] = "absent"

(* failure.json never claims a frontier the journal does not hold, and a   *)
(* resume never reports one behind what was durable when it began.         *)
FrontierIsHonest ==
    attemptDisk["failure"] = "ok" =>
        /\ Rank(failure.frontier) >= Rank(failure.from)
        /\ Rank(failure.frontier) <= IF AttemptIsTerminal THEN 5 ELSE Rank(PersistedFrontier)

(* Once a call returned success the attempt stays a published success: the *)
(* result is there and nothing marks its publication as under way, so a    *)
(* later resume is a no-op that answers success again.                     *)
SuccessStays ==
    returned => ResumeMode = "success"

(* An attempt that is resumed as often as it is interrupted comes to rest: *)
(* published, failed, or refused for good on evidence that is not whole.   *)
Settled ==
    \/ ResumeMode \in {"success", "refused"}
    \/ \E f \in AttemptFiles : attemptDisk[f] = "torn"

\* A backtest attempt: effects happen once, a success is proven by its
\* evidence, and the frontier reported is honest.
AttemptSafe ==
    /\ AttemptTypeOK /\ EffectsOnce /\ SuccessIsProven /\ FrontierIsHonest
=============================================================================
