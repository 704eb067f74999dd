----------------------------- MODULE ResultStore -----------------------------
(***************************************************************************)
(* One run attempt in the local result store (experiments/store.py) and    *)
(* its preparation, recovery and admission (composition/run.py,            *)
(* composition/lifecycle.py).                                              *)
(*                                                                         *)
(* Several processes share the result root.  An attempt directory is       *)
(* reserved by an exclusive mkdir, written and synchronised step by step   *)
(* and never removed; its writer is whoever holds the flock of its lock    *)
(* file.  A recovery passes three one-use capabilities, the classification *)
(* of the attempt, the admission of the recovered run and the assembly of  *)
(* its lifecycle, each of which two threads may try to take.               *)
(***************************************************************************)
EXTENDS Naturals, FiniteSets

CONSTANTS StoreProcesses, Threads,
          StoreMaxRecords,  \* bound on the records of the journal
          StoreMaxCrashes   \* bound on process crashes and power losses

StoreNobody == [nobody |-> TRUE]

ASSUME StoreAssumption ==
    /\ StoreMaxRecords \in Nat \ {0} /\ StoreMaxCrashes \in Nat
    /\ StoreNobody \notin StoreProcesses

VARIABLES storeDisk,     \* per entry of the attempt: absent, cached or durable
          flock,         \* the process holding the writer lock, or Nobody
          storeJournal,  \* records appended, and whether the last one is RUN_TERMINAL
          storeProc,     \* per process: what it is doing with the attempt
          cap,           \* per process, the three one-use capabilities
          made,          \* per capability, how often its product was made since it was issued
          lost,          \* whether an attempt once prepared was found damaged
          storeCrashes

storeVars == <<storeDisk, flock, storeJournal, storeProc, cap, made, lost, storeCrashes>>

Entries == {"run", "audit", "outputs", "lock", "manifest", "bytes"}
StoreStages == {"classification", "admission", "assembly"}

\* What _prepare_attempt does, in order: what it creates or synchronises.
Plan == << [make |-> {"run"}, sync |-> {}],
           [make |-> {"audit", "outputs"}, sync |-> {}],
           [make |-> {"lock"}, sync |-> {}],
           [make |-> {}, sync |-> {"lock"}],
           [make |-> {"manifest", "bytes"}, sync |-> {}],
           [make |-> {}, sync |-> {"bytes"}],
           [make |-> {}, sync |-> {"audit", "outputs", "manifest"}],
           [make |-> {}, sync |-> {"run"}] >>

NoProc == [pc |-> "idle", step |-> 0, count |-> 0, terminal |-> FALSE, replayed |-> FALSE]
NoCap == [state |-> "none", token |-> StoreNobody]
NoCaps == [s \in StoreStages |-> NoCap]
NoneMade == [s \in StoreStages |-> 0]

Exists(e) == storeDisk[e] # "absent"
Holds(p) == flock = p
Writing(p) == storeProc[p].pc = "writing"

-----------------------------------------------------------------------------
(* Preparation *)

\* _prepare_attempt: the exclusive mkdir reserves the attempt.
Reserve(p) ==
    /\ storeProc[p].pc = "idle" /\ ~Exists("run")
    /\ storeDisk' = [storeDisk EXCEPT !["run"] = "cached"]
    /\ storeProc' = [storeProc EXCEPT ![p] = [NoProc EXCEPT !.pc = "preparing", !.step = 2]]
    /\ UNCHANGED <<flock, storeJournal, cap, made, lost, storeCrashes>>

Synchronised(s) == Plan[s].sync

\* The next step of the preparation; the lock file is locked as it is created.
PrepareStep(p) ==
    /\ storeProc[p].pc = "preparing" /\ storeProc[p].step <= 8
    /\ storeDisk' = [e \in Entries |-> IF e \in Plan[storeProc[p].step].make THEN "cached"
                                       ELSE IF e \in Synchronised(storeProc[p].step) THEN "durable"
                                       ELSE storeDisk[e]]
    /\ IF "lock" \in Plan[storeProc[p].step].make
       THEN flock = StoreNobody /\ flock' = p ELSE UNCHANGED flock
    /\ storeProc' = [storeProc EXCEPT ![p].step = @ + 1]
    /\ UNCHANGED <<storeJournal, cap, made, lost, storeCrashes>>

\* A step fails: the directory stays as poison and the lock is given back.
PrepareFails(p) ==
    /\ storeProc[p].pc = "preparing"
    /\ storeProc' = [storeProc EXCEPT ![p] = NoProc]
    /\ flock' = IF Holds(p) THEN StoreNobody ELSE flock
    /\ UNCHANGED <<storeDisk, storeJournal, cap, made, lost, storeCrashes>>

\* The prepared attempt is registered with its lock, and admit_reproducible_run appends
\* RUN_PREPARED before anything starts.
StoreAdmit(p) ==
    /\ storeProc[p].pc = "preparing" /\ storeProc[p].step = 9
    /\ storeProc' = [storeProc EXCEPT ![p] = [NoProc EXCEPT !.pc = "writing"]]
    /\ storeJournal' = [storeJournal EXCEPT !.records = 1]
    /\ UNCHANGED <<storeDisk, flock, cap, made, lost, storeCrashes>>

-----------------------------------------------------------------------------
(* The writer *)

StoreAppend(p) ==
    /\ Writing(p) /\ ~storeJournal.terminal /\ storeJournal.records < StoreMaxRecords
    /\ \E last \in BOOLEAN :
          storeJournal' = [storeJournal EXCEPT !.records = @ + 1, !.terminal = last]
    /\ UNCHANGED <<storeDisk, flock, storeProc, cap, made, lost, storeCrashes>>

\* The caller closes its journal and then the store: every lease is released.
StoreClose(p) ==
    /\ storeProc[p].pc # "idle" /\ storeProc[p].pc # "preparing"
    /\ \A s \in StoreStages : cap[p][s].state # "consuming"
    /\ storeProc' = [storeProc EXCEPT ![p] = NoProc]
    /\ cap' = [cap EXCEPT ![p] = NoCaps] /\ made' = [made EXCEPT ![p] = NoneMade]
    /\ flock' = IF Holds(p) THEN StoreNobody ELSE flock
    /\ UNCHANGED <<storeDisk, storeJournal, lost, storeCrashes>>

-----------------------------------------------------------------------------
(* Recovery *)

Complete == \A e \in Entries : Exists(e)

\* The flock is taken without waiting: a live writer refuses the recovery.
LockAttempt(p) == flock = StoreNobody /\ flock' = p

\* verify_recovery_attempt: the attempt is complete, its manifest is the expected one, and
\* its journal says whether it ended.  Only an attempt with a RUN_PREPARED is recovered.
Verify(p) ==
    /\ storeProc[p].pc = "idle" /\ Complete /\ storeJournal.records > 0 /\ LockAttempt(p)
    /\ storeProc' = [storeProc EXCEPT ![p] = [NoProc EXCEPT !.pc = "verified", !.count = storeJournal.records,
                                                            !.terminal = storeJournal.terminal]]
    /\ cap' = [cap EXCEPT ![p] = [NoCaps EXCEPT !["classification"].state = "available"]]
    /\ made' = [made EXCEPT ![p] = NoneMade]
    /\ UNCHANGED <<storeDisk, storeJournal, lost, storeCrashes>>

\* It fails on an attempt that is not complete; one that was prepared should be.
VerifyDamaged(p) ==
    /\ storeProc[p].pc = "idle" /\ Exists("run") /\ ~Complete /\ flock = StoreNobody
    /\ lost' = (lost \/ storeJournal.records > 0)
    /\ UNCHANGED <<storeDisk, flock, storeJournal, storeProc, cap, made, storeCrashes>>

\* _reserve_consumption, _reserve_for_admission, AdmittedRecoveredRun._reserve_consumption.
ReserveUse(p, s, t) ==
    /\ cap[p][s].state = "available"
    /\ cap' = [cap EXCEPT ![p][s] = [state |-> "consuming", token |-> t]]
StoreTake(p, s, t) ==
    /\ ReserveUse(p, s, t)
    /\ UNCHANGED <<storeDisk, flock, storeJournal, storeProc, made, lost, storeCrashes>>

Uses(p, s, t) == cap[p][s] = [state |-> "consuming", token |-> t]
\* Mutant of StoreEnds: a use that is over leaves the capability available.
EndsAvailable(p, s, state) == cap' = [cap EXCEPT ![p][s] = [state |-> "available", token |-> StoreNobody]]
StoreEnds(p, s, state) == cap' = [cap EXCEPT ![p][s] = [state |-> state, token |-> StoreNobody]]

\* recover_incomplete_attempt: the journal is reopened and must have the records it had.
RecoverIncomplete(p, t) ==
    /\ Uses(p, "classification", t) /\ ~storeProc[p].terminal /\ storeJournal.records = storeProc[p].count
    /\ cap' = [cap EXCEPT ![p]["classification"] = [state |-> "consumed", token |-> StoreNobody],
                          ![p]["admission"] = [state |-> "available", token |-> StoreNobody]]
    /\ made' = [made EXCEPT ![p]["classification"] = @ + 1]
    /\ UNCHANGED <<storeDisk, flock, storeJournal, storeProc, lost, storeCrashes>>

\* recover_terminal_attempt: the terminal record is acknowledged again, the lease retired.
RecoverTerminal(p, t) ==
    /\ Uses(p, "classification", t) /\ storeProc[p].terminal /\ storeJournal.records = storeProc[p].count
    /\ flock' = IF Holds(p) THEN StoreNobody ELSE flock
    /\ StoreEnds(p, "classification", "consumed")
    /\ made' = [made EXCEPT ![p]["classification"] = @ + 1]
    /\ UNCHANGED <<storeDisk, storeJournal, storeProc, lost, storeCrashes>>

\* admit_recovered_run
AdmitRecovered(p, t) ==
    /\ Uses(p, "admission", t)
    /\ cap' = [cap EXCEPT ![p]["admission"] = [state |-> "consumed", token |-> StoreNobody],
                          ![p]["assembly"] = [state |-> "available", token |-> StoreNobody]]
    /\ made' = [made EXCEPT ![p]["admission"] = @ + 1]
    /\ UNCHANGED <<storeDisk, flock, storeJournal, storeProc, lost, storeCrashes>>

\* recover_phase1_historical_lifecycle: the coordinator is rebuilt from the records (which
\* may complete the journal's last transition), then the lifecycle is published.
StoreReplay(p, t) ==
    /\ Uses(p, "assembly", t) /\ ~storeProc[p].replayed
    /\ storeProc' = [storeProc EXCEPT ![p].replayed = TRUE]
    /\ UNCHANGED <<storeDisk, flock, storeJournal, cap, made, lost, storeCrashes>>
Assemble(p, t) ==
    /\ Uses(p, "assembly", t) /\ storeProc[p].replayed
    /\ StoreEnds(p, "assembly", "consumed")
    /\ made' = [made EXCEPT ![p]["assembly"] = @ + 1]
    /\ storeProc' = [storeProc EXCEPT ![p].pc = "writing"]
    /\ UNCHANGED <<storeDisk, flock, storeJournal, lost, storeCrashes>>

\* A use fails.  It may be tried again unless the replay had begun.
Retryable(p, s) == s # "assembly" \/ ~storeProc[p].replayed
\* The failure of a use; the cleanup after it may fail as well.
UseFails(p, s, t) ==
    /\ Uses(p, s, t)
    /\ \E clean \in (IF s = "assembly" THEN {TRUE} ELSE BOOLEAN) :
          StoreEnds(p, s, IF clean /\ Retryable(p, s) THEN "available" ELSE "failed")
    /\ UNCHANGED <<storeDisk, flock, storeJournal, storeProc, made, lost, storeCrashes>>

-----------------------------------------------------------------------------
(* Crashes *)

Gone(P) ==
    /\ storeProc' = [p \in StoreProcesses |-> IF p \in P THEN NoProc ELSE storeProc[p]]
    /\ cap' = [p \in StoreProcesses |-> IF p \in P THEN NoCaps ELSE cap[p]]
    /\ made' = [p \in StoreProcesses |-> IF p \in P THEN NoneMade ELSE made[p]]
    /\ flock' = IF flock \in P THEN StoreNobody ELSE flock
    /\ storeCrashes' = storeCrashes + 1

StoreCrash(p) ==
    /\ storeCrashes < StoreMaxCrashes /\ storeProc[p].pc # "idle" /\ Gone({p})
    /\ UNCHANGED <<storeDisk, storeJournal, lost>>

\* Entries that were not synchronised may be lost, with what is under them.
Parent == [run |-> "run", audit |-> "run", outputs |-> "run", manifest |-> "run", lock |-> "audit",
           bytes |-> "manifest"]
PowerLoss ==
    /\ storeCrashes < StoreMaxCrashes /\ Gone(StoreProcesses)
    /\ \E gone \in SUBSET {e \in Entries : storeDisk[e] = "cached"} :
          LET Drop1 == gone \cup {e \in Entries : Parent[e] \in gone}
              Dropped == Drop1 \cup {e \in Entries : Parent[e] \in Drop1}
          IN storeDisk' = [e \in Entries |-> IF e \in Dropped THEN "absent" ELSE storeDisk[e]]
    /\ UNCHANGED <<storeJournal, lost>>

-----------------------------------------------------------------------------

StoreInit ==
    /\ storeDisk = [e \in Entries |-> "absent"] /\ flock = StoreNobody
    /\ storeJournal = [records |-> 0, terminal |-> FALSE]
    /\ storeProc = [p \in StoreProcesses |-> NoProc] /\ cap = [p \in StoreProcesses |-> NoCaps]
    /\ made = [p \in StoreProcesses |-> NoneMade] /\ lost = FALSE /\ storeCrashes = 0

StoreNext ==
    \/ \E p \in StoreProcesses :
          \/ Reserve(p) \/ PrepareStep(p) \/ PrepareFails(p) \/ StoreAdmit(p)
          \/ StoreAppend(p) \/ StoreClose(p) \/ Verify(p) \/ VerifyDamaged(p) \/ StoreCrash(p)
          \/ \E t \in Threads :
                \/ RecoverIncomplete(p, t) \/ RecoverTerminal(p, t) \/ AdmitRecovered(p, t)
                \/ StoreReplay(p, t) \/ Assemble(p, t)
                \/ \E s \in StoreStages : StoreTake(p, s, t) \/ UseFails(p, s, t)
    \/ PowerLoss

StoreSpec == StoreInit /\ [][StoreNext]_storeVars

-----------------------------------------------------------------------------
(* Properties *)

\* The attempt, its lock and the capabilities of every process are well formed.
StoreTypeOK ==
    /\ storeDisk \in [Entries -> {"absent", "cached", "durable"}]
    /\ flock \in StoreProcesses \cup {StoreNobody} /\ storeJournal.records \in 0 .. StoreMaxRecords
    /\ \A p \in StoreProcesses :
          /\ storeProc[p].pc \in {"idle", "preparing", "writing", "verified"} /\ storeProc[p].step \in 0 .. 9
          /\ \A s \in StoreStages :
                cap[p][s].state \in {"none", "available", "consuming", "consumed", "failed"}

\* Only the holder of the attempt's lock can write to its journal: never two writers, be
\* they two preparations, a preparation and a recovery, or two recoveries.
OneWriter == \A p \in StoreProcesses : Writing(p) => Holds(p)

\* Each recovery capability yields its product at most once, however many threads take it
\* and however often a failed use is tried again.
CapabilityUsedOnce == \A p \in StoreProcesses, s \in StoreStages : made[p][s] <= 1

\* What a recovery assembles starts from the very records it was classified by: nobody
\* appends between the classification and the assembly.
PrefixIsExact ==
    \A p \in StoreProcesses :
        storeProc[p].pc = "verified" /\ Holds(p) => storeJournal.records = storeProc[p].count

\* An attempt whose RUN_PREPARED was acknowledged can be found again complete after any
\* crash or loss of power.
PreparedIsDurable == ~lost

\* An attempt that ended is never written again: no lifecycle starts over it.
EndedIsNotResumed ==
    [][\A p \in StoreProcesses : Writing(p)' /\ ~Writing(p) => ~storeJournal.terminal]_storeVars

\* A process that recovered the attempt and failed after its replay began never assembles it
\* again: only a new classification does.
FailedReplayIsFinal ==
    [][\A p \in StoreProcesses :
          storeProc[p].replayed /\ cap[p]["assembly"].state # "consuming"
          => cap'[p]["assembly"].state # "consuming"]_storeVars

\* The result store: only the holder of the lock writes, a capability is used
\* once, a recovered prefix is exact, and a prepared attempt survives a power
\* loss.
ResultSafe ==
    /\ StoreTypeOK /\ OneWriter /\ CapabilityUsedOnce /\ PrefixIsExact /\ PreparedIsDurable
=============================================================================
