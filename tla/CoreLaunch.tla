----------------------------- MODULE CoreLaunch -----------------------------
(***************************************************************************)
(* Launching an experiment of a user strategy (web/user_strategies.py)     *)
(* through the core that owns it (web/quine.py).                           *)
(*                                                                         *)
(* The strategy document keeps a projection of every launch; the core      *)
(* keeps the run.  A launch is confirmed by one request whose reply may be *)
(* lost and which may reach the core after the caller stopped waiting.     *)
(* The strategy lock orders launches, cancellations and reconciliations of *)
(* one strategy; a crash may end them anywhere, and the document may be    *)
(* lost as a whole.                                                        *)
(***************************************************************************)
EXTENDS Naturals, FiniteSets

CONSTANTS Intents,          \* launch intents of the user
          MaxInput,         \* versions of the admitted input
          LaunchMaxFaults,  \* crashes, outages and losses of the document
          MaxAsks           \* cancellations and repeated launches

ASSUME LaunchAssumption == {MaxInput, LaunchMaxFaults, MaxAsks} \subseteq Nat

VARIABLES launchDoc,    \* the projection of each launch, in the strategy document
          served,       \* the status the user was last told for each intent
          core,         \* the run the core registered for each intent
          barrier,      \* intents cancelled before they were confirmed
          wire,         \* requests on their way to the core
          launchUp,     \* the core can be reached
          input,        \* the version of the input the engine would admit now
          launchShown,  \* the version the user was shown for each intent
          launchOp,     \* the operation holding the strategy lock
          launchGhost   \* confirmations sent, faults, requests of the user

launchVars == <<launchDoc, served, core, barrier, wire, launchUp, input, launchShown, launchOp, launchGhost>>

NoRec == [st |-> "absent", input |-> 0]
NoRun == [st |-> "absent", input |-> 0, at |-> 0]
LaunchFree == [pc |-> "free"]
Faulty == launchGhost.faults < LaunchMaxFaults
LaunchFault == launchGhost' = [launchGhost EXCEPT !.faults = @ + 1]

-----------------------------------------------------------------------------
(* Reading the owner *)

STATUS(st) == CASE st = "succeeded" -> "created" [] OTHER -> st
\* projection: a success of another input is unknown.
Projection(rec, run, stopped) ==
    IF run.st = "absent" THEN [rec EXCEPT !.st = IF stopped THEN "cancelled" ELSE "unconfirmed"]
    ELSE IF run.st = "succeeded" /\ run.input # rec.input THEN [rec EXCEPT !.st = "unknown"]
    ELSE [rec EXCEPT !.st = STATUS(run.st)]

\* _quine_unreachable
Unreachable(rec) == [rec EXCEPT !.st = "unknown"]
\* _reconciled_quine
Reconciled(rec, i) == IF launchUp THEN Projection(rec, core[i], i \in barrier) ELSE Unreachable(rec)
\* Mutant of Restored: only the records this workspace holds are looked at.
RestoredNothing == launchDoc
\* _restore_quine: the owner's list names the confirmations this document lost.
Restored ==
    [i \in Intents |->
       IF launchUp /\ launchDoc[i] = NoRec /\ core[i].st # "absent"
       THEN Projection([st |-> "pending", input |-> core[i].input], core[i], FALSE) ELSE launchDoc[i]]

-----------------------------------------------------------------------------
(* launch_experiment *)

\* preview
Preview(i) ==
    /\ launchOp = LaunchFree /\ launchDoc[i] = NoRec /\ launchShown[i] # input /\ launchShown' = [launchShown EXCEPT ![i] = input]
    /\ UNCHANGED <<launchDoc, served, core, barrier, wire, launchUp, input, launchOp, launchGhost>>

Asked == launchGhost.asks < MaxAsks /\ launchGhost' = [launchGhost EXCEPT !.asks = @ + 1]
Serve(d) == served' = [i \in Intents |-> d[i].st]
\* An intent that is known, or that its owner knows, is answered by a read of the owner,
\* which is not written back.
LaunchKnown(i) ==
    /\ launchOp = LaunchFree /\ Asked /\ Restored[i] # NoRec
    /\ Serve([Restored EXCEPT ![i] = Reconciled(Restored[i], i)])
    /\ UNCHANGED <<launchDoc, core, barrier, wire, launchUp, input, launchShown, launchOp>>
\* Otherwise the admitted input must be the one that was previewed.
LaunchAdmit(i) ==
    /\ launchOp = LaunchFree /\ Asked /\ Restored[i] = NoRec /\ launchShown[i] = input
    /\ launchOp' = [pc |-> "freeze", i |-> i, input |-> input, run |-> NoRun]
    /\ UNCHANGED <<launchDoc, served, core, barrier, wire, launchUp, input, launchShown>>
\* freeze: the rendered input must reproduce the admitted one.
FreezeMatches == input = launchOp.input
\* _launch_isolated: the record is durable before the core is reached.
LaunchFreeze ==
    /\ launchOp.pc = "freeze" /\ UNCHANGED <<served, core, barrier, wire, launchUp, input, launchShown, launchGhost>>
    /\ IF FreezeMatches
       THEN /\ launchDoc' = [Restored EXCEPT ![launchOp.i] = [st |-> "pending", input |-> launchOp.input]]
            /\ launchOp' = [launchOp EXCEPT !.pc = "confirm", !.input = input]
       ELSE launchOp' = LaunchFree /\ UNCHANGED launchDoc
\* QuineClient.call: the line is sent, or the core cannot be connected to.
LaunchSend ==
    /\ launchOp.pc = "confirm" /\ UNCHANGED <<launchDoc, served, core, barrier, launchUp, input, launchShown>>
    /\ IF launchUp
       THEN /\ wire' = wire \cup {[kind |-> "confirm", i |-> launchOp.i, input |-> launchOp.input, at |-> launchGhost.sent[launchOp.i] + 1]}
            /\ launchGhost' = [launchGhost EXCEPT !.sent[launchOp.i] = @ + 1] /\ launchOp' = [launchOp EXCEPT !.pc = "wait"]
       ELSE launchOp' = [launchOp EXCEPT !.pc = "query"] /\ UNCHANGED <<wire, launchGhost>>
\* The reply does not arrive within the bound: the confirmation may still be on its way.
LaunchTimeout ==
    /\ launchOp.pc \in {"wait", "accepted", "refused", "stopped"} /\ launchOp' = [launchOp EXCEPT !.pc = "query"]
    /\ UNCHANGED <<launchDoc, served, core, barrier, wire, launchUp, input, launchShown, launchGhost>>

Settle(rec) ==
    LET d == [launchDoc EXCEPT ![launchOp.i] = rec] IN launchDoc' = d /\ Serve(d) /\ launchOp' = LaunchFree
Pending == launchDoc[launchOp.i]
LaunchReply ==
    /\ launchOp.pc \in {"accepted", "refused", "stopped"}
    /\ UNCHANGED <<core, barrier, wire, launchUp, input, launchShown, launchGhost>>
    /\ Settle(CASE launchOp.pc = "refused" -> [Pending EXCEPT !.st = "failed"]
                [] launchOp.pc = "stopped" -> [Pending EXCEPT !.st = "cancelled"]
                [] OTHER -> Projection(Pending, launchOp.run, FALSE))
\* Mutant of LaunchQuery: a confirmation without a reply is sent once more.
LaunchResend ==
    /\ launchOp.pc = "query" /\ launchOp' = [launchOp EXCEPT !.pc = "confirm"]
    /\ UNCHANGED <<launchDoc, served, core, barrier, wire, launchUp, input, launchShown, launchGhost>>
\* confirm: only the same intent is queried, and quietly.
LaunchQuery ==
    /\ launchOp.pc = "query" /\ UNCHANGED <<core, barrier, wire, launchUp, input, launchShown, launchGhost>>
    /\ Settle(IF launchUp THEN Projection(Pending, core[launchOp.i], launchOp.i \in barrier) ELSE [Pending EXCEPT !.st = "unconfirmed"])

-----------------------------------------------------------------------------
(* cancel_experiment and reconcile *)

CancelSend(i) ==
    /\ launchOp = LaunchFree /\ Asked /\ launchUp /\ wire' = wire \cup {[kind |-> "cancel", i |-> i, input |-> 0, at |-> 0]}
    /\ launchOp' = [pc |-> "cancelling", i |-> i, input |-> 0, run |-> NoRun]
    /\ UNCHANGED <<launchDoc, served, core, barrier, launchUp, input, launchShown>>
\* Answered, refused or timed out; only an answer is followed by a read.
CancelDone ==
    /\ launchOp.pc \in {"cancelling", "cancelled"} /\ launchOp' = LaunchFree
    /\ IF launchOp.pc = "cancelled"
       THEN Serve(IF launchDoc[launchOp.i] = NoRec THEN Restored
                  ELSE [Restored EXCEPT ![launchOp.i] = Reconciled(launchDoc[launchOp.i], launchOp.i)])
       ELSE UNCHANGED served
    /\ UNCHANGED <<launchDoc, core, barrier, wire, launchUp, input, launchShown, launchGhost>>
\* reconcile, for every record of the strategy.
LaunchReconcile ==
    /\ launchOp = LaunchFree
    /\ \E d \in {[i \in Intents |-> IF Restored[i] = NoRec THEN NoRec ELSE Reconciled(Restored[i], i)]} :
         launchDoc' = d /\ Serve(d)
    /\ UNCHANGED <<core, barrier, wire, launchUp, input, launchShown, launchOp, launchGhost>>

-----------------------------------------------------------------------------
(* The core *)

Waiting(m) == launchOp.pc = "wait" /\ launchOp.i = m.i /\ launchGhost.sent[m.i] = m.at
Reply(m, how, run) == launchOp' = IF Waiting(m) THEN [launchOp EXCEPT !.pc = how, !.run = run] ELSE launchOp
\* Store.confirm: one run per intent, replayed for the same frozen bytes, refused for others.
CoreConfirm(m) ==
    /\ launchUp /\ m \in wire /\ m.kind = "confirm" /\ wire' = wire \ {m}
    /\ IF m.i \in barrier THEN Reply(m, "stopped", NoRun) /\ UNCHANGED core
       ELSE IF core[m.i].st = "absent"
       THEN \/ \E run \in {[st |-> "running", input |-> m.input, at |-> m.at]} :
                 core' = [core EXCEPT ![m.i] = run] /\ Reply(m, "accepted", run)
            \/ Reply(m, "refused", NoRun) /\ UNCHANGED core
       ELSE /\ Reply(m, IF core[m.i].at = m.at THEN "accepted" ELSE "refused", core[m.i])
            /\ UNCHANGED core
    /\ UNCHANGED <<launchDoc, served, barrier, launchUp, input, launchShown, launchGhost>>
\* A cancellation of an intent that was never confirmed raises a barrier.
CoreCancel(m) ==
    /\ launchUp /\ m \in wire /\ m.kind = "cancel" /\ wire' = wire \ {m}
    /\ barrier' = IF core[m.i].st = "absent" THEN barrier \cup {m.i} ELSE barrier
    /\ core' = IF core[m.i].st = "running" THEN [core EXCEPT ![m.i].st = "cancelled"] ELSE core
    /\ launchOp' = IF launchOp.pc = "cancelling" /\ launchOp.i = m.i THEN [launchOp EXCEPT !.pc = "cancelled"] ELSE launchOp
    /\ UNCHANGED <<launchDoc, served, launchUp, input, launchShown, launchGhost>>
RunEnds(i) ==
    /\ core[i].st = "running" /\ \E st \in {"succeeded", "failed", "unknown"} : core' = [core EXCEPT ![i].st = st]
    /\ UNCHANGED <<launchDoc, served, barrier, wire, launchUp, input, launchShown, launchOp, launchGhost>>
LoseRequest(m) ==
    /\ m \in wire /\ Faulty /\ LaunchFault /\ wire' = wire \ {m}
    /\ UNCHANGED <<launchDoc, served, core, barrier, launchUp, input, launchShown, launchOp>>
Outage ==
    /\ launchUp /\ Faulty /\ LaunchFault /\ launchUp' = FALSE
    /\ UNCHANGED <<launchDoc, served, core, barrier, wire, input, launchShown, launchOp>>
Recovery ==
    /\ ~launchUp /\ launchUp' = TRUE /\ UNCHANGED <<launchDoc, served, core, barrier, wire, input, launchShown, launchOp, launchGhost>>

-----------------------------------------------------------------------------
(* The surroundings *)

InputChanges ==
    /\ input < MaxInput /\ input' = input + 1
    /\ UNCHANGED <<launchDoc, served, core, barrier, wire, launchUp, launchShown, launchOp, launchGhost>>
LaunchCrash ==
    /\ launchOp # LaunchFree /\ Faulty /\ LaunchFault /\ launchOp' = LaunchFree
    /\ UNCHANGED <<launchDoc, served, core, barrier, wire, launchUp, input, launchShown>>
Wipe ==
    /\ launchOp = LaunchFree /\ Faulty /\ launchDoc' = [i \in Intents |-> NoRec]
    /\ launchGhost' = [launchGhost EXCEPT !.faults = @ + 1, !.wiped = TRUE]
    /\ UNCHANGED <<served, core, barrier, wire, launchUp, input, launchShown, launchOp>>

LaunchInit ==
    /\ launchDoc = [i \in Intents |-> NoRec] /\ served = [i \in Intents |-> "absent"] /\ core = [i \in Intents |-> NoRun] /\ barrier = {} /\ wire = {}
    /\ launchUp = TRUE /\ input = 1 /\ launchShown = [i \in Intents |-> 0] /\ launchOp = LaunchFree
    /\ launchGhost = [sent |-> [i \in Intents |-> 0], faults |-> 0, asks |-> 0, wiped |-> FALSE]
Launching == LaunchFreeze \/ LaunchSend \/ LaunchTimeout \/ LaunchReply \/ LaunchQuery \/ CancelDone
LaunchNext ==
    \/ Launching \/ LaunchReconcile \/ Outage \/ Recovery \/ InputChanges \/ LaunchCrash \/ Wipe
    \/ \E i \in Intents : Preview(i) \/ LaunchKnown(i) \/ LaunchAdmit(i) \/ CancelSend(i) \/ RunEnds(i)
    \/ \E m \in wire : CoreConfirm(m) \/ CoreCancel(m) \/ LoseRequest(m)
LaunchSpec == LaunchInit /\ [][LaunchNext]_launchVars

-----------------------------------------------------------------------------
(* Properties *)

\* The statuses of a projection and of a run.
LaunchTypeOK ==
    /\ \A i \in Intents : launchDoc[i].st \in {"absent", "pending", "unconfirmed", "running", "created", "failed",
                                               "cancelled", "unknown"}
    /\ \A i \in Intents : core[i].st \in {"absent", "running", "succeeded", "failed", "unknown", "cancelled"}

\* A run of the core has the input its user was shown, whatever changed between the
\* preview, the admission, the freezing and the confirmation.
RunIsAsShown == \A i \in Intents : core[i].st # "absent" /\ ~launchGhost.wiped => core[i].input = launchShown[i]

\* A result that is served is the owner's own, of the confirmed input.
ServedResultIsOwners ==
    \A i \in Intents : /\ served[i] = "created" => core[i].st = "succeeded"
                       /\ launchDoc[i].st = "created" => core[i].input = launchDoc[i].input

\* What was served as cancelled is not and will not be running: a confirmation still on its
\* way is stopped by the barrier.
CancelledDoesNotRun == \A i \in Intents : served[i] = "cancelled" => core[i].st \in {"absent", "cancelled"}

\* As long as the document is not lost, a confirmation leaves once per intent.
SentOnce == \A i \in Intents : launchGhost.wiped \/ launchGhost.sent[i] <= 1

\* A projection becomes the owner's outcome once the run has one, also when the document
\* was lost or the confirmation was never answered.
RunIsProjected ==
    \A i \in Intents : (core[i].st = "succeeded") ~> (launchDoc[i].st = "created")

\* A launch through the core: what runs is what was shown, it is sent once, a
\* cancelled one does not run, and a served result is the owner's.
LaunchSafe ==
    /\ LaunchTypeOK /\ RunIsAsShown /\ ServedResultIsOwners
    /\ CancelledDoesNotRun /\ SentOnce
=============================================================================
