-------------------------- MODULE ConversationTurn --------------------------
(***************************************************************************)
(* The conversation turns of one user strategy (web/user_strategies.py):   *)
(* admission, the graph of model calls, tools and decisions, grants,       *)
(* cancellation, resumption and reconciliation.                            *)
(*                                                                         *)
(* The document is one row of the conversation database and every write is *)
(* one transaction on it; a turn runs under the strategy's lock, but a     *)
(* cancellation does not take that lock, and the process (or the client's  *)
(* stream) may end between any two transactions.  The graph keeps its own  *)
(* checkpoint, which may be lost; the document must be enough.             *)
(***************************************************************************)
EXTENDS Naturals, FiniteSets

CONSTANTS Turns,         \* turn identities, 1 .. n
          Initial,       \* model calls a new task may make
          Extra,         \* further calls of one grant
          MaxGrants,     \* grants per turn
          MaxEdits,      \* draft revisions made outside the conversation
          TurnMaxFaults  \* crashes and lost checkpoints

ASSUME ConversationAssumption ==
    /\ Turns = 1 .. Cardinality(Turns)
    /\ {Initial, Extra} \subseteq Nat \ {0} /\ {MaxGrants, MaxEdits, TurnMaxFaults} \subseteq Nat

VARIABLES turnDoc,  \* the committed document: calls, tasks, pending decision, proposals, runs
          ckpt,     \* per turn, the step of the graph's checkpoint
          run,      \* the turn being driven under the lock, or Idle
          sends,    \* how often the provider was reached for each call
          budget    \* spent grants, edits and faults

turnVars == <<turnDoc, ckpt, run, sends, budget>>

Steps == 0 .. Initial + Extra * MaxGrants
NoTurn == 0
NoCkpt == [step |-> 0, set |-> FALSE]
TurnIdle == [t |-> NoTurn]

TurnNoCall == [status |-> "absent", resp |-> "none"]
NoTask == [status |-> "none", reason |-> "none", limit |-> 0]
NoDecision == [phase |-> "none", t |-> NoTurn, rev |-> 0]
NoProposal == [status |-> "none", base |-> 0]

Open == {"running", "awaiting_budget", "awaiting_decision"}
Reserved == {"pending", "dispatched", "observed", "refused", "unknown"}
Cancelled(t) == turnDoc.task[t].reason = "cancelled"

\* _task_usage and _turn_remaining
Usage(t) == Cardinality({s \in Steps : turnDoc.call[t][s].status \in Reserved})
Members(t) == Cardinality({s \in Steps : turnDoc.call[t][s] # TurnNoCall})
\* Mutant of Remaining: the call about to be made is not counted.
RemainingPlusOne(t) == IF turnDoc.task[t].limit >= Usage(t) THEN turnDoc.task[t].limit - Usage(t) + 1 ELSE 0
Remaining(t) == IF turnDoc.task[t].limit > Usage(t) THEN turnDoc.task[t].limit - Usage(t) ELSE 0

-----------------------------------------------------------------------------
(* Transactions of the store *)

\* update_task without a grant: a cancelled task is left as it is, and a cancellation
\* takes the pending decision of its turn with it.
UpdateTask(d, t, status, reason) ==
    IF d.task[t].reason = "cancelled" THEN d
    ELSE [d EXCEPT !.task[t].status = status, !.task[t].reason = reason,
                   !.pending = IF reason = "cancelled" /\ @.t = t THEN NoDecision ELSE @]

\* _remember and _forget go through _update_conversation, which keeps the committed tasks
\* and drops a decision whose turn was cancelled meanwhile.
Remember(d, t, phase, rev) ==
    [d EXCEPT !.pending = IF d.task[t].reason = "cancelled" THEN NoDecision
                          ELSE [phase |-> phase, t |-> t, rev |-> rev]]
TurnForget(d) == [d EXCEPT !.pending = NoDecision]

SetCall(d, t, s, status, resp) == [d EXCEPT !.call[t][s] = [status |-> status, resp |-> resp]]
SetStatus(d, t, s, status) == [d EXCEPT !.call[t][s].status = status]

-----------------------------------------------------------------------------
(* The driver *)

Driving(pc) == run.t # NoTurn /\ run.pc = pc
Goto(pc) == run' = [run EXCEPT !.pc = pc]
TurnStart(t, pc, step, answer) ==
    run' = [t |-> t, pc |-> pc, step |-> step, answer |-> answer, outcome |-> "observed",
            proposed |-> FALSE]
TurnQuiet == UNCHANGED <<sends, budget>>

\* The graph's checkpoint holds the step each node left behind.
Nodes == {"budget", "answer", "tools", "settle", "proposal", "preview", "observe", "evidence",
          "interrupt"}
SaveCheckpoint ==
    ckpt' = IF run' # TurnIdle /\ run'.pc \in Nodes \ {run.pc}
            THEN [ckpt EXCEPT ![run.t] = [step |-> run'.step, set |-> TRUE]] ELSE ckpt

\* _drive after the graph: the task ends, or waits for what the document says.
TurnEnd(status, reason) == turnDoc' = UpdateTask(turnDoc, run.t, status, reason) /\ run' = TurnIdle /\ TurnQuiet
Interrupted ==
    /\ Driving("interrupt")
    /\ turnDoc' = IF turnDoc.pending.phase = "awaiting_budget"
                  THEN UpdateTask(turnDoc, run.t, "awaiting_budget", turnDoc.task[run.t].reason)
                  ELSE UpdateTask(turnDoc, run.t, "awaiting_decision", "decision_required")
    /\ run' = TurnIdle /\ TurnQuiet
Ended == Driving("end") /\ TurnEnd("completed", "completed")
Stopped == Driving("stop") /\ TurnEnd("stopped", run.outcome)

-----------------------------------------------------------------------------
(* Admission *)

\* conversation_turn and _admit: a new identity, nothing unresolved, no open task; the
\* reservation, the task and the user's message are one transaction.
AdmitTurn(t) ==
    /\ run = TurnIdle /\ turnDoc.task[t] = NoTask
    /\ \A u \in Turns : u < t => turnDoc.task[u] # NoTask
    /\ \A u \in Turns : turnDoc.task[u].status \notin Open
    /\ \A u \in Turns, s \in Steps : turnDoc.call[u][s].status \notin {"pending", "dispatched"}
    /\ LET task == [status |-> "running", reason |-> "none", limit |-> Initial]
       IN \/ /\ turnDoc' = SetCall([turnDoc EXCEPT !.task[t] = task, !.base[t] = turnDoc.rev], t, 0, "pending", "none")
             /\ TurnStart(t, "budget", 0, "none")
          \/ /\ turnDoc' = SetCall([turnDoc EXCEPT !.task[t] = [task EXCEPT !.status = "stopped",
                                                          !.reason = "unconfigured"]],
                                   t, 0, "unconfigured", "none")
             /\ UNCHANGED run
    /\ TurnQuiet /\ UNCHANGED ckpt

-----------------------------------------------------------------------------
(* Node "budget" *)

\* _graph_budget up to its interrupt.
GraphBudget ==
    /\ Driving("budget") /\ TurnQuiet
    /\ IF Cancelled(run.t)
       THEN run' = [run EXCEPT !.pc = "stop", !.outcome = "cancelled"] /\ UNCHANGED turnDoc
       ELSE IF /\ turnDoc.pending.phase # "awaiting_budget"
               /\ turnDoc.call[run.t][run.step] # TurnNoCall \/ Remaining(run.t) > 0
       THEN Goto("answer") /\ UNCHANGED turnDoc
       ELSE turnDoc' = UpdateTask(turnDoc, run.t, "awaiting_budget", "execution_limit") /\ Goto("pause")

PauseForBudget ==
    /\ Driving("pause") /\ TurnQuiet
    /\ turnDoc' = Remember(turnDoc, run.t, "awaiting_budget", turnDoc.base[run.t])
    /\ Goto(IF run.answer = "continue" THEN "granted" ELSE "interrupt")

\* The resumed node: without the authorization it raises and the turn stops.
BudgetGranted ==
    /\ Driving("granted") /\ TurnQuiet
    /\ IF Cancelled(run.t) \/ Remaining(run.t) = 0
       THEN run' = [run EXCEPT !.pc = "stop", !.outcome = "interrupted"] /\ UNCHANGED turnDoc
       ELSE turnDoc' = TurnForget(turnDoc) /\ Goto("regained")
BudgetRunning ==
    /\ Driving("regained") /\ TurnQuiet
    /\ turnDoc' = UpdateTask(turnDoc, run.t, "running", "none")
    /\ run' = [run EXCEPT !.pc = "answer", !.answer = "none"]

-----------------------------------------------------------------------------
(* Node "answer" *)

\* _reserve_child and reserve_model_call, refused by a cancellation or a spent grant.
ReserveChild ==
    /\ Driving("answer") /\ TurnQuiet /\ turnDoc.call[run.t][run.step] = TurnNoCall
    /\ IF Cancelled(run.t) \/ Remaining(run.t) = 0
       THEN run' = [run EXCEPT !.pc = "stop", !.outcome = "scope_decision"] /\ UNCHANGED turnDoc
       ELSE turnDoc' = SetCall(turnDoc, run.t, run.step, "pending", "none") /\ Goto("answer")

\* A recorded answer is the answer; anything but a pending record is not sent again.
ReplayAnswer ==
    /\ Driving("answer") /\ TurnQuiet /\ turnDoc.call[run.t][run.step].status \notin {"absent", "pending"}
    /\ IF turnDoc.call[run.t][run.step].resp # "none" THEN Goto("answered")
       ELSE run' = [run EXCEPT !.pc = "settle", !.outcome = "unknown"]
    /\ UNCHANGED turnDoc

\* Mutant of DispatchCall: the cancellation is checked by an earlier read only.
DispatchUnchecked ==
    /\ Driving("answer") /\ TurnQuiet /\ turnDoc.call[run.t][run.step].status = "pending"
    /\ turnDoc' = SetStatus(turnDoc, run.t, run.step, "dispatched") /\ Goto("provider")

\* dispatch_task_call: cancellation and dispatch serialize on the same transaction.
DispatchCall ==
    /\ Driving("answer") /\ TurnQuiet /\ turnDoc.call[run.t][run.step].status = "pending"
    /\ IF Cancelled(run.t)
       THEN run' = [run EXCEPT !.pc = "settle", !.outcome = "interrupted_before_dispatch"]
            /\ UNCHANGED turnDoc
       ELSE turnDoc' = SetStatus(turnDoc, run.t, run.step, "dispatched") /\ Goto("provider")

\* The provider is reached; it answers, or its outcome is not observed.
CallProvider ==
    /\ Driving("provider")
    /\ sends' = [sends EXCEPT ![run.t][run.step] = @ + 1]
    /\ \/ \E r \in {"text", "read", "propose"} : run' = [run EXCEPT !.pc = "record", !.outcome = r]
       \/ run' = [run EXCEPT !.pc = "settle", !.outcome = "unknown"]
    /\ UNCHANGED <<turnDoc, budget>>

RecordAnswer ==
    /\ Driving("record") /\ TurnQuiet
    /\ turnDoc' = SetCall(turnDoc, run.t, run.step, "observed", run.outcome)
    /\ Goto("answered")

\* The intermediate text is published once, then the tool runs or the call settles.
Answered ==
    /\ Driving("answered") /\ TurnQuiet
    /\ LET r == turnDoc.call[run.t][run.step].resp
       IN /\ turnDoc' = SetStatus(turnDoc, run.t, run.step, "observed")
          /\ run' = [run EXCEPT !.pc = IF r = "text" THEN "settle" ELSE "tools", !.outcome = "observed"]

-----------------------------------------------------------------------------
(* Node "tools" *)

\* _graph_tools: a read goes on with another call, a proposal is recorded once on the
\* revision the turn was asked about.
GraphTools ==
    /\ Driving("tools") /\ TurnQuiet
    /\ LET t == run.t
           propose == turnDoc.call[t][run.step].resp = "propose"
           refuse == run' = [run EXCEPT !.pc = "settle", !.outcome = "refused"] /\ UNCHANGED turnDoc
       IN IF Cancelled(t) THEN refuse
          ELSE IF ~propose
          THEN run' = [run EXCEPT !.pc = "budget", !.step = @ + 1] /\ UNCHANGED turnDoc
          ELSE IF turnDoc.rev # turnDoc.base[t] \/ turnDoc.prop[t].status \notin {"none", "open"} THEN refuse
          ELSE /\ turnDoc' = [turnDoc EXCEPT !.prop[t] = [status |-> "open", base |-> turnDoc.rev]]
               /\ run' = [run EXCEPT !.pc = "settle", !.proposed = TRUE]

-----------------------------------------------------------------------------
(* Node "settle" *)

\* _graph_settle writes the outcome of the call; the step has moved past it.
GraphSettle ==
    /\ Driving("settle") /\ TurnQuiet
    /\ turnDoc' = SetStatus(turnDoc, run.t, run.step, run.outcome)
    /\ run' = [run EXCEPT !.step = @ + 1,
                 !.pc = IF run.proposed THEN "proposal"
                        ELSE IF run.outcome = "observed" THEN "end" ELSE "stop"]

-----------------------------------------------------------------------------
(* Nodes "proposal", "preview", "observe" and "evidence" *)

GraphProposal ==
    /\ Driving("proposal") /\ TurnQuiet
    /\ turnDoc' = Remember(turnDoc, run.t, "proposal", turnDoc.prop[run.t].base)
    /\ Goto(IF run.answer \in {"applied", "rejected"} THEN "decided" ELSE "interrupt")

\* _applied_at: the proposal is applied and the draft is still the revision it made.
AppliedAt(t) == turnDoc.prop[t].status = "applied" /\ turnDoc.rev = turnDoc.prop[t].base + 1

\* The answer is checked against what the document records; otherwise the turn waits on.
ProposalDecided ==
    /\ Driving("decided") /\ TurnQuiet
    /\ IF run.answer = "rejected" /\ turnDoc.prop[run.t].status = "rejected"
       THEN turnDoc' = TurnForget(turnDoc) /\ run' = [run EXCEPT !.pc = "stop", !.outcome = "declined"]
       ELSE IF run.answer = "applied" /\ AppliedAt(run.t)
       THEN turnDoc' = TurnForget(turnDoc) /\ run' = [run EXCEPT !.pc = "preview", !.answer = "none"]
       ELSE run' = [run EXCEPT !.pc = "proposal", !.answer = "none"] /\ UNCHANGED turnDoc

\* _graph_preview up to its interrupt: the preview is frozen on the applied revision.
GraphPreview ==
    /\ Driving("preview") /\ TurnQuiet
    /\ IF turnDoc.pending.phase = "observation" THEN Goto("observe") /\ UNCHANGED turnDoc
       ELSE IF turnDoc.pending.phase = "confirmation"
       THEN /\ Goto(IF run.answer \in {"confirm", "declined"} THEN "confirmed" ELSE "interrupt")
            /\ UNCHANGED turnDoc
       ELSE IF AppliedAt(run.t)
       THEN turnDoc' = Remember(turnDoc, run.t, "confirmation", turnDoc.rev) /\ Goto("previewed")
       ELSE run' = [run EXCEPT !.pc = "stop", !.outcome = "scope_decision"] /\ UNCHANGED turnDoc
Previewed == Driving("previewed") /\ TurnQuiet /\ Goto("interrupt") /\ UNCHANGED turnDoc

\* _launch_experiment_locked: an intent is launched once, on the revision it previewed.
LaunchAdmitted(t) == turnDoc.exp[t] # "none" \/ turnDoc.pending.rev = turnDoc.rev

PreviewConfirmed ==
    /\ Driving("confirmed") /\ TurnQuiet
    /\ IF run.answer = "declined" \/ turnDoc.pending.t # run.t
       THEN turnDoc' = TurnForget(turnDoc) /\ run' = [run EXCEPT !.pc = "stop", !.outcome = "declined"]
       ELSE IF ~LaunchAdmitted(run.t)
       THEN turnDoc' = TurnForget(turnDoc) /\ run' = [run EXCEPT !.pc = "stop", !.outcome = "scope_decision"]
       ELSE /\ turnDoc' = [turnDoc EXCEPT !.exp[run.t] = IF @ = "none" THEN "running" ELSE @,
                                          !.launched[run.t] = IF turnDoc.exp[run.t] = "none" THEN @ \cup {turnDoc.rev} ELSE @]
            /\ Goto("launched")
RememberLaunch ==
    /\ Driving("launched") /\ TurnQuiet
    /\ turnDoc' = Remember(turnDoc, run.t, "observation", turnDoc.base[run.t] + 1)
    /\ Goto("observe")

\* _graph_observe
GraphObserve ==
    /\ Driving("observe") /\ TurnQuiet
    /\ CASE turnDoc.exp[run.t] = "running" -> Goto("interrupt") /\ UNCHANGED turnDoc
         [] turnDoc.exp[run.t] = "succeeded" -> turnDoc' = TurnForget(turnDoc) /\ Goto("evidence")
         [] OTHER -> turnDoc' = TurnForget(turnDoc) /\ run' = [run EXCEPT !.pc = "stop", !.outcome = "experiment_failed"]

\* _graph_evidence: a verified report is explained with another call, an unreadable one ends.
GraphEvidence ==
    /\ Driving("evidence") /\ TurnQuiet
    /\ \/ run' = [run EXCEPT !.pc = "budget", !.proposed = FALSE]
       \/ Goto("end")
    /\ UNCHANGED turnDoc

-----------------------------------------------------------------------------
(* Requests *)

\* _recover_decision: the step of a lost checkpoint is the number of recorded calls.
ResumeStep(t) == IF ckpt[t].set THEN ckpt[t].step ELSE Members(t)

\* conversation_resume
ResumeTurn(t) ==
    /\ run = TurnIdle /\ turnDoc.pending.t = t /\ ~Cancelled(t)
    /\ \E pair \in {<<"proposal", "applied", "proposal">>, <<"proposal", "rejected", "proposal">>,
                    <<"confirmation", "confirm", "preview">>, <<"confirmation", "declined", "preview">>,
                    <<"observation", "observe", "observe">>} :
          /\ pair[1] = turnDoc.pending.phase
          /\ TurnStart(t, pair[3], ResumeStep(t), pair[2])
    /\ UNCHANGED <<turnDoc, ckpt, sends, budget>>

\* conversation_continue: one grant in one transaction, then the waiting turn is driven.
ContinueTurn(t) ==
    /\ run = TurnIdle /\ turnDoc.task[t].status = "awaiting_budget" /\ budget.grants[t] < MaxGrants
    /\ \A s \in Steps : turnDoc.call[t][s].status \notin {"unknown", "dispatched", "pending"}
    /\ Usage(t) + Extra > turnDoc.task[t].limit
    /\ turnDoc' = [turnDoc EXCEPT !.task[t].limit = Usage(t) + Extra]
    /\ budget' = [budget EXCEPT !.grants[t] = @ + 1]
    /\ IF turnDoc.pending.t = t /\ turnDoc.pending.phase = "awaiting_budget"
       THEN TurnStart(t, "budget", ResumeStep(t), "continue")
       ELSE UNCHANGED run
    /\ UNCHANGED <<ckpt, sends>>

\* cancel_conversation_task: without the lock, at any moment.
CancelTask(t) ==
    /\ turnDoc.task[t] # NoTask /\ ~Cancelled(t)
    /\ turnDoc' = UpdateTask(turnDoc, t, "stopped", "cancelled")
    /\ UNCHANGED <<ckpt, run, sends, budget>>

\* apply_proposal and reject_proposal
ApplyProposal(t) ==
    /\ run = TurnIdle /\ turnDoc.prop[t].status = "open" /\ turnDoc.prop[t].base = turnDoc.rev
    /\ turnDoc' = [turnDoc EXCEPT !.prop[t].status = "applied", !.rev = @ + 1]
    /\ UNCHANGED <<ckpt, run, sends, budget>>
RejectProposal(t) ==
    /\ run = TurnIdle /\ turnDoc.prop[t].status = "open"
    /\ turnDoc' = [turnDoc EXCEPT !.prop[t].status = "rejected"]
    /\ UNCHANGED <<ckpt, run, sends, budget>>

\* save_draft or undo: the draft moves on outside the conversation.
EditDraft ==
    /\ run = TurnIdle /\ budget.edits < MaxEdits
    /\ turnDoc' = [turnDoc EXCEPT !.rev = @ + 1]
    /\ budget' = [budget EXCEPT !.edits = @ + 1]
    /\ UNCHANGED <<ckpt, run, sends>>

JobEnds(t) ==
    /\ turnDoc.exp[t] = "running"
    /\ \E s \in {"succeeded", "failed"} : turnDoc' = [turnDoc EXCEPT !.exp[t] = s]
    /\ UNCHANGED <<ckpt, run, sends, budget>>

\* Mutant of Classified: an unobserved dispatch is put back to be sent.
ClassifiedPending(status) == IF status = "dispatched" THEN "pending" ELSE status
\* _reconciled_call: what was only reserved was not sent, what was dispatched is unknown.
Classified(status) ==
    CASE status = "pending" -> "interrupted_before_dispatch"
      [] status = "dispatched" -> "unknown"
      [] OTHER -> status

\* reconcile: interrupted calls are classified and running tasks stopped.
Orphaned(t) == turnDoc.task[t].status = "running"
               \/ \E s \in Steps : turnDoc.call[t][s].status \in {"pending", "dispatched"}
Reconcile ==
    /\ run = TurnIdle /\ \E t \in Turns : Orphaned(t)
    /\ turnDoc' = [turnDoc EXCEPT
         !.call = [t \in Turns |-> [s \in Steps |->
                      [turnDoc.call[t][s] EXCEPT !.status = Classified(@)]]],
         !.task = [t \in Turns |-> IF turnDoc.task[t].status = "running" /\ ~Cancelled(t)
                                   THEN [turnDoc.task[t] EXCEPT !.status = "stopped", !.reason = "interrupted"]
                                   ELSE turnDoc.task[t]]]
    /\ UNCHANGED <<ckpt, run, sends, budget>>

TurnFault == budget.faults < TurnMaxFaults /\ budget' = [budget EXCEPT !.faults = @ + 1]
\* The process dies or the client closes the stream: the turn stops where it is.
Abandon == run # TurnIdle /\ TurnFault /\ run' = TurnIdle /\ UNCHANGED <<turnDoc, ckpt, sends>>
LoseCheckpoint(t) ==
    /\ run = TurnIdle /\ ckpt[t].set /\ TurnFault /\ ckpt' = [ckpt EXCEPT ![t] = NoCkpt]
    /\ UNCHANGED <<turnDoc, run, sends>>

-----------------------------------------------------------------------------
TurnInit ==
    /\ turnDoc = [call |-> [t \in Turns |-> [s \in Steps |-> TurnNoCall]], task |-> [t \in Turns |-> NoTask],
                  pending |-> NoDecision, prop |-> [t \in Turns |-> NoProposal], rev |-> 1,
                  base |-> [t \in Turns |-> 0], exp |-> [t \in Turns |-> "none"],
                  launched |-> [t \in Turns |-> {}]]
    /\ ckpt = [t \in Turns |-> NoCkpt] /\ run = TurnIdle
    /\ sends = [t \in Turns |-> [s \in Steps |-> 0]]
    /\ budget = [grants |-> [t \in Turns |-> 0], edits |-> 0, faults |-> 0]

GraphStep ==
    \/ GraphBudget \/ PauseForBudget \/ BudgetGranted \/ BudgetRunning \/ ReserveChild
    \/ ReplayAnswer \/ DispatchCall \/ CallProvider \/ RecordAnswer \/ Answered \/ GraphTools
    \/ GraphSettle \/ GraphProposal \/ ProposalDecided \/ GraphPreview \/ Previewed
    \/ PreviewConfirmed \/ RememberLaunch \/ GraphObserve \/ GraphEvidence
    \/ Interrupted \/ Ended \/ Stopped

TurnRequest(t) == \/ AdmitTurn(t) \/ ResumeTurn(t) \/ ContinueTurn(t) \/ CancelTask(t)
                  \/ ApplyProposal(t) \/ RejectProposal(t) \/ JobEnds(t) \/ LoseCheckpoint(t)

Drive == GraphStep /\ SaveCheckpoint
TurnNext == Drive \/ (\E t \in Turns : TurnRequest(t)) \/ EditDraft \/ Reconcile \/ Abandon
TurnSpec == TurnInit /\ [][TurnNext]_turnVars

-----------------------------------------------------------------------------
(* Properties *)

\* Statuses of tasks and calls, and the turn of the pending decision.
TurnTypeOK ==
    /\ \A t \in Turns : turnDoc.task[t].status \in Open \cup {"none", "stopped", "completed"}
    /\ \A t \in Turns, s \in Steps : turnDoc.call[t][s].status \in
          Reserved \cup {"absent", "unconfigured", "interrupted_before_dispatch"}
    /\ turnDoc.pending.t \in Turns \cup {NoTurn}

\* The provider is reached at most once under one call identity, whatever was abandoned,
\* reconciled, resumed or replayed, and never under a record that says it was not.
OneSendPerCall ==
    \A t \in Turns, s \in Steps :
        /\ sends[t][s] <= 1
        /\ sends[t][s] = 1 => turnDoc.call[t][s].status \notin
                                {"absent", "pending", "interrupted_before_dispatch"}

\* The calls that reached the provider stay within what the user granted.
SendsWithinGrant ==
    \A t \in Turns : Cardinality({s \in Steps : sends[t][s] > 0}) <= turnDoc.task[t].limit

\* A cancelled task has no decision left to make and is not open.
CancelledIsClosed ==
    \A t \in Turns : Cancelled(t) => turnDoc.pending.t # t /\ turnDoc.task[t].status = "stopped"

\* The checkpoint is only a copy: while a decision is pending, the recorded calls give the
\* step the checkpoint holds, so a recovered graph asks under the right identity.
CheckpointIsRedundant ==
    \A t \in Turns : (run = TurnIdle /\ turnDoc.pending.t = t /\ ckpt[t].set) => ckpt[t].step = Members(t)

\* A run is launched at most once for a turn, from the revision its proposal made.
LaunchedOnceAsPreviewed ==
    \A t \in Turns : /\ Cardinality(turnDoc.launched[t]) <= 1
                     /\ \A r \in turnDoc.launched[t] : r = turnDoc.prop[t].base + 1

\* "Cancellation and dispatch serialize": no call of a cancelled task is dispatched.
NoDispatchAfterCancel ==
    [][\A t \in Turns : Cancelled(t) =>
          /\ Cancelled(t)'
          /\ \A s \in Steps : turnDoc'.call[t][s].status = "dispatched"
                                 => turnDoc.call[t][s].status = "dispatched"]_turnVars

\* A task the process left running is settled: it does not stay running forever.
RunningIsSettled == \A t \in Turns : (turnDoc.task[t].status = "running") ~> (turnDoc.task[t].status # "running")

\* A conversation's model calls: each is sent at most once and within its
\* grant, a cancelled task is closed, the step can be rebuilt without the
\* checkpoint, and a run is launched once, as it was previewed.
ConversationSafe ==
    /\ TurnTypeOK /\ OneSendPerCall /\ SendsWithinGrant /\ CancelledIsClosed
    /\ CheckpointIsRedundant /\ LaunchedOnceAsPreviewed
=============================================================================
