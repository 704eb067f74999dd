----------------------------- MODULE OwnedGroup -----------------------------
(***************************************************************************)
(* What the event loop relies on about a supervised child: QuineCore's     *)
(* PollStopped and PollUnproven are these steps.  ChildGuard implements    *)
(* them.                                                                   *)
(***************************************************************************)
VARIABLES
    captured,  \* the guard learned the identity of the child's group
    alive,     \* some process of the group runs
    asked,     \* the owner asked for a stop
    report     \* what the last poll reported: Running, Stopped or Unproven

vars == <<captured, alive, asked, report>>

Init ==
    /\ captured \in BOOLEAN
    /\ alive = TRUE /\ asked = FALSE /\ report = "Running"

Ask == asked' = TRUE /\ UNCHANGED <<captured, alive, report>>

GroupExits ==
    alive /\ alive' = FALSE /\ UNCHANGED <<captured, asked, report>>

\* A stop is reported only for a captured group that is really gone.
PollStopped ==
    /\ captured /\ ~alive
    /\ report' = "Stopped"
    /\ UNCHANGED <<captured, alive, asked>>

\* Absence stays unproven only where a stop was asked for, something still
\* runs, or the group was never captured.
PollUnproven ==
    /\ asked \/ alive \/ ~captured
    /\ report' = "Unproven"
    /\ UNCHANGED <<captured, alive, asked>>

PollRunning == report' = "Running" /\ UNCHANGED <<captured, alive, asked>>

\* A group that was proven gone stays gone and is not polled again.
Next == \/ Ask \/ GroupExits
        \/ report # "Stopped" /\ (PollStopped \/ PollUnproven \/ PollRunning)

Spec == Init /\ [][Next]_vars
=============================================================================
