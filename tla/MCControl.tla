----------------------------- MODULE MCControl ------------------------------
(***************************************************************************)
(* The process-control components side by side: the research core's event  *)
(* loop, the guard of one child, and the desktop session with its window.  *)
(* They share no state (the loop assumes of its guards what OwnedGroup     *)
(* says, the session of its core what SlotLedger and the exit code say),   *)
(* so each behaviour moves one of them, `part', and leaves the others as   *)
(* they start.                                                             *)
(***************************************************************************)
EXTENDS QuineCore, ChildGuard, DesktopShell

CONSTANTS b1, Parts

ASSUME ControlParts == Parts \subseteq {"core", "guard", "desktop"}

VARIABLE part  \* the component that moves

controlVars == <<coreVars, guardVars, desktop, part>>

\* Without holdouts: MCQuineStore has them.
MCHoldoutOf == b1 :> None

\* Experiments, preparation ids and machines are interchangeable.
MCSymmetry ==
    Permutations(Keys) \cup Permutations(PrepIds) \cup Permutations(Machines)

ControlInit ==
    /\ part \in Parts
    /\ CoreInit
    /\ GuardInit /\ (part # "guard" => captured)
    /\ ShellInit /\ (part # "desktop" => root = "selected" /\ child)

CoreMoves == part = "core" /\ CoreNext /\ UNCHANGED <<guardVars, desktop, part>>
GuardMoves == part = "guard" /\ GuardNext /\ UNCHANGED <<coreVars, desktop, part>>
DesktopMoves == part = "desktop" /\ Next /\ UNCHANGED <<coreVars, guardVars, part>>

\* A child that was proven stopped has no further step.
GuardIsDone == part = "guard" /\ stopVerdict = "Stopped" /\ UNCHANGED controlVars

ControlNext == CoreMoves \/ GuardMoves \/ DesktopMoves \/ GuardIsDone

ControlSpec == ControlInit /\ [][ControlNext]_controlVars

\* The loop keeps ticking while it serves and the store does not fail for
\* ever; a captured group that is told to stop dies of SIGKILL at the latest.
\* The guard is polled for ever, its waits do not fail for ever, and time
\* passes.  Every await of the session's own coroutines ends: asyncio schedules
\* them fairly and each waits under a timeout; the threads of the window run.
\* Nothing is assumed of the server, the core, the user or the window.
ControlFairness ==
    /\ \A k \in Keys :
           /\ WF_coreVars(part = "core" /\ tick(k, {}))
           /\ WF_coreVars(part = "core" /\ Killed(k) /\ GroupExits(k))
    /\ WF_guardVars(part = "guard" /\ poll("ok"))
    /\ WF_guardVars(part = "guard" /\ Elapses)
    /\ WF_guardVars(part = "guard" /\ killed /\ LeaderExits)
    /\ WF_guardVars(part = "guard" /\ killed /\ MembersExit)
    /\ WF_desktop(part = "desktop" /\ child /\ Main /\ UNCHANGED shell)
    /\ WF_desktop(part = "desktop" /\ child /\ ParentMessage /\ UNCHANGED shell)
    /\ WF_desktop(part = "desktop" /\ child /\ UNCHANGED shell
                  /\ \E i \in DOMAIN exits :
                         \/ StartExit(i) \/ DrainTimesOut(i)
                         \/ ExitStopsPaper(i) \/ FinishExit(i))
    /\ WF_desktop(part = "desktop" /\ Listen)
    /\ WF_desktop(part = "desktop" /\ \E w \in DOMAIN watchers : Watch(w))

ControlFairSpec == ControlSpec /\ ControlFairness

\* What no step does: a group whose leader runs is not killed before its grace
\* period is over, and a session does not move to the default workspace once
\* anything was read or shown.
ControlSteps ==
    /\ KillOnlyAfterGrace /\ FallbackIsFresh

\* What the loops owe in the end: cancelled and aborted runs settle, a stop
\* ends in proof, a quit is answered, and the backend ends when it agreed or
\* lost its owner.
ControlSettles ==
    /\ CancelSettles /\ AbortSettles /\ StopIsProven /\ QuitIsAnswered
    /\ AgreedExitEnds /\ OwnerLossEnds
=============================================================================
