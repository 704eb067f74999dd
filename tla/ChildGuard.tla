----------------------------- MODULE ChildGuard -----------------------------
(***************************************************************************)
(* Direct supervision of one owned process group (crates/quine-core/src/   *)
(* supervise.rs): the leader the core spawned, whatever the leader started *)
(* in its group, and the guard the event loop polls.  Time is two grace    *)
(* periods that may elapse at any moment after they begin.                 *)
(***************************************************************************)
VARIABLES
    captured,    \* ChildGuard::group is Some: fixed by the spawn
    leader,      \* "alive", "zombie" (exited, not reaped) or "reaped"
    members,     \* another process of the group is alive
    killed,      \* SIGKILL was delivered to the group
    asked,       \* the owner asks for a stop on its next poll
    guard,       \* the guard's own fields
    stopVerdict  \* the GuardState the last poll returned

guardVars == <<captured, leader, members, killed, asked, guard, stopVerdict>>

Deadline == {"unset", "pending", "passed"}
Guard == [leader_exited : BOOLEAN, reap_uncertain : BOOLEAN,
          stop_accepted : BOOLEAN, term_sent : BOOLEAN, kill_sent : BOOLEAN,
          term_deadline : Deadline, kill_deadline : Deadline]

GuardTypeOK ==
    /\ captured \in BOOLEAN
    /\ leader \in {"alive", "zombie", "reaped"}
    /\ members \in BOOLEAN
    /\ killed \in BOOLEAN
    /\ asked \in BOOLEAN
    /\ guard \in Guard
    /\ stopVerdict \in {"Running", "Stopped", "Unconfirmed", "Abandoned"}

\* spawn: the child leads its own group, whose identity may not be captured.
GuardInit ==
    /\ captured \in BOOLEAN
    /\ leader = "alive" /\ members = FALSE /\ killed = FALSE /\ asked = FALSE
    /\ guard = [leader_exited |-> FALSE, reap_uncertain |-> FALSE,
                stop_accepted |-> FALSE, term_sent |-> FALSE,
                kill_sent |-> FALSE, term_deadline |-> "unset",
                kill_deadline |-> "unset"]
    /\ stopVerdict = "Running"
-----------------------------------------------------------------------------
\* try_wait: the guard after one attempt to reap the leader.
GuardReaped(reap) ==
    IF guard.leader_exited THEN guard
    ELSE [guard EXCEPT !.leader_exited = (reap = "ok" /\ leader = "zombie"),
                       !.reap_uncertain = (reap = "error")]

\* Mutant of group_alive: only the leader is looked for.
leader_alive(g) == captured /\ ~g.leader_exited

\* killpg(group, 0) finds a process of the group: running, or not yet reaped.
group_alive(g) == captured /\ (~g.leader_exited \/ members)

Unproven(g) == IF g.stop_accepted THEN "Unconfirmed" ELSE "Abandoned"

\* Mutant of Escalation: no grace period, and what an exited leader left is not
\* killed.
EscalationAtOnce(g) ==
    CASE ~g.term_sent /\ g.stop_accepted -> "term"
      [] g.term_sent /\ ~g.kill_sent -> "kill"
      [] OTHER -> "none"

\* The signal this poll sends: none, a term that opens the grace period, or the
\* kill, for a leftover group at once and for a live one after its grace.
Escalation(g) ==
    CASE ~g.term_sent /\ g.stop_accepted -> "term"
      [] ~g.term_sent /\ ~g.stop_accepted /\ g.leader_exited -> "kill"
      [] g.term_sent /\ ~g.kill_sent /\ g.term_deadline = "passed" -> "kill"
      [] OTHER -> "none"

Escalated(g) ==
    CASE Escalation(g) = "term" ->
           [g EXCEPT !.term_sent = TRUE, !.term_deadline = "pending"]
      [] Escalation(g) = "kill" ->
           [g EXCEPT !.term_sent = TRUE, !.kill_sent = TRUE,
                     !.kill_deadline = "pending"]
      [] OTHER -> g

GaveUp(g) ==
    \/ Escalation(g) = "none" /\ g.kill_sent /\ g.kill_deadline = "passed"
    \/ ~captured /\ Escalated(g).leader_exited /\ Escalated(g).kill_sent

\* One poll: reap, accept a stop, look for the group, else escalate.
poll(reap) ==
    LET r == GuardReaped(reap)
        g == [r EXCEPT !.stop_accepted = @ \/ asked]
        stopped == /\ captured /\ g.leader_exited /\ ~g.reap_uncertain
                   /\ ~group_alive(g)
    IN /\ stopVerdict # "Stopped"
       /\ leader' = IF r.leader_exited THEN "reaped" ELSE leader
       /\ IF stopped
          THEN stopVerdict' = "Stopped" /\ guard' = g /\ UNCHANGED killed
          ELSE /\ guard' = Escalated(g)
               /\ killed' = (killed \/ (captured /\ Escalation(g) = "kill"))
               /\ stopVerdict' = IF GaveUp(g) THEN Unproven(g) ELSE "Running"
       /\ UNCHANGED <<captured, members, asked>>
-----------------------------------------------------------------------------
\* The world around the guard.
Ask ==
    /\ ~asked
    /\ asked' = TRUE
    /\ UNCHANGED <<captured, leader, members, killed, guard, stopVerdict>>

LeaderExits ==
    /\ leader = "alive"
    /\ leader' = "zombie"
    /\ UNCHANGED <<captured, members, killed, asked, guard, stopVerdict>>

\* The leader starts another process in its group; a killed group cannot.
LeaderForks ==
    /\ leader = "alive" /\ ~members /\ ~killed
    /\ members' = TRUE
    /\ UNCHANGED <<captured, leader, killed, asked, guard, stopVerdict>>

MembersExit ==
    /\ members
    /\ members' = FALSE
    /\ UNCHANGED <<captured, leader, killed, asked, guard, stopVerdict>>

Elapses ==
    \/ /\ guard.term_deadline = "pending"
       /\ guard' = [guard EXCEPT !.term_deadline = "passed"]
       /\ UNCHANGED <<captured, leader, members, killed, asked, stopVerdict>>
    \/ /\ guard.kill_deadline = "pending"
       /\ guard' = [guard EXCEPT !.kill_deadline = "passed"]
       /\ UNCHANGED <<captured, leader, members, killed, asked, stopVerdict>>

GuardNext ==
    \/ \E reap \in {"ok", "error"} : poll(reap)
    \/ Ask \/ LeaderExits \/ LeaderForks \/ MembersExit \/ Elapses

GuardSpec == GuardInit /\ [][GuardNext]_guardVars
-----------------------------------------------------------------------------
\* Stopped is a proof: the leader was reaped and no process of the captured
\* group is left, although the leader's descendants may outlive it and every
\* wait may fail.
StoppedIsAbsent == stopVerdict = "Stopped" => leader = "reaped" /\ ~members

\* A group whose leader still runs is killed only after an accepted stop, a
\* SIGTERM and its whole grace period.
KillOnlyAfterGrace ==
    [][killed' /\ ~killed =>
         guard'.leader_exited
         \/ (guard'.stop_accepted /\ guard.term_deadline = "passed")]_guardVars

\* A captured child that was asked to stop, or whose leader ended, is proven
\* stopped in the end: no order of exits, failed waits and deadlines wedges the
\* escalation, and an Unconfirmed or Abandoned verdict is not the last word.
StopIsProven ==
    (captured /\ (asked \/ leader = "zombie")) ~> stopVerdict = "Stopped"

Owner == INSTANCE OwnedGroup WITH
    alive <- (leader = "alive" \/ members),
    report <- IF stopVerdict \in {"Unconfirmed", "Abandoned"} THEN "Unproven"
              ELSE stopVerdict

\* The guard keeps the contract the event loop is modelled with.
ImplementsOwnedGroup == Owner!Spec
=============================================================================
