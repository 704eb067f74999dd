--------------------------- MODULE ControlProofs ----------------------------
(***************************************************************************)
(* What holds of the guard of a child and of the desktop session for every *)
(* number of quits and every order of exits, failed waits, deadlines, crashes *)
(* and messages, and what the composed control components inherit from it. *)
(***************************************************************************)
EXTENDS MCControl, CoreProofs, SequenceTheorems
-----------------------------------------------------------------------------
(***************************************************************************)
(* The guard of one child (supervise.rs).                                  *)
(***************************************************************************)
\* What the guard's own fields say about the process group: the leader was
\* reaped exactly when they say so, a stop is only accepted when it was asked
\* for, a signal was only sent on a stop or to what an exited leader left, and a
\* group that was proven gone is gone.
GuardInv ==
    /\ GuardTypeOK
    /\ guard.leader_exited <=> leader = "reaped"
    /\ guard.reap_uncertain => ~guard.leader_exited
    /\ guard.stop_accepted => asked
    /\ guard.term_sent \/ guard.kill_sent =>
         guard.stop_accepted \/ guard.leader_exited
    /\ stopVerdict = "Stopped" => captured /\ leader = "reaped" /\ ~members

\* The guard after a poll has reaped and accepted, before it escalates.
Polled(reap) == [GuardReaped(reap) EXCEPT !.stop_accepted = @ \/ asked]

\* The guard a poll escalates: what try_wait and the accepted stop changed.
LEMMA PolledGuard ==
    ASSUME GuardInv, NEW reap \in {"ok", "error"}, NEW g, g = Polled(reap)
    PROVE  /\ g \in Guard
           /\ g.leader_exited = GuardReaped(reap).leader_exited
           /\ g.leader_exited <=> (guard.leader_exited
                                   \/ (reap = "ok" /\ leader = "zombie"))
           /\ g.reap_uncertain => ~g.leader_exited
           /\ g.stop_accepted <=> guard.stop_accepted \/ asked
           /\ g.stop_accepted <=> asked
           /\ g.term_sent = guard.term_sent /\ g.kill_sent = guard.kill_sent
           /\ g.term_deadline = guard.term_deadline
           /\ g.kill_deadline = guard.kill_deadline
  <1> USE DEF GuardInv, GuardTypeOK, Guard
  <1>1. CASE guard.leader_exited
    BY <1>1 DEF Polled, GuardReaped
  <1>2. CASE ~guard.leader_exited
    BY <1>2 DEF Polled, GuardReaped
  <1> QED BY <1>1, <1>2

\* Escalation only sends signals that a stop or an exited leader allows.
LEMMA EscalatedGuard ==
    ASSUME NEW g \in Guard
    PROVE  /\ Escalated(g) \in Guard
           /\ Escalated(g).leader_exited = g.leader_exited
           /\ Escalated(g).reap_uncertain = g.reap_uncertain
           /\ Escalated(g).stop_accepted = g.stop_accepted
           /\ Escalated(g).term_sent \/ Escalated(g).kill_sent =>
                \/ g.term_sent \/ g.kill_sent
                \/ g.stop_accepted \/ g.leader_exited
  <1> USE DEF Guard, Deadline
  <1>1. CASE Escalation(g) = "term"
    <2>1. Escalated(g) = [g EXCEPT !.term_sent = TRUE, !.term_deadline = "pending"]
      BY <1>1 DEF Escalated
    <2>2. g.stop_accepted
      BY <1>1 DEF Escalation
    <2> QED BY <2>1, <2>2
  <1>2. CASE Escalation(g) = "kill"
    <2>1. Escalated(g) = [g EXCEPT !.term_sent = TRUE, !.kill_sent = TRUE,
                                   !.kill_deadline = "pending"]
      BY <1>2 DEF Escalated
    <2>2. g.leader_exited \/ g.term_sent
      BY <1>2 DEF Escalation
    <2> QED BY <2>1, <2>2
  <1>3. CASE Escalation(g) \notin {"term", "kill"}
    BY <1>3 DEF Escalated
  <1> QED BY <1>1, <1>2, <1>3

\* What one poll does, in terms of the guard it escalates.
LEMMA PollStep ==
    ASSUME GuardInv, NEW reap \in {"ok", "error"}, poll(reap), NEW g,
           g = Polled(reap)
    PROVE  /\ stopVerdict # "Stopped"
           /\ UNCHANGED <<captured, members, asked>>
           /\ leader' = IF g.leader_exited THEN "reaped" ELSE leader
           /\ \/ /\ captured /\ g.leader_exited /\ ~members
                 /\ stopVerdict' = "Stopped" /\ guard' = g /\ killed' = killed
              \/ /\ ~(captured /\ g.leader_exited /\ ~members)
                 /\ guard' = Escalated(g)
                 /\ killed' = (killed \/ (captured /\ Escalation(g) = "kill"))
                 /\ stopVerdict' = IF GaveUp(g) THEN Unproven(g) ELSE "Running"
  <1>1. /\ g.leader_exited = GuardReaped(reap).leader_exited
        /\ g.reap_uncertain => ~g.leader_exited
    BY PolledGuard
  <1> QED BY <1>1 DEF poll, Polled, group_alive

\* One step per action of the guard and of the group it owns.
LEMMA GuardStep ==
    ASSUME GuardInv, [GuardNext]_guardVars
    PROVE  GuardInv'
  <1>1. ASSUME NEW reap \in {"ok", "error"}, poll(reap)
        PROVE  GuardInv'
    <2> DEFINE g == Polled(reap)
    <2>1. /\ g \in Guard
          /\ g.leader_exited <=> (guard.leader_exited
                                  \/ (reap = "ok" /\ leader = "zombie"))
          /\ g.reap_uncertain => ~g.leader_exited
          /\ g.stop_accepted <=> asked
          /\ g.term_sent = guard.term_sent /\ g.kill_sent = guard.kill_sent
      BY PolledGuard
    <2>2. /\ UNCHANGED <<captured, members, asked>>
          /\ leader' = IF g.leader_exited THEN "reaped" ELSE leader
          /\ \/ /\ captured /\ g.leader_exited /\ ~members
                /\ stopVerdict' = "Stopped" /\ guard' = g /\ killed' = killed
             \/ /\ guard' = Escalated(g)
                /\ killed' = (killed \/ (captured /\ Escalation(g) = "kill"))
                /\ stopVerdict' = IF GaveUp(g) THEN Unproven(g) ELSE "Running"
      BY <1>1, PollStep
    <2> HIDE DEF g
    <2>3. guard.leader_exited => g.leader_exited
      BY <2>1
    <2>4. guard.term_sent \/ guard.kill_sent => g.stop_accepted \/ g.leader_exited
      BY <2>1 DEF GuardInv
    <2>5. g.leader_exited \/ leader # "reaped"
      BY <2>1 DEF GuardInv
    <2>6. Unproven(g) \in {"Unconfirmed", "Abandoned"}
      BY DEF Unproven
    <2>7. CASE /\ captured /\ g.leader_exited /\ ~members
               /\ stopVerdict' = "Stopped" /\ guard' = g /\ killed' = killed
      BY <2>1, <2>2, <2>4, <2>5, <2>7 DEF GuardInv, GuardTypeOK
    <2>8. CASE /\ guard' = Escalated(g)
               /\ killed' = (killed \/ (captured /\ Escalation(g) = "kill"))
               /\ stopVerdict' = IF GaveUp(g) THEN Unproven(g) ELSE "Running"
      <3>1. /\ Escalated(g) \in Guard
            /\ Escalated(g).leader_exited = g.leader_exited
            /\ Escalated(g).reap_uncertain = g.reap_uncertain
            /\ Escalated(g).stop_accepted = g.stop_accepted
            /\ Escalated(g).term_sent \/ Escalated(g).kill_sent =>
                 g.stop_accepted \/ g.leader_exited
        BY <2>1, <2>4, EscalatedGuard
      <3>2. stopVerdict' \in {"Running", "Unconfirmed", "Abandoned"}
        BY <2>6, <2>8
      <3>3. killed' \in BOOLEAN
        BY <2>8 DEF GuardInv, GuardTypeOK
      <3>4. leader' \in {"alive", "zombie", "reaped"}
            /\ (leader' = "reaped" <=> g.leader_exited)
        BY <2>2, <2>5 DEF GuardInv, GuardTypeOK
      <3>5. GuardTypeOK'
        BY <2>2, <2>8, <3>1, <3>2, <3>3, <3>4 DEF GuardInv, GuardTypeOK
      <3> QED
        BY <2>1, <2>2, <2>8, <3>1, <3>2, <3>4, <3>5 DEF GuardInv
    <2> QED BY <2>2, <2>7, <2>8
  <1>2. CASE Ask
    BY <1>2 DEF Ask, GuardInv, GuardTypeOK
  <1>3. CASE LeaderExits
    BY <1>3 DEF LeaderExits, GuardInv, GuardTypeOK
  <1>4. CASE LeaderForks
    BY <1>4 DEF LeaderForks, GuardInv, GuardTypeOK
  <1>5. CASE MembersExit
    BY <1>5 DEF MembersExit, GuardInv, GuardTypeOK
  <1>6. CASE Elapses
    BY <1>6 DEF Elapses, GuardInv, GuardTypeOK, Guard, Deadline
  <1>7. CASE UNCHANGED guardVars
    BY <1>7 DEF guardVars, GuardInv, GuardTypeOK
  <1> QED BY <1>1, <1>2, <1>3, <1>4, <1>5, <1>6, <1>7 DEF GuardNext

\* A guard that was just created.
LEMMA GuardStarts == GuardInit => GuardInv
  <1> SUFFICES ASSUME GuardInit PROVE GuardInv
    OBVIOUS
  <1>1. /\ guard \in Guard /\ ~guard.leader_exited /\ ~guard.reap_uncertain
        /\ ~guard.stop_accepted /\ ~guard.term_sent /\ ~guard.kill_sent
    BY DEF GuardInit, Guard, Deadline
  <1>2. GuardTypeOK
    BY <1>1 DEF GuardInit, GuardTypeOK
  <1> QED BY <1>1, <1>2 DEF GuardInit, GuardInv

\* The guard's fields agree with the group for every order of exits, failed
\* waits, forks and deadlines.
THEOREM GuardInvariant == GuardSpec => []GuardInv
  <1>1. GuardInv /\ [GuardNext]_guardVars => GuardInv'
    BY GuardStep
  <1> QED BY GuardStarts, <1>1, PTL DEF GuardSpec

\* "Stopped" is a proof of absence (supervise.rs, poll): the leader is reaped
\* and nothing of its group is left.
THEOREM StoppedMeansAbsent == GuardSpec => []StoppedIsAbsent
  <1>1. GuardInv => StoppedIsAbsent
    BY DEF GuardInv, StoppedIsAbsent
  <1> QED BY GuardInvariant, <1>1, PTL

\* A group whose leader runs is killed only after an accepted stop and the whole
\* grace period of its SIGTERM (supervise.rs, poll).
THEOREM GraceIsKept == GuardSpec => KillOnlyAfterGrace
  <1>1. ASSUME GuardInv, [GuardNext]_guardVars
        PROVE  [killed' /\ ~killed =>
                  guard'.leader_exited
                  \/ (guard'.stop_accepted /\ guard.term_deadline = "passed")]_guardVars
    <2> SUFFICES ASSUME GuardNext, killed', ~killed
                 PROVE  guard'.leader_exited
                        \/ (guard'.stop_accepted /\ guard.term_deadline = "passed")
      BY <1>1 DEF guardVars
    <2>1. PICK reap \in {"ok", "error"} : poll(reap)
      BY DEF GuardNext, Ask, LeaderExits, LeaderForks, MembersExit, Elapses
    <2> DEFINE g == Polled(reap)
    <2>2. /\ g \in Guard
          /\ g.leader_exited <=> (guard.leader_exited
                                  \/ (reap = "ok" /\ leader = "zombie"))
          /\ g.stop_accepted <=> asked
          /\ g.term_sent = guard.term_sent
          /\ g.term_deadline = guard.term_deadline
      BY <1>1, PolledGuard
    <2>3. guard' = Escalated(g) /\ Escalation(g) = "kill"
      BY <1>1, <2>1, PollStep
    <2> HIDE DEF g
    <2>4. /\ guard'.leader_exited = g.leader_exited
          /\ guard'.stop_accepted = g.stop_accepted
      BY <2>2, <2>3, EscalatedGuard
    <2>5. g.leader_exited \/ (g.term_sent /\ g.term_deadline = "passed")
      BY <2>3 DEF Escalation
    <2>6. guard.term_sent => g.stop_accepted \/ g.leader_exited
      BY <1>1, <2>2 DEF GuardInv
    <2> QED BY <2>2, <2>4, <2>5, <2>6
  <1> QED BY GuardInvariant, <1>1, PTL DEF GuardSpec, KillOnlyAfterGrace

\* A verdict short of Stopped is only given where a stop was asked for, something
\* of the group still runs, or the group was never captured.
LEMMA UnprovenHasReason ==
    ASSUME GuardInv, NEW reap \in {"ok", "error"}, NEW g, g = Polled(reap),
           ~(captured /\ g.leader_exited /\ ~members), GaveUp(g)
    PROVE  asked \/ leader = "alive" \/ members \/ ~captured
  <1> SUFFICES ASSUME ~asked, captured, ~members
               PROVE  leader = "alive"
    OBVIOUS
  <1>1. /\ g \in Guard /\ ~g.leader_exited /\ ~g.stop_accepted
        /\ g.kill_sent = guard.kill_sent
    BY PolledGuard
  <1>2. ~guard.stop_accepted /\ ~guard.leader_exited
    BY PolledGuard DEF GuardInv
  <1>3. ~guard.kill_sent
    BY <1>2 DEF GuardInv
  <1>4. ~GaveUp(g)
    BY <1>1, <1>3 DEF GaveUp
  <1> QED BY <1>4

\* Every step of the guard is a step of the contract or invisible to it.
LEMMA GuardStepIsOwned ==
    ASSUME GuardInv, [GuardNext]_guardVars
    PROVE  [Owner!Next]_Owner!vars
  <1> DEFINE present == leader = "alive" \/ members
             said == IF stopVerdict \in {"Unconfirmed", "Abandoned"}
                     THEN "Unproven" ELSE stopVerdict
  <1>1. ASSUME NEW reap \in {"ok", "error"}, poll(reap)
        PROVE  Owner!Next
    <2> DEFINE g == Polled(reap)
    <2>1. /\ stopVerdict # "Stopped"
          /\ UNCHANGED <<captured, members, asked>>
          /\ leader' = IF g.leader_exited THEN "reaped" ELSE leader
          /\ \/ /\ captured /\ g.leader_exited /\ ~members
                /\ stopVerdict' = "Stopped"
             \/ /\ ~(captured /\ g.leader_exited /\ ~members)
                /\ stopVerdict' = IF GaveUp(g) THEN Unproven(g) ELSE "Running"
      BY <1>1, PollStep
    <2>2. g.leader_exited => leader # "alive"
      BY PolledGuard DEF GuardInv
    <2>3. GaveUp(g) /\ ~(captured /\ g.leader_exited /\ ~members) =>
            asked \/ leader = "alive" \/ members \/ ~captured
      BY UnprovenHasReason
    <2> HIDE DEF g
    <2>4. (leader' = "alive" \/ members') = (leader = "alive" \/ members)
      BY <2>1, <2>2
    <2>5. said # "Stopped"
      BY <2>1
    <2>6. CASE captured /\ g.leader_exited /\ ~members
      BY <2>1, <2>2, <2>4, <2>5, <2>6 DEF Owner!Next, Owner!PollStopped
    <2>7. CASE ~(captured /\ g.leader_exited /\ ~members) /\ GaveUp(g)
      <3>1. said' = "Unproven"
        BY <2>1, <2>7 DEF Unproven
      <3> QED
        BY <2>1, <2>3, <2>4, <2>5, <2>7, <3>1 DEF Owner!Next, Owner!PollUnproven
    <2>8. CASE ~(captured /\ g.leader_exited /\ ~members) /\ ~GaveUp(g)
      <3>1. said' = "Running"
        BY <2>1, <2>8
      <3> QED
        BY <2>1, <2>4, <2>5, <3>1 DEF Owner!Next, Owner!PollRunning
    <2> QED BY <2>6, <2>7, <2>8
  <1>2. CASE Ask
    BY <1>2 DEF Ask, Owner!Next, Owner!Ask
  <1>3. CASE LeaderExits \/ MembersExit
    BY <1>3 DEF LeaderExits, MembersExit, Owner!Next, Owner!GroupExits, Owner!vars
  <1>4. CASE LeaderForks
    BY <1>4 DEF LeaderForks, Owner!vars
  <1>5. CASE Elapses
    BY <1>5 DEF Elapses, Owner!vars
  <1>6. CASE UNCHANGED guardVars
    BY <1>6 DEF guardVars, Owner!vars
  <1> QED BY <1>1, <1>2, <1>3, <1>4, <1>5, <1>6 DEF GuardNext

\* The guard implements the contract the event loop is modelled with: Stopped
\* only for a captured group that is gone and for good, anything less only with
\* a reason.
THEOREM GuardImplementsContract == GuardSpec => ImplementsOwnedGroup
  <1>1. GuardInit => Owner!Init
    BY DEF GuardInit, Owner!Init
  <1>2. GuardInv /\ [GuardNext]_guardVars => [Owner!Next]_Owner!vars
    BY GuardStepIsOwned
  <1> QED
    BY GuardInvariant, <1>1, <1>2, PTL DEF GuardSpec, ImplementsOwnedGroup, Owner!Spec
-----------------------------------------------------------------------------
(***************************************************************************)
(* The flags and threads of the window (main.rs): an exit in progress is   *)
(* never left without a thread that ends it, and no second one is started. *)
(***************************************************************************)
\* Where the thread of an authorized exit can be.
WatcherStates == {"asking", "polling", "rearming", "done"}

\* The part of the state the argument needs.
WindowInv ==
    /\ watchers \in Seq(WatcherStates)
    /\ exiting \in BOOLEAN
    /\ NoOrphanExit

\* Every step the window's flags can see.
LEMMA NextCases ==
    ASSUME Next
    PROVE  \/ UNCHANGED <<watchers, exiting, finished>>
           \/ Authorize /\ UNCHANGED finished
           \/ \E w \in DOMAIN watchers : AskShutdown(w)
           \/ \E w \in DOMAIN watchers : PollBackend(w)
           \/ \E w \in DOMAIN watchers : Rearm(w)
           \/ exiting' = FALSE /\ UNCHANGED <<watchers, finished>>
           \/ exiting' = FALSE /\ watchers' = <<>>
  <1>1. CASE BackendStep
    BY <1>1 DEF BackendStep, shell, flags
  <1>2. CASE User
    BY <1>2 DEF User, RequestExit, OpenPrompt, CancelPrompt, ApprovePrompt
  <1>3. CASE Listen
    <2>1. CASE HearLine
      BY <2>1 DEF HearLine
    <2>2. CASE ListenerRearms
      BY <2>2 DEF ListenerRearms
    <2>3. CASE HearEnd
      BY <2>3 DEF HearEnd, flags
    <2> QED BY <1>3, <2>1, <2>2, <2>3 DEF Listen
  <1>4. CASE \E w \in DOMAIN watchers : Watch(w)
    BY <1>4 DEF Watch
  <1>5. CASE \E crash \in BOOLEAN : CloseWindow(crash)
    BY <1>5 DEF CloseWindow
  <1>6. CASE AllDone
    BY <1>6 DEF AllDone, desktop, shell, flags
  <1> QED BY <1>1, <1>2, <1>3, <1>4, <1>5, <1>6 DEF Next

\* A thread that moves keeps the sequence of threads typed and the others.
LEMMA WatcherMoved ==
    ASSUME watchers \in Seq(WatcherStates), NEW w \in DOMAIN watchers,
           NEW s \in WatcherStates,
           watchers' = [watchers EXCEPT ![w] = s]
    PROVE  /\ watchers' \in Seq(WatcherStates)
           /\ DOMAIN watchers' = DOMAIN watchers
           /\ watchers'[w] = s
           /\ \A v \in DOMAIN watchers \ {w} : watchers'[v] = watchers[v]
  OBVIOUS

\* A thread that starts leaves the others as they are.
LEMMA WatcherStarted ==
    ASSUME watchers \in Seq(WatcherStates),
           watchers' = Append(watchers, "asking")
    PROVE  /\ watchers' \in Seq(WatcherStates)
           /\ Len(watchers') \in DOMAIN watchers'
           /\ watchers'[Len(watchers')] = "asking"
  BY DEF WatcherStates

LEMMA NoWatchers == <<>> \in Seq(WatcherStates)
  BY EmptySeq

\* Each store of the window keeps a thread for an exit in progress.
LEMMA WindowStep ==
    ASSUME WindowInv, [Next]_desktop
    PROVE  WindowInv'
  <1> USE DEF WindowInv, NoOrphanExit
  <1>1. CASE UNCHANGED <<watchers, exiting, finished>>
    BY <1>1
  <1>2. CASE Authorize /\ UNCHANGED finished
    <2>1. CASE exiting
      BY <1>2, <2>1 DEF Authorize
    <2>2. CASE ~exiting
      BY <1>2, <2>2, WatcherStarted DEF Authorize
    <2> QED BY <2>1, <2>2
  <1>3. ASSUME NEW w \in DOMAIN watchers, AskShutdown(w)
        PROVE  WindowInv'
    <2>1. CASE child
      <3>1. watchers' = [watchers EXCEPT ![w] = "polling"] /\ UNCHANGED exiting
        BY <1>3, <2>1 DEF AskShutdown
      <3> QED BY <3>1, WatcherMoved DEF WatcherStates
    <2>2. CASE ~child
      <3>1. /\ watchers' = [watchers EXCEPT ![w] = "done"]
            /\ UNCHANGED exiting /\ finished'
        BY <1>3, <2>2 DEF AskShutdown
      <3> QED BY <3>1, WatcherMoved DEF WatcherStates
    <2> QED BY <2>1, <2>2
  <1>4. ASSUME NEW w \in DOMAIN watchers, PollBackend(w)
        PROVE  WindowInv'
    <2>1. CASE Reaped(w)
      <3>1. CASE exit_code = "0"
        <4>1. /\ watchers' = [watchers EXCEPT ![w] = "done"]
              /\ UNCHANGED exiting /\ finished'
          BY <2>1, <3>1 DEF Reaped
        <4> QED BY <4>1, WatcherMoved DEF WatcherStates
      <3>2. CASE exit_code # "0"
        <4>1. /\ watchers' = [watchers EXCEPT ![w] = "rearming"]
              /\ exiting' = FALSE
          BY <2>1, <3>2 DEF Reaped
        <4> QED BY <4>1, WatcherMoved DEF WatcherStates
      <3> QED BY <3>1, <3>2
    <2>2. CASE TimesOut(w)
      <3>1. /\ watchers' = [watchers EXCEPT ![w] = "rearming"]
            /\ exiting' = FALSE
        BY <2>2 DEF TimesOut
      <3> QED BY <3>1, WatcherMoved DEF WatcherStates
    <2>3. CASE Refused(w)
      <3>1. /\ watchers' = [watchers EXCEPT ![w] = "done"]
            /\ ~exiting /\ UNCHANGED exiting
        BY <2>3 DEF Refused
      <3> QED BY <3>1, WatcherMoved DEF WatcherStates
    <2> QED BY <1>4, <2>1, <2>2, <2>3 DEF PollBackend
  <1>5. ASSUME NEW w \in DOMAIN watchers, Rearm(w)
        PROVE  WindowInv'
    <2>1. /\ watchers[w] = "rearming" /\ UNCHANGED <<exiting, finished>>
          /\ watchers' = [watchers EXCEPT ![w] = "done"]
      BY <1>5 DEF Rearm
    <2>2. watchers' \in Seq(WatcherStates) /\ DOMAIN watchers' = DOMAIN watchers
          /\ \A v \in DOMAIN watchers \ {w} : watchers'[v] = watchers[v]
      BY <2>1, WatcherMoved DEF WatcherStates
    <2> QED BY <2>1, <2>2
  <1>6. CASE exiting' = FALSE /\ UNCHANGED <<watchers, finished>>
    BY <1>6
  <1>7. CASE exiting' = FALSE /\ watchers' = <<>>
    BY <1>7, NoWatchers
  <1>8. CASE UNCHANGED desktop
    BY <1>8 DEF desktop, shell, flags
  <1>9. CASE Next
    BY <1>9, NextCases, <1>1, <1>2, <1>3, <1>4, <1>5, <1>6, <1>7
  <1> QED BY <1>8, <1>9

LEMMA WindowInit == ShellInit => WindowInv
  BY NoWatchers DEF ShellInit, WindowInv, NoOrphanExit

\* An exit in progress always has a thread that will end it, for any number of
\* quits and whatever the backend does (main.rs, the stores to exiting).
THEOREM ExitIsNeverOrphaned == Spec => []NoOrphanExit
  <1>1. WindowInv => NoOrphanExit
    BY DEF WindowInv
  <1>2. WindowInv /\ [Next]_desktop => WindowInv'
    BY WindowStep
  <1> QED BY WindowInit, <1>1, <1>2, PTL DEF Spec

\* Only a step that found exiting clear starts a shutdown thread (main.rs,
\* authorize_exit).
THEOREM DispatchIsSingle == Spec => SingleDispatch
  <1>1. ASSUME WindowInv, [Next]_desktop
        PROVE  [Len(watchers') > Len(watchers) => ~exiting]_desktop
    <2>1. Len(watchers) \in Nat
      BY <1>1 DEF WindowInv
    <2>2. CASE UNCHANGED <<watchers, exiting, finished>>
      BY <2>1, <2>2
    <2>3. CASE Authorize /\ UNCHANGED finished
      BY <2>1, <2>3 DEF Authorize
    <2>4. CASE \E w \in DOMAIN watchers, s \in WatcherStates :
                  watchers' = [watchers EXCEPT ![w] = s]
      <3>1. PICK w \in DOMAIN watchers, s \in WatcherStates :
                   watchers' = [watchers EXCEPT ![w] = s]
        BY <2>4
      <3>2. Len(watchers') = Len(watchers)
        BY <3>1, <1>1 DEF WindowInv
      <3> QED BY <2>1, <3>2
    <2>5. CASE exiting' = FALSE /\ watchers' = <<>>
      <3>1. Len(watchers') = 0
        BY <2>5
      <3> QED BY <2>1, <3>1
    <2>6. CASE UNCHANGED watchers
      BY <2>1, <2>6
    <2>7. ASSUME NEW w \in DOMAIN watchers,
                 AskShutdown(w) \/ PollBackend(w) \/ Rearm(w)
          PROVE  \E s \in WatcherStates : watchers' = [watchers EXCEPT ![w] = s]
      BY <2>7 DEF AskShutdown, PollBackend, Reaped, TimesOut, Refused, Rearm,
                  WatcherStates
    <2>8. CASE UNCHANGED desktop
      BY <2>8
    <2>9. CASE Next
      BY <2>9, NextCases, <2>2, <2>3, <2>4, <2>5, <2>6, <2>7
    <2> QED BY <1>1, <2>8, <2>9
  <1>2. WindowInv /\ [Next]_desktop => WindowInv'
    BY WindowStep
  <1> QED BY WindowInit, <1>1, <1>2, PTL DEF Spec, SingleDispatch
-----------------------------------------------------------------------------
(***************************************************************************)
(* The session (desktop.py).  The receipt and the exit code report on work *)
(* that was settled several awaits earlier; the invariant says why nothing *)
(* can have changed since: what closed admission, what it was asked by, and *)
(* what each place of the main coroutine still guarantees.                 *)
(***************************************************************************)
\* The page was shown, or the line that shows it is on its way.
Shown == page = "product" \/ \E i \in DOMAIN out : out[i] = "ready"
\* Research is settled for good: admission is closed and nothing runs.
Settled == core.quiescing /\ ~core.busy
\* What a pending request_exit has established so far is still true.
TasksInv ==
    \A i \in DOMAIN exits :
        /\ exits[i].state = "running" => stopping
        /\ exits[i].lost => "eof" \in heard
        /\ exits[i].research = "wait" => "shutdown" \in heard
        /\ exits[i].research = "yes" => Settled
        /\ exits[i].paper = "yes" => paper.closing

\* Before the session is up nothing was read, asked or shown.
StartInv ==
    /\ reader => at \in {"starting", "ready"}
    /\ at \in {"opening", "booting"} =>
         server = "none" /\ ~startup_finished
    /\ at = "opening" => core.state = "none"
    /\ at # "ended" /\ ~startup_finished =>
         exits = <<>> /\ heard = {} /\ ~parent_gone /\ ~research_drained /\ ~Shown
    /\ at \in {"opening", "booting", "starting"} => ~Shown
    /\ at = "over" /\ ~startup_finished => core.state # "up"
    /\ child /\ at # "ended" => page # "error"

\* Why the server stops: its own failure to start, or an agreed exit.
ServerInv ==
    /\ server \in {"none", "starting"} => ~started
    /\ server = "up" => started
    /\ server = "returned" => should_exit
    /\ at = "ready" => started
    /\ at \in {"opening", "booting", "starting", "ready"} /\ should_exit =>
         parent_gone \/ (server = "returned" /\ ~started)
    /\ at \in {"opening", "booting"} => ~should_exit

\* What the way out of the main coroutine guarantees at each of its places.
SettleInv ==
    /\ core.quiescing => "shutdown" \in heard
    /\ core.state = "exit0" => Settled
    /\ paper.closing => ~paper.live
    /\ parent_gone /\ "eof" \notin heard => Settled
    /\ "eof" \notin heard /\ Shown /\ ~failing =>
         /\ at \in {"papering", "webbing"} => Settled \/ server = "failed"
         /\ at \in {"reaping", "over"} => Settled
    /\ at = "webbing" => paper.closing
    /\ at \in {"reaping", "over"} /\ ~failing => paper.closing
    /\ exit_code # "none" => at = "ended"
    /\ exit_code = "0" => paper.closing /\ ("eof" \notin heard /\ Shown => Settled)
    /\ verdict = "closed" =>
         /\ core.state = "exit0" /\ at \in {"over", "ended"}
         /\ at = "over" => startup_finished

\* The ends of the pipes, and what the window concludes from the exit code.
OwnerInv ==
    /\ eof => ~alive
    /\ "eof" \in heard => eof
    /\ finished => alive /\ (child => exit_code = "0")

\* The inductive invariant of the session and its window.
DesktopInv ==
    /\ ShellTypeOK /\ TasksInv /\ OneDrain /\ StartInv /\ ServerInv
    /\ SettleInv /\ OwnerInv

\* The types of the core and of local simulation.
Cores == [state : {"none", "up", "exit0", "exit70", "crashed", "killed"},
          quiescing : BOOLEAN, busy : BOOLEAN]
Papers == [live : BOOLEAN, closing : BOOLEAN]
-----------------------------------------------------------------------------
\* A task that is created, changes what it waits for, or ends.
LEMMA TaskAppended ==
    ASSUME NEW t \in ExitTask, exits \in Seq(ExitTask), exits' = Append(exits, t)
    PROVE  /\ exits' \in Seq(ExitTask)
           /\ \A i \in DOMAIN exits' : 
                \/ i \in DOMAIN exits /\ exits'[i] = exits[i]
                \/ i = Len(exits) + 1 /\ exits'[i] = t
  OBVIOUS

LEMMA TaskChanged ==
    ASSUME NEW t \in ExitTask, exits \in Seq(ExitTask), NEW i \in DOMAIN exits,
           exits' = [exits EXCEPT ![i] = t]
    PROVE  /\ exits' \in Seq(ExitTask) /\ DOMAIN exits' = DOMAIN exits
           /\ \A j \in DOMAIN exits : exits'[j] = IF j = i THEN t ELSE exits[j]
  OBVIOUS

LEMMA TaskRemoved ==
    ASSUME exits \in Seq(ExitTask), NEW i \in DOMAIN exits,
           exits' = RemoveAt(exits, i)
    PROVE  /\ exits' \in Seq(ExitTask)
           /\ \A j \in DOMAIN exits' :
                LET k == IF j < i THEN j ELSE j + 1
                IN  k \in DOMAIN exits \ {i} /\ exits'[j] = exits[k]
  <1>1. /\ SubSeq(exits, 1, i - 1) \in Seq(ExitTask)
        /\ SubSeq(exits, i + 1, Len(exits)) \in Seq(ExitTask)
        /\ Len(SubSeq(exits, 1, i - 1)) = i - 1
        /\ Len(SubSeq(exits, i + 1, Len(exits))) = Len(exits) - i
    BY SubSeqProperties
  <1>2. \A j \in 1..(i-1) : SubSeq(exits, 1, i - 1)[j] = exits[j]
    BY SubSeqProperties
  <1>3. \A j \in 1..(Len(exits) - i) : SubSeq(exits, i + 1, Len(exits))[j] = exits[j + i]
    BY SubSeqProperties
  <1> DEFINE a == SubSeq(exits, 1, i - 1) b == SubSeq(exits, i + 1, Len(exits))
  <1>4. exits' = a \o b
    BY DEF RemoveAt
  <1> HIDE DEF a, b
  <1>5. a \in Seq(ExitTask) /\ b \in Seq(ExitTask) /\ Len(a) = i - 1 /\ Len(b) = Len(exits) - i
    BY <1>1 DEF a, b
  <1>6. exits' \in Seq(ExitTask) /\ Len(exits') = Len(exits) - 1
    BY <1>4, <1>5
  <1>7. ASSUME NEW j \in DOMAIN exits', j < i
        PROVE  j \in DOMAIN exits \ {i} /\ exits'[j] = exits[j]
    <2>1. exits'[j] = a[j] /\ j \in 1..(i - 1)
      BY <1>4, <1>5, <1>6, <1>7
    <2> QED BY <2>1, <1>2, <1>6 DEF a
  <1>8. ASSUME NEW j \in DOMAIN exits', ~(j < i)
        PROVE  j + 1 \in DOMAIN exits \ {i} /\ exits'[j] = exits[j + 1]
    <2>1. exits'[j] = b[j - (i - 1)] /\ j - (i - 1) \in 1..(Len(exits) - i)
      BY <1>4, <1>5, <1>6, <1>8
    <2>2. b[j - (i - 1)] = exits[(j - (i - 1)) + i]
      BY <2>1, <1>3 DEF b
    <2>3. (j - (i - 1)) + i = j + 1
      OBVIOUS
    <2> QED BY <2>1, <2>2, <2>3, <1>6, <1>8
  <1> QED BY <1>6, <1>7, <1>8

\* The end of a task leaves one drain at most.
LEMMA DrainRemoved ==
    ASSUME OneDrain, exits \in Seq(ExitTask), NEW i \in DOMAIN exits,
           exits' = RemoveAt(exits, i)
    PROVE  OneDrain'
  <1> SUFFICES ASSUME NEW j \in DOMAIN exits', NEW k \in DOMAIN exits',
                      exits'[j].state = "running", exits'[k].state = "running"
               PROVE  j = k
    BY DEF OneDrain
  <1> DEFINE old(n) == IF n < i THEN n ELSE n + 1
  <1>1. /\ old(j) \in DOMAIN exits /\ exits'[j] = exits[old(j)]
        /\ old(k) \in DOMAIN exits /\ exits'[k] = exits[old(k)]
    BY TaskRemoved
  <1>2. old(j) = old(k)
    <2> HIDE DEF old
    <2> QED BY <1>1 DEF OneDrain
  <1>3. j \in Nat /\ k \in Nat /\ i \in Nat
    BY TaskRemoved
  <1> QED BY <1>2, <1>3

\* The steps of a request_exit task.
LEMMA AskQuiesceStep ==
    ASSUME DesktopInv, NEW i \in DOMAIN exits, AskQuiesce(i), UNCHANGED shell
    PROVE  DesktopInv'
  <1> USE DEF DesktopInv, shell, flags, loop, web, closing, pipes
  <1>1. exits[i] \in ExitTask /\ exits \in Seq(ExitTask)
    BY DEF ShellTypeOK, TypeOK
  <1>2. /\ core' \in Cores
        /\ core'.quiescing
        /\ core'.busy = core.busy
        /\ core'.state = core.state
        /\ core.state = "up" /\ exits[i].state = "running"
    BY DEF AskQuiesce, ShellTypeOK, TypeOK, Cores
  <1>3. "shutdown" \in heard
    BY DEF AskQuiesce, TasksInv
  <1>4. /\ exits' \in Seq(ExitTask) /\ DOMAIN exits' = DOMAIN exits
        /\ \A j \in DOMAIN exits : 
             /\ exits'[j].state = exits[j].state /\ exits'[j].lost = exits[j].lost
             /\ exits'[j].paper = exits[j].paper
             /\ exits'[j].research = exits[j].research \/ (exits'[j].research = "yes" /\ ~core.busy)
    <2>1. CASE UNCHANGED exits
      BY <2>1, <1>1
    <2>2. CASE ~core.busy /\ exits' = [exits EXCEPT ![i].research = "yes"]
      <3> DEFINE t == [exits[i] EXCEPT !.research = "yes"]
      <3>1. /\ t \in ExitTask
            /\ t.state = exits[i].state
            /\ t.lost = exits[i].lost
            /\ t.paper = exits[i].paper
            /\ t.research = "yes"
        BY <1>1 DEF ExitTask
      <3>2. exits' = [exits EXCEPT ![i] = t]
        BY <2>2
      <3> HIDE DEF t
      <3> QED BY <1>1, <2>2, <3>1, <3>2, TaskChanged
    <2> QED BY <2>1, <2>2 DEF AskQuiesce
  <1>5. UNCHANGED <<loop, web, stopping, parent_gone, research_drained, reader,
                   heard, paper, verdict, exit_code, pipes>>
    BY DEF AskQuiesce
  <1>0. ShellTypeOK'
    BY <1>2, <1>4, <1>5 DEF ShellTypeOK, TypeOK, Cores
  <1>6. TasksInv'
    BY <1>2, <1>3, <1>4, <1>5 DEF TasksInv, Settled
  <1>7. OneDrain'
    BY <1>4 DEF OneDrain
  <1>8. exits # <<>>
    OBVIOUS
  <1>9. StartInv'
    BY <1>2, <1>3, <1>5 DEF StartInv, Shown
  <1>10. ServerInv'
    BY <1>5 DEF ServerInv
  <1>11. SettleInv'
    BY <1>2, <1>3, <1>5 DEF SettleInv, Shown, Settled
  <1>12. OwnerInv'
    BY <1>5 DEF OwnerInv
  <1> QED BY <1>0, <1>6, <1>7, <1>9, <1>10, <1>11, <1>12

LEMMA DrainTimesOutStep ==
    ASSUME DesktopInv, NEW i \in DOMAIN exits, DrainTimesOut(i), UNCHANGED shell
    PROVE  DesktopInv'
  <1> USE DEF DesktopInv, shell, flags, loop, web, closing, pipes
  <1> DEFINE t == [exits[i] EXCEPT !.research = "no"]
  <1>1. exits[i] \in ExitTask /\ exits \in Seq(ExitTask)
    BY DEF ShellTypeOK, TypeOK
  <1>2. /\ t \in ExitTask
        /\ t.state = exits[i].state
        /\ t.lost = exits[i].lost
        /\ t.paper = exits[i].paper
        /\ t.research = "no"
    BY <1>1 DEF ExitTask
  <1>3. exits' = [exits EXCEPT ![i] = t]
    BY DEF DrainTimesOut
  <1> HIDE DEF t
  <1>4. /\ exits' \in Seq(ExitTask) /\ DOMAIN exits' = DOMAIN exits
        /\ \A j \in DOMAIN exits : exits'[j] = IF j = i THEN t ELSE exits[j]
    BY <1>1, <1>2, <1>3, TaskChanged
  <1>5. UNCHANGED <<loop, web, stopping, parent_gone, research_drained, reader,
                   heard, core, paper, verdict, exit_code, pipes>>
    BY DEF DrainTimesOut
  <1>0. ShellTypeOK'
    BY <1>4, <1>5 DEF ShellTypeOK, TypeOK
  <1>6. TasksInv'
    BY <1>2, <1>4, <1>5 DEF TasksInv, Settled
  <1>7. OneDrain'
    BY <1>2, <1>4 DEF OneDrain
  <1>9. StartInv'
    BY <1>5 DEF StartInv, Shown
  <1>10. ServerInv'
    BY <1>5 DEF ServerInv
  <1>11. SettleInv'
    BY <1>5 DEF SettleInv, Shown, Settled
  <1>12. OwnerInv'
    BY <1>5 DEF OwnerInv
  <1> QED BY <1>0, <1>6, <1>7, <1>9, <1>10, <1>11, <1>12

LEMMA ExitStopsPaperStep ==
    ASSUME DesktopInv, NEW i \in DOMAIN exits, ExitStopsPaper(i), UNCHANGED shell
    PROVE  DesktopInv'
  <1> USE DEF DesktopInv, shell, flags, loop, web, closing, pipes
  <1>1. exits[i] \in ExitTask /\ exits \in Seq(ExitTask)
    BY DEF ShellTypeOK, TypeOK
  <1>2. PICK confirmed \in BOOLEAN :
          /\ PaperShutdown(confirmed)
          /\ exits' = [exits EXCEPT ![i].paper = IF confirmed THEN "yes" ELSE "no"]
    BY DEF ExitStopsPaper
  <1> DEFINE t == [exits[i] EXCEPT !.paper = IF confirmed THEN "yes" ELSE "no"]
  <1>3. /\ t \in ExitTask
        /\ t.state = exits[i].state
        /\ t.lost = exits[i].lost
        /\ t.research = exits[i].research
        /\ (t.paper = "yes" => confirmed)
    BY <1>1 DEF ExitTask
  <1>4. exits' = [exits EXCEPT ![i] = t]
    BY <1>2
  <1> HIDE DEF t
  <1>5. /\ exits' \in Seq(ExitTask) /\ DOMAIN exits' = DOMAIN exits
        /\ \A j \in DOMAIN exits : exits'[j] = IF j = i THEN t ELSE exits[j]
    BY <1>1, <1>3, <1>4, TaskChanged
  <1>p. /\ paper' \in Papers /\ paper'.closing = confirmed /\ paper'.live = ~confirmed
        /\ paper.closing => paper'.closing
    BY <1>2 DEF PaperShutdown, Papers, SettleInv
  <1>u. UNCHANGED <<loop, web, stopping, parent_gone, research_drained, reader,
                   heard, core, verdict, exit_code, pipes>>
    BY DEF ExitStopsPaper
  <1>0. ShellTypeOK'
    BY <1>5, <1>p, <1>u DEF ShellTypeOK, TypeOK, Papers
  <1>6. TasksInv'
    BY <1>3, <1>5, <1>p, <1>u DEF TasksInv, Settled
  <1>7. OneDrain'
    BY <1>3, <1>5 DEF OneDrain
  <1>9. StartInv'
    BY <1>u DEF StartInv, Shown
  <1>10. ServerInv'
    BY <1>u DEF ServerInv
  <1>11. SettleInv'
    BY <1>p, <1>u DEF SettleInv, Shown, Settled
  <1>12. OwnerInv'
    BY <1>u DEF OwnerInv
  <1> QED BY <1>0, <1>6, <1>7, <1>9, <1>10, <1>11, <1>12

LEMMA StartExitStep ==
    ASSUME DesktopInv, NEW i \in DOMAIN exits, StartExit(i), UNCHANGED shell
    PROVE  DesktopInv'
  <1> USE DEF DesktopInv, shell, flags, loop, web, closing, pipes
  <1>1. exits[i] \in ExitTask /\ exits \in Seq(ExitTask) /\ exits # <<>>
    BY DEF ShellTypeOK, TypeOK
  <1>u. UNCHANGED <<loop, web, parent_gone, research_drained, reader, heard,
                   core, paper, verdict, exit_code, pipes>>
    BY DEF StartExit
  <1>2. exits' \in Seq(ExitTask) /\ stopping' \in BOOLEAN /\ TasksInv' /\ OneDrain'
    <2>1. CASE stopping
      <3>1. exits' = RemoveAt(exits, i) /\ UNCHANGED stopping
        BY <2>1 DEF StartExit
      <3>2. /\ exits' \in Seq(ExitTask)
            /\ \A j \in DOMAIN exits' :
                LET k == IF j < i THEN j ELSE j + 1
                IN  k \in DOMAIN exits \ {i} /\ exits'[j] = exits[k]
        BY <1>1, <3>1, TaskRemoved
      <3>3. TasksInv'
        BY <3>1, <3>2, <1>u DEF TasksInv, Settled
      <3>4. OneDrain'
        BY <1>1, <3>1, DrainRemoved
      <3> QED BY <3>1, <3>2, <3>3, <3>4 DEF ShellTypeOK, TypeOK
    <2>2. CASE ~stopping
      <3> DEFINE t == [exits[i] EXCEPT !.state = "running"]
      <3>1. /\ t \in ExitTask
            /\ t.lost = exits[i].lost
            /\ t.research = exits[i].research
            /\ t.paper = exits[i].paper
            /\ t.state = "running"
        BY <1>1 DEF ExitTask
      <3>2. exits' = [exits EXCEPT ![i] = t] /\ stopping' = TRUE
        BY <2>2 DEF StartExit
      <3> HIDE DEF t
      <3>3. /\ exits' \in Seq(ExitTask) /\ DOMAIN exits' = DOMAIN exits
            /\ \A j \in DOMAIN exits : exits'[j] = IF j = i THEN t ELSE exits[j]
        BY <1>1, <3>1, <3>2, TaskChanged
      <3>4. TasksInv'
        BY <3>1, <3>2, <3>3, <1>u DEF TasksInv, Settled
      <3>5. \A j \in DOMAIN exits : exits[j].state # "running"
        BY <2>2 DEF TasksInv
      <3>6. OneDrain'
        BY <3>1, <3>3, <3>5 DEF OneDrain
      <3> QED BY <3>2, <3>3, <3>4, <3>6
    <2> QED BY <2>1, <2>2 DEF ShellTypeOK, TypeOK
  <1>0. ShellTypeOK'
    BY <1>2, <1>u DEF ShellTypeOK, TypeOK
  <1>9. StartInv'
    BY <1>1, <1>u, <1>2 DEF StartInv, Shown
  <1>10. ServerInv'
    BY <1>u DEF ServerInv
  <1>11. SettleInv'
    BY <1>u DEF SettleInv, Shown, Settled
  <1>12. OwnerInv'
    BY <1>u DEF OwnerInv
  <1> QED BY <1>0, <1>2, <1>9, <1>10, <1>11, <1>12
-----------------------------------------------------------------------------
\* The steps of the main coroutine and of what happens around it.
LEMMA SurroundingsStep ==
    ASSUME DesktopInv, UNCHANGED shell,
           SubmitResearch \/ ResearchSettles \/ CoreDies \/ StartPaper
    PROVE  DesktopInv'
  <1> USE DEF DesktopInv, shell, flags, loop, web, closing, pipes
  <1>1. core' \in Cores /\ paper' \in Papers
    BY DEF ShellTypeOK, TypeOK, Cores, Papers, NewCore, SubmitResearch,
           ResearchSettles, CoreDies, StartPaper
  <1>2. TypeOK'
    BY <1>1 DEF ShellTypeOK, TypeOK, Cores, Papers, Emit, SubmitResearch,
                ResearchSettles, CoreDies, StartPaper
  <1>3. ShellTypeOK'
    BY <1>2 DEF ShellTypeOK
  <1>4. TasksInv' /\ OneDrain'
    BY DEF TasksInv, OneDrain, Settled, SettleInv, ShellTypeOK, TypeOK, StartInv,
           Looping, NewCore, SubmitResearch, ResearchSettles, CoreDies, StartPaper
  <1>5. StartInv'
    BY DEF StartInv, Shown, Emit, NewCore, Looping, ShellTypeOK, TypeOK,
           SubmitResearch, ResearchSettles, CoreDies, StartPaper
  <1>6. ServerInv'
    BY DEF ServerInv, StartInv, SubmitResearch, ResearchSettles, CoreDies, StartPaper
  <1>7. SettleInv'
    BY DEF SettleInv, StartInv, ServerInv, Shown, Settled, Emit, Looping, NewCore,
           ShellTypeOK, TypeOK, SubmitResearch, ResearchSettles, CoreDies, StartPaper
  <1>8. OwnerInv'
    BY DEF OwnerInv, SubmitResearch, ResearchSettles, CoreDies, StartPaper
  <1> QED BY <1>3, <1>4, <1>5, <1>6, <1>7, <1>8

LEMMA BootStep ==
    ASSUME DesktopInv, UNCHANGED shell,
           OpenWorkspace \/ OpenFails \/ CoreAnswers \/ BootFails \/ ReapFails
    PROVE  DesktopInv'
  <1> USE DEF DesktopInv, shell, flags, loop, web, closing, pipes
  <1>1. core' \in Cores /\ paper' \in Papers
    BY DEF ShellTypeOK, TypeOK, Cores, Papers, NewCore, OpenWorkspace, OpenFails,
           CoreAnswers, BootFails, ReapFails
  <1>9. /\ at' \in {"booting", "over", "starting", "reaping"}
        /\ failing' \in BOOLEAN
        /\ startup_finished' \in BOOLEAN
        /\ reader' \in BOOLEAN
        /\ server' \in {"none", "starting", "up", "returned", "failed"}
    BY DEF ShellTypeOK, TypeOK, OpenWorkspace, OpenFails, CoreAnswers, BootFails,
           ReapFails
  <1>2. TypeOK'
    BY <1>1, <1>9 DEF ShellTypeOK, TypeOK, Cores, Papers, Emit, OpenWorkspace,
                      OpenFails, CoreAnswers, BootFails, ReapFails
  <1>3. ShellTypeOK'
    BY <1>2 DEF ShellTypeOK
  <1>4. TasksInv' /\ OneDrain'
    BY DEF TasksInv, OneDrain, Settled, SettleInv, ShellTypeOK, TypeOK, StartInv,
           Looping, NewCore, OpenWorkspace, OpenFails, CoreAnswers, BootFails,
           ReapFails
  <1>5. StartInv'
    BY DEF StartInv, Shown, Emit, NewCore, Looping, ShellTypeOK, TypeOK,
           OpenWorkspace, OpenFails, CoreAnswers, BootFails, ReapFails
  <1>6. ServerInv'
    BY DEF ServerInv, StartInv, OpenWorkspace, OpenFails, CoreAnswers, BootFails,
           ReapFails
  <1>7. SettleInv'
    BY DEF SettleInv, StartInv, ServerInv, Shown, Settled, Emit, Looping, NewCore,
           ShellTypeOK, TypeOK, OpenWorkspace, OpenFails, CoreAnswers, BootFails,
           ReapFails
  <1>8. OwnerInv'
    BY DEF OwnerInv, OpenWorkspace, OpenFails, CoreAnswers, BootFails, ReapFails
  <1> QED BY <1>3, <1>4, <1>5, <1>6, <1>7, <1>8

LEMMA ServerStartsStep ==
    ASSUME DesktopInv, UNCHANGED shell, ServerStarts
    PROVE  DesktopInv'
  <1> USE DEF DesktopInv, shell, flags, loop, web, closing, pipes
  <1>1. ShellTypeOK'
    BY DEF ShellTypeOK, TypeOK, ServerStarts
  <1>2. TasksInv' /\ OneDrain' /\ OwnerInv'
    BY DEF TasksInv, OneDrain, Settled, OwnerInv, ServerStarts
  <1>3. StartInv' /\ ServerInv'
    BY DEF StartInv, ServerInv, Shown, ServerStarts
  <1>4. SettleInv'
    BY DEF SettleInv, Shown, Settled, ServerStarts
  <1> QED BY <1>1, <1>2, <1>3, <1>4

LEMMA BecomeReadyStep ==
    ASSUME DesktopInv, UNCHANGED shell, BecomeReady
    PROVE  DesktopInv'
  <1> USE DEF DesktopInv, shell, flags, loop, web, closing, pipes
  <1>1. out' \in Seq({"ready", "close_blocked"}) /\ startup_finished' \in BOOLEAN
    BY DEF ShellTypeOK, TypeOK, BecomeReady, Emit
  <1>2. ShellTypeOK'
    BY <1>1 DEF ShellTypeOK, TypeOK, BecomeReady
  <1>3. TasksInv' /\ OneDrain' /\ OwnerInv'
    BY DEF TasksInv, OneDrain, Settled, OwnerInv, BecomeReady
  <1>4. StartInv' /\ ServerInv'
    BY DEF StartInv, ServerInv, BecomeReady
  <1>5. SettleInv'
    BY DEF SettleInv, Settled, BecomeReady
  <1> QED BY <1>2, <1>3, <1>4, <1>5

LEMMA ServerStopsStep ==
    ASSUME DesktopInv, ServerStops, UNCHANGED shell
    PROVE  DesktopInv'
  <1> USE DEF DesktopInv, shell, flags, loop, web, closing, pipes
  <1>1. /\ startup_finished' \in BOOLEAN /\ should_exit' \in BOOLEAN
        /\ server' \in {"returned", "failed"}
        /\ UNCHANGED <<at, root, failing, started, closing, reader, heard, core,
                   paper, verdict, exit_code, pipes>>
        /\ startup_finished' = (startup_finished \/ started \/ should_exit')
    BY DEF ShellTypeOK, TypeOK, ServerStops
  <1>0. TypeOK'
    BY <1>1 DEF ShellTypeOK, TypeOK
  <1>2. ShellTypeOK'
    BY <1>0 DEF ShellTypeOK
  <1>3. TasksInv' /\ OneDrain'
    BY <1>1 DEF TasksInv, Settled, OneDrain
  <1>4. StartInv'
    BY <1>1 DEF StartInv, Shown, ServerStops, ShellTypeOK, TypeOK
  <1>5. ServerInv'
    BY DEF ServerInv, StartInv, ShellTypeOK, TypeOK, ServerStops
  <1>6. SettleInv'
    BY DEF SettleInv, Shown, Settled, ShellTypeOK, TypeOK, ServerInv, StartInv,
           ServerStops, Looping
  <1>7. OwnerInv'
    BY <1>1 DEF OwnerInv
  <1> QED BY <1>2, <1>3, <1>4, <1>5, <1>6, <1>7

LEMMA LeaveStartingStep ==
    ASSUME DesktopInv, LeaveStarting, UNCHANGED shell
    PROVE  DesktopInv'
  <1> USE DEF DesktopInv, shell, flags, loop, web, closing, pipes
  <1>b. /\ startup_finished' \in BOOLEAN
        /\ should_exit' \in BOOLEAN
        /\ failing' \in BOOLEAN
        /\ startup_finished => startup_finished'
    <2> USE DEF ShellTypeOK, TypeOK
    <2>1. CASE /\ server = "failed" /\ Unwind(TRUE)
               /\ UNCHANGED <<startup_finished, should_exit>>
      BY <2>1 DEF Unwind
    <2>2. CASE /\ server = "returned" /\ Unwind(FALSE) /\ startup_finished' = TRUE
               /\ UNCHANGED should_exit
      BY <2>2 DEF Unwind
    <2>3. CASE Unwind(FALSE) /\ startup_finished' = TRUE /\ should_exit' = TRUE
      BY <2>3 DEF Unwind
    <2> QED BY <2>1, <2>2, <2>3 DEF LeaveStarting
  <1>1. /\ at = "starting"
        /\ ~started
        /\ server \in {"failed", "returned", "starting"}
        /\ at' = "papering" /\ reader' = FALSE /\ reader' \in BOOLEAN
        /\ UNCHANGED <<root, started, server, closing, heard, core, paper,
                   verdict, exit_code, pipes>>
    BY DEF LeaveStarting, Unwind
  <1>8. server = "returned" => should_exit'
    BY DEF ServerInv, LeaveStarting, ShellTypeOK, TypeOK
  <1>0. TypeOK'
    BY <1>b, <1>1 DEF ShellTypeOK, TypeOK
  <1>2. ShellTypeOK'
    BY <1>0 DEF ShellTypeOK
  <1>3. TasksInv' /\ OneDrain'
    BY <1>b, <1>1 DEF TasksInv, Settled, OneDrain
  <1>4. StartInv'
    BY <1>b, <1>1 DEF StartInv, Shown
  <1>5. ServerInv'
    BY <1>b, <1>1, <1>8 DEF ServerInv
  <1>6. SettleInv'
    BY <1>b, <1>1 DEF SettleInv, Shown, Settled, StartInv
  <1>7. OwnerInv'
    BY <1>b, <1>1 DEF OwnerInv
  <1> QED BY <1>2, <1>3, <1>4, <1>5, <1>6, <1>7

LEMMA LeaveReadyStep ==
    ASSUME DesktopInv, LeaveReady, UNCHANGED shell
    PROVE  DesktopInv'
  <1> USE DEF DesktopInv, shell, flags, loop, web, closing, pipes
  <1>1. /\ at = "ready"
        /\ at' = "papering"
        /\ reader' = FALSE
        /\ reader' \in BOOLEAN
        /\ failing' \in BOOLEAN
        /\ ~failing' => Closing
        /\ UNCHANGED <<root, startup_finished, web, closing, heard, core, paper,
                   verdict, exit_code, pipes>>
    BY DEF LeaveReady, Unwind
  <1>0. TypeOK'
    BY <1>1 DEF ShellTypeOK, TypeOK
  <1>2. ShellTypeOK'
    BY <1>0 DEF ShellTypeOK
  <1>3. TasksInv' /\ OneDrain'
    BY <1>1 DEF TasksInv, Settled, OneDrain
  <1>4. StartInv'
    BY <1>1 DEF StartInv, Shown
  <1>5. ServerInv'
    BY <1>1 DEF ServerInv
  <1>8. ~failing' => parent_gone \/ server = "failed"
    BY <1>1 DEF Closing, ServerInv, ShellTypeOK, TypeOK
  <1>6. SettleInv'
    BY <1>1, <1>8 DEF SettleInv, Shown, Settled
  <1>7. OwnerInv'
    BY <1>1 DEF OwnerInv
  <1> QED BY <1>2, <1>3, <1>4, <1>5, <1>6, <1>7

LEMMA StopPaperStep ==
    ASSUME DesktopInv, StopPaper, UNCHANGED shell
    PROVE  DesktopInv'
  <1> USE DEF DesktopInv, shell, flags, loop, web, closing, pipes
  <1>1. CASE StopPaper /\ PaperShutdown(TRUE)
    <2>1. /\ at = "papering"
          /\ at' = "webbing"
          /\ should_exit' = TRUE
          /\ should_exit' \in BOOLEAN
          /\ paper' \in Papers /\ ~paper'.live /\ paper'.closing
          /\ UNCHANGED <<root, failing, startup_finished, server, started, closing, reader, heard, core,
                   verdict, exit_code, pipes>>
      BY <1>1 DEF StopPaper, PaperShutdown, Papers
    <2>0. TypeOK'
      BY <2>1 DEF ShellTypeOK, TypeOK, Papers
    <2>2. ShellTypeOK'
      BY <2>0 DEF ShellTypeOK
    <2>3. TasksInv' /\ OneDrain'
      BY <2>1 DEF TasksInv, Settled, OneDrain
    <2>4. StartInv'
      BY <2>1 DEF StartInv, Shown
    <2>5. ServerInv'
      BY <2>1 DEF ServerInv
    <2>6. SettleInv'
      BY <2>1 DEF SettleInv, Shown, Settled
    <2>7. OwnerInv'
      BY <2>1 DEF OwnerInv
    <2> QED BY <2>2, <2>3, <2>4, <2>5, <2>6, <2>7
  <1>2. CASE StopPaper /\ PaperShutdown(FALSE)
    <2>1. /\ at = "papering"
          /\ at' = "reaping"
          /\ failing' = TRUE
          /\ startup_finished' = TRUE
          /\ failing' \in BOOLEAN /\ startup_finished' \in BOOLEAN
          /\ paper.live /\ paper' \in Papers /\ paper'.live /\ ~paper'.closing
          /\ UNCHANGED <<root, server, started, should_exit, closing, reader, heard, core,
                   verdict, exit_code, pipes>>
      BY <1>2 DEF StopPaper, PaperShutdown, Papers
    <2>0. TypeOK'
      BY <2>1 DEF ShellTypeOK, TypeOK, Papers
    <2>2. ShellTypeOK'
      BY <2>0 DEF ShellTypeOK
    <2>3. TasksInv' /\ OneDrain'
      BY <2>1 DEF TasksInv, Settled, OneDrain, SettleInv
    <2>4. StartInv'
      BY <2>1 DEF StartInv, Shown
    <2>5. ServerInv'
      BY <2>1 DEF ServerInv
    <2>6. SettleInv'
      BY <2>1 DEF SettleInv, Shown, Settled
    <2>7. OwnerInv'
      BY <2>1 DEF OwnerInv
    <2> QED BY <2>2, <2>3, <2>4, <2>5, <2>6, <2>7
  <1> QED BY <1>1, <1>2 DEF StopPaper

LEMMA AwaitServerStep ==
    ASSUME DesktopInv, AwaitServer, UNCHANGED shell
    PROVE  DesktopInv'
  <1> USE DEF DesktopInv, shell, flags, loop, web, closing, pipes
  <1>1. /\ at = "webbing" /\ at' = "reaping"
        /\ failing' \in BOOLEAN /\ startup_finished' \in BOOLEAN
        /\ server' \in {"none", "returned", "failed"}
        /\ startup_finished => startup_finished'
        /\ server' = "returned" => server = "returned"
        /\ failing' \/ server = "returned"
        /\ ~failing' => ~failing
        /\ UNCHANGED <<root, started, should_exit, closing, reader, heard, core,
                   paper, verdict, exit_code, pipes>>
    BY DEF AwaitServer, ShellTypeOK, TypeOK
  <1>9. server' # "none" /\ server' # "up" /\ server' # "starting"
    BY DEF AwaitServer
  <1>0. TypeOK'
    BY <1>1 DEF ShellTypeOK, TypeOK
  <1>2. ShellTypeOK'
    BY <1>0 DEF ShellTypeOK
  <1>3. TasksInv' /\ OneDrain'
    BY <1>1 DEF TasksInv, Settled, OneDrain
  <1>4. StartInv'
    BY <1>1 DEF StartInv, Shown
  <1>5. ServerInv'
    BY <1>1, <1>9 DEF ServerInv
  <1>6. SettleInv'
    BY <1>1 DEF SettleInv, Shown, Settled
  <1>7. OwnerInv'
    BY <1>1 DEF OwnerInv
  <1> QED BY <1>2, <1>3, <1>4, <1>5, <1>6, <1>7

LEMMA ReapCoreStep ==
    ASSUME DesktopInv, ReapCore, UNCHANGED shell
    PROVE  DesktopInv'
  <1> USE DEF DesktopInv, shell, flags, loop, web, closing, pipes
  <1>p. PICK exit \in IF core.state = "up" THEN {ExitOnClosedStdin, "killed"}
                                        ELSE {core.state} :
          /\ core' = [core EXCEPT !.state = exit]
          /\ verdict' = Receipt(exit)
          /\ failing' = (failing \/ (research_drained /\ exit # "exit0"))
          /\ startup_finished' = (startup_finished \/ (research_drained /\ exit # "exit0"))
    BY DEF ReapCore
  <1>q. /\ exit \in {"none", "exit0", "exit70", "crashed", "killed"}
        /\ exit = "exit0" => Settled
    BY <1>p DEF ExitOnClosedStdin, ShellTypeOK, TypeOK, SettleInv, Settled
  <1>r. /\ core' \in Cores /\ core'.state = exit 
        /\ core'.quiescing = core.quiescing /\ core'.busy = core.busy
    BY <1>p, <1>q DEF ShellTypeOK, TypeOK, Cores
  <1>1. /\ at = "reaping" /\ at' = "over"
        /\ failing' \in BOOLEAN /\ startup_finished' \in BOOLEAN
        /\ verdict' \in {"closed", "interrupted"}
        /\ verdict' = "closed" => research_drained /\ exit = "exit0"
        /\ startup_finished => startup_finished'
        /\ ~failing' => ~failing
        /\ UNCHANGED <<root, web, closing, reader, heard, paper, exit_code, pipes>>
    BY <1>p DEF ReapCore, Receipt, ShellTypeOK, TypeOK
  <1>0. TypeOK'
    BY <1>1, <1>r DEF ShellTypeOK, TypeOK, Cores
  <1>2. ShellTypeOK'
    BY <1>0 DEF ShellTypeOK
  <1>3. TasksInv' /\ OneDrain'
    BY <1>1, <1>r DEF TasksInv, Settled, OneDrain
  <1>4. StartInv'
    BY <1>1, <1>r, <1>q DEF StartInv, Shown
  <1>5. ServerInv'
    BY <1>1 DEF ServerInv
  <1>8. verdict' = "closed" => startup_finished'
    BY <1>1, <1>q DEF StartInv
  <1>6. SettleInv'
    BY <1>1, <1>q, <1>r, <1>8 DEF SettleInv, Shown, Settled
  <1>7. OwnerInv'
    BY <1>1 DEF OwnerInv
  <1> QED BY <1>2, <1>3, <1>4, <1>5, <1>6, <1>7

LEMMA FallBackStep ==
    ASSUME DesktopInv, FallBack, UNCHANGED shell
    PROVE  DesktopInv'
  <1> USE DEF DesktopInv, shell, flags, loop, web, closing, pipes
  <1>1. /\ exits = <<>> /\ heard = {} /\ ~Shown /\ ~startup_finished /\ at = "over"
    BY DEF StartInv, FallBack, MayFallBack
  <1>r. /\ core' \in Cores /\ core'.state = "none" /\ ~core'.quiescing /\ ~core'.busy
        /\ paper' \in Papers /\ ~paper'.live /\ ~paper'.closing
    BY DEF FallBack, NewCore, NewPaper, Cores, Papers
  <1>0. TypeOK'
    BY <1>r DEF ShellTypeOK, TypeOK, FallBack, Cores, Papers
  <1>2. ShellTypeOK'
    BY <1>0 DEF ShellTypeOK
  <1>3. TasksInv' /\ OneDrain'
    BY <1>1 DEF TasksInv, OneDrain, FallBack
  <1>4. StartInv'
    BY <1>1, <1>r DEF StartInv, Shown, FallBack
  <1>5. ServerInv'
    BY DEF ServerInv, FallBack
  <1>8. verdict # "closed" /\ exit_code = "none"
    BY <1>1 DEF SettleInv, ShellTypeOK, TypeOK
  <1>6. SettleInv'
    BY <1>1, <1>r, <1>8 DEF SettleInv, Shown, Settled, FallBack
  <1>7. OwnerInv'
    BY DEF OwnerInv, FallBack
  <1> QED BY <1>2, <1>3, <1>4, <1>5, <1>6, <1>7

LEMMA EndProcessStep ==
    ASSUME DesktopInv, EndProcess, UNCHANGED shell
    PROVE  DesktopInv'
  <1> USE DEF DesktopInv, shell, flags, loop, web, closing, pipes
  <1>1. /\ exit_code' \in {"0", "1"} /\ exit_code' = "0" => ~failing
        /\ at = "over" /\ at' = "ended" /\ exits' = <<>> /\ exit_code = "none"
        /\ UNCHANGED <<root, reader, heard, core, paper, verdict, eof, out>>
        /\ ~parent_gone' /\ ~failing'
    BY DEF EndProcess, SettleInv, ShellTypeOK, TypeOK
  <1>9. /\ failing' \in BOOLEAN
        /\ startup_finished' \in BOOLEAN
        /\ started' \in BOOLEAN
        /\ should_exit' \in BOOLEAN
        /\ stopping' \in BOOLEAN
        /\ parent_gone' \in BOOLEAN
        /\ research_drained' \in BOOLEAN /\ inbox' \in Nat /\ exits' \in Seq(ExitTask)
    BY <1>1, EmptySeq DEF EndProcess
  <1>0. TypeOK'
    BY <1>1, <1>9 DEF ShellTypeOK, TypeOK, EndProcess
  <1>2. ShellTypeOK'
    BY <1>0 DEF ShellTypeOK
  <1>3. TasksInv' /\ OneDrain'
    BY <1>1 DEF TasksInv, OneDrain
  <1>4. StartInv'
    BY <1>1 DEF StartInv, Shown
  <1>5. ServerInv'
    BY <1>1 DEF ServerInv, EndProcess
  <1>6. SettleInv'
    BY <1>1 DEF SettleInv, Shown, Settled
  <1>7. OwnerInv'
    BY <1>1 DEF OwnerInv
  <1> QED BY <1>2, <1>3, <1>4, <1>5, <1>6, <1>7
-----------------------------------------------------------------------------
\* The end of a task: the exit is agreed, or the block is reported.
LEMMA FinishExitStep ==
    ASSUME DesktopInv, NEW i \in DOMAIN exits, FinishExit(i), UNCHANGED shell
    PROVE  DesktopInv'
  <1> USE DEF DesktopInv, shell, flags, loop, web, closing, pipes
  <1>1. exits[i] \in ExitTask /\ exits \in Seq(ExitTask) /\ exits # <<>>
    BY DEF ShellTypeOK, TypeOK
  <1>u. /\ UNCHANGED <<loop, server, started, reader, heard, core, paper,
                   exit_code, inbox, eof>>
        /\ stopping' = FALSE /\ stopping' \in BOOLEAN /\ exits' = RemoveAt(exits, i)
        /\ Looping
    BY DEF FinishExit
  <1>2. /\ exits' \in Seq(ExitTask)
        /\ \A j \in DOMAIN exits' :
                LET k == IF j < i THEN j ELSE j + 1
                IN  k \in DOMAIN exits \ {i} /\ exits'[j] = exits[k]
    BY <1>1, <1>u, TaskRemoved
  <1>3. /\ exits[i].state = "running"
        /\ \A j \in DOMAIN exits \ {i} : exits[j].state # "running"
    BY DEF FinishExit, OneDrain
  <1>4. TasksInv'
    BY <1>2, <1>3, <1>u DEF TasksInv, Settled
  <1>5. OneDrain'
    BY <1>1, <1>u, DrainRemoved
  <1>6. /\ startup_finished
        /\ at \in {"opening", "booting", "starting", "ready", "papering", "webbing"}
    <2>1. at # "ended"
      BY <1>u DEF Looping
    <2> QED BY <1>1, <1>u, <2>1 DEF StartInv, Looping, TasksInv, ShellTypeOK, TypeOK,
                                    ExitTask
  <1>7. research_drained' \in BOOLEAN
    BY DEF FinishExit, ShellTypeOK, TypeOK
  <1>8. CASE /\ parent_gone' = TRUE /\ should_exit' = TRUE /\ UNCHANGED <<out, verdict>>
             /\ Agreed(exits[i], research_drained')
    <2>1. parent_gone' \in BOOLEAN /\ should_exit' \in BOOLEAN
      BY <1>8
    <2>2. ShellTypeOK'
      BY <1>u, <1>2, <1>7, <1>8, <2>1 DEF ShellTypeOK, TypeOK
    <2>3. StartInv'
      BY <1>u, <1>6, <1>8 DEF StartInv, Shown
    <2>4. ServerInv'
      BY <1>u, <1>6, <1>8 DEF ServerInv, StartInv
    <2>5. "eof" \notin heard => Settled
      BY <1>8 DEF Agreed, FinishExit, TasksInv
    <2>6. SettleInv'
      BY <1>u, <1>6, <1>8, <2>5 DEF SettleInv, Shown, Settled
    <2>7. OwnerInv'
      BY <1>u DEF OwnerInv
    <2> QED BY <1>4, <1>5, <2>2, <2>3, <2>4, <2>6, <2>7
  <1>9. CASE /\ Emit("close_blocked")
             /\ verdict' = IF exits[i].lost THEN "unknown" ELSE verdict
             /\ UNCHANGED <<parent_gone, should_exit>>
    <2>1. out' \in Seq({"ready", "close_blocked"}) /\ Shown' = Shown
      <3>1. CASE eof
        BY <1>9, <3>1 DEF Emit, ShellTypeOK, TypeOK, Shown
      <3>2. CASE ~eof
        <4>1. /\ out \in Seq({"ready", "close_blocked"})
              /\ out' = Append(out, "close_blocked")
          BY <1>9, <3>2 DEF Emit, ShellTypeOK, TypeOK
        <4>2. /\ out' \in Seq({"ready", "close_blocked"})
              /\ \A j \in DOMAIN out : j \in DOMAIN out' /\ out'[j] = out[j]
              /\ \A j \in DOMAIN out' : out'[j] = "ready" => j \in DOMAIN out /\ out[j] = "ready"
          BY <4>1
        <4> QED BY <4>2 DEF Shown
      <3> QED BY <3>1, <3>2
    <2>2. verdict' \in {"none", "unknown", "closed", "interrupted"}
          /\ (verdict' = "closed" => verdict = "closed")
      BY <1>9 DEF ShellTypeOK, TypeOK
    <2>3. ShellTypeOK'
      BY <1>u, <1>2, <1>7, <1>9, <2>1, <2>2 DEF ShellTypeOK, TypeOK
    <2>4. StartInv'
      BY <1>u, <1>6, <1>9, <2>1 DEF StartInv
    <2>5. ServerInv'
      BY <1>u, <1>9 DEF ServerInv
    <2>6. SettleInv'
      BY <1>u, <1>9, <2>1, <2>2 DEF SettleInv, Settled
    <2>7. OwnerInv'
      BY <1>u DEF OwnerInv
    <2> QED BY <1>4, <1>5, <2>3, <2>4, <2>5, <2>6, <2>7
  <1> QED BY <1>8, <1>9 DEF FinishExit

\* A read of stdin starts one task.
LEMMA ParentMessageStep ==
    ASSUME DesktopInv, ParentMessage, UNCHANGED shell
    PROVE  DesktopInv'
  <1> USE DEF DesktopInv, shell, flags, loop, web, closing, pipes
  <1>1. PICK lost \in BOOLEAN :
          /\ exits' = Append(exits, Queued(lost))
          /\ heard' = heard \cup {IF lost THEN "eof" ELSE "shutdown"}
          /\ inbox' \in Nat /\ reader' \in BOOLEAN /\ (reader' => reader)
          /\ lost => eof
    <2>1. CASE /\ inbox' = 0 /\ heard' = heard \cup {"shutdown"}
               /\ exits' = Append(exits, Queued(FALSE)) /\ UNCHANGED reader
      <3>1. inbox' \in Nat /\ reader' \in BOOLEAN
        BY <2>1 DEF ShellTypeOK, TypeOK
      <3>2. FALSE \in BOOLEAN
        OBVIOUS
      <3> QED BY <2>1, <3>1, <3>2
    <2>2. CASE /\ eof /\ heard' = heard \cup {"eof"}
               /\ exits' = Append(exits, Queued(TRUE))
               /\ reader' = FALSE /\ UNCHANGED inbox
      <3>1. inbox' \in Nat /\ reader' \in BOOLEAN
        BY <2>2 DEF ShellTypeOK, TypeOK
      <3>2. TRUE \in BOOLEAN
        OBVIOUS
      <3> QED BY <2>2, <3>1, <3>2
    <2> QED BY <2>1, <2>2 DEF ParentMessage
  <1>2. /\ Queued(lost) \in ExitTask
        /\ Queued(lost).lost = lost
        /\ Queued(lost).state = "queued"
        /\ (Queued(lost).research = "wait" => ~lost) /\ Queued(lost).research # "yes"
        /\ Queued(lost).paper = "wait"
    BY DEF Queued, ExitTask
  <1>3. /\ exits' \in Seq(ExitTask)
        /\ \A i \in DOMAIN exits' : 
                \/ i \in DOMAIN exits /\ exits'[i] = exits[i]
                \/ i = Len(exits) + 1 /\ exits'[i] = Queued(lost)
    BY <1>1, <1>2, TaskAppended DEF ShellTypeOK, TypeOK
  <1>4. /\ UNCHANGED <<at, root, failing, web, stopping, parent_gone,
                   research_drained, core, paper, verdict, exit_code, eof, out>>
        /\ startup_finished' = TRUE /\ startup_finished' \in BOOLEAN
        /\ at \in {"starting", "ready"}
    BY DEF ParentMessage, StartInv
  <1>5. ShellTypeOK'
    BY <1>1, <1>3, <1>4 DEF ShellTypeOK, TypeOK
  <1>6. TasksInv'
    BY <1>1, <1>2, <1>3, <1>4 DEF TasksInv, Settled
  <1>7. OneDrain'
    BY <1>2, <1>3 DEF OneDrain
  <1>8. StartInv'
    BY <1>1, <1>4 DEF StartInv, Shown
  <1>9. ServerInv'
    BY <1>4 DEF ServerInv
  <1>10. SettleInv'
    BY <1>1, <1>4 DEF SettleInv, Shown, Settled
  <1>11. OwnerInv'
    BY <1>1, <1>4 DEF OwnerInv
  <1> QED BY <1>5, <1>6, <1>7, <1>8, <1>9, <1>10, <1>11
-----------------------------------------------------------------------------
\* What a step of the window leaves to the backend.
BackendKept ==
    /\ UNCHANGED <<loop, web, closing, reader, heard, core, paper, verdict,
                   exit_code, child>>
    /\ inbox' \in Nat /\ out' \in Seq({"ready", "close_blocked"})
    /\ Shown' => Shown

\* The window disturbs the invariant only through page, finished and eof.
LEMMA KeptInv ==
    ASSUME DesktopInv, WindowInv', BackendKept,
           page' \in {"loading", "product", "error"},
           page' = page \/ page' = "product" \/ exit_code # "none",
           finished' \in BOOLEAN, quit_confirmed' \in BOOLEAN,
           quit_prompt_pending' \in BOOLEAN, alive' \in BOOLEAN, eof' \in BOOLEAN,
           listener' \in {"reading", "rearming", "done"},
           eof' => ~alive', eof => eof',
           finished' => alive' /\ (child => exit_code = "0")
    PROVE  DesktopInv'
  <1> USE DEF BackendKept, DesktopInv, loop, web, closing
  <1>1. ShellTypeOK'
    BY DEF ShellTypeOK, TypeOK, WindowInv, WatcherStates
  <1>2. TasksInv' /\ OneDrain'
    BY DEF TasksInv, OneDrain, Settled
  <1>3. StartInv'
    <2>1. exit_code # "none" => at = "ended"
      BY DEF SettleInv
    <2> QED BY <2>1 DEF StartInv
  <1>4. ServerInv'
    BY DEF ServerInv
  <1>5. SettleInv'
    BY DEF SettleInv, Settled
  <1>6. OwnerInv'
    BY DEF OwnerInv
  <1> QED BY <1>1, <1>2, <1>3, <1>4, <1>5, <1>6

LEMMA PipesKept ==
    ASSUME DesktopInv, UNCHANGED <<vars, child>>, page' # "product" \/ UNCHANGED page
    PROVE  BackendKept
  BY DEF DesktopInv, ShellTypeOK, TypeOK, BackendKept, vars, pipes, Shown

\* One step per action of the window.
LEMMA WindowActs ==
    ASSUME DesktopInv, WindowInv, Next, ~BackendStep
    PROVE  DesktopInv'
  <1>w. WindowInv'
    BY WindowStep
  <1>t. /\ page \in {"loading", "product", "error"} /\ finished \in BOOLEAN
        /\ quit_confirmed \in BOOLEAN /\ quit_prompt_pending \in BOOLEAN
        /\ alive \in BOOLEAN /\ eof \in BOOLEAN
        /\ listener \in {"reading", "rearming", "done"}
        /\ inbox \in Nat /\ out \in Seq({"ready", "close_blocked"})
        /\ eof => ~alive
        /\ finished => alive /\ (child => exit_code = "0")
    BY DEF DesktopInv, ShellTypeOK, TypeOK, OwnerInv
  <1>1. CASE User
    <2>1. /\ UNCHANGED <<vars, alive, child, page, finished, listener>>
          /\ quit_confirmed' \in BOOLEAN /\ quit_prompt_pending' \in BOOLEAN
      BY <1>1, <1>t DEF User, RequestExit, OpenPrompt, CancelPrompt, ApprovePrompt
    <2>2. BackendKept
      BY <2>1, PipesKept
    <2>3. UNCHANGED eof
      BY <2>1 DEF vars, pipes
    <2> QED BY <1>t, <1>w, <2>1, <2>2, <2>3, KeptInv
  <1>2. ASSUME NEW w \in DOMAIN watchers, AskShutdown(w)
        PROVE  DesktopInv'
    <2>1. /\ UNCHANGED <<loop, web, closing, reader, heard, core, paper, verdict,
                   exit_code, eof, out, alive, child, page,
                   quit_confirmed, quit_prompt_pending, listener>>
          /\ alive /\ finished' \in BOOLEAN
          /\ finished' => finished \/ ~child
      BY <1>2, <1>t DEF AskShutdown
    <2>2. inbox' \in Nat
      BY <1>2, <1>t DEF AskShutdown
    <2>3. BackendKept
      BY <2>1, <2>2, <1>t DEF BackendKept, Shown
    <2> QED BY <1>t, <1>w, <2>1, <2>3, KeptInv
  <1>3. ASSUME NEW w \in DOMAIN watchers, PollBackend(w)
        PROVE  DesktopInv'
    <2>1. /\ UNCHANGED <<vars, alive, child, page, quit_confirmed,
                   quit_prompt_pending, listener>>
          /\ alive
          /\ UNCHANGED finished \/ (finished' = TRUE /\ exit_code = "0")
      BY <1>3 DEF PollBackend, Reaped, TimesOut, Refused
    <2>2. BackendKept
      BY <2>1, PipesKept
    <2>3. UNCHANGED eof
      BY <2>1 DEF vars, pipes
    <2>4. finished' \in BOOLEAN
      <3>1. CASE UNCHANGED finished
        BY <3>1, <1>t
      <3>2. CASE finished' = TRUE
        BY <3>2
      <3> QED BY <2>1, <3>1, <3>2
    <2>5. finished' => finished \/ exit_code = "0"
      BY <2>1
    <2> QED BY <1>t, <1>w, <2>1, <2>2, <2>3, <2>4, <2>5, KeptInv
  <1>4. CASE (\E w \in DOMAIN watchers : Rearm(w)) \/ ListenerRearms
    <2>1. /\ UNCHANGED <<vars, alive, child, page, finished, quit_prompt_pending>>
          /\ quit_confirmed' \in BOOLEAN
          /\ listener' \in {"reading", "rearming", "done"}
      BY <1>4, <1>t DEF Rearm, ListenerRearms
    <2>2. BackendKept
      BY <2>1, PipesKept
    <2>3. UNCHANGED eof
      BY <2>1 DEF vars, pipes
    <2> QED BY <1>t, <1>w, <2>1, <2>2, <2>3, KeptInv
  <1>5. CASE HearLine
    <2>1. /\ UNCHANGED <<loop, web, closing, reader, heard, core, paper, verdict,
                   exit_code, inbox, eof, alive, child, finished,
                   quit_confirmed, quit_prompt_pending>>
          /\ out # <<>> /\ out' = Tail(out)
          /\ listener' \in {"reading", "rearming", "done"}
          /\ page' = page \/ (page' = "product" /\ Head(out) = "ready")
      BY <1>5, <1>t DEF HearLine
    <2>2. /\ out' \in Seq({"ready", "close_blocked"})
          /\ Head(out) = out[1] /\ 1 \in DOMAIN out
          /\ \A i \in DOMAIN out' : i + 1 \in DOMAIN out /\ out'[i] = out[i + 1]
      BY <2>1, <1>t
    <2>3. Shown' => Shown
      BY <2>1, <2>2 DEF Shown
    <2>4. BackendKept
      BY <2>1, <2>2, <2>3, <1>t DEF BackendKept
    <2> QED BY <1>t, <1>w, <2>1, <2>4, KeptInv
  <1>6. CASE HearEnd
    <2>1. /\ UNCHANGED <<vars, alive, child, finished, quit_confirmed, quit_prompt_pending>>
          /\ page' = page \/ (page' = "error" /\ exit_code # "none")
          /\ listener' \in {"reading", "rearming", "done"}
      BY <1>6 DEF HearEnd, flags
    <2>2. BackendKept
      BY <2>1, PipesKept
    <2>3. UNCHANGED eof
      BY <2>1 DEF vars, pipes
    <2> QED BY <1>t, <1>w, <2>1, <2>2, <2>3, KeptInv
  <1>7. CASE \E crash \in BOOLEAN : CloseWindow(crash)
    <2>1. /\ UNCHANGED <<loop, web, closing, reader, heard, core, paper, verdict,
                   exit_code, inbox, child, page>>
          /\ alive' = FALSE /\ eof' = TRUE /\ out' = <<>> /\ finished' = FALSE
          /\ quit_confirmed' = FALSE
          /\ quit_prompt_pending' = FALSE
          /\ listener' = "done"
      BY <1>7 DEF CloseWindow
    <2>2. BackendKept
      BY <2>1, <1>t, EmptySeq DEF BackendKept, Shown
    <2>3. /\ alive' \in BOOLEAN /\ eof' \in BOOLEAN /\ finished' \in BOOLEAN
          /\ quit_confirmed' \in BOOLEAN /\ quit_prompt_pending' \in BOOLEAN
      BY <2>1
    <2>4. ~alive' /\ ~finished' /\ UNCHANGED page /\ eof' /\ listener' = "done"
      BY <2>1
    <2> QED BY <1>t, <1>w, <2>2, <2>3, <2>4, KeptInv
  <1>8. CASE AllDone
    <2>1. /\ UNCHANGED <<vars, alive, child, page, finished, quit_confirmed,
                         quit_prompt_pending, listener>>
      BY <1>8 DEF AllDone, desktop, shell, flags
    <2>2. BackendKept
      BY <2>1, PipesKept
    <2>3. UNCHANGED eof
      BY <2>1 DEF vars, pipes
    <2> QED BY <1>t, <1>w, <2>1, <2>2, <2>3, KeptInv
  <1> QED
    BY <1>1, <1>2, <1>3, <1>4, <1>5, <1>6, <1>7, <1>8 DEF Next, Listen, Watch
-----------------------------------------------------------------------------
\* Every step of the backend, its surroundings and the window.
LEMMA DesktopStep ==
    ASSUME DesktopInv, WindowInv, [Next]_desktop
    PROVE  DesktopInv'
  <1>1. CASE UNCHANGED desktop
    BY <1>1 DEF desktop, vars, loop, web, closing, pipes, shell, flags, DesktopInv,
                ShellTypeOK, TypeOK, TasksInv, OneDrain, StartInv, ServerInv,
                SettleInv, OwnerInv, Shown, Settled
  <1>2. CASE BackendStep
    <2>1. UNCHANGED shell /\ (Backend \/ Surroundings)
      BY <1>2 DEF BackendStep
    <2>2. CASE Surroundings
      BY <2>1, <2>2, SurroundingsStep DEF Surroundings
    <2>3. CASE Main
      BY <2>1, <2>3, BootStep, BecomeReadyStep, LeaveStartingStep, LeaveReadyStep,
         StopPaperStep, AwaitServerStep, ReapCoreStep, FallBackStep,
         EndProcessStep DEF Main
    <2>4. CASE ParentMessage \/ ServerStarts \/ ServerStops
      BY <2>1, <2>4, ParentMessageStep, ServerStartsStep, ServerStopsStep
    <2>5. ASSUME NEW i \in DOMAIN exits, ExitStep(i)
          PROVE  DesktopInv'
      BY <2>1, <2>5, StartExitStep, AskQuiesceStep, DrainTimesOutStep,
         ExitStopsPaperStep, FinishExitStep DEF ExitStep
    <2> QED BY <2>1, <2>2, <2>3, <2>4, <2>5 DEF Backend
  <1>3. CASE Next /\ ~BackendStep
    BY <1>3, WindowActs
  <1> QED BY <1>1, <1>2, <1>3

LEMMA DesktopStarts == ShellInit => DesktopInv
  <1> SUFFICES ASSUME ShellInit PROVE DesktopInv
    OBVIOUS
  <1>1. /\ core \in Cores /\ core.state = "none" /\ ~core.quiescing
        /\ paper \in Papers /\ ~paper.closing /\ ~paper.live
    BY DEF ShellInit, Init, NewCore, NewPaper, Cores, Papers
  <1>2. ShellTypeOK
    BY <1>1, EmptySeq DEF ShellInit, Init, ShellTypeOK, TypeOK, Cores, Papers
  <1>3. TasksInv /\ OneDrain /\ ServerInv /\ OwnerInv
    BY DEF ShellInit, Init, TasksInv, OneDrain, ServerInv, OwnerInv
  <1>4. StartInv /\ SettleInv
    BY <1>1 DEF ShellInit, Init, StartInv, SettleInv, Shown
  <1> QED BY <1>2, <1>3, <1>4 DEF DesktopInv

\* Both invariants hold of every behaviour.
LEMMA SessionInvariant == Spec => [](DesktopInv /\ WindowInv)
  <1>1. DesktopInv /\ WindowInv /\ [Next]_desktop => (DesktopInv /\ WindowInv)'
    BY DesktopStep, WindowStep
  <1> QED BY DesktopStarts, WindowInit, <1>1, PTL DEF Spec

\* What the user may rely on when a session closes (desktop.py, the receipt and
\* the exit code; main.rs, finished): the receipt is proven, the window goes only
\* from a settled session, one drain runs at a time, and only a request quiesces
\* the core.
THEOREM SessionIsSafe == Spec => []DesktopSafe
  <1>1. DesktopInv => DesktopSafe
    <2> SUFFICES ASSUME DesktopInv PROVE DesktopSafe
      OBVIOUS
    <2>1. ClosedIsProven /\ OnlyARequestQuiesces
      BY DEF DesktopInv, SettleInv, Settled, ClosedIsProven, OnlyARequestQuiesces
    <2>2. FinishedIsSettled
      <3> SUFFICES ASSUME finished, child, page = "product"
                   PROVE  exit_code = "0" /\ Settled /\ ~paper.live
        BY DEF FinishedIsSettled, Settled
      <3>1. exit_code = "0" /\ "eof" \notin heard
        BY DEF DesktopInv, OwnerInv
      <3> QED BY <3>1 DEF DesktopInv, SettleInv, Shown
    <2> QED BY <2>1, <2>2 DEF DesktopInv, DesktopSafe
  <1> QED BY SessionInvariant, <1>1, PTL

\* A session moves to the default workspace only when the selected one's core is
\* gone, nothing was shown and nothing was read of stdin (desktop.py, session).
THEOREM SessionFallsBackFresh == Spec => FallbackIsFresh
  <1>1. ASSUME DesktopInv, [Next]_desktop
        PROVE  [root' # root => /\ core.state # "up" /\ exits = <<>> /\ heard = {}
                                /\ "ready" \notin ToSet(out)
                                /\ page = "loading"]_desktop
    <2> SUFFICES ASSUME Next, root' # root
                 PROVE  /\ core.state # "up" /\ exits = <<>> /\ heard = {}
                        /\ "ready" \notin ToSet(out) /\ page = "loading"
      BY <1>1 DEF desktop, vars, loop
    <2>1. BackendStep
      BY DEF Next, User, RequestExit, OpenPrompt, CancelPrompt, ApprovePrompt, Listen,
             HearLine, ListenerRearms, HearEnd, Watch, AskShutdown, PollBackend,
             Rearm, CloseWindow, AllDone, desktop, vars, loop
    <2>2. FallBack /\ child
      <3>1. ~Surroundings
        BY DEF Surroundings, SubmitResearch, ResearchSettles, CoreDies, StartPaper,
               loop
      <3>2. \A i \in DOMAIN exits : ~ExitStep(i)
        BY DEF ExitStep, StartExit, AskQuiesce, DrainTimesOut, ExitStopsPaper,
               FinishExit, loop
      <3>3. ~ParentMessage /\ ~ServerStarts /\ ~ServerStops
        BY DEF ParentMessage, ServerStarts, ServerStops, loop
      <3>4. Main
        BY <2>1, <3>1, <3>2, <3>3 DEF BackendStep, Backend
      <3> QED BY <2>1, <3>4 DEF BackendStep, Main, OpenWorkspace, OpenFails,
              CoreAnswers, BootFails, LeaveStarting, Unwind, BecomeReady, LeaveReady,
              StopPaper, AwaitServer, ReapCore, ReapFails, EndProcess
    <2>3. /\ at = "over" /\ ~startup_finished
      BY <2>2 DEF FallBack, MayFallBack
    <2>4. /\ core.state # "up" /\ exits = <<>> /\ heard = {} /\ ~Shown
          /\ page # "error"
      BY <1>1, <2>2, <2>3 DEF DesktopInv, StartInv
    <2>5. page = "loading" /\ out \in Seq({"ready", "close_blocked"})
      BY <1>1, <2>4 DEF DesktopInv, ShellTypeOK, TypeOK, Shown
    <2>6. "ready" \notin ToSet(out)
      BY <2>4, <2>5 DEF ToSet, Shown
    <2> QED BY <2>4, <2>5, <2>6
  <1> QED BY SessionInvariant, <1>1, PTL DEF Spec, FallbackIsFresh
-----------------------------------------------------------------------------
(***************************************************************************)
(* The components side by side.                                            *)
(***************************************************************************)
\* A behaviour of the composition is one of each component.
LEMMA ComponentsRun == ControlSpec => CoreSpec /\ GuardSpec /\ Spec
  <1>1. ControlInit => CoreInit /\ GuardInit /\ ShellInit
    BY DEF ControlInit
  <1>2. [ControlNext]_controlVars =>
          [CoreNext]_coreVars /\ [GuardNext]_guardVars /\ [Next]_desktop
    <2>1. CASE UNCHANGED controlVars
      BY <2>1 DEF controlVars
    <2>2. CASE ControlNext
      BY <2>2 DEF ControlNext, CoreMoves, GuardMoves, DesktopMoves, GuardIsDone,
                  controlVars
    <2> QED BY <2>1, <2>2
  <1> QED BY <1>1, <1>2, PTL DEF ControlSpec, CoreSpec, GuardSpec, Spec

\* What no step does: kill a group whose leader runs before its grace is over
\* (supervise.rs, poll), or leave a workspace once anything was read or shown
\* (desktop.py, session).
THEOREM ControlKeepsSteps == ControlSpec => ControlSteps
  BY ComponentsRun, GraceIsKept, SessionFallsBackFresh, PTL DEF ControlSteps

\* The composition keeps the state properties of each of its components, and its
\* event loop implements the slot ledger.
THEOREM ControlIsSafe ==
    ControlSpec =>
      /\ [](CoreSafe /\ DesktopSafe /\ NoOrphanExit /\ StoppedIsAbsent)
      /\ ImplementsLedger
  BY ComponentsRun, CoreIsSafe, CoreImplementsLedger, SessionIsSafe,
     ExitIsNeverOrphaned, StoppedMeansAbsent, PTL
=============================================================================
