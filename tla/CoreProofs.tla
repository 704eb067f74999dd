----------------------------- MODULE CoreProofs ------------------------------
(***************************************************************************)
(* Proofs about the core's event loop for every set of experiments,        *)
(* machines, faults and requests.  A handler touches one key (Handles); the *)
(* invariant is a conjunction over keys, so it is enough that the handler   *)
(* keeps the invariant of its own key (Lemma HandlerPreserves), and what a  *)
(* handler leaves of an owned run's row is an overwrite in the sense of     *)
(* AttemptProofs (Lemma KeyPreserved).                                     *)
(***************************************************************************)
EXTENDS QuineCore, AttemptProofs

\* What a step that concerns key k only may touch.
Handles(k) ==
    /\ UNCHANGED <<coreState, context, world>>
    /\ quiescing' \in BOOLEAN /\ admitted' \subseteq Keys
    /\ barriers' \in {barriers, barriers \cup {k}}
    /\ \E row \in Row : rows' = [rows EXCEPT ![k] = row]
    /\ \E run \in Run : runs' = [runs EXCEPT ![k] = run]
    /\ \E g \in Machines \cup {None} : groups' = [groups EXCEPT ![k] = g]
    /\ \E n \in Nat : launches' = [launches EXCEPT ![k] = n]
    /\ \E p \in {"no", "partial", "complete"} :
         official' = [official EXCEPT ![k] = p]

\* A step of a run writes over its row and leaves the barriers alone.
WritesOver(k) ==
    /\ Handles(k) /\ barriers' = barriers
    /\ Overwrites(rows[k], rows'[k], k \in barriers, boots)
-----------------------------------------------------------------------------
\* The types of what the core knows of one key, and of where it stands.
LEMMA KeyFacts ==
    ASSUME CoreInv, NEW k \in Keys
    PROVE  /\ rows[k] \in Row /\ runs[k] \in Run
           /\ groups[k] \in Machines \cup {None} /\ launches[k] \in Nat
           /\ official[k] \in {"no", "partial", "complete"}
           /\ KeyInv(k) /\ RowInv(rows[k], boots)
           /\ boots \in [Machines -> Nat]
           /\ context \in RecoveryContext \cup {None} /\ HostNow(context, boots)
           /\ place.machine \in Machines
  BY DEF CoreInv, CoreTypeOK, KeyInv, ContextIsHost, HostContext, HostNow, Place

\* What a step of key k leaves, key by key.
LEMMA HandledKeys ==
    ASSUME CoreInv, NEW k \in Keys, Handles(k)
    PROVE  /\ CoreTypeOK'
           /\ rows'[k] \in Row /\ runs'[k] \in Run
           /\ groups'[k] \in Machines \cup {None} /\ launches'[k] \in Nat
           /\ \A j \in Keys : j # k =>
                /\ rows'[j] = rows[j] /\ runs'[j] = runs[j]
                /\ groups'[j] = groups[j] /\ launches'[j] = launches[j]
                /\ official'[j] = official[j]
                /\ j \in barriers' <=> j \in barriers
  <1>1. CoreTypeOK
    BY DEF CoreInv
  <1>2. /\ rows' \in [Keys -> Row] /\ rows'[k] \in Row
        /\ \A j \in Keys : j # k => rows'[j] = rows[j]
    BY <1>1 DEF CoreTypeOK, Handles
  <1>3. /\ runs' \in [Keys -> Run] /\ runs'[k] \in Run
        /\ \A j \in Keys : j # k => runs'[j] = runs[j]
    BY <1>1 DEF CoreTypeOK, Handles
  <1>4. /\ groups' \in [Keys -> Machines \cup {None}]
        /\ groups'[k] \in Machines \cup {None}
        /\ \A j \in Keys : j # k => groups'[j] = groups[j]
    BY <1>1 DEF CoreTypeOK, Handles
  <1>5. /\ launches' \in [Keys -> Nat] /\ launches'[k] \in Nat
        /\ \A j \in Keys : j # k => launches'[j] = launches[j]
    BY <1>1 DEF CoreTypeOK, Handles
  <1>6. /\ official' \in [Keys -> {"no", "partial", "complete"}]
        /\ \A j \in Keys : j # k => official'[j] = official[j]
    BY <1>1 DEF CoreTypeOK, Handles
  <1>7. /\ barriers' \subseteq Keys
        /\ \A j \in Keys : j # k => (j \in barriers' <=> j \in barriers)
    BY <1>1 DEF CoreTypeOK, Handles
  <1>8. CoreTypeOK'
    BY <1>1, <1>2, <1>3, <1>4, <1>5, <1>6, <1>7 DEF CoreTypeOK, Handles, world
  <1> QED
    BY <1>2, <1>3, <1>4, <1>5, <1>6, <1>7, <1>8

\* A step of key k that takes no other's slot and keeps the invariant of k keeps
\* the whole invariant; after a clean exit it leaves what has ended alone.
LEMMA HandlerPreserves ==
    ASSUME CoreInv, NEW k \in Keys, Handles(k), KeyInv(k)',
           rows'[k].active => rows[k].active \/ SlotFree(rows),
           \/ coreState # "drained"
           \/ /\ admitted' = admitted /\ groups' = groups
              /\ is_terminal(rows[k].status) => rows'[k] = rows[k]
    PROVE  CoreInv'
  <1>1. /\ CoreTypeOK'
        /\ \A j \in Keys : j # k =>
             /\ rows'[j] = rows[j] /\ runs'[j] = runs[j]
             /\ groups'[j] = groups[j] /\ launches'[j] = launches[j]
             /\ official'[j] = official[j]
             /\ j \in barriers' <=> j \in barriers
    BY HandledKeys
  <1>2. /\ coreState' = coreState /\ context' = context
        /\ place' = place /\ boots' = boots
    BY DEF Handles, world
  <1>3. OneActive'
    BY <1>1 DEF CoreInv, OneActive, SlotFree
  <1>4. ContextIsHost'
    BY <1>2 DEF CoreInv, ContextIsHost, Serving, HostContext
  <1>5. ASSUME NEW j \in Keys
        PROVE  KeyInv(j)'
    <2>1. CASE j = k
      BY <2>1
    <2>2. CASE j # k
      <3>1. KeyInv(j)
        BY DEF CoreInv
      <3>2. HasRun(j) = HasRun(j)' /\ Serving' = Serving
        BY <1>1, <1>2, <2>2 DEF HasRun, Serving
      <3>3. RunIsOwned(j) => RunIsOwned(j)'
        BY <1>1, <1>2, <2>2, <3>2 DEF RunIsOwned
      <3>4. ComputeIsRecorded(j) => ComputeIsRecorded(j)'
        BY <1>1, <1>2, <2>2 DEF ComputeIsRecorded
      <3> QED
        BY <1>1, <1>2, <2>2, <3>1, <3>2, <3>3, <3>4 DEF KeyInv
    <2> QED
      BY <2>1, <2>2
  <1>6. CleanExit'
    <2>1. CASE coreState # "drained"
      BY <1>2, <2>1 DEF CleanExit
    <2>2. CASE coreState = "drained"
      <3>1. ASSUME NEW j \in Keys, is_terminal(rows[j].status)
            PROVE  rows'[j] = rows[j]
        BY <1>1, <2>2, <3>1
      <3>2. admitted' = admitted /\ groups' = groups /\ admitted \subseteq Keys
        BY <2>2 DEF CoreInv, CoreTypeOK
      <3> QED
        BY <1>2, <2>2, <3>1, <3>2 DEF CoreInv, CleanExit, is_terminal
    <2> QED
      BY <2>1, <2>2
  <1> QED
    BY <1>1, <1>3, <1>4, <1>5, <1>6 DEF CoreInv

\* A row that was not fresh is not fresh after an overwrite, and while it holds
\* the slot it has not ended.
LEMMA KeyPreserved ==
    ASSUME CoreInv, NEW k \in Keys, Handles(k),
           Overwrites(rows[k], rows'[k], k \in barriers', boots),
           groups'[k] # None =>
             /\ rows'[k].active
             /\ groups'[k] = groups[k] \/ (HasRun(k) /\ groups'[k] = place.machine),
           HasRun(k)' =>
             /\ HasRun(k)
             /\ runs'[k].stopped => groups'[k] = None
             /\ runs'[k].phase = "committing" => runs'[k].stopped
             /\ runs'[k].phase # "idle" => rows'[k].active,
           launches'[k] <= 1, launches'[k] = launches[k] \/ HasRun(k),
           runs'[k].phase = "freeze" => launches'[k] = 0,
           rows'[k].status = "succeeded" => official'[k] = "complete"
    PROVE  KeyInv(k)'
  <1> DEFINE row == rows[k]
             new == rows'[k]
  <1>1. /\ row \in Row /\ runs[k] \in Run /\ groups[k] \in Machines \cup {None}
        /\ launches[k] \in Nat /\ KeyInv(k) /\ RowInv(row, boots)
        /\ boots \in [Machines -> Nat]
        /\ context \in RecoveryContext \cup {None}
        /\ place.machine \in Machines
    BY KeyFacts
  <1>2. /\ coreState' = coreState /\ context' = context
        /\ place' = place /\ boots' = boots
    BY DEF Handles, world
  <1>3. /\ new \in Row /\ RowInv(new, boots)
        /\ (new.status = "absent") = (row.status = "absent")
        /\ new.status = "eligible" => new = row
        /\ row.status # "eligible" => new.origin = row.origin
        /\ new.status \in {"succeeded", "failed"} => k \notin barriers'
        /\ new.status \in {"stopping", "cancelled"} => k \in barriers'
        /\ new.active => row.active
    BY DEF Overwrites
  <1>4. HasRun(k) => /\ Serving /\ row.status \notin {"absent", "eligible"}
                     /\ row.origin = context
    BY <1>1 DEF KeyInv, RunIsOwned
  <1>5. ContextIsHost
    BY DEF CoreInv
  <1> HIDE DEF row, new
  <1>6. groups'[k] # None => ComputeIsRecorded(k)'
    <2> SUFFICES ASSUME groups'[k] # None
                 PROVE  ComputeIsRecorded(k)'
      OBVIOUS
    <2>1. new.active /\ row.active
      BY <1>3 DEF new
    <2>2. CASE groups'[k] = groups[k]
      <3>1. /\ row.status # "eligible"
            /\ row.origin # None => /\ groups[k] = row.origin.machine
                                    /\ boots[row.origin.machine] = row.origin.boot
        BY <1>1, <2>2 DEF KeyInv, ComputeIsRecorded, row
      <3>2. new.status # "eligible" /\ new.origin = row.origin
        BY <1>3, <3>1
      <3> QED
        BY <1>2, <2>1, <2>2, <3>1, <3>2 DEF ComputeIsRecorded, new
    <2>3. CASE HasRun(k) /\ groups'[k] = place.machine
      <3>1. new.status # "eligible" /\ new.origin = context
        BY <1>3, <1>4, <2>3
      <3>2. context # None => /\ context.machine = place.machine
                              /\ context.boot = boots[place.machine]
        BY <1>5 DEF ContextIsHost, HostContext
      <3> QED
        BY <1>2, <2>1, <2>3, <3>1, <3>2 DEF ComputeIsRecorded, new
    <2> QED
      BY <2>2, <2>3
  <1>7. HasRun(k)' => RunIsOwned(k)'
    <2> SUFFICES ASSUME HasRun(k)'
                 PROVE  RunIsOwned(k)'
      OBVIOUS
    <2>1. HasRun(k)
      OBVIOUS
    <2>2. /\ Serving' /\ new.status \notin {"absent", "eligible"}
          /\ new.origin = context'
      BY <1>2, <1>3, <1>4, <2>1 DEF Serving
    <2> QED
      BY <2>2 DEF RunIsOwned, new
  <1>8. \/ new.status \in {"absent", "eligible"}
        \/ runs'[k].phase = "freeze"
        => launches'[k] = 0
    <2>1. new.status \in {"absent", "eligible"} =>
            row.status \in {"absent", "eligible"}
      BY <1>3
    <2> QED
      BY <1>1, <1>4, <2>1 DEF KeyInv, row
  <1> QED
    BY <1>2, <1>3, <1>6, <1>7, <1>8 DEF KeyInv, new
-----------------------------------------------------------------------------
(* What the ticks write.                                                   *)

\* A write of one key that leaves the key as it is.
LEMMA SameKey ==
    ASSUME CoreInv, NEW k \in Keys
    PROVE  /\ rows = [rows EXCEPT ![k] = rows[k]]
           /\ runs = [runs EXCEPT ![k] = runs[k]]
           /\ groups = [groups EXCEPT ![k] = groups[k]]
           /\ launches = [launches EXCEPT ![k] = launches[k]]
           /\ official = [official EXCEPT ![k] = official[k]]
  BY DEF CoreInv, CoreTypeOK

\* The record of a key agrees with its barrier, and an open one holds the slot.
LEMMA RowFacts ==
    ASSUME CoreInv, NEW k \in Keys
    PROVE  /\ rows[k].status \in {"succeeded", "failed"} => k \notin barriers
           /\ rows[k].status \in {"stopping", "cancelled"} => k \in barriers
           /\ rows[k].active => rows[k].status \in Held /\ rows[k].release = None
           /\ rows[k].status \in {"dispatched", "running", "stopping"} =>
                rows[k].active
  BY KeyFacts DEF KeyInv, RowInv, RowCheck, Held, Final, NoRow

\* Leaving the row of a key alone is an overwrite.
LEMMA KeepOverwrites ==
    ASSUME CoreInv, NEW k \in Keys
    PROVE  Overwrites(rows[k], rows[k], k \in barriers, boots)
  BY KeyFacts, RowFacts DEF Overwrites

\* mark_running and mark_unknown, whether or not the write is known to arrive.
LEMMA MarkOverwrites ==
    ASSUME CoreInv, NEW k \in Keys, rows[k].status \in {"dispatched", "running"},
           NEW to \in {"running", "unknown"}, NEW o
    PROVE  LET new == After(o, rows[k], Moved(rows[k], to, TRUE)) IN
           /\ Overwrites(rows[k], new, k \in barriers, boots)
           /\ new.active /\ new.status # "succeeded"
  <1> DEFINE row == rows[k]
             moved == Moved(row, to, TRUE)
             barred == k \in barriers
  <1>1. row \in Row /\ RowInv(row, boots) /\ barred \in BOOLEAN
    BY KeyFacts
  <1>2. row.active /\ row.status \in {"dispatched", "running", "stopping"}
    BY RowFacts
  <1>3. moved.active /\ moved.status # "succeeded"
    BY DEF Moved
  <1>4. Overwrites(row, row, barred, boots)
    BY KeepOverwrites
  <1> HIDE DEF row, barred
  <1>5. Overwrites(row, moved, barred, boots)
    BY <1>1, <1>2, GoodAdvance DEF GoodWrite
  <1>6. After(o, row, moved) \in {row, moved}
    BY DEF After
  <1> HIDE DEF moved
  <1>7. LET new == After(o, row, moved) IN
          /\ Overwrites(row, new, barred, boots)
          /\ new.active /\ new.status # "succeeded"
    BY <1>2, <1>3, <1>4, <1>5, <1>6
  <1> QED
    BY <1>7 DEF row, moved, barred

\* settle_cancelled: a stopping row is cancelled, under its barrier.
LEMMA SettleOverwrites ==
    ASSUME CoreInv, NEW k \in Keys, NEW row \in Row, RowInv(row, boots),
           row.status = "stopping", k \in barriers, NEW o
    PROVE  LET new == After(o, row, SettleCancelledRow(row)) IN
           /\ Overwrites(row, new, k \in barriers, boots)
           /\ new.status \in {"stopping", "cancelled"}
  <1> DEFINE settled == SettleCancelledRow(row)
  <1>1. Overwrites(row, settled, TRUE, boots)
    BY GoodSettle DEF GoodWrite
  <1>2. Overwrites(row, row, TRUE, boots)
    BY DEF Overwrites
  <1>3. After(o, row, settled) \in {row, settled}
    BY DEF After
  <1>4. settled.status = "cancelled"
    BY DEF SettleCancelledRow, Moved
  <1>5. (k \in barriers) = TRUE
    OBVIOUS
  <1> HIDE DEF settled
  <1>6. LET new == After(o, row, settled) IN
          /\ Overwrites(row, new, k \in barriers, boots)
          /\ new.status \in {"stopping", "cancelled"}
    BY <1>1, <1>2, <1>3, <1>4, <1>5
  <1> QED
    BY <1>6 DEF settled

\* commit_result under the fence just read.
LEMMA CommitOverwrites ==
    ASSUME CoreInv, NEW k \in Keys, NEW row \in Row, RowInv(row, boots),
           row.status \in {"succeeded", "failed"} => k \notin barriers,
           row.status \in {"stopping", "cancelled"} => k \in barriers,
           NEW s, s.attempt = k, s.binding = row.binding, s.fence = row.revision,
           s.outcome \in {"succeeded", "failed"}, s.result \in Results,
           s = [attempt |-> s.attempt, binding |-> s.binding, fence |-> s.fence,
                outcome |-> s.outcome, result |-> s.result],
           CommitReply(k, row, k \in barriers, s) = "ok", NEW o
    PROVE  LET new == After(o, row, CommitRow(row, s)) IN
           /\ Overwrites(row, new, k \in barriers, boots)
           /\ new.status \in {row.status, s.outcome}
           /\ row.status \notin {"succeeded", "failed"} =>
                /\ k \notin barriers /\ row.status \in {"dispatched", "running"}
  <1> DEFINE barred == k \in barriers
             committed == CommitRow(row, s)
  <1>1. /\ barred \in BOOLEAN /\ CommitReply(k, row, barred, s) = "ok"
        /\ row.status \in {"succeeded", "failed"} => ~barred
        /\ row.status \in {"stopping", "cancelled"} => barred
    OBVIOUS
  <1> HIDE DEF barred
  <1>2. row.status # "absent"
    BY <1>1 DEF CommitReply
  <1>3. row.binding \in Bindings /\ row.revision \in Nat
    BY <1>2 DEF RowInv, Row
  <1>4. s \in Submission
    BY <1>3 DEF Submission
  <1>5. Overwrites(row, committed, barred, boots)
    BY <1>1, <1>4, GoodCommit DEF GoodWrite
  <1>6. Overwrites(row, row, barred, boots)
    BY <1>1 DEF Overwrites
  <1>7. committed.status \in {row.status, s.outcome}
    BY DEF CommitRow, Moved
  <1>8. row.status \notin {"succeeded", "failed"} =>
          ~barred /\ row.status \in {"dispatched", "running"}
    BY <1>1, <1>2 DEF CommitReply, SameIdentity
  <1>9. After(o, row, committed) \in {row, committed}
    BY DEF After
  <1> HIDE DEF committed
  <1>10. LET new == After(o, row, committed) IN
           /\ Overwrites(row, new, barred, boots)
           /\ new.status \in {row.status, s.outcome}
    BY <1>5, <1>6, <1>7, <1>9
  <1> QED
    BY <1>8, <1>10 DEF barred, committed

\* record_failure never registers a success.
LEMMA FailureOverwrites ==
    ASSUME CoreInv, NEW k \in Keys, NEW row \in Row, RowInv(row, boots),
           row.status \in {"succeeded", "failed"} => k \notin barriers,
           row.status \in {"stopping", "cancelled"} => k \in barriers, NEW o
    PROVE  /\ Overwrites(row, FailureRow(k, row, o), k \in barriers, boots)
           /\ FailureRow(k, row, o).status \in {row.status, "failed", "cancelled"}
  <1> DEFINE s == FailureSubmission(k, row)
  <1>1. CASE row.status = "stopping"
    <2>1. FailureRow(k, row, o) = After(o, row, SettleCancelledRow(row))
      BY <1>1 DEF FailureRow
    <2>2. k \in barriers
      BY <1>1
    <2> QED
      BY <1>1, <2>1, <2>2, SettleOverwrites
  <1>2. Overwrites(row, row, k \in barriers, boots)
    BY DEF Overwrites
  <1>3. CASE row.status # "stopping" /\ row.status # "unknown"
             /\ CommitReply(k, row, k \in barriers, s) = "ok"
    <2>1. FailureRow(k, row, o) = After(o, row, CommitRow(row, s))
      BY <1>3 DEF FailureRow
    <2>2. /\ s.attempt = k /\ s.binding = row.binding /\ s.fence = row.revision
          /\ s.outcome = "failed" /\ s.result \in Results
          /\ s = [attempt |-> s.attempt, binding |-> s.binding, fence |-> s.fence,
                  outcome |-> s.outcome, result |-> s.result]
      BY CoreConstants DEF FailureSubmission
    <2>3. CommitReply(k, row, k \in barriers, s) = "ok"
      BY <1>3
    <2> HIDE DEF s
    <2>4. /\ Overwrites(row, After(o, row, CommitRow(row, s)), k \in barriers, boots)
          /\ After(o, row, CommitRow(row, s)).status \in {row.status, s.outcome}
      BY <2>2, <2>3, CommitOverwrites
    <2> QED
      BY <2>1, <2>2, <2>4
  <1>4. CASE ~(row.status = "stopping")
             /\ ~(row.status # "stopping" /\ row.status # "unknown"
                  /\ CommitReply(k, row, k \in barriers, s) = "ok")
    <2>1. FailureRow(k, row, o) = row
      BY <1>4 DEF FailureRow
    <2> QED
      BY <1>2, <2>1
  <1> QED
    BY <1>1, <1>3, <1>4
-----------------------------------------------------------------------------
(* The tick of an owned run, write by write.                               *)

\* What a tick has to show for itself: it overwrites the row, a group it leaves
\* is under the slot, a run it calls stopped has none, and only a published
\* success is registered.
LEMMA TickKeeps ==
    ASSUME CoreInv, NEW k \in Keys, HasRun(k), UNCHANGED <<process, world, barriers>>,
           NEW new, SetRow(k, new), Overwrites(rows[k], new, k \in barriers, boots),
           NEW run \in Run, SetRun(k, run),
           NEW g \in {groups[k], place.machine}, groups' = [groups EXCEPT ![k] = g],
           NEW n \in Nat, launches' = [launches EXCEPT ![k] = n], n <= 1,
           NEW p \in {"no", "partial", "complete"},
           official' = [official EXCEPT ![k] = p],
           g # None => new.active,
           run.stopped => g = None,
           run.phase = "committing" => run.stopped,
           run.phase # "idle" => new.active,
           run.phase = "freeze" => n = 0,
           new.status = "succeeded" => p = "complete"
    PROVE  CoreInv' /\ WritesOver(k)
  <1>1. /\ groups[k] \in Machines \cup {None} /\ place.machine \in Machines
        /\ KeyInv(k)
    BY KeyFacts
  <1>2. Serving
    BY <1>1 DEF KeyInv, RunIsOwned
  <1>3. new \in Row /\ (new.active => rows[k].active)
    BY DEF Overwrites
  <1>4. Handles(k)
    <2>1. quiescing' \in BOOLEAN /\ admitted' \subseteq Keys
      BY DEF CoreInv, CoreTypeOK, process
    <2>2. g \in Machines \cup {None}
      BY <1>1
    <2> QED
      BY <1>3, <2>1, <2>2 DEF Handles, SetRow, SetRun, process
  <1>5. /\ rows'[k] = new /\ runs'[k] = run /\ groups'[k] = g
        /\ launches'[k] = n /\ official'[k] = p
    BY DEF SetRow, SetRun, CoreInv, CoreTypeOK
  <1>6. KeyInv(k)'
    <2>1. Overwrites(rows[k], rows'[k], k \in barriers', boots)
      BY <1>5
    <2> QED
      BY <1>4, <1>5, <2>1, KeyPreserved
  <1>7. CoreInv'
    BY <1>2, <1>3, <1>4, <1>5, <1>6, HandlerPreserves DEF Serving
  <1> QED
    BY <1>4, <1>5, <1>7 DEF WritesOver

\* What an owned run's key is before a tick settles it.
LEMMA OwnedRun ==
    ASSUME CoreInv, NEW k \in Keys, HasRun(k)
    PROVE  /\ runs[k].stopped => groups[k] = None
           /\ runs[k].phase = "committing" => runs[k].stopped
           /\ runs[k].phase # "idle" =>
                rows[k].active /\ rows[k].status # "succeeded"
           /\ runs[k].phase = "freeze" => launches[k] = 0
           /\ launches[k] <= 1
           /\ rows[k].status \notin {"absent", "eligible"}
           /\ rows[k].status = "succeeded" => official[k] = "complete"
  BY KeyFacts, RowFacts DEF KeyInv, RunIsOwned, Held

\* A tick that ends idle, with the group proven gone, needs only its write.
LEMMA IdleKeeps ==
    ASSUME CoreInv, NEW k \in Keys, HasRun(k), groups[k] = None,
           UNCHANGED <<process, world, barriers, groups, launches>>,
           NEW new, SetRow(k, new), Overwrites(rows[k], new, k \in barriers, boots),
           NEW run \in Run, SetRun(k, run), run.phase = "idle",
           NEW p \in {"no", "partial", "complete"},
           official' = [official EXCEPT ![k] = p],
           new.status = "succeeded" => p = "complete"
    PROVE  CoreInv' /\ WritesOver(k)
  <1>1. /\ groups' = [groups EXCEPT ![k] = None]
        /\ launches' = [launches EXCEPT ![k] = launches[k]]
        /\ launches[k] \in Nat /\ launches[k] <= 1 /\ None \in {groups[k], place.machine}
    BY SameKey, KeyFacts, OwnedRun
  <1> QED
    BY <1>1, TickKeeps

\* settle_cancelled: every outcome of its write and of its readback.
LEMMA SettleCancelledKeeps ==
    ASSUME CoreInv, NEW k \in Keys, HasRun(k), groups[k] = None,
           NEW run \in Run, NEW F, settle_cancelled(k, run, F),
           UNCHANGED <<process, world, barriers, groups, launches>>,
           NEW p \in {"no", "partial", "complete"},
           official' = [official EXCEPT ![k] = p],
           rows[k].status = "succeeded" => p = "complete"
    PROVE  CoreInv' /\ WritesOver(k)
  <1> DEFINE row == rows[k]
             idle == [run EXCEPT !.phase = "idle"]
             cleared == [idle EXCEPT !.stop = FALSE, !.aborted = FALSE]
             after(o) == IF row.status = "stopping"
                         THEN After(o, row, SettleCancelledRow(row)) ELSE row
  <1>1. /\ idle \in Run /\ cleared \in Run
        /\ idle.phase = "idle" /\ cleared.phase = "idle"
    BY DEF Run
  <1>2. Overwrites(row, row, k \in barriers, boots) /\ row \in Row
        /\ RowInv(row, boots)
    BY KeepOverwrites, KeyFacts
  <1>3. ASSUME SetRow(k, row), SetRun(k, idle)
        PROVE  CoreInv' /\ WritesOver(k)
    <2> HIDE DEF row, idle
    <2> QED
      BY <1>1, <1>2, <1>3, IdleKeeps DEF row
  <1>4. ASSUME NEW o
        PROVE  /\ Overwrites(row, after(o), k \in barriers, boots)
               /\ after(o).status = "succeeded" => row.status = "succeeded"
    <2>1. CASE row.status = "stopping"
      <3>1. k \in barriers
        BY <2>1, RowFacts
      <3> QED
        BY <1>2, <2>1, <3>1, SettleOverwrites
    <2>2. CASE row.status # "stopping"
      BY <1>2, <2>2
    <2> QED
      BY <2>1, <2>2
  <1>5. ASSUME NEW o, SetRow(k, after(o)), SetRun(k, cleared) \/ SetRun(k, idle)
        PROVE  CoreInv' /\ WritesOver(k)
    <2>1. /\ Overwrites(row, after(o), k \in barriers, boots)
          /\ after(o).status = "succeeded" => p = "complete"
      BY <1>4
    <2> HIDE DEF after, idle, cleared
    <2> QED
      BY <1>1, <1>5, <2>1, IdleKeeps
  <1>6. UNCHANGED rows => SetRow(k, row)
    BY SameKey DEF SetRow
  <1>7. ASSUME NEW o \in Outcome(F), NEW reread \in ReadOutcome(F),
               SetRow(k, after(o)),
               SetRun(k, IF reread = "ok" /\ is_terminal(after(o).status)
                         THEN cleared ELSE idle)
        PROVE  CoreInv' /\ WritesOver(k)
    <2> HIDE DEF after, idle, cleared
    <2>1. SetRun(k, cleared) \/ SetRun(k, idle)
      BY <1>7
    <2> QED
      BY <1>5, <1>7, <2>1
  <1> QED
    BY <1>3, <1>6, <1>7 DEF settle_cancelled

\* settle_aborted: the write is made, lost, refused or not needed.
LEMMA SettleAbortedKeeps ==
    ASSUME CoreInv, NEW k \in Keys, HasRun(k), groups[k] = None,
           NEW run \in Run, NEW F, settle_aborted(k, run, F),
           UNCHANGED <<process, world, barriers, groups, launches, official>>
    PROVE  CoreInv' /\ WritesOver(k)
  <1> DEFINE row == rows[k]
             idle == [run EXCEPT !.phase = "idle"]
             done(b) == [idle EXCEPT !.aborted = b]
             Lasts == {idle, done(TRUE), done(FALSE)}
  <1>1. \A last \in Lasts : last \in Run /\ last.phase = "idle"
    BY DEF Run
  <1>2. Overwrites(row, row, k \in barriers, boots)
    BY KeepOverwrites
  <1>3. /\ official' = [official EXCEPT ![k] = official[k]]
        /\ official[k] \in {"no", "partial", "complete"}
        /\ row.status = "succeeded" => official[k] = "complete"
    BY SameKey, KeyFacts, OwnedRun
  <1>4. UNCHANGED rows => SetRow(k, row)
    BY SameKey DEF SetRow
  <1>5. ASSUME SetRow(k, row), NEW last \in Lasts, SetRun(k, last)
        PROVE  CoreInv' /\ WritesOver(k)
    <2> HIDE DEF Lasts
    <2> QED
      BY <1>1, <1>2, <1>3, <1>5, IdleKeeps
  <1>6. ASSUME MayMarkUnknown(row, row.revision), NEW o \in Outcome(F),
               SetRow(k, After(o, row, MarkUnknownRow(row))),
               SetRun(k, done(o # "ok"))
        PROVE  CoreInv' /\ WritesOver(k)
    <2> DEFINE new == After(o, row, Moved(row, "unknown", TRUE))
    <2>1. row.status \in {"dispatched", "running"}
      BY <1>6 DEF MayMarkUnknown, MayAdvance
    <2>2. done(o # "ok") \in Lasts
      BY Zenon
    <2>3. SetRow(k, new)
      BY <1>6 DEF MarkUnknownRow, AdvanceRow
    <2>4. Overwrites(row, new, k \in barriers, boots) /\ new.status # "succeeded"
      BY <2>1, MarkOverwrites
    <2>5. PICK last \in Lasts : SetRun(k, last)
      BY <1>6, <2>2
    <2> HIDE DEF new, Lasts
    <2> QED
      BY <1>1, <1>3, <2>3, <2>4, <2>5, IdleKeeps
  <1>7. idle \in Lasts /\ done(FALSE) \in Lasts
    OBVIOUS
  <1> HIDE DEF idle, done, Lasts
  <1> QED
    BY <1>4, <1>5, <1>6, <1>7 DEF settle_aborted, idle, done

\* record_failure_for: nothing or a failure is registered, the run is idle.
LEMMA RecordFailureKeeps ==
    ASSUME CoreInv, NEW k \in Keys, HasRun(k), groups[k] = None,
           runs[k].phase # "idle", NEW run \in Run, NEW F,
           RecordFailure(k, run, F), UNCHANGED <<process, world>>,
           NEW p \in {"no", "partial", "complete"},
           official' = [official EXCEPT ![k] = p]
    PROVE  CoreInv' /\ WritesOver(k)
  <1> DEFINE row == rows[k]
             idle == [run EXCEPT !.phase = "idle"]
  <1>1. PICK o : SetRow(k, FailureRow(k, row, o))
    BY DEF RecordFailure
  <1>2. /\ SetRun(k, idle) /\ UNCHANGED <<barriers, groups, launches>>
        /\ idle \in Run /\ idle.phase = "idle"
    BY DEF RecordFailure, Run
  <1>3. /\ Overwrites(row, FailureRow(k, row, o), k \in barriers, boots)
        /\ FailureRow(k, row, o).status # "succeeded"
    BY KeyFacts, RowFacts, OwnedRun, FailureOverwrites
  <1> HIDE DEF idle
  <1> QED
    BY <1>1, <1>2, <1>3, IdleKeeps

\* The worker starts once: only a freeze that never launched leads here.
LEMMA StartWorkerKeeps ==
    ASSUME CoreInv, NEW k \in Keys, HasRun(k), runs[k].phase = "freeze",
           NEW run \in Run, NEW F, StartWorker(k, run, F),
           UNCHANGED <<process, world, official>>
    PROVE  CoreInv' /\ WritesOver(k)
  <1> DEFINE row == rows[k]
             may == MayMarkRunning(row, row.revision)
  <1>1. PICK c \in BOOLEAN, o \in Outcome(F) :
          /\ SpawnChild(k, [run EXCEPT !.aborted = ~may \/ o # "ok"], "worker", c)
          /\ SetRow(k, IF may THEN After(o, row, MarkRunningRow(row)) ELSE row)
    BY DEF StartWorker
  <1>2. PICK a \in BOOLEAN : SpawnChild(k, [run EXCEPT !.aborted = a], "worker", c)
    BY <1>1
  <1> DEFINE last == [[run EXCEPT !.aborted = a] EXCEPT
                        !.phase = "worker", !.stopped = FALSE, !.captured = c]
             new == IF may THEN After(o, row, MarkRunningRow(row)) ELSE row
  <1>3. /\ last \in Run /\ last.phase = "worker" /\ ~last.stopped
        /\ SetRun(k, last) /\ groups' = [groups EXCEPT ![k] = place.machine]
    BY <1>2 DEF Run, SpawnChild, ChildPhases
  <1>4. row.active /\ row.status # "succeeded" /\ launches[k] = 0
    BY OwnedRun
  <1>5. /\ Overwrites(row, new, k \in barriers, boots)
        /\ new.active /\ new.status # "succeeded"
    <2>1. CASE may
      <3>1. row.status \in {"dispatched", "running"}
        BY <2>1 DEF MayMarkRunning, MayAdvance
      <3>2. new = After(o, row, Moved(row, "running", TRUE))
        BY <2>1 DEF MarkRunningRow, AdvanceRow
      <3> QED
        BY <3>1, <3>2, MarkOverwrites
    <2>2. CASE ~may
      BY <1>4, <2>2, KeepOverwrites
    <2> QED
      BY <2>1, <2>2
  <1>6. /\ launches' = [launches EXCEPT ![k] = 1] /\ barriers' = barriers
        /\ official' = [official EXCEPT ![k] = official[k]]
        /\ official[k] \in {"no", "partial", "complete"}
    BY <1>4, SameKey, KeyFacts DEF StartWorker
  <1>7. SetRow(k, new)
    BY <1>1
  <1>8. place.machine \in {groups[k], place.machine} /\ 1 \in Nat /\ 1 <= 1
    OBVIOUS
  <1> HIDE DEF last, new
  <1> QED
    BY <1>3, <1>5, <1>6, <1>7, <1>8, TickKeeps

\* Steps of a run that leave its row alone: the validator starts, or the
\* validated result goes to its commit.
LEMMA RunMovesKeeps ==
    ASSUME CoreInv, NEW k \in Keys, HasRun(k),
           NEW last \in Run, SetRun(k, last), last.phase \notin {"freeze", "none"},
           NEW g \in {groups[k], place.machine}, groups' = [groups EXCEPT ![k] = g],
           UNCHANGED <<process, world, rows, barriers, launches, official>>,
           last.phase # "idle" => rows[k].active, g # None => rows[k].active,
           last.stopped => g = None, last.phase = "committing" => last.stopped
    PROVE  CoreInv' /\ WritesOver(k)
  <1>1. /\ launches' = [launches EXCEPT ![k] = launches[k]]
        /\ official' = [official EXCEPT ![k] = official[k]]
        /\ official[k] \in {"no", "partial", "complete"}
        /\ launches[k] \in Nat /\ launches[k] <= 1
        /\ rows[k].status = "succeeded" => official[k] = "complete"
        /\ SetRow(k, rows[k])
    BY SameKey, KeyFacts, OwnedRun DEF SetRow
  <1>2. Overwrites(rows[k], rows[k], k \in barriers, boots)
    BY KeepOverwrites
  <1> QED
    BY <1>1, <1>2, TickKeeps

LEMMA FinishWorkerKeeps ==
    ASSUME CoreInv, NEW k \in Keys, HasRun(k), groups[k] = None,
           runs[k].phase = "worker", NEW run \in Run, NEW F,
           finish_worker(k, run, F), UNCHANGED <<process, world, official>>
    PROVE  CoreInv' /\ WritesOver(k)
  <1>1. CASE RecordFailure(k, run, F)
    BY <1>1, SameKey, KeyFacts, RecordFailureKeeps
  <1>2. ASSUME NEW c \in BOOLEAN, SpawnChild(k, run, "validate", c),
               UNCHANGED <<rows, barriers, launches>>
        PROVE  CoreInv' /\ WritesOver(k)
    <2> DEFINE last == [run EXCEPT !.phase = "validate", !.stopped = FALSE,
                                   !.captured = c]
    <2>1. /\ last \in Run /\ last.phase = "validate" /\ ~last.stopped
          /\ SetRun(k, last) /\ groups' = [groups EXCEPT ![k] = place.machine]
      BY <1>2 DEF Run, SpawnChild, ChildPhases
    <2>2. rows[k].active
      BY OwnedRun
    <2>3. place.machine \in {groups[k], place.machine}
      OBVIOUS
    <2> HIDE DEF last
    <2> QED
      BY <1>2, <2>1, <2>2, <2>3, RunMovesKeeps
  <1> QED
    BY <1>1, <1>2 DEF finish_worker

LEMMA FinishValidateKeeps ==
    ASSUME CoreInv, NEW k \in Keys, HasRun(k), groups[k] = None,
           runs[k].phase = "validate", NEW run \in Run, run.stopped, NEW F,
           finish_validate(k, run, F), UNCHANGED <<process, world, official>>
    PROVE  CoreInv' /\ WritesOver(k)
  <1>1. CASE RecordFailure(k, run, F)
    BY <1>1, SameKey, KeyFacts, RecordFailureKeeps
  <1>2. CASE /\ SetRun(k, [run EXCEPT !.phase = "committing"])
             /\ UNCHANGED <<rows, barriers, groups, launches>>
    <2> DEFINE last == [run EXCEPT !.phase = "committing"]
    <2>1. /\ last \in Run /\ last.phase = "committing" /\ last.stopped
      BY DEF Run
    <2>2. /\ rows[k].active /\ groups' = [groups EXCEPT ![k] = None]
          /\ None \in {groups[k], place.machine}
      BY <1>2, OwnedRun, SameKey
    <2>3. SetRun(k, last)
      BY <1>2
    <2> HIDE DEF last
    <2> QED
      BY <1>2, <2>1, <2>2, <2>3, RunMovesKeeps
  <1> QED
    BY <1>1, <1>2 DEF finish_validate

\* settle, of a run whose group is proven gone.
LEMMA SettleKeeps ==
    ASSUME CoreInv, NEW k \in Keys, HasRun(k), groups[k] = None,
           NEW run \in Run, run.stopped, run.phase = runs[k].phase, NEW F,
           settle(k, run, F), UNCHANGED <<process, world, official>>
    PROVE  CoreInv' /\ WritesOver(k)
  <1>1. CASE run.stop
    <2>1. /\ official' = [official EXCEPT ![k] = official[k]]
          /\ official[k] \in {"no", "partial", "complete"}
          /\ rows[k].status = "succeeded" => official[k] = "complete"
      BY SameKey, KeyFacts, OwnedRun
    <2>2. settle_cancelled(k, run, F) /\ UNCHANGED <<barriers, groups, launches>>
      BY <1>1 DEF settle
    <2> QED
      BY <2>1, <2>2, SettleCancelledKeeps
  <1>2. CASE ~run.stop /\ run.aborted
    <2>1. settle_aborted(k, run, F) /\ UNCHANGED <<barriers, groups, launches>>
      BY <1>2 DEF settle
    <2> QED
      BY <2>1, SettleAbortedKeeps
  <1>3. CASE ~run.stop /\ ~run.aborted
    <2>1. CASE run.phase = "freeze" /\ RecordFailure(k, run, F)
      BY <2>1, SameKey, KeyFacts, RecordFailureKeeps
    <2>2. CASE run.phase = "freeze" /\ StartWorker(k, run, F)
      BY <2>2, StartWorkerKeeps
    <2>3. CASE run.phase = "worker" /\ finish_worker(k, run, F)
      BY <2>3, FinishWorkerKeeps
    <2>4. CASE run.phase = "validate" /\ finish_validate(k, run, F)
      BY <2>4, FinishValidateKeeps
    <2> QED
      BY <1>3, <2>1, <2>2, <2>3, <2>4 DEF settle, finish_freeze
  <1> QED
    BY <1>1, <1>2, <1>3

\* Absence is not proven: the run is aborted and its record becomes unknown.
LEMMA PollUnprovenKeeps ==
    ASSUME CoreInv, NEW k \in Keys, NEW F, PollUnproven(k, F),
           UNCHANGED <<process, world>>
    PROVE  CoreInv' /\ WritesOver(k)
  <1> DEFINE row == rows[k]
             last == [runs[k] EXCEPT !.aborted = TRUE]
  <1>1. HasRun(k) /\ runs[k].phase \in ChildPhases
    BY DEF PollUnproven, HasRun, ChildPhases
  <1>2. /\ last \in Run /\ last.phase = runs[k].phase
        /\ last.stopped = runs[k].stopped
    BY KeyFacts DEF Run
  <1>3. /\ last.phase \notin {"none", "idle", "committing"} /\ row.active
        /\ row.status # "succeeded"
        /\ last.stopped => groups[k] = None
        /\ launches[k] <= 1
        /\ last.phase = "freeze" => launches[k] = 0
    BY <1>1, <1>2, OwnedRun DEF ChildPhases
  <1>4. /\ groups' = [groups EXCEPT ![k] = groups[k]]
        /\ launches' = [launches EXCEPT ![k] = launches[k]]
        /\ official' = [official EXCEPT ![k] = official[k]]
        /\ official[k] \in {"no", "partial", "complete"} /\ launches[k] \in Nat
        /\ barriers' = barriers /\ SetRun(k, last)
        /\ groups[k] \in {groups[k], place.machine}
    BY SameKey, KeyFacts DEF PollUnproven
  <1>5. ASSUME NEW new, SetRow(k, new), Overwrites(row, new, k \in barriers, boots),
               new.active, new.status # "succeeded"
        PROVE  CoreInv' /\ WritesOver(k)
    <2>1. /\ groups[k] # None => new.active
          /\ last.stopped => groups[k] = None
          /\ last.phase = "committing" => last.stopped
          /\ last.phase # "idle" => new.active
          /\ last.phase = "freeze" => launches[k] = 0
          /\ new.status = "succeeded" => official[k] = "complete"
          /\ launches[k] <= 1
      BY <1>3, <1>5
    <2> HIDE DEF last
    <2> QED
      BY <1>1, <1>2, <1>4, <1>5, <2>1, TickKeeps
  <1>6. CASE MayMarkUnknown(row, row.revision)
    <2>1. PICK o \in Outcome(F) : SetRow(k, After(o, row, MarkUnknownRow(row)))
      BY <1>6 DEF PollUnproven
    <2> DEFINE new == After(o, row, Moved(row, "unknown", TRUE))
    <2>2. row.status \in {"dispatched", "running"}
      BY <1>6 DEF MayMarkUnknown, MayAdvance
    <2>3. SetRow(k, new)
      BY <2>1 DEF MarkUnknownRow, AdvanceRow
    <2>4. /\ Overwrites(row, new, k \in barriers, boots)
          /\ new.active /\ new.status # "succeeded"
      BY <2>2, MarkOverwrites
    <2> HIDE DEF new
    <2> QED
      BY <1>5, <2>3, <2>4
  <1>7. CASE ~MayMarkUnknown(row, row.revision)
    <2>1. SetRow(k, row)
      BY <1>7, SameKey DEF PollUnproven, SetRow
    <2>2. Overwrites(row, row, k \in barriers, boots)
      BY KeepOverwrites
    <2> QED
      BY <1>3, <1>5, <2>1, <2>2
  <1> QED
    BY <1>6, <1>7

\* register_published: the bytes are complete before the record says succeeded.
LEMMA RegisterKeeps ==
    ASSUME CoreInv, NEW k \in Keys, HasRun(k), groups[k] = None,
           NEW run \in Run, run.phase = "idle", NEW F, RegisterPublished(k, run, F),
           UNCHANGED <<process, world, barriers, groups, launches>>,
           official' = [official EXCEPT ![k] = "complete"]
    PROVE  CoreInv' /\ WritesOver(k)
  <1> DEFINE row == rows[k]
             s == SuccessSubmission(k)
  <1>1. ASSUME CommitReply(k, row, k \in barriers, s) = "ok",
               NEW o \in Outcome(F), SetRow(k, After(o, row, CommitRow(row, s))),
               SetRun(k, run)
        PROVE  CoreInv' /\ WritesOver(k)
    <2>1. /\ s.attempt = k /\ s.binding = row.binding /\ s.fence = row.revision
          /\ s.outcome = "succeeded" /\ s.result \in Results
          /\ s = [attempt |-> s.attempt, binding |-> s.binding, fence |-> s.fence,
                  outcome |-> s.outcome, result |-> s.result]
      BY CoreConstants DEF SuccessSubmission
    <2>2. row \in Row /\ RowInv(row, boots)
      BY KeyFacts
    <2>3. /\ row.status \in {"succeeded", "failed"} => k \notin barriers
          /\ row.status \in {"stopping", "cancelled"} => k \in barriers
      BY RowFacts
    <2> HIDE DEF s
    <2>4. Overwrites(row, After(o, row, CommitRow(row, s)), k \in barriers, boots)
      BY <1>1, <2>1, <2>2, <2>3, CommitOverwrites
    <2> QED
      BY <1>1, <2>4, IdleKeeps
  <1>2. CASE settle_cancelled(k, run, F)
    BY <1>2, SettleCancelledKeeps
  <1>3. CASE SetRun(k, run) /\ UNCHANGED rows
    <2>1. SetRow(k, row) /\ Overwrites(row, row, k \in barriers, boots)
      BY <1>3, SameKey, KeepOverwrites DEF SetRow
    <2> QED
      BY <1>3, <2>1, IdleKeeps
  <1> QED
    BY <1>1, <1>2, <1>3 DEF RegisterPublished

LEMMA CommitKeeps ==
    ASSUME CoreInv, NEW k \in Keys, NEW F, commit_validated(k, F),
           UNCHANGED <<process, world>>
    PROVE  CoreInv' /\ WritesOver(k)
  <1>1. HasRun(k) /\ runs[k].phase = "committing" /\ groups[k] = None
    <2>1. HasRun(k) /\ runs[k].phase = "committing"
      BY DEF commit_validated, HasRun
    <2> QED
      BY <2>1, OwnedRun
  <1>2. ASSUME NEW p \in {official[k], "partial"},
               official' = [official EXCEPT ![k] = p], RecordFailure(k, runs[k], F)
        PROVE  CoreInv' /\ WritesOver(k)
    <2>1. p \in {"no", "partial", "complete"} /\ runs[k] \in Run
      BY KeyFacts
    <2> QED
      BY <1>1, <1>2, <2>1, RecordFailureKeeps
  <1>3. CASE /\ official' = [official EXCEPT ![k] = "complete"]
             /\ RegisterPublished(k, [runs[k] EXCEPT !.phase = "idle"], F)
             /\ UNCHANGED <<barriers, groups, launches>>
    <2> DEFINE run == [runs[k] EXCEPT !.phase = "idle"]
    <2>1. run \in Run /\ run.phase = "idle"
      BY KeyFacts DEF Run
    <2>2. RegisterPublished(k, run, F)
      BY <1>3
    <2> HIDE DEF run
    <2> QED
      BY <1>1, <1>3, <2>1, <2>2, RegisterKeeps
  <1> QED
    BY <1>2, <1>3 DEF commit_validated

\* Every tick keeps the invariant and writes over its own row.
LEMMA TickPreserves ==
    ASSUME CoreInv, NEW k \in Keys, NEW F, tick(k, F)
    PROVE  CoreInv' /\ WritesOver(k)
  <1>1. UNCHANGED <<process, world>>
    BY DEF tick
  <1>2. runs[k] \in Run
    BY KeyFacts
  <1>3. CASE SettleIdle(k, F)
    <2>1. /\ HasRun(k) /\ runs[k].stopped /\ settle(k, runs[k], F)
          /\ UNCHANGED official
      BY <1>3 DEF SettleIdle, HasRun
    <2> QED
      BY <1>1, <1>2, <2>1, OwnedRun, SettleKeeps
  <1>4. CASE PollStopped(k, F)
    <2> DEFINE run == [runs[k] EXCEPT !.stopped = TRUE]
    <2>1. run \in Run /\ run.stopped /\ run.phase = runs[k].phase
      BY <1>2 DEF Run
    <2>2. HasRun(k) /\ groups[k] = None /\ settle(k, run, F) /\ UNCHANGED official
      BY <1>4 DEF PollStopped, HasRun, ChildPhases
    <2> HIDE DEF run
    <2> QED
      BY <1>1, <2>1, <2>2, SettleKeeps
  <1>5. CASE PollUnproven(k, F)
    BY <1>1, <1>5, PollUnprovenKeeps
  <1>6. CASE commit_validated(k, F)
    BY <1>1, <1>6, CommitKeeps
  <1>7. CASE CommitStopped(k, F)
    <2>1. HasRun(k) /\ runs[k].phase = "committing" /\ settle(k, runs[k], F)
          /\ UNCHANGED official
      BY <1>7 DEF CommitStopped, HasRun
    <2> QED
      BY <1>1, <1>2, <2>1, OwnedRun, SettleKeeps
  <1> QED
    BY <1>3, <1>4, <1>5, <1>6, <1>7 DEF tick
-----------------------------------------------------------------------------
(* Requests.                                                               *)

\* Two overwrites in one handler are an overwrite.
LEMMA OverwritesCompose ==
    ASSUME NEW bt, NEW barred \in BOOLEAN, NEW row \in Row, NEW mid, NEW new,
           Overwrites(row, mid, barred, bt), Overwrites(mid, new, barred, bt)
    PROVE  Overwrites(row, new, barred, bt)
  BY DEF Overwrites

\* The row a grant to run dispatches: the core's own context is its origin.
LEMMA DispatchedRow ==
    ASSUME CoreInv, NEW k \in Keys, NEW row \in Row, RowInv(row, boots),
           row.status = "eligible"
    PROVE  LET new == DispatchRow(row, CoreOwner, context) IN
           /\ Overwrites(row, new, k \in barriers, boots)
           /\ new \in Row /\ RowInv(new, boots)
           /\ new.status = "dispatched" /\ new.active /\ new.origin = context
  <1> DEFINE new == DispatchRow(row, CoreOwner, context)
             barred == k \in barriers
  <1>1. /\ boots \in [Machines -> Nat] /\ context \in RecoveryContext \cup {None}
        /\ HostNow(context, boots) /\ CoreOwner \in Owners /\ barred \in BOOLEAN
    BY KeyFacts, CoreConstants
  <1>2. MayDispatch(row, CoreOwner)
    BY DEF MayDispatch, RowInv, RowCheck, Held, Final
  <1>3. new.status = "dispatched" /\ new.active /\ new.origin = context
    BY DEF DispatchRow, Moved
  <1> HIDE DEF barred
  <1>4. Overwrites(row, DispatchRow(row, CoreOwner, context), barred, boots)
    BY <1>1, <1>2, GoodDispatch DEF GoodWrite
  <1> QED
    BY <1>3, <1>4 DEF Overwrites, barred

\* What begin_run and its error paths leave of a key without a run: the key has
\* a run only when its row was dispatched here, a group only under the slot.
LEMMA BegunKey ==
    ASSUME CoreInv, NEW k \in Keys, Handles(k), barriers' = barriers,
           NEW row \in Row, row.status = "eligible",
           Overwrites(row, rows'[k], k \in barriers, boots), Serving,
           rows'[k].status # "succeeded", launches'[k] = 0,
           HasRun(k)' =>
             /\ rows'[k].status # "eligible" /\ rows'[k].origin = context
             /\ runs'[k].stopped => groups'[k] = None
             /\ runs'[k].phase \in {"idle", "freeze"}
             /\ runs'[k].phase = "freeze" => rows'[k].active,
           groups'[k] # None =>
             /\ groups'[k] = place.machine
             /\ rows'[k].active /\ rows'[k].status # "eligible"
             /\ rows'[k].origin = context
    PROVE  KeyInv(k)'
  <1>1. /\ coreState' = coreState /\ context' = context
        /\ place' = place /\ boots' = boots
    BY DEF Handles, world
  <1>2. /\ RowInv(rows'[k], boots) /\ rows'[k].status # "absent"
        /\ rows'[k].status \in {"succeeded", "failed"} => k \notin barriers'
        /\ rows'[k].status \in {"stopping", "cancelled"} => k \in barriers'
    BY DEF Overwrites
  <1>3. groups'[k] # None => ComputeIsRecorded(k)'
    <2>1. context # None => /\ context.machine = place.machine
                            /\ context.boot = boots[place.machine]
      BY DEF CoreInv, ContextIsHost, HostContext
    <2> QED
      BY <1>1, <2>1 DEF ComputeIsRecorded
  <1>4. HasRun(k)' => RunIsOwned(k)'
    BY <1>1, <1>2 DEF RunIsOwned, Serving
  <1> QED
    BY <1>1, <1>2, <1>3, <1>4 DEF KeyInv

LEMMA BeginRunKeeps ==
    ASSUME CoreInv, NEW k \in Keys, NEW row \in Row, RowInv(row, boots),
           row.status = "eligible", row.active,
           rows[k].active \/ SlotFree(rows),
           Serving, ~HasRun(k), groups[k] = None, launches[k] = 0,
           NEW F, BeginRun(k, row, F),
           UNCHANGED <<barriers, official, coreState, context, quiescing, world>>
    PROVE  /\ CoreInv' /\ Handles(k)
           /\ Overwrites(row, rows'[k], k \in barriers, boots)
           /\ rows'[k].status \notin {"succeeded", "unknown"}
  <1> DEFINE dispatched == DispatchRow(row, CoreOwner, context)
             barred == k \in barriers
  <1>1. /\ Overwrites(row, dispatched, barred, boots)
        /\ dispatched \in Row /\ RowInv(dispatched, boots)
        /\ dispatched.status = "dispatched" /\ dispatched.active
        /\ dispatched.origin = context
    BY DispatchedRow
  <1>2. Overwrites(row, row, barred, boots)
    BY DEF Overwrites
  <1> HIDE DEF dispatched
  <1>3. ASSUME NEW mid \in {row, dispatched}, NEW o
        PROVE  /\ Overwrites(row, FailureRow(k, mid, o), barred, boots)
               /\ Overwrites(mid, FailureRow(k, mid, o), barred, boots)
               /\ FailureRow(k, mid, o).status \notin {"succeeded", "unknown"}
    <2>1. /\ mid \in Row /\ RowInv(mid, boots)
          /\ mid.status \in {"eligible", "dispatched"}
          /\ Overwrites(row, mid, barred, boots)
      BY <1>1, <1>2
    <2>2. /\ Overwrites(mid, FailureRow(k, mid, o), barred, boots)
          /\ FailureRow(k, mid, o).status \notin {"succeeded", "unknown"}
      BY <2>1, FailureOverwrites
    <2>3. barred \in BOOLEAN
      OBVIOUS
    <2> HIDE DEF barred
    <2> QED
      BY <2>1, <2>2, <2>3, OverwritesCompose
  <1>4. ASSUME NEW new, SetRow(k, new), Overwrites(row, new, barred, boots),
               new.status \notin {"succeeded", "unknown"},
               NEW run \in Run, SetRun(k, run),
               NEW g \in {None, place.machine}, groups' = [groups EXCEPT ![k] = g],
               run.phase = "none" \/
                 /\ new.status # "eligible" /\ new.origin = context
                 /\ run.stopped => g = None
                 /\ run.phase \in {"idle", "freeze"}
                 /\ run.phase = "freeze" => new.active,
               g # None =>
                 /\ new.active /\ new.status # "eligible" /\ new.origin = context
        PROVE  /\ CoreInv' /\ Handles(k)
               /\ Overwrites(row, rows'[k], barred, boots)
               /\ rows'[k].status \notin {"succeeded", "unknown"}
    <2>1. /\ quiescing' \in BOOLEAN /\ admitted' \subseteq Keys /\ new \in Row
          /\ g \in Machines \cup {None} /\ official[k] \in {"no", "partial", "complete"}
          /\ launches' = [launches EXCEPT ![k] = launches[k]] /\ launches[k] \in Nat
          /\ official' = [official EXCEPT ![k] = official[k]]
      BY <1>4, KeyFacts, SameKey DEF CoreInv, CoreTypeOK, BeginRun, Overwrites
    <2>2. Handles(k)
      <3>1. /\ UNCHANGED <<coreState, context, world>> /\ barriers' = barriers
            /\ rows' = [rows EXCEPT ![k] = new] /\ runs' = [runs EXCEPT ![k] = run]
        BY <1>4 DEF SetRow, SetRun
      <3>2. \E n \in Nat : launches' = [launches EXCEPT ![k] = n]
        BY <2>1
      <3>3. \E p \in {"no", "partial", "complete"} :
              official' = [official EXCEPT ![k] = p]
        BY <2>1
      <3>4. \E x \in Machines \cup {None} : groups' = [groups EXCEPT ![k] = x]
        BY <1>4, <2>1
      <3>5. /\ \E x \in Row : rows' = [rows EXCEPT ![k] = x]
            /\ \E x \in Run : runs' = [runs EXCEPT ![k] = x]
        BY <1>4, <2>1, <3>1
      <3> QED
        BY <2>1, <3>1, <3>2, <3>3, <3>4, <3>5 DEF Handles
    <2>3. /\ rows'[k] = new /\ runs'[k] = run /\ groups'[k] = g
          /\ launches'[k] = 0
      BY <1>4, <2>1 DEF SetRow, SetRun, CoreInv, CoreTypeOK
    <2>4. KeyInv(k)'
      <3>1. Overwrites(row, rows'[k], k \in barriers, boots)
        BY <1>4, <2>3
      <3> QED
        BY <1>4, <2>2, <2>3, <3>1, BegunKey DEF HasRun
    <2>5. coreState # "drained"
      BY DEF Serving
    <2>6. CoreInv'
      BY <2>2, <2>4, <2>5, HandlerPreserves
    <2> QED
      BY <1>4, <2>2, <2>3, <2>6
  <1>5. IdleRun \in Run /\ IdleRun.phase = "idle"
    BY DEF IdleRun, NoRun, Run
  <1>6. CASE /\ \E d \in F, o \in Outcome(F) :
                  SetRow(k, FailureRow(k, After(d, row, dispatched), o))
             /\ UNCHANGED <<runs, groups>>
    <2>1. PICK d, o : SetRow(k, FailureRow(k, After(d, row, dispatched), o))
      BY <1>6
    <2>2. After(d, row, dispatched) \in {row, dispatched}
      BY DEF After
    <2>3. /\ runs[k] \in Run /\ SetRun(k, runs[k]) /\ runs[k].phase = "none"
          /\ groups' = [groups EXCEPT ![k] = None]
      BY <1>6, KeyFacts, SameKey DEF SetRun, HasRun
    <2> QED
      BY <1>3, <1>4, <2>1, <2>2, <2>3
  <1>7. CASE /\ \E o \in Outcome(F) : SetRow(k, FailureRow(k, dispatched, o))
             /\ SetRun(k, IdleRun)
             /\ UNCHANGED groups
    <2>1. PICK o : SetRow(k, FailureRow(k, dispatched, o))
      BY <1>7
    <2> DEFINE new == FailureRow(k, dispatched, o)
    <2>2. /\ Overwrites(row, new, barred, boots) /\ new.status \notin {"succeeded", "unknown"}
          /\ Overwrites(dispatched, new, barred, boots)
      BY <1>3
    <2>3. new.status # "eligible" /\ new.origin = context
      BY <1>1, <2>2 DEF Overwrites
    <2>4. groups' = [groups EXCEPT ![k] = None]
      BY <1>7, SameKey
    <2> HIDE DEF new
    <2> QED
      BY <1>4, <1>5, <1>7, <2>1, <2>2, <2>3, <2>4 DEF new
  <1>8. ASSUME NEW c \in BOOLEAN, SetRow(k, dispatched),
               SpawnChild(k, IdleRun, "freeze", c)
        PROVE  /\ CoreInv' /\ Handles(k)
               /\ Overwrites(row, rows'[k], barred, boots)
               /\ rows'[k].status \notin {"succeeded", "unknown"}
    <2> DEFINE run == [IdleRun EXCEPT !.phase = "freeze", !.stopped = FALSE,
                                      !.captured = c]
    <2>1. /\ run \in Run /\ run.phase = "freeze" /\ ~run.stopped
          /\ SetRun(k, run) /\ groups' = [groups EXCEPT ![k] = place.machine]
      BY <1>5, <1>8 DEF Run, SpawnChild, ChildPhases
    <2> HIDE DEF run
    <2> QED
      BY <1>1, <1>4, <1>8, <2>1
  <1> QED
    BY <1>6, <1>7, <1>8 DEF BeginRun, dispatched, barred
-----------------------------------------------------------------------------
(* The requests that admit, cancel and recover, and the command line.      *)

\* A step that admits key k: nobody held the slot, and the fresh record holds it
\* or failed at once.
Admits(k) ==
    /\ Handles(k) /\ barriers' = barriers /\ k \notin barriers
    /\ SlotFree(rows) /\ rows[k].status = "absent"
    /\ RowInv(rows'[k], boots)
    /\ rows'[k].status \notin {"absent", "succeeded", "cancelled", "unknown"}

\* A step that cancels key k.
Cancels(k) ==
    /\ Handles(k) /\ barriers' = barriers \cup {k} /\ MayCancel(rows[k])
    /\ rows'[k] = CancelRow(rows[k], k \in barriers)

\* A handler that leaves runs, groups and results alone.
LEMMA WritesRowOnly ==
    ASSUME CoreInv, NEW k \in Keys, NEW new \in Row, SetRow(k, new),
           barriers' \in {barriers, barriers \cup {k}},
           quiescing' \in BOOLEAN,
           UNCHANGED <<official, coreState, context, admitted, groups, launches,
                       world>>,
           NEW run \in Run, SetRun(k, run)
    PROVE  /\ Handles(k) /\ rows'[k] = new /\ runs'[k] = run
           /\ groups'[k] = groups[k] /\ launches'[k] = launches[k]
           /\ official'[k] = official[k]
  <1>1. CoreTypeOK
    BY DEF CoreInv
  <1>2. /\ rows' = [rows EXCEPT ![k] = new] /\ rows'[k] = new
        /\ runs' = [runs EXCEPT ![k] = run] /\ runs'[k] = run
    BY <1>1 DEF SetRow, SetRun, CoreTypeOK
  <1>3. admitted' \subseteq Keys
    BY <1>1 DEF CoreTypeOK
  <1>4. /\ \E x \in Row : rows' = [rows EXCEPT ![k] = x]
        /\ \E x \in Run : runs' = [runs EXCEPT ![k] = x]
    BY <1>2
  <1>5. /\ groups' = [groups EXCEPT ![k] = groups[k]]
        /\ launches' = [launches EXCEPT ![k] = launches[k]]
        /\ official' = [official EXCEPT ![k] = official[k]]
        /\ groups[k] \in Machines \cup {None} /\ launches[k] \in Nat
        /\ official[k] \in {"no", "partial", "complete"}
    BY SameKey, KeyFacts
  <1>6. Handles(k)
    BY <1>3, <1>4, <1>5 DEF Handles
  <1> QED
    BY <1>2, <1>6

\* A fresh record without a run: nothing is known of its key yet.
LEMMA FreshKeeps ==
    ASSUME CoreInv, NEW k \in Keys, NEW b \in Bindings,
           MayConfirm(rows, barriers, k, b), SetRow(k, ConfirmRow(b)),
           UNCHANGED <<barriers, official, process, runs, groups, launches, world>>
    PROVE  CoreInv' /\ Admits(k)
  <1> DEFINE new == ConfirmRow(b)
  <1>1. /\ new \in Row /\ RowInv(new, boots) /\ new.status = "eligible"
        /\ new.active /\ new.origin = None
    BY GoodConfirm DEF ConfirmRow, NoRow
  <1>2. /\ rows[k].status = "absent" /\ k \notin barriers /\ SlotFree(rows)
    BY DEF MayConfirm
  <1>3. KeyInv(k) /\ runs[k] \in Run /\ SetRun(k, runs[k]) /\ CoreTypeOK
    BY KeyFacts, SameKey DEF SetRun, CoreInv
  <1>4. rows[k] = NoRow /\ ~rows[k].active /\ ~HasRun(k) /\ groups[k] = None
        /\ launches[k] = 0
    BY <1>2, <1>3 DEF KeyInv, RowInv, NoRow, RunIsOwned, ComputeIsRecorded
  <1> HIDE DEF new
  <1>5. /\ Handles(k) /\ rows'[k] = new /\ runs'[k] = runs[k]
        /\ groups'[k] = groups[k] /\ launches'[k] = launches[k]
    <2>1. quiescing' \in BOOLEAN
      BY <1>3 DEF CoreTypeOK, process
    <2>2. UNCHANGED <<coreState, context, admitted>>
      BY DEF process
    <2>3. SetRow(k, new)
      BY DEF new
    <2> QED
      BY <1>1, <1>3, <2>1, <2>2, <2>3, WritesRowOnly
  <1>6. KeyInv(k)'
    <2>1. boots' = boots
      BY DEF world
    <2>2. ~HasRun(k)' /\ groups'[k] = None
      BY <1>4, <1>5 DEF HasRun
    <2> QED
      BY <1>1, <1>2, <1>4, <1>5, <2>1, <2>2 DEF KeyInv
  <1>7. CoreInv'
    <2>1. admitted' = admitted /\ ~is_terminal(rows[k].status)
      BY <1>2 DEF process, is_terminal, Final
    <2> QED
      BY <1>2, <1>5, <1>6, <2>1, HandlerPreserves
  <1> QED
    BY <1>1, <1>2, <1>5, <1>7 DEF Admits

\* A confirmation admits its key or, replayed, runs what was admitted.
LEMMA ConfirmKeeps ==
    ASSUME CoreInv, NEW k \in Keys, NEW b \in Bindings, confirm(k, b)
    PROVE  CoreInv' /\ (Admits(k) \/ WritesOver(k))
  <1>1. /\ Serving
        /\ UNCHANGED <<barriers, official, coreState, context, quiescing, world>>
    BY DEF confirm
  <1>2. KeyInv(k) /\ rows[k] \in Row /\ RowInv(rows[k], boots)
    BY KeyFacts
  <1>3. rows[k].status \in {"absent", "eligible"} =>
          groups[k] = None /\ launches[k] = 0 /\ ~HasRun(k)
    BY <1>2 DEF KeyInv, RowInv, NoRow, RunIsOwned, ComputeIsRecorded
  <1>4. CASE MayConfirm(rows, barriers, k, b) /\ BeginRun(k, ConfirmRow(b), Faults)
    <2> DEFINE row == ConfirmRow(b)
               barred == k \in barriers
    <2>1. /\ row \in Row /\ RowInv(row, boots) /\ row.status = "eligible"
          /\ row.active
      BY GoodConfirm DEF ConfirmRow, NoRow
    <2>2. /\ rows[k].status = "absent" /\ ~barred /\ SlotFree(rows)
      BY <1>4 DEF MayConfirm
    <2>3. BeginRun(k, row, Faults)
      BY <1>4
    <2> HIDE DEF row
    <2>4. /\ CoreInv' /\ Handles(k)
          /\ Overwrites(row, rows'[k], k \in barriers, boots)
          /\ rows'[k].status \notin {"succeeded", "unknown"}
      BY <1>1, <1>3, <2>1, <2>2, <2>3, BeginRunKeeps
    <2>5. /\ RowInv(rows'[k], boots)
          /\ rows'[k].status \notin {"absent", "succeeded", "cancelled", "unknown"}
      BY <2>1, <2>2, <2>4 DEF Overwrites
    <2> QED
      BY <1>1, <2>2, <2>4, <2>5 DEF Admits
  <1>5. CASE /\ MayConfirm(rows, barriers, k, b)
             /\ SetRow(k, ConfirmRow(b))
             /\ UNCHANGED <<admitted, runs, groups, launches>>
    BY <1>1, <1>5, FreshKeeps DEF process
  <1>6. CASE /\ rows[k].status = "eligible" /\ ~HasRun(k)
             /\ BeginRun(k, rows[k], Faults)
    <2>1. rows[k].active
      BY <1>2, <1>6 DEF RowInv, RowCheck, Held, Final
    <2>2. /\ CoreInv' /\ Handles(k)
          /\ Overwrites(rows[k], rows'[k], k \in barriers, boots)
      BY <1>1, <1>2, <1>3, <1>6, <2>1, BeginRunKeeps
    <2> QED
      BY <1>1, <2>2 DEF WritesOver
  <1> QED
    BY <1>4, <1>5, <1>6 DEF confirm
\* The invariant does not look at whether admission is closed.
LEMMA QuiescingOnly ==
    ASSUME CoreInv, quiescing' \in BOOLEAN,
           UNCHANGED <<store, coreState, context, admitted, runs, groups, launches,
                       world>>
    PROVE  CoreInv'
  <1>1. /\ UNCHANGED <<rows, barriers, official>> /\ UNCHANGED <<place, boots>>
        /\ UNCHANGED <<coreState, context, admitted, runs, groups, launches>>
    BY DEF store, world
  <1>2. CoreTypeOK'
    BY <1>1 DEF CoreInv, CoreTypeOK
  <1>3. OneActive' /\ ContextIsHost' /\ CleanExit'
    BY <1>1 DEF CoreInv, OneActive, ContextIsHost, Serving, HostContext, CleanExit
  <1>4. ASSUME NEW k \in Keys
        PROVE  KeyInv(k)'
    BY <1>1 DEF CoreInv, KeyInv, ComputeIsRecorded, RunIsOwned, HasRun, Serving
  <1> QED
    BY <1>2, <1>3, <1>4 DEF CoreInv

\* An accepted cancellation keeps the slot under a live group and under a run
\* that is not settled, and leaves what has ended alone.
LEMMA CancelledRow ==
    ASSUME CoreInv, NEW k \in Keys, MayCancel(rows[k])
    PROVE  LET new == CancelRow(rows[k], k \in barriers) IN
           /\ Overwrites(rows[k], new, TRUE, boots)
           /\ rows[k].active /\ rows[k].status # "eligible" => new.active
           /\ new.status # "succeeded"
           /\ is_terminal(rows[k].status) => new = rows[k]
  <1> DEFINE row == rows[k]
             barred == k \in barriers
  <1>1. /\ row \in Row /\ RowInv(row, boots) /\ barred \in BOOLEAN /\ MayCancel(row)
        /\ row.status \in {"stopping", "cancelled"} => barred
    BY KeyFacts, RowFacts
  <1> HIDE DEF row, barred
  <1>2. Overwrites(row, CancelRow(row, barred), TRUE, boots)
    BY <1>1, GoodCancel DEF GoodWrite
  <1>3. /\ row.active /\ row.status # "eligible" => CancelRow(row, barred).active
        /\ CancelRow(row, barred).status # "succeeded"
        /\ is_terminal(row.status) => CancelRow(row, barred) = row
    BY <1>1 DEF CancelRow, Moved, MayCancel, is_terminal, Final
  <1> QED
    BY <1>2, <1>3 DEF row, barred

\* An accepted cancellation, online or not, with or without a run to tell.
LEMMA CancelKeeps ==
    ASSUME CoreInv, NEW k \in Keys, MayCancel(rows[k]),
           SetRow(k, CancelRow(rows[k], k \in barriers)),
           barriers' = barriers \cup {k}, quiescing' \in BOOLEAN,
           NEW run \in {runs[k], [runs[k] EXCEPT !.stop = TRUE]}, SetRun(k, run),
           UNCHANGED <<official, coreState, context, admitted, groups, launches,
                       world>>
    PROVE  CoreInv' /\ Cancels(k)
  <1> DEFINE new == CancelRow(rows[k], k \in barriers)
  <1>1. /\ Overwrites(rows[k], new, TRUE, boots) /\ new \in Row
        /\ rows[k].active /\ rows[k].status # "eligible" => new.active
        /\ new.status # "succeeded"
        /\ is_terminal(rows[k].status) => new = rows[k]
        /\ new.active => rows[k].active
    BY CancelledRow DEF Overwrites
  <1>2. /\ KeyInv(k) /\ runs[k] \in Run
    BY KeyFacts
  <1>3. /\ run \in Run /\ run.phase = runs[k].phase /\ run.stopped = runs[k].stopped
    BY <1>2 DEF Run
  <1>4. SetRow(k, new)
    OBVIOUS
  <1> HIDE DEF new
  <1>5. /\ Handles(k) /\ rows'[k] = new /\ runs'[k] = run
        /\ groups'[k] = groups[k] /\ launches'[k] = launches[k]
        /\ official'[k] = official[k]
    BY <1>1, <1>3, <1>4, WritesRowOnly
  <1>6. HasRun(k)' <=> HasRun(k)
    BY <1>3, <1>5 DEF HasRun
  <1>7. /\ groups[k] # None => rows[k].active /\ rows[k].status # "eligible"
        /\ HasRun(k) => /\ rows[k].status # "eligible"
                        /\ runs[k].stopped => groups[k] = None
                        /\ runs[k].phase = "committing" => runs[k].stopped
                        /\ runs[k].phase # "idle" => rows[k].active
    BY <1>2 DEF KeyInv, ComputeIsRecorded, RunIsOwned
  <1>8. KeyInv(k)'
    <2>1. Overwrites(rows[k], rows'[k], k \in barriers', boots)
      <3>1. (k \in barriers') = TRUE
        OBVIOUS
      <3> QED
        BY <1>1, <1>5, <3>1
    <2>2. launches'[k] <= 1 /\ (runs'[k].phase = "freeze" => launches'[k] = 0)
      BY <1>2, <1>3, <1>5 DEF KeyInv
    <2> QED
      BY <1>1, <1>3, <1>5, <1>6, <1>7, <2>1, <2>2, KeyPreserved
  <1>9. CoreInv'
    <2>1. admitted' = admitted /\ groups' = groups
      OBVIOUS
    <2> QED
      BY <1>1, <1>5, <1>8, <2>1, HandlerPreserves
  <1> QED
    BY <1>5, <1>9 DEF Cancels, new

\* Core::cancel, whatever the store answers.
LEMMA CancelStepKeeps ==
    ASSUME CoreInv, NEW k \in Keys, NEW o, CancelStep(k, o), quiescing' \in BOOLEAN
    PROVE  CoreInv' /\ (Cancels(k) \/ UNCHANGED store)
  <1>1. /\ MayCancel(rows[k])
        /\ UNCHANGED <<official, coreState, context, admitted, groups, launches,
                       world>>
    BY DEF CancelStep
  <1>2. runs = [runs EXCEPT ![k] = runs[k]] /\ rows = [rows EXCEPT ![k] = rows[k]]
    BY SameKey
  <1>3. CASE o # "fail"
    <2>1. /\ SetRow(k, CancelRow(rows[k], k \in barriers))
          /\ barriers' = barriers \cup {k}
      BY <1>3 DEF CancelStep, After
    <2>2. CASE o = "ok" /\ HasRun(k)
      <3>1. SetRun(k, [runs[k] EXCEPT !.stop = TRUE])
        BY <2>2 DEF CancelStep
      <3> QED
        BY <1>1, <2>1, <3>1, CancelKeeps
    <2>3. CASE ~(o = "ok" /\ HasRun(k))
      <3>1. SetRun(k, runs[k])
        BY <1>2, <2>3 DEF CancelStep, SetRun
      <3> QED
        BY <1>1, <2>1, <3>1, CancelKeeps
    <2> QED
      BY <2>2, <2>3
  <1>4. CASE o = "fail"
    <2>1. UNCHANGED <<rows, barriers, runs>>
      BY <1>2, <1>4 DEF CancelStep, After, SetRow
    <2>2. UNCHANGED store
      BY <1>1, <2>1 DEF store
    <2> QED
      BY <1>1, <2>1, <2>2, QuiescingOnly
  <1> QED
    BY <1>3, <1>4
\* Closing admission cancels one admitted run at most.
LEMMA QuiesceKeeps ==
    ASSUME CoreInv, quiesce
    PROVE  CoreInv' /\ (UNCHANGED store \/ \E k \in Keys : Cancels(k))
  <1>1. quiescing' \in BOOLEAN /\ admitted \subseteq Keys
    BY DEF quiesce, CoreInv, CoreTypeOK
  <1>2. CASE UNCHANGED <<store, coreState, context, admitted, runs, groups,
                         launches, world>>
    BY <1>1, <1>2, QuiescingOnly DEF store
  <1>3. ASSUME NEW k \in admitted, NEW o, CancelStep(k, o)
        PROVE  CoreInv' /\ (UNCHANGED store \/ \E j \in Keys : Cancels(j))
    <2>1. k \in Keys
      BY <1>1
    <2>2. CoreInv' /\ (Cancels(k) \/ UNCHANGED store)
      BY <1>1, <1>3, <2>1, CancelStepKeeps
    <2> QED
      BY <2>1, <2>2
  <1> QED
    BY <1>2, <1>3 DEF quiesce

\* A restart of the machine is what a release needs: nothing this core started
\* is released while it lives, and no group survived the restart.
LEMMA ReleaseIsAlone ==
    ASSUME CoreInv, NEW k \in Keys, NEW id, NEW e,
           MayRelease(rows[k], context, id, e)
    PROVE  ~HasRun(k) /\ groups[k] = None
  <1> DEFINE row == rows[k]
  <1>1. /\ row \in Row /\ RowInv(row, boots) /\ boots \in [Machines -> Nat]
        /\ context \in RecoveryContext \cup {None} /\ HostNow(context, boots)
        /\ KeyInv(k)
    BY KeyFacts
  <1>2. /\ Recoverable(row, context) /\ row.prep # None
        /\ context.boot # row.prep.context.boot
    BY DEF MayRelease, PrepCurrent
  <1> HIDE DEF row
  <1>3. /\ context \in RecoveryContext /\ row.origin \in RecoveryContext
        /\ context.machine = row.origin.machine
        /\ context.boot = boots[row.origin.machine]
    BY <1>1, <1>2, RecoverableHere
  <1>4. /\ row.prep \in Preparation
        /\ row.origin.boot <= row.prep.context.boot
        /\ row.prep.context.boot <= boots[row.origin.machine]
    BY <1>1, <1>2, <1>3, NoneAssumption DEF RowInv, EvidenceOrdered, Row
  <1>5. row.prep.context.boot \in Nat /\ row.origin.boot \in Nat /\ context.boot \in Nat
    BY <1>3, <1>4 DEF Preparation, RecoveryContext
  <1>6. row.origin.boot # context.boot
    BY <1>2, <1>3, <1>4, <1>5
  <1>7. row.origin # None
    BY <1>2 DEF Recoverable
  <1>8. ~HasRun(k)
    BY <1>1, <1>6 DEF KeyInv, RunIsOwned, row
  <1>9. groups[k] = None
    BY <1>1, <1>3, <1>6, <1>7 DEF KeyInv, ComputeIsRecorded, row
  <1> QED
    BY <1>8, <1>9

LEMMA RecoveryKeeps ==
    ASSUME CoreInv, NEW k \in Keys, NEW id \in PrepIds, NEW e,
           NEW release \in BOOLEAN, recovery_action(k, id, e, release)
    PROVE  CoreInv' /\ WritesOver(k)
  <1> DEFINE row == rows[k]
             barred == k \in barriers
             new == IF release THEN ReleaseRow(row, context)
                    ELSE PrepareRow(row, context, id)
  <1>1. /\ row \in Row /\ RowInv(row, boots) /\ boots \in [Machines -> Nat]
        /\ context \in RecoveryContext \cup {None} /\ HostNow(context, boots)
        /\ KeyInv(k) /\ runs[k] \in Run /\ barred \in BOOLEAN
    BY KeyFacts
  <1>2. /\ Serving /\ SetRow(k, new)
        /\ IF release THEN MayRelease(row, context, id, e)
                      ELSE MayPrepare(row, context, id, e)
        /\ UNCHANGED <<barriers, official, process, runs, groups, launches, world>>
    BY DEF recovery_action
  <1>3. row.status = "unknown" /\ row.active
    BY <1>2 DEF MayRelease, MayPrepare, Recoverable
  <1>4. /\ new.status = row.status
        /\ ~release => new.active = row.active
    BY DEF ReleaseRow, PrepareRow, Moved
  <1>5. release => ~HasRun(k) /\ groups[k] = None
    BY <1>2, ReleaseIsAlone
  <1> HIDE DEF row, barred
  <1>6. Overwrites(row, new, barred, boots)
    <2>1. CASE release
      BY <1>1, <1>2, <2>1, GoodRelease DEF GoodWrite
    <2>2. CASE ~release
      BY <1>1, <1>2, <2>2, GoodPrepare DEF GoodWrite
    <2> QED
      BY <2>1, <2>2
  <1> HIDE DEF new
  <1>7. /\ Handles(k) /\ rows'[k] = new /\ runs'[k] = runs[k]
        /\ groups'[k] = groups[k] /\ launches'[k] = launches[k]
        /\ official'[k] = official[k]
    <2>1. /\ new \in Row /\ SetRun(k, runs[k])
          /\ quiescing' \in BOOLEAN /\ UNCHANGED <<coreState, context, admitted>>
      BY <1>2, <1>6, SameKey DEF Overwrites, SetRun, process, CoreInv, CoreTypeOK
    <2> QED
      BY <1>1, <1>2, <2>1, WritesRowOnly
  <1>8. HasRun(k)' <=> HasRun(k)
    BY <1>7 DEF HasRun
  <1>9. WritesOver(k)
    BY <1>2, <1>6, <1>7 DEF WritesOver, row, barred
  <1>10. KeyInv(k)'
    <2>1. Overwrites(rows[k], rows'[k], k \in barriers', boots)
      BY <1>2, <1>9 DEF WritesOver
    <2>2. /\ HasRun(k) => /\ runs[k].stopped => groups[k] = None
                          /\ runs[k].phase = "committing" => runs[k].stopped
          /\ launches[k] <= 1 /\ (runs[k].phase = "freeze" => launches[k] = 0)
      BY <1>1 DEF KeyInv, RunIsOwned
    <2>3. (groups[k] # None \/ HasRun(k)) => new.active
      BY <1>3, <1>4, <1>5
    <2> QED
      BY <1>3, <1>4, <1>7, <1>8, <2>1, <2>2, <2>3, KeyPreserved
  <1>11. CoreInv'
    <2>1. coreState # "drained"
      BY <1>2 DEF Serving
    <2> QED
      BY <1>3, <1>7, <1>10, <2>1, HandlerPreserves DEF row
  <1> QED
    BY <1>9, <1>11

\* The sequential command line, beside no core.
LEMMA OfflineKeeps ==
    ASSUME CoreInv, NEW k \in Keys
    PROVE  /\ \A b \in Bindings : OfflineConfirm(k, b) => CoreInv' /\ Admits(k)
           /\ OfflineCancel(k) => CoreInv' /\ Cancels(k)
  <1>1. ASSUME NEW b \in Bindings, OfflineConfirm(k, b)
        PROVE  CoreInv' /\ Admits(k)
    BY <1>1, FreshKeeps DEF OfflineConfirm
  <1>2. ASSUME OfflineCancel(k)
        PROVE  CoreInv' /\ Cancels(k)
    <2>1. /\ MayCancel(rows[k]) /\ barriers' = barriers \cup {k}
          /\ SetRow(k, CancelRow(rows[k], k \in barriers))
          /\ SetRun(k, runs[k])
          /\ UNCHANGED <<official, coreState, context, admitted, groups, launches,
                         world>>
      BY <1>2, SameKey DEF OfflineCancel, SetRun, process
    <2>2. quiescing' \in BOOLEAN
      BY <1>2 DEF OfflineCancel, process, CoreInv, CoreTypeOK
    <2> QED
      BY <2>1, <2>2, CancelKeeps
  <1> QED
    BY <1>1, <1>2
-----------------------------------------------------------------------------
(* The process, its machine and the workspace.                             *)

\* Only a serving core has runs.
LEMMA NoRunsWhenDown ==
    ASSUME CoreInv, ~Serving
    PROVE  context = None /\ \A k \in Keys : ~HasRun(k)
  BY DEF CoreInv, ContextIsHost, KeyInv, RunIsOwned

\* A start reconciles every record and keeps it with its slot.
LEMMA ReconciledRow ==
    ASSUME CoreInv, NEW k \in Keys
    PROVE  LET new == ReconcileRow(rows[k]) IN
           /\ Overwrites(rows[k], new, k \in barriers, boots)
           /\ new.active = rows[k].active
           /\ VerdictOf(new) = VerdictOf(rows[k])
           /\ new.status = "succeeded" => rows[k].status = "succeeded"
  <1> DEFINE row == rows[k]
             barred == k \in barriers
             new == ReconcileRow(row)
  <1>1. /\ row \in Row /\ RowInv(row, boots) /\ barred \in BOOLEAN
        /\ row.status \in {"succeeded", "failed"} => ~barred
        /\ row.status \in {"stopping", "cancelled"} => barred
        /\ row.status \in {"dispatched", "running", "stopping"} => row.active
        /\ row.active => row.release = None
    BY KeyFacts, RowFacts
  <1> HIDE DEF row, barred
  <1>2. Overwrites(row, new, barred, boots)
    BY <1>1, GoodReconcile DEF GoodWrite
  <1>3. CASE row.status \in {"dispatched", "running", "stopping"}
    <2>1. new = Moved(row, "unknown", TRUE)
      BY <1>3 DEF ReconcileRow
    <2>2. /\ new.active = TRUE /\ new.status = "unknown" /\ new.release = None
          /\ row.active = TRUE
      BY <1>1, <1>3, <2>1 DEF Moved, Row
    <2> HIDE DEF new
    <2>3. VerdictOf(new) = VerdictOf(row)
      BY <1>1, <1>3, <2>2 DEF VerdictOf, Released, Final
    <2> QED
      BY <1>2, <2>2, <2>3 DEF row, barred, new
  <1>4. CASE row.status \notin {"dispatched", "running", "stopping"}
    <2>1. new = row
      BY <1>4 DEF ReconcileRow
    <2> QED
      BY <1>2, <2>1 DEF row, barred, new
  <1> QED
    BY <1>3, <1>4

LEMMA OpenKeeps ==
    ASSUME CoreInv, CoreOpen
    PROVE  CoreInv'
  <1>1. CoreTypeOK /\ context = None /\ \A k \in Keys : ~HasRun(k)
    BY NoRunsWhenDown DEF CoreOpen, CoreInv
  <1>2. /\ UNCHANGED <<barriers, official, runs, groups, launches>>
        /\ place' = place /\ boots' = boots
        /\ coreState' \in {"serving", "down"}
        /\ context' \in {HostContext, None}
        /\ context' # None => coreState' = "serving"
        /\ quiescing' = FALSE /\ admitted' = {}
        /\ rows' = [k \in Keys |-> ReconcileRow(rows[k])]
    BY DEF CoreOpen, world
  <1>3. ASSUME NEW k \in Keys
        PROVE  /\ rows'[k] \in Row
               /\ Overwrites(rows[k], rows'[k], k \in barriers, boots)
               /\ rows'[k].active = rows[k].active
               /\ rows'[k].status = "succeeded" => rows[k].status = "succeeded"
    <2>1. rows'[k] = ReconcileRow(rows[k])
      BY <1>2
    <2>2. Overwrites(rows[k], rows'[k], k \in barriers, boots)
      BY <2>1, ReconciledRow
    <2>3. rows'[k] \in Row
      BY <2>2 DEF Overwrites
    <2> QED
      BY <2>1, <2>2, <2>3, ReconciledRow
  <1>4. CoreTypeOK'
    <2>1. rows' = [k \in Keys |-> rows'[k]]
      BY <1>2
    <2>2. rows' \in [Keys -> Row]
      BY <1>3, <2>1
    <2>3. HostContext \in RecoveryContext
      BY <1>1 DEF CoreTypeOK, HostContext, RecoveryContext, Place
    <2>4. context' \in RecoveryContext \cup {None}
      BY <1>2, <2>3
    <2> QED
      BY <1>1, <1>2, <2>2, <2>4 DEF CoreTypeOK
  <1>5. OneActive'
    BY <1>3 DEF CoreInv, OneActive
  <1>6. ContextIsHost'
    BY <1>2 DEF ContextIsHost, Serving, HostContext
  <1>7. ASSUME NEW k \in Keys
        PROVE  KeyInv(k)'
    <2>1. KeyInv(k)
      BY DEF CoreInv
    <2>2. ~HasRun(k)' /\ runs'[k].phase # "freeze"
      BY <1>1, <1>2 DEF HasRun
    <2>3. /\ RowInv(rows'[k], boots)
          /\ rows'[k].status \in {"absent", "eligible"} =>
               rows[k].status \in {"absent", "eligible"}
          /\ rows'[k].status \in {"succeeded", "failed"} => k \notin barriers
          /\ rows'[k].status \in {"stopping", "cancelled"} => k \in barriers
      BY <1>3 DEF Overwrites
    <2>4. groups'[k] # None => ComputeIsRecorded(k)'
      <3> SUFFICES ASSUME groups[k] # None
                   PROVE  ComputeIsRecorded(k)'
        BY <1>2
      <3>1. ComputeIsRecorded(k)
        BY <2>1 DEF KeyInv
      <3>2. rows'[k].status # "eligible" /\ rows'[k].origin = rows[k].origin
        BY <1>3, <3>1 DEF Overwrites, ComputeIsRecorded
      <3> QED
        BY <1>2, <1>3, <3>1, <3>2 DEF ComputeIsRecorded
    <2> QED
      BY <1>2, <1>3, <2>1, <2>2, <2>3, <2>4 DEF KeyInv
  <1>8. CleanExit'
    BY <1>2 DEF CleanExit
  <1> QED
    BY <1>4, <1>5, <1>6, <1>7, <1>8 DEF CoreInv

\* What is left when the process is gone: the store, the groups and the world.
LEMMA EndKeeps ==
    ASSUME CoreInv, NEW state \in {"down", "drained"}, ProcessEnds(state),
           UNCHANGED <<store, groups, launches, world>>,
           state = "drained" =>
             \A k \in admitted : is_terminal(rows[k].status)
    PROVE  CoreInv'
  <1>1. /\ UNCHANGED <<rows, barriers, official, groups, launches>>
        /\ place' = place /\ boots' = boots
        /\ coreState' = state /\ context' = None /\ quiescing' = FALSE
        /\ admitted' \subseteq admitted
        /\ runs' = [k \in Keys |-> NoRun]
    BY DEF ProcessEnds, store, world
  <1>2. CoreTypeOK'
    <2>1. NoRun \in Run
      BY DEF NoRun, Run
    <2> QED
      BY <1>1, <2>1 DEF CoreInv, CoreTypeOK
  <1>3. OneActive' /\ ContextIsHost'
    BY <1>1 DEF CoreInv, OneActive, ContextIsHost
  <1>4. ASSUME NEW k \in Keys
        PROVE  KeyInv(k)'
    <2>1. KeyInv(k)
      BY DEF CoreInv
    <2>2. ~HasRun(k)' /\ runs'[k].phase # "freeze"
      BY <1>1 DEF HasRun, NoRun
    <2>3. ComputeIsRecorded(k) => ComputeIsRecorded(k)'
      BY <1>1 DEF ComputeIsRecorded
    <2> QED
      BY <1>1, <2>1, <2>2, <2>3 DEF KeyInv
  <1>5. CleanExit'
    <2> SUFFICES ASSUME coreState' = "drained", NEW k \in admitted'
                 PROVE  is_terminal(rows'[k].status) /\ groups'[k] = None
      BY DEF CleanExit
    <2>1. k \in Keys /\ is_terminal(rows[k].status)
      BY <1>1 DEF CoreInv, CoreTypeOK
    <2>2. KeyInv(k)
      BY <2>1 DEF CoreInv
    <2>3. rows[k].status \notin Held
      BY <2>1 DEF is_terminal, Held, Final
    <2>4. ~rows[k].active
      BY <2>1, <2>3, RowFacts
    <2>5. groups[k] = None
      BY <2>2, <2>4 DEF KeyInv, ComputeIsRecorded
    <2> QED
      BY <1>1, <2>1, <2>5
  <1> QED
    BY <1>2, <1>3, <1>4, <1>5 DEF CoreInv

LEMMA ExitKeeps ==
    ASSUME CoreInv, OwnerGone \/ Crash
    PROVE  CoreInv'
  <1>1. CASE OwnerGone
    <2>1. Pending = {} => \A k \in admitted : is_terminal(rows[k].status)
      BY DEF Pending
    <2> QED
      BY <1>1, <2>1, EndKeeps DEF OwnerGone
  <1>2. CASE Crash
    BY <1>2, EndKeeps DEF Crash
  <1> QED
    BY <1>1, <1>2

\* Groups end, and machines restart: there may be fewer groups, and what is left
\* on a machine that did not restart keeps its boot.
LEMMA FewerGroups ==
    ASSUME CoreInv, NEW M \in SUBSET Machines,
           groups' \in [Keys -> Machines \cup {None}],
           \A k \in Keys : \/ groups'[k] = None
                           \/ groups'[k] = groups[k] /\ groups[k] \notin M,
           boots' \in [Machines -> Nat],
           \A m \in Machines : /\ boots[m] <= boots'[m]
                               /\ m \notin M => boots'[m] = boots[m],
           Serving' => place.machine \notin M,
           \/ UNCHANGED <<process, runs>>
           \/ ProcessEnds("down"),
           UNCHANGED <<store, launches, place>>
    PROVE  CoreInv'
  <1>1. /\ UNCHANGED <<rows, barriers, official, launches, place>>
        /\ \/ UNCHANGED <<coreState, context, quiescing, admitted, runs>>
           \/ /\ coreState' = "down" /\ context' = None /\ quiescing' = FALSE
              /\ admitted' = {} /\ runs' = [k \in Keys |-> NoRun]
    BY DEF store, process, ProcessEnds
  <1>2. CoreTypeOK /\ boots \in [Machines -> Nat]
    BY DEF CoreInv, CoreTypeOK
  <1>3. CoreTypeOK'
    <2>1. NoRun \in Run
      BY DEF NoRun, Run
    <2>2. runs' \in [Keys -> Run]
      BY <1>1, <1>2, <2>1 DEF CoreTypeOK
    <2> QED
      BY <1>1, <1>2, <2>2 DEF CoreTypeOK
  <1>4. OneActive'
    BY <1>1 DEF CoreInv, OneActive
  <1>5. place.machine \in Machines
    BY <1>2 DEF CoreTypeOK, Place
  <1>6. ContextIsHost'
    <2> SUFFICES ASSUME context' # None
                 PROVE  Serving' /\ context' = HostContext'
      BY DEF ContextIsHost
    <2>1. context' = context /\ coreState' = coreState
      BY <1>1
    <2>2. Serving /\ Serving' /\ context = HostContext
      BY <2>1 DEF CoreInv, ContextIsHost, Serving
    <2>3. boots'[place.machine] = boots[place.machine]
      BY <1>5, <2>2
    <2> QED
      BY <1>1, <2>1, <2>2, <2>3 DEF HostContext
  <1>7. ASSUME NEW k \in Keys
        PROVE  KeyInv(k)'
    <2>1. KeyInv(k) /\ RowInv(rows[k], boots) /\ rows[k] \in Row
      BY KeyFacts
    <2>2. RowInv(rows[k], boots')
      <3> DEFINE row == rows[k]
      <3>1. /\ row.origin # None => row.origin \in RecoveryContext
            /\ row.prep # None => row.prep \in Preparation
        BY <2>1 DEF Row
      <3>2. EvidenceOrdered(row, boots) /\ row \in Row
        BY <2>1 DEF RowInv
      <3> HIDE DEF row
      <3>3. /\ row.origin # None => /\ row.origin.machine \in Machines
                                    /\ row.origin.boot \in Nat
            /\ row.prep # None => row.prep.context.boot \in Nat
        BY <3>1 DEF RecoveryContext, Preparation
      <3>4. EvidenceOrdered(row, boots')
        BY <1>2, <3>2, <3>3 DEF EvidenceOrdered
      <3> QED
        BY <2>1, <3>4 DEF RowInv, row
    <2>3. HasRun(k)' => RunIsOwned(k)'
      <3> SUFFICES ASSUME HasRun(k)'
                   PROVE  RunIsOwned(k)'
        OBVIOUS
      <3>1. UNCHANGED <<coreState, context, runs>>
        BY <1>1 DEF HasRun, NoRun
      <3>2. HasRun(k) /\ RunIsOwned(k)
        BY <2>1, <3>1 DEF HasRun, KeyInv
      <3> QED
        BY <1>1, <3>1, <3>2 DEF RunIsOwned, Serving
    <2>4. groups'[k] # None => ComputeIsRecorded(k)'
      <3> SUFFICES ASSUME groups'[k] # None
                   PROVE  ComputeIsRecorded(k)'
        OBVIOUS
      <3>1. groups'[k] = groups[k] /\ groups[k] \notin M /\ groups[k] \in Machines
        BY <1>2 DEF CoreTypeOK
      <3>2. ComputeIsRecorded(k)
        BY <2>1, <3>1 DEF KeyInv
      <3> QED
        BY <1>1, <3>1, <3>2 DEF ComputeIsRecorded
    <2>5. runs'[k].phase = "freeze" => runs[k].phase = "freeze"
      BY <1>1 DEF NoRun
    <2> QED
      BY <1>1, <2>1, <2>2, <2>3, <2>4, <2>5 DEF KeyInv
  <1>8. CleanExit'
    <2> SUFFICES ASSUME coreState' = "drained", NEW k \in admitted'
                 PROVE  is_terminal(rows'[k].status) /\ groups'[k] = None
      BY DEF CleanExit
    <2>1. coreState = "drained" /\ admitted' = admitted /\ k \in Keys
      BY <1>1, <1>2 DEF CoreTypeOK
    <2>2. is_terminal(rows[k].status) /\ groups[k] = None
      BY <2>1 DEF CoreInv, CleanExit
    <2> QED
      BY <1>1, <2>1, <2>2
  <1> QED
    BY <1>3, <1>4, <1>6, <1>7, <1>8 DEF CoreInv

LEMMA WorldKeeps ==
    ASSUME CoreInv
    PROVE  /\ \A k \in Keys : GroupExits(k) => CoreInv'
           /\ \A m \in Machines : Reboot(m) => CoreInv'
           /\ \A p \in Place : Carry(p) => CoreInv'
  <1>1. /\ CoreTypeOK /\ groups \in [Keys -> Machines \cup {None}]
        /\ boots \in [Machines -> Nat]
    BY DEF CoreInv, CoreTypeOK
  <1>2. ASSUME NEW k \in Keys, GroupExits(k)
        PROVE  CoreInv'
    <2>1. /\ groups' \in [Keys -> Machines \cup {None}] /\ boots' = boots
          /\ \A j \in Keys : groups'[j] = None \/ groups'[j] = groups[j]
          /\ UNCHANGED <<store, process, runs, launches, place>>
      BY <1>1, <1>2 DEF GroupExits, world
    <2>2. \A m \in Machines : boots[m] <= boots'[m]
      BY <1>1, <2>1
    <2>3. /\ {} \in SUBSET Machines
          /\ \A j \in Keys : \/ groups'[j] = None
                             \/ groups'[j] = groups[j] /\ groups[j] \notin {}
          /\ \A m \in Machines : m \notin {} => boots'[m] = boots[m]
          /\ boots' \in [Machines -> Nat] /\ place.machine \notin {}
      BY <1>1, <2>1
    <2> QED
      BY <2>1, <2>2, <2>3, FewerGroups
  <1>3. ASSUME NEW m \in Machines, Reboot(m)
        PROVE  CoreInv'
    <2>1. /\ boots' \in [Machines -> Nat]
          /\ \A n \in Machines : /\ boots[n] <= boots'[n]
                                 /\ n \notin {m} => boots'[n] = boots[n]
      BY <1>1, <1>3 DEF Reboot
    <2>2. /\ groups' \in [Keys -> Machines \cup {None}]
          /\ \A k \in Keys : \/ groups'[k] = None
                             \/ groups'[k] = groups[k] /\ groups[k] \notin {m}
      BY <1>1, <1>3 DEF Reboot
    <2>3. /\ Serving' => place.machine \notin {m}
          /\ UNCHANGED <<process, runs>> \/ ProcessEnds("down")
          /\ UNCHANGED <<store, launches, place>>
      BY <1>3 DEF Reboot, Serving, process, ProcessEnds
    <2> QED
      BY <2>1, <2>2, <2>3, FewerGroups
  <1>4. ASSUME NEW p \in Place, Carry(p)
        PROVE  CoreInv'
    <2>1. /\ UNCHANGED <<rows, barriers, official, coreState, context, quiescing,
                         admitted, runs, groups, launches, boots>>
          /\ place' = p /\ ~Serving
      BY <1>4 DEF Carry, store, process
    <2>2. CoreTypeOK'
      BY <1>1, <2>1 DEF CoreTypeOK
    <2>3. OneActive' /\ ContextIsHost' /\ CleanExit'
      BY <2>1, NoRunsWhenDown
         DEF CoreInv, OneActive, ContextIsHost, CleanExit
    <2>4. ASSUME NEW k \in Keys
          PROVE  KeyInv(k)'
      BY <2>1 DEF CoreInv, KeyInv, ComputeIsRecorded, RunIsOwned, HasRun, Serving
    <2> QED
      BY <2>2, <2>3, <2>4 DEF CoreInv
  <1> QED
    BY <1>2, <1>3, <1>4
-----------------------------------------------------------------------------
(* The invariant of the event loop.                                        *)

LEMMA CoreStarts ==
    ASSUME CoreInit
    PROVE  CoreInv
  <1>1. /\ NoRow \in Row /\ NoRun \in Run
        /\ NoRow.status = "absent" /\ ~NoRow.active
        /\ NoRow.origin = None /\ NoRow.prep = None /\ NoRow.release = None
    BY NoneAssumption DEF NoRow, Row, Status, NoRun, Run, ChildPhases
  <1>2. CoreTypeOK
    BY <1>1 DEF CoreInit, CoreTypeOK
  <1>3. OneActive /\ ContextIsHost /\ CleanExit
    BY <1>1 DEF CoreInit, OneActive, ContextIsHost, CleanExit
  <1>4. ASSUME NEW k \in Keys
        PROVE  KeyInv(k)
    <2>1. /\ rows[k] = NoRow /\ groups[k] = None /\ launches[k] = 0
          /\ runs[k] = NoRun
      BY DEF CoreInit
    <2>2. ~HasRun(k)
      BY <2>1 DEF HasRun, NoRun
    <2>3. RowInv(NoRow, boots)
      BY <1>1 DEF RowInv, EvidenceOrdered
    <2> QED
      BY <1>1, <2>1, <2>2, <2>3 DEF KeyInv
  <1> QED
    BY <1>2, <1>3, <1>4 DEF CoreInv

\* What a step of the core is: one of a handler for some key, the reconciliation
\* of a start, or one that leaves the store alone.
CoreStep ==
    \/ \E k \in Keys : Admits(k) \/ Cancels(k) \/ WritesOver(k)
    \/ CoreOpen
    \/ UNCHANGED store

LEMMA CoreStepKeeps ==
    ASSUME CoreInv, [CoreNext]_coreVars
    PROVE  CoreInv' /\ CoreStep
  <1>1. ASSUME NEW k \in Keys, NEW b \in Bindings, confirm(k, b)
        PROVE  CoreInv' /\ CoreStep
    BY <1>1, ConfirmKeeps DEF CoreStep
  <1>2. ASSUME NEW k \in Keys, cancel(k)
        PROVE  CoreInv' /\ CoreStep
    <2>1. quiescing' \in BOOLEAN
      BY <1>2 DEF cancel, CoreInv, CoreTypeOK
    <2>2. ASSUME NEW o, CancelStep(k, o)
          PROVE  CoreInv' /\ CoreStep
      BY <2>1, <2>2, CancelStepKeeps DEF CoreStep
    <2> QED
      BY <1>2, <2>2 DEF cancel
  <1>3. CASE quiesce
    BY <1>3, QuiesceKeeps DEF CoreStep
  <1>4. ASSUME NEW k \in Keys, NEW id \in PrepIds, NEW e \in Fences,
               NEW release \in BOOLEAN, recovery_action(k, id, e, release)
        PROVE  CoreInv' /\ CoreStep
    BY <1>4, RecoveryKeeps DEF CoreStep
  <1>5. ASSUME NEW k \in Keys, tick(k, Faults)
        PROVE  CoreInv' /\ CoreStep
    BY <1>5, TickPreserves DEF CoreStep
  <1>6. CASE CoreOpen
    BY <1>6, OpenKeeps DEF CoreStep
  <1>7. CASE OwnerGone \/ Crash
    BY <1>7, ExitKeeps DEF CoreStep, OwnerGone, Crash
  <1>8. ASSUME NEW k \in Keys, GroupExits(k)
        PROVE  CoreInv' /\ CoreStep
    BY <1>8, WorldKeeps DEF CoreStep, GroupExits
  <1>9. ASSUME NEW m \in Machines, Reboot(m)
        PROVE  CoreInv' /\ CoreStep
    BY <1>9, WorldKeeps DEF CoreStep, Reboot
  <1>10. ASSUME NEW p \in Place, Carry(p)
         PROVE  CoreInv' /\ CoreStep
    BY <1>10, WorldKeeps DEF CoreStep, Carry
  <1>11. ASSUME NEW k \in Keys, NEW b \in Bindings, OfflineConfirm(k, b)
         PROVE  CoreInv' /\ CoreStep
    BY <1>11, OfflineKeeps DEF CoreStep
  <1>12. ASSUME NEW k \in Keys, OfflineCancel(k)
         PROVE  CoreInv' /\ CoreStep
    BY <1>12, OfflineKeeps DEF CoreStep
  <1>13. CASE UNCHANGED coreVars
    <2>1. /\ UNCHANGED <<store, coreState, context, admitted, runs, groups,
                         launches, world>>
          /\ quiescing' \in BOOLEAN
      BY <1>13 DEF coreVars, process, CoreInv, CoreTypeOK
    <2> QED
      BY <2>1, QuiescingOnly DEF CoreStep
  <1> QED
    BY <1>1, <1>2, <1>3, <1>4, <1>5, <1>6, <1>7, <1>8, <1>9, <1>10, <1>11, <1>12,
       <1>13 DEF CoreNext

\* What a reviewer relies on follows from the invariant.
LEMMA InvIsSafe ==
    ASSUME CoreInv
    PROVE  CoreSafe
  <1>1. ComputeHoldsSlot
    BY DEF CoreInv, KeyInv, ComputeIsRecorded, ComputeHoldsSlot
  <1>2. OneCompute
    BY <1>1 DEF CoreInv, OneActive, ComputeHoldsSlot, OneCompute
  <1>3. OneLaunch /\ SuccessIsPublished
    BY DEF CoreInv, KeyInv, OneLaunch, SuccessIsPublished
  <1>4. StoppedIsProven
    BY DEF CoreInv, KeyInv, RunIsOwned, StoppedIsProven
  <1> QED
    BY <1>1, <1>2, <1>3, <1>4 DEF CoreSafe

\* The core's invariant, for every set of experiments and machines, every fault
\* of the store, and every interleaving of requests, ticks, dying groups, crashes,
\* restarts and moves of the workspace.
THEOREM CoreInvariant == CoreSpec => []CoreInv
  <1>1. CoreInit => CoreInv
    BY CoreStarts
  <1>2. CoreInv /\ [CoreNext]_coreVars => CoreInv'
    BY CoreStepKeeps
  <1> QED
    BY <1>1, <1>2, PTL DEF CoreSpec

\* Compute runs only under the slot and one at a time, one launch per
\* confirmation, success only with published bytes, a clean exit leaves nothing
\* behind, and what memory calls stopped is stopped.
THEOREM CoreIsSafe == CoreSpec => []CoreSafe
  <1>1. CoreInv => CoreSafe
    BY InvIsSafe
  <1> QED
    BY CoreInvariant, <1>1, PTL
-----------------------------------------------------------------------------
(* The event loop implements the slot ledger.                              *)

\* k is the experiment that holds the slot.
HolderIs(k) ==
    k \in Keys /\ \A j \in Keys : rows[j].active <=> j = k

Verdicts == [k \in Keys |-> VerdictOf(rows[k])]

LEMMA HolderIsActive ==
    ASSUME NEW k, HolderIs(k)
    PROVE  Holder = k
  BY DEF HolderIs, Holder

LEMMA NobodyHolds ==
    ASSUME \A k \in Keys : ~rows[k].active
    PROVE  Holder = None
  BY DEF Holder

\* The rows and the verdicts after a step of one key.
LEMMA HandledVerdicts ==
    ASSUME CoreInv, NEW k \in Keys, Handles(k)
    PROVE  /\ \A j \in Keys : j # k => rows'[j] = rows[j]
           /\ Verdicts' = [Verdicts EXCEPT ![k] = VerdictOf(rows'[k])]
           /\ rows'[k] = rows[k] => rows' = rows
  <1>1. \A j \in Keys : j # k => rows'[j] = rows[j]
    BY HandledKeys
  <1>2. CoreTypeOK /\ CoreTypeOK'
    BY HandledKeys DEF CoreInv
  <1>3. rows'[k] = rows[k] => rows' = rows
    BY <1>1, <1>2 DEF CoreTypeOK
  <1> QED
    BY <1>1, <1>3 DEF Verdicts, VerdictOf, Released

\* Overwriting a record beside unchanged barriers is a Settle or invisible.
LEMMA WriteSettles ==
    ASSUME CoreInv, NEW k \in Keys, WritesOver(k)
    PROVE  [Ledger!Next]_Ledger!vars
  <1> DEFINE row == rows[k]
             new == rows'[k]
             barred == k \in barriers
  <1>1. /\ row \in Row /\ RowInv(row, boots) /\ barred \in BOOLEAN
        /\ Overwrites(row, new, barred, boots) /\ barriers' = barriers
    BY KeyFacts DEF WritesOver
  <1>2. /\ \A j \in Keys : j # k => rows'[j] = rows[j]
        /\ Verdicts' = [Verdicts EXCEPT ![k] = VerdictOf(new)]
        /\ new = row => rows' = rows
    BY HandledVerdicts DEF WritesOver
  <1>3. CASE new = row
    BY <1>1, <1>2, <1>3 DEF Ledger!vars, Holder, VerdictOf, Released
  <1>4. CASE new # row
    <2>1. /\ row.active /\ VerdictOf(row) = None
          /\ \/ new.active /\ VerdictOf(new) = None
             \/ /\ ~new.active
                /\ VerdictOf(new) \in Ledger!Verdicts
                /\ VerdictOf(new) \in {"succeeded", "failed"} => ~barred
                /\ VerdictOf(new) = "cancelled" => barred
      <3> HIDE DEF row, new, barred
      <3> QED
        BY <1>1, <1>4, ChangeHoldsOrEnds DEF Ledger!Verdicts
    <2>2. HolderIs(k) /\ Holder = k
      <3>1. HolderIs(k)
        BY <2>1 DEF HolderIs, CoreInv, OneActive
      <3> QED
        BY <3>1, HolderIsActive
    <2>3. CASE new.active
      <3>1. HolderIs(k)'
        BY <1>2, <2>2, <2>3 DEF HolderIs
      <3>2. Holder' = k
        BY <3>1 DEF HolderIs, Holder
      <3>3. Verdicts' = Verdicts
        BY <1>2, <2>1, <2>3 DEF Verdicts
      <3> QED
        BY <1>1, <2>2, <3>2, <3>3 DEF Ledger!vars, Verdicts
    <2>4. CASE ~new.active
      <3>1. Holder' = None
        <4>1. \A j \in Keys : ~rows'[j].active
          BY <1>2, <2>2, <2>4 DEF HolderIs
        <4> QED
          BY <4>1 DEF Holder
      <3>2. Ledger!Settle(k, VerdictOf(new))
        BY <1>1, <1>2, <2>1, <2>2, <2>4, <3>1 DEF Ledger!Settle, Verdicts
      <3> QED
        BY <2>1, <2>4, <3>2 DEF Ledger!Next
    <2> QED
      BY <2>3, <2>4
  <1> QED
    BY <1>3, <1>4

\* A confirmation that begins a run admits it, failed at once or not.
LEMMA AdmissionAdmits ==
    ASSUME CoreInv, NEW k \in Keys, Admits(k)
    PROVE  Ledger!Next
  <1> DEFINE new == rows'[k]
  <1>1. /\ Handles(k) /\ barriers' = barriers /\ k \notin barriers
        /\ \A j \in Keys : ~rows[j].active
        /\ rows[k].status = "absent" /\ RowInv(new, boots)
        /\ new.status \notin {"absent", "succeeded", "cancelled", "unknown"}
    BY DEF Admits, SlotFree
  <1>2. VerdictOf(rows[k]) = None
    <2>1. rows[k] = NoRow
      BY <1>1, KeyFacts DEF RowInv
    <2> QED
      BY <2>1 DEF NoRow, VerdictOf, Released, Final
  <1>3. /\ \A j \in Keys : j # k => rows'[j] = rows[j]
        /\ Verdicts' = [Verdicts EXCEPT ![k] = VerdictOf(new)]
    BY <1>1, HandledVerdicts
  <1>4. Holder = None
    BY <1>1, NobodyHolds
  <1>5. Ledger!Admissible(k)
    BY <1>1, <1>2, <1>4 DEF Ledger!Admissible
  <1>6. RowCheck(new)
    BY <1>1 DEF RowInv
  <1>7. CASE new.active
    <2>1. VerdictOf(new) = None
      BY <1>6, <1>7 DEF RowCheck, VerdictOf, Released, Held, Final
    <2>2. Verdicts' = Verdicts
      BY <1>2, <1>3, <2>1 DEF Verdicts
    <2>3. HolderIs(k)'
      BY <1>1, <1>3, <1>7 DEF HolderIs
    <2>4. Holder' = k
      BY <2>3 DEF HolderIs, Holder
    <2>5. Ledger!Admit(k)
      BY <1>1, <1>5, <2>2, <2>4 DEF Ledger!Admit, Verdicts
    <2> QED
      BY <2>5 DEF Ledger!Next
  <1>8. CASE ~new.active
    <2>1. VerdictOf(new) = "failed"
      BY <1>1, <1>6, <1>8 DEF RowCheck, VerdictOf, Released, Held, Final
    <2>2. Holder' = None
      <3>1. \A j \in Keys : ~rows'[j].active
        BY <1>1, <1>3, <1>8
      <3> QED
        BY <3>1 DEF Holder
    <2>3. Ledger!AdmitFailed(k)
      BY <1>1, <1>3, <1>4, <1>5, <2>1, <2>2 DEF Ledger!AdmitFailed, Verdicts
    <2> QED
      BY <2>3 DEF Ledger!Next
  <1> QED
    BY <1>7, <1>8

\* An accepted cancellation frees the slot of an eligible experiment at once and
\* keeps it where compute may exist.
LEMMA CancellationCancels ==
    ASSUME CoreInv, NEW k \in Keys, Cancels(k)
    PROVE  Ledger!Next
  <1> DEFINE row == rows[k]
             barred == k \in barriers
             new == CancelRow(row, barred)
  <1>1. /\ row \in Row /\ RowInv(row, boots) /\ MayCancel(row)
        /\ barriers' = barriers \cup {k} /\ barred \in BOOLEAN
        /\ Overwrites(row, new, TRUE, boots) /\ rows'[k] = new
    <2>1. /\ MayCancel(row) /\ barriers' = barriers \cup {k} /\ rows'[k] = new
      BY DEF Cancels
    <2>2. Overwrites(row, new, TRUE, boots)
      BY <2>1, CancelledRow
    <2>3. barred \in BOOLEAN
      OBVIOUS
    <2> QED
      BY <2>1, <2>2, <2>3, KeyFacts
  <1>2. /\ \A j \in Keys : j # k => rows'[j] = rows[j]
        /\ Verdicts' = [Verdicts EXCEPT ![k] = VerdictOf(new)]
        /\ new = row => rows' = rows
    BY <1>1, HandledVerdicts DEF Cancels
  <1>3. Verdicts[k] = VerdictOf(row) /\ VerdictOf(row) \in {None, "cancelled"}
    BY <1>1 DEF MayCancel, Verdicts, VerdictOf, Released, Final
  <1>4. CASE new = row
    <2>1. rows' = rows
      BY <1>2, <1>4
    <2>2. Holder' = Holder /\ Verdicts' = Verdicts
      BY <2>1 DEF Holder, Verdicts, VerdictOf, Released
    <2>3. Ledger!Cancel(k)
      BY <1>1, <1>3, <2>2 DEF Ledger!Cancel, Verdicts
    <2> QED
      BY <2>3 DEF Ledger!Next
  <1>5. CASE new # row
    <2>1. ~barred
      BY <1>5 DEF CancelRow
    <2>2. /\ row.active /\ VerdictOf(row) = None
          /\ \/ new.active /\ VerdictOf(new) = None
             \/ ~new.active /\ VerdictOf(new) = "cancelled"
      <3>1. /\ row.active /\ VerdictOf(row) = None
            /\ new.active => VerdictOf(new) = None
        <4> HIDE DEF row, new, barred
        <4> QED
          BY <1>1, <1>5, ChangeHoldsOrEnds
      <3>2. ~new.active => new = Moved(row, "cancelled", FALSE)
        BY <1>1, <1>5 DEF CancelRow, Moved
      <3>3. row.release = None
        BY <1>1 DEF MayCancel
      <3>4. ~new.active => VerdictOf(new) = "cancelled"
        BY <3>2, <3>3 DEF Moved, VerdictOf, Released, Final
      <3> QED
        BY <3>1, <3>4
    <2>3. HolderIs(k) /\ Holder = k
      <3>1. HolderIs(k)
        BY <2>2 DEF HolderIs, CoreInv, OneActive
      <3> QED
        BY <3>1, HolderIsActive
    <2> HIDE DEF new
    <2>4. CASE new.active
      <3>1. HolderIs(k)'
        BY <1>1, <1>2, <2>3, <2>4 DEF HolderIs
      <3>2. Holder' = k
        BY <3>1 DEF HolderIs, Holder
      <3>3. Verdicts' = Verdicts
        BY <1>2, <2>2, <2>4 DEF Verdicts
      <3>4. Ledger!Cancel(k)
        BY <1>1, <1>3, <2>3, <3>2, <3>3 DEF Ledger!Cancel, Verdicts
      <3> QED
        BY <3>4 DEF Ledger!Next
    <2>5. CASE ~new.active
      <3>1. Holder' = None
        <4>1. \A j \in Keys : ~rows'[j].active
          BY <1>1, <1>2, <2>3, <2>5 DEF HolderIs
        <4> QED
          BY <4>1 DEF Holder
      <3>2. Ledger!Cancel(k)
        BY <1>1, <1>2, <1>3, <2>1, <2>2, <2>3, <2>5, <3>1
           DEF Ledger!Cancel, Verdicts
      <3> QED
        BY <3>2 DEF Ledger!Next
    <2> QED
      BY <2>4, <2>5
  <1> QED
    BY <1>4, <1>5

\* Reconciling what an earlier owner left keeps the slot and the verdicts.
LEMMA OpenIsInvisible ==
    ASSUME CoreInv, CoreOpen
    PROVE  UNCHANGED Ledger!vars
  <1>1. ASSUME NEW k \in Keys
        PROVE  /\ rows'[k].active = rows[k].active
               /\ VerdictOf(rows'[k]) = VerdictOf(rows[k])
    <2>1. rows'[k] = ReconcileRow(rows[k])
      BY DEF CoreOpen
    <2> QED
      BY <2>1, ReconciledRow
  <1>2. [k \in Keys |-> VerdictOf(rows[k])]' = [k \in Keys |-> VerdictOf(rows[k])]
    BY <1>1 DEF VerdictOf, Released
  <1>3. Holder' = Holder
    <2>1. CASE \E k \in Keys : rows[k].active
      <3>1. PICK k \in Keys : HolderIs(k)
        BY <2>1 DEF HolderIs, CoreInv, OneActive
      <3>2. HolderIs(k)'
        BY <1>1, <3>1 DEF HolderIs
      <3> QED
        BY <3>1, <3>2 DEF HolderIs, Holder
    <2>2. CASE \A k \in Keys : ~rows[k].active
      <3>1. \A k \in Keys : ~rows'[k].active
        BY <1>1, <2>2
      <3> QED
        BY <2>2, <3>1 DEF Holder
    <2> QED
      BY <2>1, <2>2
  <1> QED
    BY <1>2, <1>3 DEF CoreOpen, Ledger!vars

LEMMA CoreStepIsLedgerStep ==
    ASSUME CoreInv, CoreStep
    PROVE  [Ledger!Next]_Ledger!vars
  <1>1. ASSUME NEW k \in Keys, Admits(k) \/ Cancels(k) \/ WritesOver(k)
        PROVE  [Ledger!Next]_Ledger!vars
    BY <1>1, AdmissionAdmits, CancellationCancels, WriteSettles
  <1>2. CASE CoreOpen
    BY <1>2, OpenIsInvisible
  <1>3. CASE UNCHANGED store
    BY <1>3 DEF store, Ledger!vars, Holder, VerdictOf, Released
  <1> QED
    BY <1>1, <1>2, <1>3 DEF CoreStep

LEMMA CoreStartsLedger ==
    ASSUME CoreInit
    PROVE  Ledger!Init
  <1>1. \A k \in Keys : rows[k] = NoRow
    BY DEF CoreInit
  <1>2. Holder = None
    BY <1>1, NobodyHolds DEF NoRow
  <1>3. ASSUME NEW k \in Keys
        PROVE  VerdictOf(rows[k]) = None
    <2>1. rows[k].status = "absent" /\ rows[k].release = None
      BY <1>1 DEF NoRow
    <2> QED
      BY <2>1 DEF VerdictOf, Released, Final
  <1> QED
    BY <1>2, <1>3 DEF Ledger!Init, CoreInit

\* The event loop implements the slot ledger: whatever a handler writes, fails to
\* write or does not learn that it wrote, and wherever the core dies, a client
\* sees admissions, cancellations and endings, one slot and one verdict each.
THEOREM CoreImplementsLedger == CoreSpec => ImplementsLedger
  <1>1. CoreInit => Ledger!Init
    BY CoreStartsLedger
  <1>2. CoreInv /\ [CoreNext]_coreVars => [Ledger!Next]_Ledger!vars
    BY CoreStepKeeps, CoreStepIsLedgerStep
  <1> QED
    BY CoreInvariant, <1>1, <1>2, PTL DEF CoreSpec, ImplementsLedger, Ledger!Spec
=============================================================================
