-------------------------- MODULE QuineStoreProofs --------------------------
(***************************************************************************)
(* Proofs about QuineStore for every set of experiments, bindings,         *)
(* results, owners, machines and workspaces.  The argument: whatever a     *)
(* method writes over a row that satisfies RowInv is a good write (Lemmas  *)
(* GoodConfirm to GoodRelease); a good write preserves StoreInv (Lemma     *)
(* WritePreserves); so every step does, and the properties follow.         *)
(***************************************************************************)
EXTENDS QuineStore, AttemptProofs
-----------------------------------------------------------------------------
\* Writes that are good at every key preserve the invariant.
LEMMA WritesPreserve ==
    ASSUME StoreInv, UNCHANGED <<session, world>>,
           rows' \in [Keys -> Row],
           barriers \subseteq barriers', barriers' \subseteq Keys,
           \A k \in Keys : GoodWrite(rows[k], rows'[k], k \in barriers', boots)
    PROVE  StoreInv'
  <1> USE DEF session, world
  <1>1. TypeOK'
    BY DEF StoreInv, TypeOK
  <1>2. OneActive'
    BY DEF StoreInv, OneActive, GoodWrite, Overwrites
  <1>3. (\A k \in Keys : RowInv(rows[k], boots))'
    BY DEF GoodWrite, Overwrites, RowInv, EvidenceOrdered
  <1>4. ContextIsHost'
    BY DEF StoreInv, ContextIsHost, HostContext
  <1>5. CancelRecorded'
    BY DEF GoodWrite, Overwrites, CancelRecorded
  <1>6. CancelWins'
    BY DEF GoodWrite, Overwrites, CancelWins
  <1>7. HoldoutSourceRegistered'
    <2> SUFFICES ASSUME NEW k \in Keys, rows'[k].status # "absent"
                 PROVE  HoldoutAdmissible(rows', rows'[k].binding)
      BY DEF HoldoutSourceRegistered
    <2>1. rows[k].status # "absent" /\ rows'[k].binding = rows[k].binding
      BY DEF GoodWrite, Overwrites
    <2>2. HoldoutAdmissible(rows, rows[k].binding)
      BY <2>1 DEF StoreInv, HoldoutSourceRegistered
    <2>3. rows[k].binding \in Bindings
      BY <2>1 DEF StoreInv, RowInv, TypeOK, Row
    <2>4. ASSUME HoldoutOf[rows[k].binding] # None
          PROVE  HoldoutOf[rows[k].binding].source \in Keys
      BY <2>3, <2>4, HoldoutAssumption DEF Holdout
    <2>5. \A j \in Keys : rows[j].status = "succeeded" => rows'[j] = rows[j]
      BY DEF GoodWrite, Overwrites, Closed, Final
    <2> QED
      BY <2>1, <2>2, <2>4, <2>5 DEF HoldoutAdmissible
  <1> QED
    BY <1>1, <1>2, <1>3, <1>4, <1>5, <1>6, <1>7 DEF StoreInv

\* What one step may do to the table besides admitting a new row.
TableStep ==
    \A k \in Keys : /\ Closed(rows[k]) => rows'[k] = rows[k]
                    /\ rows'[k] # rows[k] =>
                         rows'[k].revision = rows[k].revision + 1

\* One method's transaction: the row it writes is good, the others stay.
LEMMA WritePreserves ==
    ASSUME StoreInv, NEW k \in Keys, NEW new, Write(k, new),
           barriers' \in {barriers, barriers \cup {k}},
           NEW barred \in BOOLEAN, barred <=> k \in barriers',
           GoodWrite(rows[k], new, barred, boots)
    PROVE  StoreInv' /\ TableStep
  <1>1. rows' \in [Keys -> Row]
    BY DEF StoreInv, TypeOK, Write, GoodWrite, Overwrites
  <1>2. barriers \subseteq barriers' /\ barriers' \subseteq Keys
    BY DEF StoreInv, TypeOK
  <1>3. ASSUME NEW j \in Keys
        PROVE  GoodWrite(rows[j], rows'[j], j \in barriers', boots)
    <2>1. CASE j = k
      BY <2>1 DEF Write, StoreInv, TypeOK, GoodWrite, Overwrites
    <2>2. CASE j # k
      <3>1. rows'[j] = rows[j] /\ (j \in barriers' <=> j \in barriers)
        BY <2>2 DEF Write, StoreInv, TypeOK
      <3>2. /\ rows[j] \in Row /\ RowInv(rows[j], boots)
            /\ rows[j].status \in {"succeeded", "failed"} => j \notin barriers
            /\ rows[j].status \in {"stopping", "cancelled"} => j \in barriers
        BY DEF StoreInv, TypeOK, CancelWins, CancelRecorded
      <3> QED
        BY <3>1, <3>2 DEF GoodWrite, Overwrites
    <2> QED
      BY <2>1, <2>2
  <1>4. StoreInv'
    BY <1>1, <1>2, <1>3, WritesPreserve DEF Write
  <1>5. TableStep
    BY <1>3 DEF TableStep, GoodWrite, Overwrites
  <1> QED
    BY <1>4, <1>5

\* Admitting a fresh row: it takes the free slot and its holdout is registered.
LEMMA ConfirmPreserves ==
    ASSUME StoreInv, NEW k \in Keys, NEW b \in Bindings, confirm(k, b)
    PROVE  StoreInv' /\ TableStep
  <1> DEFINE new == ConfirmRow(b)
  <1>1. /\ rows' = [rows EXCEPT ![k] = new] /\ barriers' = barriers
        /\ UNCHANGED <<session, world>>
        /\ rows[k].status = "absent" /\ k \notin barriers
        /\ HoldoutAdmissible(rows, b) /\ \A j \in Keys : ~rows[j].active
    BY DEF confirm, Write, MayConfirm, SlotFree
  <1>2. TypeOK /\ \A j \in Keys : rows[j] \in Row /\ RowInv(rows[j], boots)
    BY DEF StoreInv, TypeOK
  <1>3. new \in Row /\ RowInv(new, boots)
    BY <1>2, GoodConfirm
  <1>4. new.status = "eligible" /\ new.revision = 1 /\ new.binding = b
    BY DEF ConfirmRow, NoRow
  <1>5. rows[k].revision = 0 /\ rows[k].release = None
    BY <1>1, <1>2 DEF RowInv, NoRow
  <1> HIDE DEF new
  <1>6. rows' \in [Keys -> Row] /\ rows'[k] = new
        /\ \A j \in Keys : j # k => rows'[j] = rows[j]
    BY <1>1, <1>2, <1>3 DEF TypeOK
  <1>7. TableStep
    BY <1>1, <1>4, <1>5, <1>6 DEF TableStep, Closed, Released, Final
  <1>8. TypeOK'
    BY <1>1, <1>2, <1>6 DEF TypeOK, session, world
  <1>9. OneActive'
    BY <1>1, <1>6 DEF OneActive
  <1>10. (\A j \in Keys : RowInv(rows[j], boots))'
    BY <1>1, <1>2, <1>3, <1>6 DEF RowInv, EvidenceOrdered, world
  <1>11. ContextIsHost'
    BY <1>1 DEF StoreInv, ContextIsHost, HostContext, session, world
  <1>12. CancelRecorded' /\ CancelWins'
    BY <1>1, <1>4, <1>6 DEF StoreInv, CancelRecorded, CancelWins
  <1>13. HoldoutSourceRegistered'
    <2> SUFFICES ASSUME NEW j \in Keys, rows'[j].status # "absent"
                 PROVE  HoldoutAdmissible(rows', rows'[j].binding)
      BY DEF HoldoutSourceRegistered
    <2>1. \A i \in Keys : rows[i].status = "succeeded" => rows'[i] = rows[i]
      BY <1>1, <1>6
    <2>2. rows'[j].binding \in Bindings /\ HoldoutAdmissible(rows, rows'[j].binding)
      <3>1. CASE j = k
        BY <1>1, <1>4, <1>6, <3>1
      <3>2. CASE j # k
        BY <1>2, <1>6, <3>2 DEF StoreInv, HoldoutSourceRegistered, RowInv, Row
      <3> QED
        BY <3>1, <3>2
    <2>3. ASSUME HoldoutOf[rows'[j].binding] # None
          PROVE  HoldoutOf[rows'[j].binding].source \in Keys
      BY <2>2, <2>3, HoldoutAssumption DEF Holdout
    <2> QED
      BY <2>1, <2>2, <2>3 DEF HoldoutAdmissible
  <1> QED
    BY <1>7, <1>8, <1>9, <1>10, <1>11, <1>12, <1>13 DEF StoreInv

\* The sessions and the world move under an unchanged table: boots only grow.
LEMMA WorldPreserves ==
    ASSUME StoreInv, UNCHANGED table, TypeOK', ContextIsHost',
           \A m \in Machines : boots[m] <= boots'[m]
    PROVE  StoreInv' /\ TableStep
  <1>1. (\A k \in Keys : RowInv(rows[k], boots))'
    <2> SUFFICES ASSUME NEW k \in Keys
                 PROVE  RowInv(rows[k], boots)'
      OBVIOUS
    <2>1. /\ RowInv(rows[k], boots) /\ rows'[k] = rows[k] /\ rows[k] \in Row
          /\ boots \in [Machines -> Nat] /\ boots' \in [Machines -> Nat]
      BY DEF StoreInv, TypeOK, table
    <2>2. rows[k].origin # None =>
            rows[k].origin.machine \in Machines /\ rows[k].origin.boot \in Nat
      BY <2>1 DEF Row, RecoveryContext
    <2>3. rows[k].prep # None => rows[k].prep.context.boot \in Nat
      BY <2>1 DEF Row, Preparation, RecoveryContext
    <2>4. EvidenceOrdered(rows[k], boots)'
      BY <2>1, <2>2, <2>3 DEF RowInv, EvidenceOrdered
    <2> QED
      BY <2>1, <2>4 DEF RowInv
  <1>2. OneActive' /\ CancelRecorded' /\ CancelWins' /\ HoldoutSourceRegistered'
    BY DEF StoreInv, table, OneActive, CancelRecorded, CancelWins,
           HoldoutSourceRegistered
  <1>3. TableStep
    BY DEF TableStep, table
  <1> QED
    BY <1>1, <1>2, <1>3 DEF StoreInv

\* Every method but confirm and cancel writes one good row beside the barriers.
LEMMA CallWrites ==
    ASSUME StoreInv, NEW k \in Keys, StoreCall(k)
    PROVE  \/ \E b \in Bindings : confirm(k, b)
           \/ cancel(k)
           \/ \E new \in Row : /\ Write(k, new) /\ barriers' = barriers
                               /\ GoodWrite(rows[k], new, k \in barriers, boots)
  <1> DEFINE row == rows[k]
             barred == k \in barriers
             Written == \E new \in Row : /\ Write(k, new) /\ barriers' = barriers
                                         /\ GoodWrite(row, new, barred, boots)
  <1>1. /\ boots \in [Machines -> Nat] /\ context \in RecoveryContext \cup {None}
        /\ HostNow(context, boots)
    BY DEF StoreInv, TypeOK, ContextIsHost, HostContext, HostNow
  <1>2. /\ row \in Row /\ RowInv(row, boots) /\ barred \in BOOLEAN
        /\ row.status \in {"succeeded", "failed"} => ~barred
        /\ row.status \in {"stopping", "cancelled"} => barred
    BY DEF StoreInv, TypeOK, CancelWins, CancelRecorded
  <1> HIDE DEF row, barred, Written
  <1>3. ASSUME NEW o \in Owners, dispatch(k, o)
        PROVE  Written
    <2>1. /\ MayDispatch(row, o) /\ Write(k, DispatchRow(row, o, context))
          /\ barriers' = barriers
      BY <1>3 DEF dispatch, row, barred
    <2>2. GoodWrite(row, DispatchRow(row, o, context), barred, boots)
      BY <1>1, <1>2, <2>1, GoodDispatch
    <2> QED
      BY <2>1, <2>2 DEF Written, GoodWrite, Overwrites
  <1>4. ASSUME NEW f \in Fences, mark_running(k, f)
        PROVE  Written
    <2>1. /\ row.status = "dispatched" /\ Write(k, Moved(row, "running", TRUE))
          /\ barriers' = barriers
      BY <1>4 DEF mark_running, MayMarkRunning, MayAdvance, MarkRunningRow,
                  AdvanceRow, row, barred
    <2>2. GoodWrite(row, Moved(row, "running", TRUE), barred, boots)
      BY <1>1, <1>2, <2>1, GoodAdvance
    <2> QED
      BY <2>1, <2>2 DEF Written, GoodWrite, Overwrites
  <1>5. ASSUME NEW f \in Fences, mark_unknown(k, f)
        PROVE  Written
    <2>1. /\ row.status \in {"dispatched", "running"}
          /\ Write(k, Moved(row, "unknown", TRUE))
          /\ barriers' = barriers
      BY <1>5 DEF mark_unknown, MayMarkUnknown, MayAdvance, MarkUnknownRow,
                  AdvanceRow, row, barred
    <2>2. GoodWrite(row, Moved(row, "unknown", TRUE), barred, boots)
      BY <1>1, <1>2, <2>1, GoodAdvance
    <2> QED
      BY <2>1, <2>2 DEF Written, GoodWrite, Overwrites
  <1>6. ASSUME NEW f \in Fences, settle_cancelled(k, f)
        PROVE  Written
    <2>1. /\ row.status = "stopping" /\ Write(k, SettleCancelledRow(row))
          /\ barriers' = barriers
      BY <1>6 DEF settle_cancelled, MaySettleCancelled, row, barred
    <2>2. GoodWrite(row, SettleCancelledRow(row), TRUE, boots)
      BY <1>1, <1>2, <2>1, GoodSettle
    <2>3. barred = TRUE
      BY <1>2, <2>1
    <2> QED
      BY <2>1, <2>2, <2>3 DEF Written, GoodWrite, Overwrites
  <1>7. ASSUME NEW s \in [attempt : Keys, binding : Bindings, fence : Fences,
                          outcome : {"succeeded", "failed"}, result : Results],
               commit_result(k, s)
        PROVE  Written
    <2>1. /\ CommitReply(k, row, barred, s) = "ok"
          /\ Write(k, CommitRow(row, s)) /\ barriers' = barriers
      BY <1>7 DEF commit_result, row, barred
    <2>2. s \in Submission
      BY StoreBounds DEF Submission
    <2>3. GoodWrite(row, CommitRow(row, s), barred, boots)
      BY <1>1, <1>2, <2>1, <2>2, GoodCommit
    <2> QED
      BY <2>1, <2>3 DEF Written, GoodWrite, Overwrites
  <1>8. ASSUME NEW id \in PrepIds, NEW e \in Fences, prepare_recovery(k, id, e)
        PROVE  Written
    <2>1. /\ MayPrepare(row, context, id, e)
          /\ Write(k, PrepareRow(row, context, id)) /\ barriers' = barriers
      BY <1>8 DEF prepare_recovery, row, barred
    <2>2. GoodWrite(row, PrepareRow(row, context, id), barred, boots)
      BY <1>1, <1>2, <2>1, GoodPrepare
    <2> QED
      BY <2>1, <2>2 DEF Written, GoodWrite, Overwrites
  <1>9. ASSUME NEW id \in PrepIds, NEW e \in Fences, release_unknown(k, id, e)
        PROVE  Written
    <2>1. /\ MayRelease(row, context, id, e)
          /\ Write(k, ReleaseRow(row, context)) /\ barriers' = barriers
      BY <1>9 DEF release_unknown, row, barred
    <2>2. GoodWrite(row, ReleaseRow(row, context), barred, boots)
      BY <1>1, <1>2, <2>1, GoodRelease
    <2> QED
      BY <2>1, <2>2 DEF Written, GoodWrite, Overwrites
  <1> QED
    BY <1>3, <1>4, <1>5, <1>6, <1>7, <1>8, <1>9 DEF StoreCall, Written, row, barred

\* Every step of the store preserves the invariant and is a table step.
LEMMA StepPreserves ==
    ASSUME StoreInv, [Next]_vars
    PROVE  StoreInv' /\ TableStep
  <1>0. TypeOK /\ ContextIsHost
    BY DEF StoreInv
  <1>1. ASSUME NEW k \in Keys, StoreCall(k)
        PROVE  StoreInv' /\ TableStep
    <2> DEFINE row == rows[k]
               barred == k \in barriers
    <2>0. /\ row \in Row /\ RowInv(row, boots) /\ barred \in BOOLEAN
          /\ row.status \in {"succeeded", "failed"} => ~barred
          /\ row.status \in {"stopping", "cancelled"} => barred
      BY DEF StoreInv, TypeOK, CancelWins, CancelRecorded
    <2> HIDE DEF row, barred
    <2>1. ASSUME NEW b \in Bindings, confirm(k, b)
          PROVE  StoreInv' /\ TableStep
      BY <2>1, ConfirmPreserves
    <2>2. CASE cancel(k)
      <3>1. /\ MayCancel(row) /\ Write(k, CancelRow(row, barred))
            /\ barriers' = barriers \cup {k}
        BY <2>2 DEF cancel, row, barred
      <3>2. GoodWrite(row, CancelRow(row, barred), TRUE, boots)
        BY <1>0, <2>0, <3>1, GoodCancel
      <3>3. k \in barriers'
        BY <3>1
      <3> QED
        BY <3>1, <3>2, <3>3, WritePreserves DEF row
    <2>3. ASSUME NEW new \in Row, Write(k, new), barriers' = barriers,
                 GoodWrite(rows[k], new, k \in barriers, boots)
          PROVE  StoreInv' /\ TableStep
      <3>1. GoodWrite(rows[k], new, barred, boots) /\ (barred <=> k \in barriers')
        BY <2>3 DEF barred
      <3> QED
        BY <2>0, <2>3, <3>1, WritePreserves
    <2> QED
      BY <1>1, <2>1, <2>2, <2>3, CallWrites
  <1>2. CASE reconcile_uncertain
    <2>1. ASSUME NEW k \in Keys
          PROVE  GoodWrite(rows[k], rows'[k], k \in barriers', boots)
      <3>1. rows'[k] = ReconcileRow(rows[k]) /\ barriers' = barriers
        BY <1>2 DEF reconcile_uncertain
      <3>2. /\ rows[k] \in Row /\ RowInv(rows[k], boots)
            /\ rows[k].status \in {"succeeded", "failed"} => k \notin barriers
            /\ rows[k].status \in {"stopping", "cancelled"} => k \in barriers
        BY DEF StoreInv, TypeOK, CancelWins, CancelRecorded
      <3> DEFINE barred == k \in barriers
      <3>3. /\ barred \in BOOLEAN
            /\ rows[k].status \in {"succeeded", "failed"} => ~barred
            /\ rows[k].status \in {"stopping", "cancelled"} => barred
        BY <3>2
      <3>4. (k \in barriers') = barred
        BY <3>1
      <3> HIDE DEF barred
      <3>5. GoodWrite(rows[k], ReconcileRow(rows[k]), barred, boots)
        BY <1>0, <3>2, <3>3, GoodReconcile
      <3> QED
        BY <3>1, <3>4, <3>5
    <2>2. rows' \in [Keys -> Row]
      <3>1. rows' = [k \in Keys |-> rows'[k]]
        BY <1>2 DEF reconcile_uncertain
      <3>2. \A k \in Keys : rows'[k] \in Row
        BY <2>1 DEF GoodWrite, Overwrites
      <3> QED
        BY <3>1, <3>2
    <2>3. barriers \subseteq barriers' /\ barriers' \subseteq Keys
      BY <1>0, <1>2 DEF reconcile_uncertain, TypeOK
    <2>4. StoreInv'
      BY <1>2, <2>1, <2>2, <2>3, WritesPreserve DEF reconcile_uncertain
    <2>5. TableStep
      BY <2>1 DEF TableStep, GoodWrite, Overwrites
    <2> QED
      BY <2>4, <2>5
  <1>3. CASE Open
    <2>1. TypeOK' /\ ContextIsHost'
      BY <1>0, <1>3 DEF Open, TypeOK, ContextIsHost, HostContext, table, world,
                        Place, RecoveryContext
    <2> QED
      BY <1>0, <1>3, <2>1, WorldPreserves DEF Open, world, TypeOK
  <1>4. CASE Close
    <2>1. TypeOK' /\ ContextIsHost'
      BY <1>0, <1>4 DEF Close, TypeOK, ContextIsHost, HostContext, table, world
    <2> QED
      BY <1>0, <1>4, <2>1, WorldPreserves DEF Close, world, TypeOK
  <1>5. ASSUME NEW m \in Machines, Reboot(m)
        PROVE  StoreInv' /\ TableStep
    <2>1. TypeOK'
      <3>1. /\ rows' = rows /\ barriers' = barriers /\ place' = place
            /\ open' \in {open, FALSE} /\ context' \in {context, None}
        BY <1>5 DEF Reboot, table, session
      <3>2. boots' \in [Machines -> Nat]
        BY <1>0, <1>5 DEF Reboot, TypeOK
      <3> QED
        BY <1>0, <3>1, <3>2 DEF TypeOK
    <2>2. ContextIsHost'
      <3>1. CASE m = place.machine
        BY <1>5, <3>1 DEF Reboot, ContextIsHost
      <3>2. CASE m # place.machine
        <4>1. /\ open' = open /\ context' = context /\ place' = place
              /\ boots' = [boots EXCEPT ![m] = @ + 1]
          BY <1>5, <3>2 DEF Reboot, session
        <4>2. boots'[place.machine] = boots[place.machine]
          BY <1>0, <3>2, <4>1 DEF TypeOK, Place
        <4> QED
          BY <1>0, <4>1, <4>2 DEF ContextIsHost, HostContext
      <3> QED
        BY <3>1, <3>2
    <2>3. \A n \in Machines : boots[n] <= boots'[n]
      BY <1>0, <1>5 DEF Reboot, TypeOK
    <2> QED
      BY <1>5, <2>1, <2>2, <2>3, WorldPreserves DEF Reboot
  <1>6. ASSUME NEW p \in Place, Carry(p)
        PROVE  StoreInv' /\ TableStep
    <2>1. TypeOK' /\ ContextIsHost'
      BY <1>0, <1>6 DEF Carry, TypeOK, ContextIsHost, HostContext, table, session
    <2> QED
      BY <1>0, <1>6, <2>1, WorldPreserves DEF Carry, TypeOK
  <1>7. CASE UNCHANGED vars
    <2>1. TypeOK' /\ ContextIsHost'
      BY <1>0, <1>7 DEF vars, table, session, world, TypeOK, ContextIsHost,
                        HostContext
    <2> QED
      BY <1>0, <1>7, <2>1, WorldPreserves DEF vars, world, TypeOK
  <1> QED
    BY <1>1, <1>2, <1>3, <1>4, <1>5, <1>6, <1>7 DEF Next

-----------------------------------------------------------------------------
\* The store starts empty and closed, so the invariant holds.
LEMMA InitHolds == Init => StoreInv
  <1> SUFFICES ASSUME Init
               PROVE  StoreInv
    OBVIOUS
  <1>1. NoRow \in Row
    BY DEF NoRow, Row, Status
  <1>2. \A k \in Keys : rows[k] = NoRow
    BY DEF Init
  <1>3. TypeOK
    BY <1>1 DEF Init, TypeOK
  <1>4. ASSUME NEW k \in Keys
        PROVE  RowInv(rows[k], boots)
    <2>1. rows[k] = NoRow
      BY <1>2
    <2>2. /\ rows[k].status = "absent" /\ rows[k].origin = None
          /\ rows[k].prep = None /\ rows[k].release = None
      BY <2>1 DEF NoRow
    <2>3. EvidenceOrdered(rows[k], boots)
      BY <2>2 DEF EvidenceOrdered
    <2> QED
      BY <2>1, <2>2, <2>3 DEF RowInv
  <1>5. OneActive /\ ContextIsHost /\ CancelRecorded /\ CancelWins
    BY <1>2 DEF OneActive, ContextIsHost, CancelRecorded, CancelWins, NoRow, Init
  <1>6. HoldoutSourceRegistered
    BY <1>2 DEF HoldoutSourceRegistered, NoRow
  <1> QED
    BY <1>3, <1>4, <1>5, <1>6 DEF StoreInv

\* Whatever order the methods are called in, by however stale a caller, with
\* the lock holder dying and machines restarting in between, StoreInv holds.
THEOREM StoreInvariant == Spec => []StoreInv
  <1>1. StoreInv /\ [Next]_vars => StoreInv'
    BY StepPreserves
  <1> QED
    BY InitHolds, <1>1, PTL DEF Spec

\* The table, the session and the world keep their types.
THEOREM TypeCorrect == Spec => []TypeOK
  <1>1. StoreInv => TypeOK
    BY DEF StoreInv
  <1> QED
    BY StoreInvariant, <1>1, PTL

\* One active slot, for every number of experiments: only confirm's unique
\* index takes it, no later write takes it back.
THEOREM SlotIsSingle == Spec => []OneActive
  <1>1. StoreInv => OneActive
    BY DEF StoreInv
  <1> QED
    BY StoreInvariant, <1>1, PTL

\* No result is ever registered over an accepted cancellation.
THEOREM CancellationWins == Spec => []CancelWins
  <1>1. StoreInv => CancelWins
    BY DEF StoreInv
  <1> QED
    BY StoreInvariant, <1>1, PTL

\* No method leaves a row the table's CHECK constraint would refuse.
THEOREM RowsStayConsistent == Spec => []RowsConsistent
  <1>1. StoreInv => RowsConsistent
    BY DEF StoreInv, RowsConsistent, RowInv
  <1> QED
    BY StoreInvariant, <1>1, PTL

\* A stored holdout's source stays the registered success it was admitted on.
THEOREM HoldoutStaysBound == Spec => []HoldoutSourceRegistered
  <1>1. StoreInv => HoldoutSourceRegistered
    BY DEF StoreInv
  <1> QED
    BY StoreInvariant, <1>1, PTL

\* A full restart of the dispatching machine separates compute from release.
THEOREM ReleaseNeedsRestart == Spec => []ReleasedAfterRestart
  <1>1. StoreInv => ReleasedAfterRestart
    <2> SUFFICES ASSUME StoreInv, NEW k \in Keys, Released(rows[k])
                 PROVE  /\ same_origin(rows[k].release.context, rows[k].origin)
                        /\ rows[k].origin.boot <= rows[k].prep.context.boot
                        /\ rows[k].prep.context.boot
                             < rows[k].release.context.boot
      BY DEF ReleasedAfterRestart
    <2>1. RowInv(rows[k], boots) /\ rows[k].release # None
      BY DEF StoreInv, Released
    <2>2. rows[k].status # "absent"
      BY <2>1 DEF RowInv, NoRow
    <2>3. rows[k].prep # None
      BY <2>1, <2>2 DEF RowInv, RowCheck
    <2> QED
      BY <2>1, <2>3 DEF RowInv, EvidenceOrdered
  <1> QED
    BY StoreInvariant, <1>1, PTL

\* A settled or released record never changes again.
THEOREM ClosedStaysClosed == Spec => ClosedIsFinal
  <1>1. StoreInv /\ [Next]_vars =>
          [\A k \in Keys : Closed(rows[k]) => rows'[k] = rows[k]]_vars
    BY StepPreserves DEF TableStep
  <1> QED
    BY StoreInvariant, <1>1, PTL DEF Spec, ClosedIsFinal

\* Every change of a row moves its revision by one.
THEOREM RevisionsFence == Spec => RevisionFences
  <1>1. StoreInv /\ [Next]_vars =>
          [\A k \in Keys : rows'[k] # rows[k] =>
             rows'[k].revision = rows[k].revision + 1]_vars
    BY StepPreserves DEF TableStep
  <1> QED
    BY StoreInvariant, <1>1, PTL DEF Spec, RevisionFences

\* The advice a query shows is what the recovery methods accept.
LEMMA AdviceFollows == StoreInv => AdviceIsHonest
  <1> SUFFICES ASSUME StoreInv, NEW k \in Keys, open, rows[k].status = "unknown"
               PROVE  LET r == rows[k]
                          advice == RecoveryAdvice(r, context)
                          canPrepare == \E id \in PrepIds :
                                          MayPrepare(r, context, id, r.revision)
                          canRelease == \E id \in PrepIds :
                                          MayRelease(r, context, id, r.revision)
                      IN /\ canRelease <=> advice = "ready"
                         /\ canPrepare => advice = "prepare_required"
                         /\ advice = "prepare_required" =>
                              \A id \in PrepIds : r.prep = None \/ r.prep.id # id =>
                                  MayPrepare(r, context, id, r.revision)
    BY DEF AdviceIsHonest
  <1> DEFINE r == rows[k]
  <1>1. r \in Row /\ RowInv(r, boots) /\ r.status = "unknown"
    BY DEF StoreInv, TypeOK
  <1>2. r.release = None => r.active
    BY <1>1 DEF RowInv, RowCheck, Final
  <1>3. r.prep # None => r.prep.id \in PrepIds
    BY <1>1 DEF Row, Preparation
  <1> HIDE DEF r
  <1>4. (\E id \in PrepIds : MayRelease(r, context, id, r.revision))
          <=> RecoveryAdvice(r, context) = "ready"
    BY <1>1, <1>2, <1>3 DEF MayRelease, RecoveryAdvice, Recoverable, PrepCurrent
  <1>5. ASSUME NEW id \in PrepIds, MayPrepare(r, context, id, r.revision)
        PROVE  RecoveryAdvice(r, context) = "prepare_required"
    BY <1>5 DEF MayPrepare, RecoveryAdvice, Recoverable
  <1>6. ASSUME RecoveryAdvice(r, context) = "prepare_required",
               NEW id \in PrepIds, r.prep = None \/ r.prep.id # id
        PROVE  MayPrepare(r, context, id, r.revision)
    BY <1>1, <1>2, <1>6 DEF MayPrepare, RecoveryAdvice, Recoverable
  <1> QED
    BY <1>4, <1>5, <1>6 DEF r

\* Everything the store is checked for on an instance holds for every set of
\* experiments, bindings, results, owners, machines and workspaces: one active
\* slot, CHECK-consistent rows, cancellations that win, bound holdouts, releases
\* across a restart and honest advice.
THEOREM StoreIsSafe == Spec => []StoreSafe
  <1>1. StoreInv => AdviceIsHonest
    BY AdviceFollows
  <1> QED
    BY StoreInvariant, RowsStayConsistent, ReleaseNeedsRestart, <1>1, PTL
       DEF StoreSafe
-----------------------------------------------------------------------------
(* The store implements the slot ledger.  A good write of a row either      *)
(* keeps the slot and the verdict, or frees the slot with a verdict: the    *)
(* ledger's Settle.  Confirmations and cancellations are its own steps.     *)

\* The holder is the one active row; the verdicts are those of the rows.
HolderIs(k) ==
    k \in Keys /\ rows[k].active /\ \A j \in Keys : rows[j].active => j = k

Verdicts == [k \in Keys |-> VerdictOf(rows[k])]

LEMMA HolderIsActive ==
    ASSUME NEW k, HolderIs(k)
    PROVE  Holder = k
  BY DEF HolderIs, Holder

LEMMA NobodyHolds ==
    ASSUME \A k \in Keys : ~rows[k].active
    PROVE  Holder = None
  BY DEF Holder

\* What a write of one row does to the rows of the table.
LEMMA WrittenRows ==
    ASSUME TypeOK, NEW k \in Keys, NEW new, Write(k, new)
    PROVE  /\ rows'[k] = new
           /\ \A j \in Keys : j # k => rows'[j] = rows[j]
  BY DEF TypeOK, Write

LEMMA WrittenVerdicts ==
    ASSUME TypeOK, NEW k \in Keys, NEW new, Write(k, new)
    PROVE  Verdicts' = [Verdicts EXCEPT ![k] = VerdictOf(new)]
  BY WrittenRows DEF Verdicts, VerdictOf, Released

\* A good write beside unchanged barriers is a Settle or invisible.
LEMMA WriteIsLedgerStep ==
    ASSUME StoreInv, NEW k \in Keys, NEW new, Write(k, new),
           barriers' = barriers, GoodWrite(rows[k], new, k \in barriers, boots)
    PROVE  [Ledger!Next]_Ledger!vars
  <1> DEFINE barred == k \in barriers
  <1>1. TypeOK /\ rows[k] \in Row /\ RowInv(rows[k], boots)
    BY DEF StoreInv, TypeOK
  <1>2. /\ rows'[k] = new
        /\ \A j \in Keys : j # k => rows'[j] = rows[j]
        /\ Verdicts' = [Verdicts EXCEPT ![k] = VerdictOf(new)]
    BY <1>1, WrittenRows, WrittenVerdicts
  <1>3. CASE new = rows[k]
    <2>1. rows' = rows
      BY <1>1, <1>3 DEF Write, TypeOK
    <2> QED
      BY <2>1 DEF Ledger!vars, Holder, VerdictOf, Released
  <1>4. CASE new # rows[k]
    <2>1. GoodWrite(rows[k], new, barred, boots) /\ barred \in BOOLEAN
      OBVIOUS
    <2> HIDE DEF barred
    <2>2. /\ rows[k].active /\ VerdictOf(rows[k]) = None
          /\ \/ new.active /\ VerdictOf(new) = None
             \/ /\ ~new.active
                /\ VerdictOf(new) \in Ledger!Verdicts
                /\ VerdictOf(new) \in {"succeeded", "failed"} => ~barred
                /\ VerdictOf(new) = "cancelled" => barred
      BY <1>1, <1>4, <2>1, ChangeHoldsOrEnds DEF GoodWrite, Ledger!Verdicts
    <2>3. HolderIs(k) /\ Holder = k
      <3>1. HolderIs(k)
        BY <2>2 DEF HolderIs, StoreInv, OneActive
      <3> QED
        BY <3>1, HolderIsActive
    <2>4. CASE new.active
      <3>1. HolderIs(k)'
        BY <1>2, <2>3, <2>4 DEF HolderIs
      <3>2. Holder' = k
        BY <3>1 DEF HolderIs, Holder
      <3>3. Verdicts' = Verdicts
        BY <1>2, <2>2, <2>4 DEF Verdicts
      <3> QED
        BY <2>3, <3>2, <3>3 DEF Ledger!vars, Verdicts
    <2>5. CASE ~new.active
      <3>1. Holder' = None
        <4>1. \A j \in Keys : ~rows'[j].active
          BY <1>2, <2>3, <2>5 DEF HolderIs
        <4> QED
          BY <4>1 DEF Holder
      <3>2. Ledger!Settle(k, VerdictOf(new))
        BY <1>2, <2>2, <2>3, <2>5, <3>1 DEF Ledger!Settle, Verdicts, barred
      <3> QED
        BY <2>2, <2>5, <3>2 DEF Ledger!Next
    <2> QED
      BY <2>4, <2>5
  <1> QED
    BY <1>3, <1>4

\* A confirmation is an admission.
LEMMA ConfirmAdmits ==
    ASSUME StoreInv, NEW k \in Keys, NEW b \in Bindings, confirm(k, b)
    PROVE  Ledger!Next
  <1>1. /\ TypeOK /\ RowInv(rows[k], boots) /\ rows[k].status = "absent"
        /\ k \notin barriers /\ barriers' = barriers
        /\ \A j \in Keys : ~rows[j].active
        /\ Write(k, ConfirmRow(b))
    BY DEF confirm, MayConfirm, SlotFree, StoreInv
  <1>2. /\ ConfirmRow(b).active /\ VerdictOf(ConfirmRow(b)) = None
    BY DEF ConfirmRow, NoRow, VerdictOf, Released, Final
  <1>3. VerdictOf(rows[k]) = None
    BY <1>1 DEF RowInv, NoRow, VerdictOf, Released, Final
  <1>4. /\ rows'[k] = ConfirmRow(b)
        /\ \A j \in Keys : j # k => rows'[j] = rows[j]
        /\ Verdicts' = [Verdicts EXCEPT ![k] = VerdictOf(ConfirmRow(b))]
    BY <1>1, WrittenRows, WrittenVerdicts
  <1>5. Verdicts' = Verdicts
    BY <1>2, <1>3, <1>4 DEF Verdicts
  <1>6. Holder = None
    BY <1>1, NobodyHolds
  <1>7. Holder' = k
    <2>1. HolderIs(k)'
      BY <1>1, <1>2, <1>4 DEF HolderIs
    <2> QED
      BY <2>1 DEF HolderIs, Holder
  <1>8. Ledger!Admit(k)
    BY <1>1, <1>3, <1>5, <1>6, <1>7 DEF Ledger!Admit, Ledger!Admissible, Verdicts
  <1> QED
    BY <1>8 DEF Ledger!Next

\* A cancellation is accepted by the ledger: it frees the slot of an eligible
\* experiment at once and keeps it where compute may exist.
LEMMA CancelCancels ==
    ASSUME StoreInv, NEW k \in Keys, cancel(k)
    PROVE  Ledger!Next
  <1> DEFINE row == rows[k]
             barred == k \in barriers
             new == CancelRow(row, barred)
  <1>1. /\ TypeOK /\ row \in Row /\ RowInv(row, boots) /\ MayCancel(row)
        /\ Write(k, new) /\ barriers' = barriers \cup {k}
        /\ barred \in BOOLEAN
        /\ row.status \in {"stopping", "cancelled"} => barred
    BY DEF cancel, StoreInv, TypeOK, CancelRecorded
  <1>2. GoodWrite(row, new, TRUE, boots)
    <2> HIDE DEF row, barred
    <2> QED
      BY <1>1, GoodCancel
  <1>3. /\ rows'[k] = new
        /\ \A j \in Keys : j # k => rows'[j] = rows[j]
        /\ Verdicts' = [Verdicts EXCEPT ![k] = VerdictOf(new)]
    <2> HIDE DEF new
    <2> QED
      BY <1>1, WrittenRows, WrittenVerdicts
  <1>4. Verdicts[k] = VerdictOf(row) /\ VerdictOf(row) \in {None, "cancelled"}
    BY <1>1 DEF MayCancel, Verdicts, VerdictOf, Released, Final
  <1>5. CASE new = row
    <2>1. rows' = rows
      BY <1>1, <1>5 DEF Write, TypeOK
    <2>2. Holder' = Holder /\ Verdicts' = Verdicts
      BY <2>1 DEF Holder, Verdicts, VerdictOf, Released
    <2>3. Ledger!Cancel(k)
      BY <1>1, <1>4, <2>2 DEF Ledger!Cancel, Verdicts
    <2> QED
      BY <2>3 DEF Ledger!Next
  <1>6. CASE new # row
    <2>1. ~barred
      BY <1>6 DEF CancelRow
    <2>2. /\ row.active /\ VerdictOf(row) = None
          /\ \/ new.active /\ VerdictOf(new) = None
             \/ ~new.active /\ VerdictOf(new) = "cancelled"
      <3>1. /\ row.active /\ VerdictOf(row) = None
            /\ \/ new.active /\ VerdictOf(new) = None
               \/ ~new.active /\ VerdictOf(new) \in Ledger!Verdicts
        <4> HIDE DEF row, new, barred
        <4> QED
          BY <1>1, <1>2, <1>6, ChangeHoldsOrEnds DEF GoodWrite, Ledger!Verdicts
      <3>2. ~new.active => new = Moved(row, "cancelled", FALSE)
        BY <1>1, <1>6 DEF CancelRow, Moved
      <3>3. row.release = None
        BY <1>1 DEF MayCancel
      <3>4. ~new.active => VerdictOf(new) = "cancelled"
        BY <3>2, <3>3 DEF Moved, VerdictOf, Released, Final
      <3> QED
        BY <3>1, <3>4
    <2>3. HolderIs(k) /\ Holder = k
      <3>1. HolderIs(k)
        BY <2>2 DEF HolderIs, StoreInv, OneActive
      <3> QED
        BY <3>1, HolderIsActive
    <2> HIDE DEF new
    <2>4. CASE new.active
      <3>1. HolderIs(k)'
        BY <1>3, <2>3, <2>4 DEF HolderIs
      <3>2. Holder' = k
        BY <3>1 DEF HolderIs, Holder
      <3>3. Verdicts' = Verdicts
        BY <1>3, <2>2, <2>4 DEF Verdicts
      <3>4. Ledger!Cancel(k)
        BY <1>1, <1>4, <2>3, <3>2, <3>3 DEF Ledger!Cancel, Verdicts
      <3> QED
        BY <3>4 DEF Ledger!Next
    <2>5. CASE ~new.active
      <3>1. Holder' = None
        <4>1. \A j \in Keys : ~rows'[j].active
          BY <1>3, <2>3, <2>5 DEF HolderIs
        <4> QED
          BY <4>1 DEF Holder
      <3>2. Ledger!Cancel(k)
        BY <1>1, <1>3, <1>4, <2>1, <2>2, <2>3, <2>5, <3>1
           DEF Ledger!Cancel, Verdicts
      <3> QED
        BY <3>2 DEF Ledger!Next
    <2> QED
      BY <2>4, <2>5
  <1> QED
    BY <1>5, <1>6

\* Reconciling what an earlier owner left keeps the slot and the verdicts.
LEMMA ReconcileIsInvisible ==
    ASSUME StoreInv, reconcile_uncertain
    PROVE  UNCHANGED Ledger!vars
  <1>1. ASSUME NEW k \in Keys
        PROVE  /\ rows'[k].active = rows[k].active
               /\ VerdictOf(rows'[k]) = VerdictOf(rows[k])
    <2>1. rows'[k] = ReconcileRow(rows[k]) /\ RowInv(rows[k], boots) /\ rows[k] \in Row
      BY DEF reconcile_uncertain, StoreInv, TypeOK
    <2>2. CASE rows[k].status \in {"dispatched", "running", "stopping"}
      <3>1. rows'[k] = Moved(rows[k], "unknown", TRUE)
        BY <2>1, <2>2 DEF ReconcileRow
      <3>2. rows[k].active = TRUE /\ rows[k].release = None
        BY <2>1, <2>2 DEF RowInv, RowCheck, Held, Final, Row
      <3>3. /\ rows'[k].active = TRUE /\ rows'[k].status = "unknown"
            /\ rows'[k].release = None
        BY <3>1, <3>2 DEF Moved
      <3> QED
        BY <2>2, <3>2, <3>3 DEF VerdictOf, Released, Final
    <2>3. CASE rows[k].status \notin {"dispatched", "running", "stopping"}
      BY <2>1, <2>3 DEF ReconcileRow
    <2> QED
      BY <2>2, <2>3
  <1>2. [k \in Keys |-> VerdictOf(rows[k])]' = [k \in Keys |-> VerdictOf(rows[k])]
    BY <1>1 DEF VerdictOf, Released
  <1>3. Holder' = Holder
    <2>1. CASE \E k \in Keys : rows[k].active
      <3>1. PICK k \in Keys : HolderIs(k)
        BY <2>1 DEF HolderIs, StoreInv, OneActive
      <3>2. HolderIs(k)'
        BY <1>1, <3>1 DEF HolderIs
      <3> QED
        BY <3>1, <3>2 DEF HolderIs, Holder
    <2>2. CASE \A k \in Keys : ~rows[k].active
      <3>1. \A k \in Keys : ~rows'[k].active
        BY <1>1, <2>2
      <3> QED
        BY <2>2, <3>1 DEF Holder
    <2> QED
      BY <2>1, <2>2
  <1>4. barriers' = barriers
    BY DEF reconcile_uncertain
  <1> QED
    BY <1>2, <1>3, <1>4 DEF Ledger!vars

\* Every step of the store is a step of the ledger or a stutter.
LEMMA StepIsLedgerStep ==
    ASSUME StoreInv, [Next]_vars
    PROVE  [Ledger!Next]_Ledger!vars
  <1>1. ASSUME NEW k \in Keys, StoreCall(k)
        PROVE  [Ledger!Next]_Ledger!vars
    BY <1>1, CallWrites, ConfirmAdmits, CancelCancels, WriteIsLedgerStep
  <1>2. CASE reconcile_uncertain
    BY <1>2, ReconcileIsInvisible
  <1>3. ASSUME UNCHANGED table
        PROVE  [Ledger!Next]_Ledger!vars
    BY <1>3 DEF table, Ledger!vars, Holder, VerdictOf, Released
  <1>4. CASE Open \/ Close \/ UNCHANGED vars
    BY <1>3, <1>4 DEF Open, Close, vars
  <1>5. ASSUME NEW m \in Machines, Reboot(m)
        PROVE  [Ledger!Next]_Ledger!vars
    BY <1>3, <1>5 DEF Reboot
  <1>6. ASSUME NEW p \in Place, Carry(p)
        PROVE  [Ledger!Next]_Ledger!vars
    BY <1>3, <1>6 DEF Carry
  <1> QED
    BY <1>1, <1>2, <1>4, <1>5, <1>6 DEF Next

\* The store implements the slot ledger, for every set of experiments and every
\* history of calls, deaths of the lock holder, restarts and moves: admissions,
\* cancellations and endings are what the ledger lets a client rely on.
THEOREM StoreImplementsLedger == Spec => ImplementsLedger
  <1>1. Init => Ledger!Init
    <2> SUFFICES ASSUME Init
                 PROVE  Ledger!Init
      OBVIOUS
    <2>1. \A k \in Keys : rows[k] = NoRow
      BY DEF Init
    <2>2. Holder = None
      BY <2>1, NobodyHolds DEF NoRow
    <2>3. ASSUME NEW k \in Keys
          PROVE  VerdictOf(rows[k]) = None
      <3>1. rows[k].status = "absent" /\ rows[k].release = None
        BY <2>1 DEF NoRow
      <3> QED
        BY <3>1 DEF VerdictOf, Released, Final
    <2> QED
      BY <2>2, <2>3 DEF Ledger!Init, Init
  <1>2. StoreInv /\ [Next]_vars => [Ledger!Next]_Ledger!vars
    BY StepIsLedgerStep
  <1> QED
    BY StoreInvariant, <1>1, <1>2, PTL DEF Spec, ImplementsLedger, Ledger!Spec
=============================================================================
