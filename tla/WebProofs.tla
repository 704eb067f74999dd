------------------------------ MODULE WebProofs ------------------------------
(***************************************************************************)
(* Proofs about the local web service: a launch through the research core  *)
(* (CoreLaunch), the job service (JobService), the upload store            *)
(* (WorkspaceInputs), the cancellation of a conversation's calls           *)
(* (ConversationTurn) and a research task (ResearchTask), each on its own  *)
(* specification and then inside MCWeb's.                                  *)
(***************************************************************************)
EXTENDS MCWeb, FiniteSetTheorems, TLAPS

-----------------------------------------------------------------------------
(* A launch: its inductive invariant.                                      *)

LaunchStates == {"absent", "pending", "unconfirmed", "running", "created", "failed",
                 "cancelled", "unknown"}
RunStates == {"absent", "running", "succeeded", "failed", "unknown", "cancelled"}
LaunchRecs == [st : LaunchStates, input : Nat]
RunRecs == [st : RunStates, input : Nat, at : Nat]
LaunchRequests == [kind : {"confirm", "cancel"}, i : Intents, input : Nat, at : Nat]
\* The steps of a launch, in the order they are taken.
Recorded == {"confirm", "wait", "accepted", "refused", "stopped", "query"}
LaunchOps ==
    [pc : {"freeze"} \cup Recorded \cup {"cancelling", "cancelled"}, i : Intents,
     input : Nat, run : RunRecs]
LaunchGhosts == [sent : [Intents -> Nat], faults : Nat, asks : Nat, wiped : BOOLEAN]

LaunchTypes ==
    /\ launchDoc \in [Intents -> LaunchRecs] /\ served \in [Intents -> LaunchStates]
    /\ core \in [Intents -> RunRecs] /\ barrier \subseteq Intents
    /\ wire \subseteq LaunchRequests /\ launchUp \in BOOLEAN /\ input \in Nat
    /\ launchShown \in [Intents -> Nat] /\ launchOp \in LaunchOps \cup {LaunchFree}
    /\ launchGhost \in LaunchGhosts

\* As long as the document is kept, whatever is recorded, on its way or
\* registered is what the user was shown.
KeptAsShown ==
    ~launchGhost.wiped =>
       /\ \A i \in Intents : launchDoc[i] # NoRec => launchDoc[i].input = launchShown[i]
       /\ \A i \in Intents : core[i].st # "absent" =>
             launchDoc[i] # NoRec /\ core[i].input = launchShown[i]
       /\ \A m \in wire : m.kind = "confirm" =>
             launchDoc[m.i] # NoRec /\ m.input = launchShown[m.i]

\* A launch is not yet recorded when it is frozen, and stays pending until it
\* is answered.
OpIsRecorded ==
    /\ launchOp.pc = "freeze" =>
          launchDoc[launchOp.i] = NoRec /\ launchOp.input = launchShown[launchOp.i]
    /\ launchOp.pc \in Recorded =>
          launchDoc[launchOp.i].st = "pending" /\ launchDoc[launchOp.i].input = launchOp.input

\* A confirmation leaves once, after its record.
SentOnRecord ==
    ~launchGhost.wiped =>
       /\ \A i \in Intents : /\ launchGhost.sent[i] <= 1
                             /\ launchDoc[i] = NoRec => launchGhost.sent[i] = 0
       /\ launchOp.pc = "confirm" => launchGhost.sent[launchOp.i] = 0

BarredIsAbsent == \A i \in barrier : core[i].st = "absent"

\* What a projection says of an intent is what its owner says of it.
OwnersView(d) ==
    \A i \in Intents :
       /\ d[i].st = "created" => core[i].st = "succeeded" /\ core[i].input = d[i].input
       /\ d[i].st = "cancelled" => core[i].st = "cancelled" \/ i \in barrier
ServedIsOwners ==
    \A i \in Intents :
       /\ served[i] = "created" => core[i].st = "succeeded"
       /\ served[i] = "cancelled" => core[i].st = "cancelled" \/ i \in barrier
ReplyIsOwners ==
    /\ launchOp.pc = "stopped" => launchOp.i \in barrier
    /\ launchOp.pc = "accepted" =>
          /\ launchOp.run.st # "absent" /\ core[launchOp.i].st # "absent"
          /\ core[launchOp.i].input = launchOp.run.input
          /\ launchOp.run.st \in {"succeeded", "cancelled"} =>
                core[launchOp.i].st = launchOp.run.st

LaunchInv ==
    /\ LaunchTypes /\ KeptAsShown /\ OpIsRecorded /\ SentOnRecord /\ BarredIsAbsent
    /\ OwnersView(launchDoc) /\ ServedIsOwners /\ ReplyIsOwners

-----------------------------------------------------------------------------
(* What is read from the owner.                                            *)

\* A projection keeps the input and is created or cancelled only if the run is.
LEMMA ProjectionIsOwners ==
    ASSUME NEW rec \in LaunchRecs, NEW rn \in RunRecs, NEW stopped \in BOOLEAN
    PROVE  /\ Projection(rec, rn, stopped) \in LaunchRecs
           /\ Projection(rec, rn, stopped).input = rec.input
           /\ Projection(rec, rn, stopped) # NoRec
           /\ Projection(rec, rn, stopped).st = "created" =>
                 rn.st = "succeeded" /\ rn.input = rec.input
           /\ Projection(rec, rn, stopped).st = "cancelled" =>
                 \/ rn.st = "cancelled"
                 \/ rn.st = "absent" /\ stopped
    BY DEF Projection, STATUS, LaunchRecs, LaunchStates, RunRecs, RunStates, NoRec

\* A reconciled record is the owner's, or unknown.
LEMMA ReconciledIsOwners ==
    ASSUME LaunchTypes, NEW i \in Intents, NEW rec \in LaunchRecs
    PROVE  /\ Reconciled(rec, i) \in LaunchRecs
           /\ Reconciled(rec, i).input = rec.input
           /\ Reconciled(rec, i) # NoRec
           /\ Reconciled(rec, i).st = "created" =>
                 core[i].st = "succeeded" /\ core[i].input = rec.input
           /\ Reconciled(rec, i).st = "cancelled" => core[i].st = "cancelled" \/ i \in barrier
<1> DEFINE stopAsked == i \in barrier
<1>1. CASE launchUp
    <2>1. core[i] \in RunRecs
        BY DEF LaunchTypes
    <2>2. stopAsked \in BOOLEAN
        OBVIOUS
    <2>3. Reconciled(rec, i) = Projection(rec, core[i], stopAsked)
        BY <1>1 DEF Reconciled
    <2> HIDE DEF stopAsked
    <2>4. /\ Reconciled(rec, i) \in LaunchRecs
          /\ Reconciled(rec, i).input = rec.input
          /\ Reconciled(rec, i) # NoRec
          /\ Reconciled(rec, i).st = "created" =>
                core[i].st = "succeeded" /\ core[i].input = rec.input
          /\ Reconciled(rec, i).st = "cancelled" =>
                \/ core[i].st = "cancelled"
                \/ core[i].st = "absent" /\ stopAsked
        BY <2>1, <2>2, <2>3, ProjectionIsOwners
    <2> QED  BY <2>4 DEF stopAsked
<1>2. CASE ~launchUp
    <2>1. Reconciled(rec, i) = [rec EXCEPT !.st = "unknown"]
        BY <1>2 DEF Reconciled, Unreachable
    <2> QED  BY <2>1 DEF LaunchRecs, LaunchStates, NoRec
<1> QED  BY <1>1, <1>2

\* What is restored is the owner's too, and touches no record that is kept.
LEMMA RestoredIsOwners ==
    ASSUME LaunchInv
    PROVE  /\ Restored \in [Intents -> LaunchRecs]
           /\ OwnersView(Restored)
           /\ \A i \in Intents : launchDoc[i] # NoRec => Restored[i] = launchDoc[i]
           /\ ~launchGhost.wiped => Restored = launchDoc
<1> DEFINE rec(i) == [st |-> "pending", input |-> core[i].input]
<1>1. ASSUME NEW i \in Intents
      PROVE  /\ Restored[i] \in LaunchRecs
             /\ Restored[i].st = "created" =>
                   core[i].st = "succeeded" /\ core[i].input = Restored[i].input
             /\ Restored[i].st = "cancelled" => core[i].st = "cancelled" \/ i \in barrier
             /\ launchDoc[i] # NoRec => Restored[i] = launchDoc[i]
             /\ ~launchGhost.wiped => Restored[i] = launchDoc[i]
    <2>1. rec(i) \in LaunchRecs /\ core[i] \in RunRecs /\ launchDoc[i] \in LaunchRecs
        BY DEF LaunchInv, LaunchTypes, LaunchRecs, LaunchStates, RunRecs
    <2>2. CASE launchUp /\ launchDoc[i] = NoRec /\ core[i].st # "absent"
        <3>1. Restored[i] = Projection(rec(i), core[i], FALSE)
            BY <2>2 DEF Restored
        <3>2. launchGhost.wiped
            BY <2>2 DEF LaunchInv, KeptAsShown
        <3>3. /\ Projection(rec(i), core[i], FALSE) \in LaunchRecs
              /\ Projection(rec(i), core[i], FALSE).input = rec(i).input
              /\ Projection(rec(i), core[i], FALSE).st = "created" => core[i].st = "succeeded"
              /\ Projection(rec(i), core[i], FALSE).st = "cancelled" => core[i].st = "cancelled"
            BY <2>1, <2>2, ProjectionIsOwners
        <3> QED  BY <2>2, <3>1, <3>2, <3>3
    <2>3. CASE ~(launchUp /\ launchDoc[i] = NoRec /\ core[i].st # "absent")
        <3>1. Restored[i] = launchDoc[i]
            BY <2>3 DEF Restored
        <3> QED  BY <2>1, <3>1 DEF LaunchInv, OwnersView
    <2> QED  BY <2>2, <2>3
<1>2. Restored \in [Intents -> LaunchRecs]
    BY <1>1 DEF Restored
<1>3. OwnersView(Restored)
    BY <1>1 DEF OwnersView
<1>4. ~launchGhost.wiped => Restored = launchDoc
    BY <1>1 DEF Restored, LaunchInv, LaunchTypes
<1> QED  BY <1>1, <1>2, <1>3, <1>4
-----------------------------------------------------------------------------
(* The steps of a launch, one after the other.                             *)

\* Where the document, the owner and what was served stand still, what they
\* say of each other stands too.
LEMMA LaunchViewStands ==
    ASSUME LaunchInv, UNCHANGED <<launchDoc, served, core, barrier>>
    PROVE  BarredIsAbsent' /\ OwnersView(launchDoc)' /\ ServedIsOwners'
    BY DEF LaunchInv, BarredIsAbsent, OwnersView, ServedIsOwners

\* The surroundings: the core's reach, the input, lost requests and documents.
LEMMA SurroundingsKeepLaunch ==
    ASSUME LaunchInv,
           \/ Outage \/ Recovery \/ InputChanges \/ Wipe
           \/ \E i \in Intents : Preview(i)
           \/ \E m \in wire : LoseRequest(m)
    PROVE  LaunchInv'
<1> USE DEF LaunchFault
<1>1. CASE Outage \/ Recovery \/ InputChanges
    <2> USE <1>1 DEF Outage, Recovery, InputChanges
    <2>0. launchGhost' \in LaunchGhosts /\ input' \in Nat
        BY DEF LaunchInv, LaunchTypes, LaunchGhosts
    <2>1. LaunchTypes'
        BY <2>0 DEF LaunchInv, LaunchTypes
    <2>2. KeptAsShown' /\ OpIsRecorded'
        BY DEF LaunchInv, LaunchTypes, LaunchGhosts, KeptAsShown, OpIsRecorded
    <2>3. SentOnRecord' /\ ReplyIsOwners'
        BY DEF LaunchInv, LaunchTypes, LaunchGhosts, SentOnRecord, ReplyIsOwners
    <2> QED  BY <2>1, <2>2, <2>3, LaunchViewStands DEF LaunchInv
<1>2. CASE Wipe
    <2>1. NoRec \in LaunchRecs
        BY DEF LaunchRecs, LaunchStates, NoRec
    <2> DEFINE ghost == [launchGhost EXCEPT !.faults = @ + 1]
    <2>a. ghost \in LaunchGhosts
        BY DEF LaunchInv, LaunchTypes, LaunchGhosts
    <2>2. launchGhost' = [ghost EXCEPT !.wiped = TRUE]
        BY <1>2 DEF Wipe
    <2> HIDE DEF ghost
    <2>3. launchGhost' \in LaunchGhosts
        BY <2>2, <2>a DEF LaunchGhosts
    <2> USE <1>2 DEF Wipe
    <2>4. LaunchTypes'
        BY <2>1, <2>3 DEF LaunchInv, LaunchTypes
    <2>5. KeptAsShown' /\ OpIsRecorded' /\ SentOnRecord' /\ ReplyIsOwners'
        BY DEF LaunchInv, LaunchTypes, LaunchGhosts, KeptAsShown, OpIsRecorded, SentOnRecord,
               ReplyIsOwners, LaunchFree, Recorded
    <2>6. BarredIsAbsent' /\ OwnersView(launchDoc)' /\ ServedIsOwners'
        BY DEF LaunchInv, BarredIsAbsent, OwnersView, ServedIsOwners, NoRec
    <2> QED  BY <2>4, <2>5, <2>6 DEF LaunchInv
<1>3. ASSUME NEW i \in Intents, Preview(i) PROVE LaunchInv'
    <2> USE <1>3 DEF Preview
    <2>1. LaunchTypes'
        BY DEF LaunchInv, LaunchTypes
    <2>2. KeptAsShown' /\ OpIsRecorded'
        BY DEF LaunchInv, LaunchTypes, LaunchRequests, KeptAsShown, OpIsRecorded, LaunchFree,
               Recorded
    <2>3. SentOnRecord' /\ ReplyIsOwners'
        BY DEF LaunchInv, SentOnRecord, ReplyIsOwners
    <2> QED  BY <2>1, <2>2, <2>3, LaunchViewStands DEF LaunchInv
<1>4. ASSUME NEW m \in wire, LoseRequest(m) PROVE LaunchInv'
    <2> USE <1>4 DEF LoseRequest
    <2>1. LaunchTypes'
        BY DEF LaunchInv, LaunchTypes, LaunchGhosts
    <2>2. KeptAsShown' /\ OpIsRecorded'
        BY DEF LaunchInv, LaunchTypes, LaunchGhosts, KeptAsShown, OpIsRecorded
    <2>3. SentOnRecord' /\ ReplyIsOwners'
        BY DEF LaunchInv, LaunchTypes, LaunchGhosts, SentOnRecord, ReplyIsOwners
    <2> QED  BY <2>1, <2>2, <2>3, LaunchViewStands DEF LaunchInv
<1> QED  BY <1>1, <1>2, <1>3, <1>4

\* The operation begins, gives up or sends, and nothing is recorded or served.
LEMMA OperationKeepsLaunch ==
    ASSUME LaunchInv,
           \/ LaunchCrash \/ LaunchTimeout \/ LaunchSend
           \/ \E i \in Intents : LaunchAdmit(i) \/ CancelSend(i)
    PROVE  LaunchInv'
<1> USE DEF LaunchFault, Asked
<1>1. CASE LaunchCrash
    <2> USE <1>1 DEF LaunchCrash
    <2>1. LaunchTypes'
        BY DEF LaunchInv, LaunchTypes, LaunchGhosts
    <2>2. KeptAsShown' /\ OpIsRecorded' /\ SentOnRecord' /\ ReplyIsOwners'
        BY DEF LaunchInv, LaunchTypes, LaunchGhosts, KeptAsShown, OpIsRecorded, SentOnRecord,
               ReplyIsOwners, LaunchFree, Recorded
    <2> QED  BY <2>1, <2>2, LaunchViewStands DEF LaunchInv
<1>2. CASE LaunchTimeout
    <2> USE <1>2 DEF LaunchTimeout
    <2>0. launchOp \in LaunchOps
        BY DEF LaunchInv, LaunchTypes, LaunchFree
    <2>1. LaunchTypes'
        BY <2>0 DEF LaunchInv, LaunchTypes, LaunchOps, Recorded
    <2>2. KeptAsShown' /\ OpIsRecorded' /\ SentOnRecord' /\ ReplyIsOwners'
        BY <2>0 DEF LaunchInv, KeptAsShown, OpIsRecorded, SentOnRecord, ReplyIsOwners, Recorded,
                    LaunchOps
    <2> QED  BY <2>1, <2>2, LaunchViewStands DEF LaunchInv
<1>3. CASE LaunchSend /\ launchUp
    <2> USE <1>3 DEF LaunchSend
    <2> DEFINE msg == [kind |-> "confirm", i |-> launchOp.i, input |-> launchOp.input,
                       at |-> launchGhost.sent[launchOp.i] + 1]
    <2>0. launchOp \in LaunchOps
        BY DEF LaunchInv, LaunchTypes, LaunchFree
    <2>1. msg \in LaunchRequests
        BY <2>0 DEF LaunchInv, LaunchTypes, LaunchGhosts, LaunchOps, LaunchRequests
    <2>2. LaunchTypes'
        BY <2>0, <2>1 DEF LaunchInv, LaunchTypes, LaunchGhosts, LaunchOps, Recorded
    <2>3. launchDoc[launchOp.i] # NoRec /\ launchDoc[launchOp.i].input = launchOp.input
        BY DEF LaunchInv, OpIsRecorded, Recorded, NoRec
    <2>4. KeptAsShown'
        BY <2>0, <2>3 DEF LaunchInv, LaunchTypes, LaunchGhosts, LaunchOps, KeptAsShown
    <2>5. OpIsRecorded' /\ ReplyIsOwners'
        BY <2>0 DEF LaunchInv, OpIsRecorded, ReplyIsOwners, Recorded, LaunchOps
    <2>6. SentOnRecord'
        BY <2>0, <2>3 DEF LaunchInv, LaunchTypes, LaunchGhosts, LaunchOps, SentOnRecord
    <2> QED  BY <2>2, <2>4, <2>5, <2>6, LaunchViewStands DEF LaunchInv
<1>4. CASE LaunchSend /\ ~launchUp
    <2> USE <1>4 DEF LaunchSend
    <2>0. launchOp \in LaunchOps
        BY DEF LaunchInv, LaunchTypes, LaunchFree
    <2>1. LaunchTypes'
        BY <2>0 DEF LaunchInv, LaunchTypes, LaunchOps, Recorded
    <2>2. KeptAsShown' /\ OpIsRecorded' /\ SentOnRecord' /\ ReplyIsOwners'
        BY <2>0 DEF LaunchInv, KeptAsShown, OpIsRecorded, SentOnRecord, ReplyIsOwners, Recorded,
                    LaunchOps
    <2> QED  BY <2>1, <2>2, LaunchViewStands DEF LaunchInv
<1>5. ASSUME NEW i \in Intents, LaunchAdmit(i) PROVE LaunchInv'
    <2> USE <1>5 DEF LaunchAdmit
    <2>0. launchDoc[i] = NoRec
        BY RestoredIsOwners
    <2>1. LaunchTypes'
        BY DEF LaunchInv, LaunchTypes, LaunchGhosts, LaunchOps, RunRecs, RunStates, NoRun
    <2>2. KeptAsShown' /\ OpIsRecorded' /\ SentOnRecord' /\ ReplyIsOwners'
        BY <2>0 DEF LaunchInv, LaunchTypes, LaunchGhosts, KeptAsShown, OpIsRecorded,
                    SentOnRecord, ReplyIsOwners, Recorded
    <2> QED  BY <2>1, <2>2, LaunchViewStands DEF LaunchInv
<1>6. ASSUME NEW i \in Intents, CancelSend(i) PROVE LaunchInv'
    <2> USE <1>6 DEF CancelSend
    <2>1. LaunchTypes'
        BY DEF LaunchInv, LaunchTypes, LaunchGhosts, LaunchOps, LaunchRequests, RunRecs,
               RunStates, NoRun
    <2>2. KeptAsShown' /\ OpIsRecorded' /\ SentOnRecord' /\ ReplyIsOwners'
        BY DEF LaunchInv, LaunchTypes, LaunchGhosts, KeptAsShown, OpIsRecorded,
               SentOnRecord, ReplyIsOwners, Recorded
    <2> QED  BY <2>1, <2>2, LaunchViewStands DEF LaunchInv
<1> QED  BY <1>1, <1>2, <1>3, <1>4, <1>5, <1>6
\* The record is written, answered, queried or reconciled.
LEMMA RecordKeepsLaunch ==
    ASSUME LaunchInv, LaunchFreeze \/ LaunchReply \/ LaunchQuery \/ LaunchReconcile
    PROVE  LaunchInv'
<1>1. CASE LaunchFreeze
    <2> DEFINE rec == [st |-> "pending", input |-> launchOp.input]
    <2>1. launchOp \in LaunchOps /\ launchOp.pc = "freeze"
        BY <1>1 DEF LaunchFreeze, LaunchInv, LaunchTypes, LaunchFree
    <2>2. launchDoc[launchOp.i] = NoRec /\ launchOp.input = launchShown[launchOp.i]
        BY <2>1 DEF LaunchInv, OpIsRecorded
    <2>3. CASE ~FreezeMatches
        <3> USE <1>1, <2>3 DEF LaunchFreeze
        <3>1. LaunchTypes'
            BY DEF LaunchInv, LaunchTypes
        <3>2. KeptAsShown' /\ OpIsRecorded' /\ SentOnRecord' /\ ReplyIsOwners'
            BY DEF LaunchInv, KeptAsShown, OpIsRecorded, SentOnRecord, ReplyIsOwners,
                   LaunchFree, Recorded
        <3> QED  BY <3>1, <3>2, LaunchViewStands DEF LaunchInv
    <2>4. CASE FreezeMatches
        <3>1. /\ launchDoc' = [Restored EXCEPT ![launchOp.i] = rec]
              /\ launchOp' = [launchOp EXCEPT !.pc = "confirm"]
              /\ UNCHANGED <<served, core, barrier, wire, launchUp, input, launchShown,
                             launchGhost>>
            BY <1>1, <2>1, <2>4 DEF LaunchFreeze, FreezeMatches, LaunchOps
        <3>2. rec \in LaunchRecs
            BY <2>1 DEF LaunchOps, LaunchRecs, LaunchStates
        <3>3. LaunchTypes'
            BY <2>1, <3>1, <3>2, RestoredIsOwners
               DEF LaunchInv, LaunchTypes, LaunchOps, Recorded
        <3>4. KeptAsShown'
            BY <2>1, <2>2, <3>1, <3>2, RestoredIsOwners
               DEF LaunchInv, LaunchTypes, LaunchOps, KeptAsShown, NoRec
        <3>5. OpIsRecorded' /\ ReplyIsOwners'
            BY <2>1, <3>1, RestoredIsOwners DEF LaunchOps, OpIsRecorded, ReplyIsOwners
        <3>6. SentOnRecord'
            BY <2>1, <2>2, <3>1, RestoredIsOwners
               DEF LaunchInv, LaunchTypes, LaunchOps, SentOnRecord, NoRec
        <3>7. OwnersView(launchDoc)'
            BY <2>1, <3>1, RestoredIsOwners DEF LaunchInv, LaunchTypes, LaunchOps, OwnersView
        <3>8. BarredIsAbsent' /\ ServedIsOwners'
            BY <3>1 DEF LaunchInv, BarredIsAbsent, ServedIsOwners
        <3> QED  BY <3>3, <3>4, <3>5, <3>6, <3>7, <3>8 DEF LaunchInv
    <2> QED  BY <2>3, <2>4
<1>2. ASSUME NEW rec \in LaunchRecs, launchOp \in LaunchOps, launchOp.pc \in Recorded,
             Settle(rec), rec.input = launchOp.input, rec # NoRec,
             UNCHANGED <<core, barrier, wire, launchUp, input, launchShown, launchGhost>>,
             rec.st = "created" =>
                core[launchOp.i].st = "succeeded" /\ core[launchOp.i].input = rec.input,
             rec.st = "cancelled" =>
                core[launchOp.i].st = "cancelled" \/ launchOp.i \in barrier
      PROVE  LaunchInv'
    <2>0. /\ launchDoc' = [launchDoc EXCEPT ![launchOp.i] = rec]
          /\ served' = [i \in Intents |-> launchDoc'[i].st] /\ launchOp' = LaunchFree
        BY <1>2 DEF Settle, Serve
    <2>1. launchOp.i \in Intents
        BY <1>2 DEF LaunchOps
    <2>2. /\ launchDoc[launchOp.i].st = "pending"
          /\ launchDoc[launchOp.i].input = launchOp.input
        BY <1>2 DEF LaunchInv, OpIsRecorded
    <2>3. launchDoc' \in [Intents -> LaunchRecs]
        BY <1>2, <2>0, <2>1 DEF LaunchInv, LaunchTypes
    <2>4. served' \in [Intents -> LaunchStates]
        BY <2>0, <2>3 DEF LaunchRecs
    <2>5. LaunchTypes'
        BY <1>2, <2>0, <2>3, <2>4 DEF LaunchInv, LaunchTypes
    <2>6. KeptAsShown' /\ SentOnRecord'
        BY <1>2, <2>0, <2>1, <2>2
           DEF LaunchInv, LaunchTypes, KeptAsShown, SentOnRecord, LaunchFree, NoRec
    <2>7. OpIsRecorded' /\ ReplyIsOwners'
        BY <2>0 DEF OpIsRecorded, ReplyIsOwners, LaunchFree, Recorded
    <2>8. OwnersView(launchDoc)'
        BY <1>2, <2>0, <2>1 DEF LaunchInv, LaunchTypes, OwnersView
    <2>9. BarredIsAbsent' /\ ServedIsOwners'
        BY <1>2, <2>0, <2>8 DEF LaunchInv, BarredIsAbsent, ServedIsOwners, OwnersView
    <2> QED  BY <2>5, <2>6, <2>7, <2>8, <2>9 DEF LaunchInv
<1>3. ASSUME launchOp \in LaunchOps, launchOp.pc \in Recorded
      PROVE  /\ Pending \in LaunchRecs /\ Pending.input = launchOp.input
             /\ launchOp.i \in Intents /\ core[launchOp.i] \in RunRecs
             /\ launchOp.run \in RunRecs
    BY <1>3 DEF Pending, LaunchInv, LaunchTypes, LaunchOps, OpIsRecorded
<1>4. CASE LaunchReply
    <2>1. launchOp \in LaunchOps /\ launchOp.pc \in {"accepted", "refused", "stopped"}
        BY <1>4 DEF LaunchReply, LaunchInv, LaunchTypes, LaunchFree
    <2>2. launchOp.pc \in Recorded
        BY <2>1 DEF Recorded
    <2>3. CASE launchOp.pc = "refused"
        <3>1. Settle([Pending EXCEPT !.st = "failed"])
            BY <1>4, <2>3 DEF LaunchReply
        <3>2. /\ [Pending EXCEPT !.st = "failed"] \in LaunchRecs
              /\ [Pending EXCEPT !.st = "failed"].input = launchOp.input
              /\ [Pending EXCEPT !.st = "failed"].st = "failed"
            BY <1>3, <2>1, <2>2 DEF LaunchRecs, LaunchStates
        <3>3. [Pending EXCEPT !.st = "failed"] # NoRec
            BY <3>2 DEF NoRec
        <3> QED  BY <1>2, <1>4, <2>1, <2>2, <3>1, <3>2, <3>3 DEF LaunchReply
    <2>4. CASE launchOp.pc = "stopped"
        <3>1. Settle([Pending EXCEPT !.st = "cancelled"])
            BY <1>4, <2>4 DEF LaunchReply
        <3>2. /\ [Pending EXCEPT !.st = "cancelled"] \in LaunchRecs
              /\ [Pending EXCEPT !.st = "cancelled"].input = launchOp.input
              /\ [Pending EXCEPT !.st = "cancelled"].st = "cancelled"
            BY <1>3, <2>1, <2>2 DEF LaunchRecs, LaunchStates
        <3>3. [Pending EXCEPT !.st = "cancelled"] # NoRec
            BY <3>2 DEF NoRec
        <3>4. launchOp.i \in barrier
            BY <2>4 DEF LaunchInv, ReplyIsOwners
        <3> QED  BY <1>2, <1>4, <2>1, <2>2, <3>1, <3>2, <3>3, <3>4 DEF LaunchReply
    <2>5. CASE launchOp.pc = "accepted"
        <3> DEFINE rec == Projection(Pending, launchOp.run, FALSE)
        <3>1. Settle(rec)
            BY <1>4, <2>5 DEF LaunchReply
        <3>2. /\ rec \in LaunchRecs /\ rec.input = Pending.input /\ rec # NoRec
              /\ rec.st = "created" =>
                    launchOp.run.st = "succeeded" /\ launchOp.run.input = Pending.input
              /\ rec.st = "cancelled" => launchOp.run.st = "cancelled"
            BY <1>3, <2>1, <2>2, ProjectionIsOwners
        <3> HIDE DEF rec
        <3>3. Pending.input = launchOp.input
            BY <1>3, <2>1, <2>2
        <3>4. /\ core[launchOp.i].input = launchOp.run.input
              /\ launchOp.run.st \in {"succeeded", "cancelled"} =>
                    core[launchOp.i].st = launchOp.run.st
            BY <2>5 DEF LaunchInv, ReplyIsOwners
        <3> QED  BY <1>2, <1>4, <2>1, <2>2, <3>1, <3>2, <3>3, <3>4 DEF LaunchReply
    <2> QED  BY <2>1, <2>3, <2>4, <2>5
<1>5. CASE LaunchQuery
    <2>1. launchOp \in LaunchOps /\ launchOp.pc = "query"
        BY <1>5 DEF LaunchQuery, LaunchInv, LaunchTypes, LaunchFree
    <2>2. launchOp.pc \in Recorded
        BY <2>1 DEF Recorded
    <2>3. CASE launchUp
        <3> DEFINE stopAsked == launchOp.i \in barrier
                   rec == Projection(Pending, core[launchOp.i], stopAsked)
        <3>1. Settle(rec)
            BY <1>5, <2>3 DEF LaunchQuery
        <3>2. stopAsked \in BOOLEAN
            OBVIOUS
        <3>3. stopAsked => launchOp.i \in barrier
            OBVIOUS
        <3> HIDE DEF stopAsked
        <3>4. /\ rec \in LaunchRecs /\ rec.input = Pending.input /\ rec # NoRec
              /\ rec.st = "created" =>
                    core[launchOp.i].st = "succeeded" /\ core[launchOp.i].input = Pending.input
              /\ rec.st = "cancelled" => core[launchOp.i].st = "cancelled" \/ stopAsked
            BY <1>3, <2>1, <2>2, <3>2, ProjectionIsOwners
        <3> HIDE DEF rec
        <3>5. Pending.input = launchOp.input
            BY <1>3, <2>1, <2>2
        <3> QED  BY <1>2, <1>5, <2>1, <2>2, <3>1, <3>3, <3>4, <3>5 DEF LaunchQuery
    <2>4. CASE ~launchUp
        <3>1. Settle([Pending EXCEPT !.st = "unconfirmed"])
            BY <1>5, <2>4 DEF LaunchQuery
        <3>2. /\ [Pending EXCEPT !.st = "unconfirmed"] \in LaunchRecs
              /\ [Pending EXCEPT !.st = "unconfirmed"].input = launchOp.input
              /\ [Pending EXCEPT !.st = "unconfirmed"].st = "unconfirmed"
            BY <1>3, <2>1, <2>2 DEF LaunchRecs, LaunchStates
        <3>3. [Pending EXCEPT !.st = "unconfirmed"] # NoRec
            BY <3>2 DEF NoRec
        <3> QED  BY <1>2, <1>5, <2>1, <2>2, <3>1, <3>2, <3>3 DEF LaunchQuery
    <2> QED  BY <2>3, <2>4
<1>6. CASE LaunchReconcile
    <2> DEFINE d == [i \in Intents |->
                       IF Restored[i] = NoRec THEN NoRec ELSE Reconciled(Restored[i], i)]
    <2>0. /\ launchDoc' = d /\ served' = [i \in Intents |-> d[i].st]
          /\ launchOp = LaunchFree
          /\ UNCHANGED <<core, barrier, wire, launchUp, input, launchShown, launchOp, launchGhost>>
        BY <1>6 DEF LaunchReconcile, Serve
    <2>1. ASSUME NEW i \in Intents
          PROVE  /\ d[i] \in LaunchRecs
                 /\ Restored[i] = NoRec => d[i] = NoRec
                 /\ Restored[i] # NoRec => d[i] # NoRec /\ d[i].input = Restored[i].input
                 /\ d[i].st = "created" =>
                       core[i].st = "succeeded" /\ core[i].input = d[i].input
                 /\ d[i].st = "cancelled" => core[i].st = "cancelled" \/ i \in barrier
        <3>1. CASE Restored[i] = NoRec
            BY <3>1 DEF NoRec, LaunchRecs, LaunchStates
        <3>2. CASE Restored[i] # NoRec
            <4>1. Restored[i] \in LaunchRecs /\ LaunchTypes
                BY RestoredIsOwners DEF LaunchInv
            <4> QED  BY <3>2, <4>1, ReconciledIsOwners
        <3> QED  BY <3>1, <3>2
    <2>2. d \in [Intents -> LaunchRecs]
        BY <2>1
    <2> HIDE DEF d
    <2>3. served' \in [Intents -> LaunchStates]
        BY <2>0, <2>2 DEF LaunchRecs
    <2>4. LaunchTypes'
        BY <2>0, <2>2, <2>3 DEF LaunchInv, LaunchTypes
    <2>5. KeptAsShown' /\ SentOnRecord'
        BY <2>0, <2>1, RestoredIsOwners
           DEF LaunchInv, LaunchTypes, LaunchRequests, KeptAsShown, SentOnRecord, LaunchFree
    <2>6. OpIsRecorded' /\ ReplyIsOwners'
        BY <2>0 DEF OpIsRecorded, ReplyIsOwners, LaunchFree, Recorded
    <2>7. OwnersView(launchDoc)' /\ BarredIsAbsent' /\ ServedIsOwners'
        BY <2>0, <2>1 DEF LaunchInv, OwnersView, BarredIsAbsent, ServedIsOwners
    <2> QED  BY <2>4, <2>5, <2>6, <2>7 DEF LaunchInv
<1> QED  BY <1>1, <1>4, <1>5, <1>6
\* What is served without being recorded.
LEMMA AnswerKeepsLaunch ==
    ASSUME LaunchInv, CancelDone \/ \E i \in Intents : LaunchKnown(i)
    PROVE  LaunchInv'
<1>1. ASSUME NEW d \in [Intents -> LaunchRecs], OwnersView(d), Serve(d),
             UNCHANGED <<launchDoc, core, barrier, wire, launchUp, input, launchShown>>,
             launchOp' \in {launchOp, LaunchFree},
             launchGhost' \in LaunchGhosts,
             launchGhost'.sent = launchGhost.sent, launchGhost'.wiped = launchGhost.wiped
      PROVE  LaunchInv'
    <2>1. served' = [i \in Intents |-> d[i].st]
        BY <1>1 DEF Serve
    <2>2. served' \in [Intents -> LaunchStates]
        BY <1>1, <2>1 DEF LaunchRecs
    <2>3. LaunchTypes'
        BY <1>1, <2>2 DEF LaunchInv, LaunchTypes
    <2>4. KeptAsShown'
        BY <1>1 DEF LaunchInv, KeptAsShown
    <2>5. OpIsRecorded' /\ SentOnRecord' /\ ReplyIsOwners'
        BY <1>1 DEF LaunchInv, OpIsRecorded, SentOnRecord, ReplyIsOwners, LaunchFree, Recorded
    <2>6. OwnersView(launchDoc)' /\ BarredIsAbsent'
        BY <1>1 DEF LaunchInv, OwnersView, BarredIsAbsent
    <2>7. ServedIsOwners'
        BY <1>1, <2>1 DEF OwnersView, ServedIsOwners
    <2> QED  BY <2>3, <2>4, <2>5, <2>6, <2>7 DEF LaunchInv
<1>2. ASSUME NEW i \in Intents, NEW rec \in LaunchRecs, rec.input \in Nat,
             rec = Restored[i] \/ rec = launchDoc[i]
      PROVE  /\ [Restored EXCEPT ![i] = Reconciled(rec, i)] \in [Intents -> LaunchRecs]
             /\ OwnersView([Restored EXCEPT ![i] = Reconciled(rec, i)])
    <2>1. /\ Reconciled(rec, i) \in LaunchRecs
          /\ Reconciled(rec, i).input = rec.input
          /\ Reconciled(rec, i).st = "created" =>
                core[i].st = "succeeded" /\ core[i].input = rec.input
          /\ Reconciled(rec, i).st = "cancelled" => core[i].st = "cancelled" \/ i \in barrier
        BY <1>2, ReconciledIsOwners DEF LaunchInv
    <2> QED  BY <2>1, RestoredIsOwners DEF OwnersView
<1>3. CASE CancelDone
    <2>1. launchOp \in LaunchOps /\ launchGhost \in LaunchGhosts
        BY <1>3 DEF CancelDone, LaunchInv, LaunchTypes, LaunchFree
    <2>2. launchOp.i \in Intents
        BY <2>1 DEF LaunchOps
    <2>3. CASE launchOp.pc = "cancelled" /\ launchDoc[launchOp.i] = NoRec
        BY <1>1, <1>3, <2>1, <2>3, RestoredIsOwners DEF CancelDone
    <2>4. CASE launchOp.pc = "cancelled" /\ launchDoc[launchOp.i] # NoRec
        <3> DEFINE rec == launchDoc[launchOp.i]
        <3>1. rec \in LaunchRecs /\ rec.input \in Nat
            BY <2>2 DEF LaunchInv, LaunchTypes, LaunchRecs
        <3>2. Serve([Restored EXCEPT ![launchOp.i] = Reconciled(rec, launchOp.i)])
            BY <1>3, <2>4 DEF CancelDone
        <3> QED  BY <1>1, <1>2, <1>3, <2>1, <2>2, <3>1, <3>2 DEF CancelDone
    <2>5. CASE launchOp.pc # "cancelled"
        <3> USE <1>3, <2>5 DEF CancelDone
        <3>1. LaunchTypes'
            BY DEF LaunchInv, LaunchTypes
        <3>2. KeptAsShown' /\ OpIsRecorded' /\ SentOnRecord' /\ ReplyIsOwners'
            BY DEF LaunchInv, KeptAsShown, OpIsRecorded, SentOnRecord, ReplyIsOwners,
                   LaunchFree, Recorded
        <3> QED  BY <3>1, <3>2, LaunchViewStands DEF LaunchInv
    <2> QED  BY <2>3, <2>4, <2>5
<1>4. ASSUME NEW i \in Intents, LaunchKnown(i) PROVE LaunchInv'
    <2>1. launchGhost \in LaunchGhosts
        BY DEF LaunchInv, LaunchTypes
    <2>2. /\ launchGhost' \in LaunchGhosts
          /\ launchGhost'.sent = launchGhost.sent /\ launchGhost'.wiped = launchGhost.wiped
        BY <1>4, <2>1 DEF LaunchKnown, Asked, LaunchGhosts
    <2>3. Restored[i] \in LaunchRecs /\ Restored[i].input \in Nat
        BY RestoredIsOwners DEF LaunchRecs
    <2> QED  BY <1>1, <1>2, <1>4, <2>2, <2>3 DEF LaunchKnown
<1> QED  BY <1>3, <1>4

\* The owner confirms, bars, cancels and ends.
LEMMA OwnerKeepsLaunch ==
    ASSUME LaunchInv,
           \/ \E m \in wire : CoreConfirm(m) \/ CoreCancel(m)
           \/ \E i \in Intents : RunEnds(i)
    PROVE  LaunchInv'
<1>1. ASSUME NEW m \in wire, CoreConfirm(m) PROVE LaunchInv'
    <2>1. m \in LaunchRequests /\ m.kind = "confirm"
        BY <1>1 DEF LaunchInv, LaunchTypes, CoreConfirm
    <2>2. m.i \in Intents /\ m.input \in Nat /\ m.at \in Nat /\ core[m.i] \in RunRecs
        BY <2>1 DEF LaunchInv, LaunchTypes, LaunchRequests
    <2>3. /\ wire' = wire \ {m}
          /\ UNCHANGED <<launchDoc, served, barrier, launchUp, input, launchShown, launchGhost>>
        BY <1>1 DEF CoreConfirm
    <2>4. ASSUME NEW how \in {"accepted", "refused", "stopped"}, NEW rn \in RunRecs,
                 Reply(m, how, rn), UNCHANGED core,
                 how = "stopped" => m.i \in barrier,
                 how = "accepted" => rn = core[m.i] /\ rn.st # "absent"
          PROVE  LaunchInv'
        <3>1. CASE ~Waiting(m)
            <4> USE <2>3, <2>4, <3>1 DEF Reply
            <4>1. LaunchTypes'
                BY DEF LaunchInv, LaunchTypes
            <4>2. KeptAsShown' /\ OpIsRecorded' /\ SentOnRecord' /\ ReplyIsOwners'
                BY DEF LaunchInv, KeptAsShown, OpIsRecorded, SentOnRecord, ReplyIsOwners
            <4> QED  BY <4>1, <4>2, LaunchViewStands DEF LaunchInv
        <3>2. CASE Waiting(m)
            <4>1. launchOp \in LaunchOps /\ launchOp.i = m.i /\ launchOp.pc = "wait"
                BY <3>2 DEF Waiting, LaunchInv, LaunchTypes, LaunchFree
            <4>2. launchOp' = [launchOp EXCEPT !.pc = how, !.run = rn]
                BY <2>4, <3>2 DEF Reply
            <4>3. LaunchTypes'
                BY <2>3, <2>4, <4>1, <4>2 DEF LaunchInv, LaunchTypes, LaunchOps, Recorded
            <4>4. KeptAsShown'
                BY <2>3, <2>4 DEF LaunchInv, KeptAsShown
            <4>5. OpIsRecorded' /\ SentOnRecord'
                BY <2>3, <2>4, <4>1, <4>2
                   DEF LaunchInv, OpIsRecorded, SentOnRecord, Recorded, LaunchOps
            <4>6. ReplyIsOwners'
                BY <2>3, <2>4, <4>1, <4>2 DEF ReplyIsOwners, LaunchOps
            <4> QED  BY <2>3, <2>4, <4>3, <4>4, <4>5, <4>6, LaunchViewStands DEF LaunchInv
        <3> QED  BY <3>1, <3>2
    <2>5. NoRun \in RunRecs
        BY DEF NoRun, RunRecs, RunStates
    <2>6. CASE m.i \in barrier
        BY <1>1, <2>4, <2>5, <2>6 DEF CoreConfirm
    <2>7. CASE m.i \notin barrier /\ core[m.i].st = "absent" /\ UNCHANGED core
        <3>1. Reply(m, "refused", NoRun) \/ Reply(m, "refused", NoRun)
            BY <1>1, <2>2, <2>7 DEF CoreConfirm, LaunchInv, LaunchTypes
        <3> QED  BY <2>4, <2>5, <2>7, <3>1
    <2>8. CASE m.i \notin barrier /\ core[m.i].st # "absent"
        BY <1>1, <2>2, <2>4, <2>8 DEF CoreConfirm
    <2>9. CASE m.i \notin barrier /\ core[m.i].st = "absent" /\ core' # core
        <3> DEFINE rn == [st |-> "running", input |-> m.input, at |-> m.at]
        <3>1. core' = [core EXCEPT ![m.i] = rn] /\ Reply(m, "accepted", rn)
            BY <1>1, <2>9 DEF CoreConfirm
        <3>2. rn \in RunRecs
            BY <2>2 DEF RunRecs, RunStates
        <3>a. \/ launchOp' = launchOp
              \/ /\ launchOp \in LaunchOps /\ launchOp.i = m.i
                 /\ launchOp' = [launchOp EXCEPT !.pc = "accepted", !.run = rn]
            BY <3>1 DEF Reply, Waiting, LaunchInv, LaunchTypes, LaunchFree
        <3>3. launchOp' \in LaunchOps \cup {LaunchFree}
            BY <3>2, <3>a DEF LaunchInv, LaunchTypes, LaunchOps, Recorded
        <3>4. LaunchTypes'
            BY <2>2, <2>3, <3>1, <3>2, <3>3 DEF LaunchInv, LaunchTypes
        <3>5. KeptAsShown'
            BY <2>1, <2>2, <2>3, <3>1 DEF LaunchInv, LaunchTypes, KeptAsShown
        <3>6. OpIsRecorded' /\ SentOnRecord'
            BY <2>3, <3>1
               DEF LaunchInv, LaunchTypes, LaunchOps, LaunchFree, OpIsRecorded, SentOnRecord,
                   Recorded, Reply, Waiting
        <3>7. BarredIsAbsent' /\ OwnersView(launchDoc)' /\ ServedIsOwners'
            BY <2>2, <2>3, <2>9, <3>1
               DEF LaunchInv, LaunchTypes, BarredIsAbsent, OwnersView, ServedIsOwners
        <3>8. ReplyIsOwners'
            <4>1. CASE launchOp' = launchOp
                <5>1. launchOp.pc \in {"stopped", "accepted"} => launchOp.i \in Intents
                    BY DEF LaunchInv, LaunchTypes, LaunchOps, LaunchFree
                <5> QED  BY <2>2, <2>3, <2>9, <3>1, <4>1, <5>1
                            DEF LaunchInv, LaunchTypes, ReplyIsOwners
            <4>2. CASE launchOp' # launchOp
                <5>1. launchOp'.pc = "accepted" /\ launchOp'.i = m.i /\ launchOp'.run = rn
                    BY <3>a, <4>2 DEF LaunchOps
                <5>2. core'[m.i] = rn
                    BY <2>2, <3>1 DEF LaunchInv, LaunchTypes
                <5> QED  BY <5>1, <5>2 DEF ReplyIsOwners
            <4> QED  BY <4>1, <4>2
        <3> QED  BY <3>4, <3>5, <3>6, <3>7, <3>8 DEF LaunchInv
    <2> QED  BY <2>6, <2>7, <2>8, <2>9
<1>2. ASSUME NEW m \in wire, CoreCancel(m) PROVE LaunchInv'
    <2>1. /\ m \in LaunchRequests /\ m.kind = "cancel" /\ wire' = wire \ {m}
          /\ UNCHANGED <<launchDoc, served, launchUp, input, launchShown, launchGhost>>
        BY <1>2 DEF LaunchInv, LaunchTypes, CoreCancel
    <2>2. m.i \in Intents /\ core[m.i] \in RunRecs
        BY <2>1 DEF LaunchInv, LaunchTypes, LaunchRequests
    <2>3. \/ launchOp' = launchOp
          \/ launchOp.pc = "cancelling" /\ launchOp' = [launchOp EXCEPT !.pc = "cancelled"]
        BY <1>2 DEF CoreCancel
    <2>4. /\ barrier' = IF core[m.i].st = "absent" THEN barrier \cup {m.i} ELSE barrier
          /\ core' = IF core[m.i].st = "running" THEN [core EXCEPT ![m.i].st = "cancelled"]
                     ELSE core
        BY <1>2 DEF CoreCancel
    <2>5. launchOp' \in LaunchOps \cup {LaunchFree}
        BY <2>3 DEF LaunchInv, LaunchTypes, LaunchOps, LaunchFree, Recorded
    <2>6. core' \in [Intents -> RunRecs]
        BY <2>2, <2>4 DEF LaunchInv, LaunchTypes, RunRecs, RunStates
    <2>7. LaunchTypes'
        BY <2>1, <2>2, <2>4, <2>5, <2>6 DEF LaunchInv, LaunchTypes
    <2>8. /\ \A i \in Intents : /\ core'[i].input = core[i].input
                                /\ core[i].st # "running" => core'[i] = core[i]
                                /\ core'[i].st = "absent" <=> core[i].st = "absent"
          /\ barrier \subseteq barrier'
          /\ \A i \in barrier' : i \in barrier \/ core[i].st = "absent"
        BY <2>2, <2>4 DEF LaunchInv, LaunchTypes, RunRecs
    <2>9. KeptAsShown' /\ SentOnRecord'
        BY <2>1, <2>3, <2>8
           DEF LaunchInv, LaunchTypes, LaunchOps, LaunchFree, KeptAsShown, SentOnRecord
    <2>10. OpIsRecorded'
        BY <2>1, <2>3 DEF LaunchInv, LaunchTypes, LaunchOps, LaunchFree, OpIsRecorded, Recorded
    <2>a. BarredIsAbsent'
        BY <2>7, <2>8 DEF LaunchInv, LaunchTypes, BarredIsAbsent
    <2>b. OwnersView(launchDoc)'
        BY <2>1, <2>8 DEF LaunchInv, OwnersView
    <2>11. ServedIsOwners'
        BY <2>1, <2>8 DEF LaunchInv, ServedIsOwners
    <2>12. launchOp'.pc \in {"stopped", "accepted"} => launchOp' = launchOp /\ launchOp.i \in Intents
        BY <2>3 DEF LaunchInv, LaunchTypes, LaunchOps, LaunchFree
    <2>13. ReplyIsOwners'
        BY <2>8, <2>12 DEF LaunchInv, ReplyIsOwners
    <2> QED  BY <2>7, <2>9, <2>10, <2>a, <2>b, <2>11,
                <2>13 DEF LaunchInv
<1>3. ASSUME NEW i \in Intents, RunEnds(i) PROVE LaunchInv'
    <2>1. UNCHANGED <<launchDoc, served, barrier, wire, launchUp, input, launchShown, launchOp,
                      launchGhost>>
        BY <1>3 DEF RunEnds
    <2>2. core' \in [Intents -> RunRecs]
        BY <1>3 DEF RunEnds, LaunchInv, LaunchTypes, RunRecs, RunStates
    <2>3. \A k \in Intents : /\ core'[k].input = core[k].input
                             /\ core[k].st # "running" => core'[k] = core[k]
                             /\ core'[k].st = "absent" <=> core[k].st = "absent"
        BY <1>3 DEF RunEnds, LaunchInv, LaunchTypes, RunRecs
    <2>4. LaunchTypes'
        BY <2>1, <2>2 DEF LaunchInv, LaunchTypes
    <2>5. KeptAsShown' /\ SentOnRecord' /\ OpIsRecorded'
        BY <2>1, <2>3 DEF LaunchInv, KeptAsShown, SentOnRecord, OpIsRecorded
    <2>6. BarredIsAbsent' /\ OwnersView(launchDoc)' /\ ServedIsOwners'
        BY <2>1, <2>3 DEF LaunchInv, LaunchTypes, BarredIsAbsent, OwnersView, ServedIsOwners
    <2>7. launchOp.pc \in {"stopped", "accepted"} => launchOp.i \in Intents
        BY DEF LaunchInv, LaunchTypes, LaunchOps, LaunchFree
    <2>8. ReplyIsOwners'
        BY <2>1, <2>3, <2>7 DEF LaunchInv, ReplyIsOwners
    <2> QED  BY <2>4, <2>5, <2>6, <2>8 DEF LaunchInv
<1> QED  BY <1>1, <1>2, <1>3

LEMMA LaunchInductive ==
    ASSUME LaunchInv, [LaunchNext]_launchVars
    PROVE  LaunchInv'
<1>1. CASE UNCHANGED launchVars
    BY <1>1 DEF launchVars, LaunchInv, LaunchTypes, KeptAsShown, OpIsRecorded, SentOnRecord,
               BarredIsAbsent, OwnersView, ServedIsOwners, ReplyIsOwners
<1>2. CASE LaunchNext
    BY <1>2, SurroundingsKeepLaunch, OperationKeepsLaunch, RecordKeepsLaunch, AnswerKeepsLaunch,
       OwnerKeepsLaunch DEF LaunchNext, Launching
<1> QED  BY <1>1, <1>2

LEMMA LaunchBegins == LaunchInit => LaunchInv
<1> SUFFICES ASSUME LaunchInit PROVE LaunchInv
    OBVIOUS
<1> USE DEF LaunchInit
<1>1. NoRec \in LaunchRecs /\ NoRun \in RunRecs
    BY DEF NoRec, NoRun, LaunchRecs, LaunchStates, RunRecs, RunStates
<1>2. LaunchTypes
    BY <1>1 DEF LaunchTypes, LaunchStates, LaunchGhosts
<1>3. KeptAsShown /\ OpIsRecorded /\ SentOnRecord /\ BarredIsAbsent /\ ReplyIsOwners
    BY DEF KeptAsShown, OpIsRecorded, SentOnRecord, BarredIsAbsent, ReplyIsOwners, LaunchFree,
           Recorded, NoRun
<1>4. OwnersView(launchDoc) /\ ServedIsOwners
    BY DEF OwnersView, ServedIsOwners, NoRec
<1> QED  BY <1>2, <1>3, <1>4 DEF LaunchInv

LEMMA LaunchInvIsSafe == LaunchInv => LaunchSafe
<1> SUFFICES ASSUME LaunchInv PROVE LaunchSafe
    OBVIOUS
<1>1. LaunchTypeOK
    BY DEF LaunchInv, LaunchTypes, LaunchTypeOK, LaunchRecs, LaunchStates, RunRecs, RunStates
<1>2. RunIsAsShown /\ ServedResultIsOwners
    BY DEF LaunchInv, KeptAsShown, RunIsAsShown, OwnersView, ServedIsOwners, ServedResultIsOwners
<1>3. CancelledDoesNotRun
    BY DEF LaunchInv, LaunchTypes, BarredIsAbsent, ServedIsOwners, CancelledDoesNotRun
<1>4. SentOnce
    BY DEF LaunchInv, SentOnRecord, SentOnce
<1> QED  BY <1>1, <1>2, <1>3, <1>4 DEF LaunchSafe
-----------------------------------------------------------------------------
(* The job service: its inductive invariant.                               *)

JobStates == {"absent"} \cup LiveStates \cup Terminal
JobRecs == [st : JobStates, req : JobRequests \cup {"none", "batch", "holdout"}]
Outs == {"none", "stopped", "failed", "succeeded", "unconfirmed"}
JobThreads ==
    [pc : {"idle", "admit", "prepare", "spawn", "supervise", "settle", "final"},
     job : Jobs \cup {"none"}, rest : {<<>>} \cup {<<k>> : k \in Jobs}, stop : BOOLEAN,
     sent : {"no", "term", "kill"}, known : BOOLEAN, out : Outs, ended : BOOLEAN]

JobTypes ==
    /\ jobDisk \in [Jobs -> JobRecs] /\ mem \in [Jobs -> JobRecs] /\ frozen \subseteq Jobs
    /\ svc \in {"up", "closing", "down", "refused"} /\ thread \in JobThreads
    /\ grp \in [Jobs -> {"none", "running", "left", "dying", "gone"}]
    /\ result \in [Jobs -> {"none", "ok", "failed"}] /\ reports \subseteq Jobs
    /\ jobFaults \in Nat

\* The job the thread carries, and the one it has still to begin, are live on
\* disk while the service runs.
CarriedIsLive ==
    /\ thread.pc # "idle" =>
          /\ svc \in {"up", "closing"} /\ thread.job \in Jobs
          /\ jobDisk[thread.job].st \in LiveStates
    /\ \A k \in Jobs : thread.rest = <<k>> =>
          /\ thread.pc # "idle" /\ k # thread.job /\ jobDisk[k].st \in LiveStates /\ ~Alive(k)

\* Before its spawn, and once its end was seen, a job has no process left.
EndIsSeen ==
    \/ thread.pc \in {"admit", "prepare", "spawn", "settle"}
    \/ thread.pc = "final" /\ (thread.ended \/ thread.out = "succeeded")
    => ~Alive(thread.job)

\* The index follows the disk, up to the mark that precedes a durable stop,
\* except for a job this process no longer writes.
IndexFollows ==
    \A j \in Jobs :
       /\ mem[j].st \in Terminal => jobDisk[j] = mem[j]
       /\ mem[j].st \in LiveStates /\ j \notin frozen =>
             \/ jobDisk[j] = mem[j]
             \/ svc = "closing" /\ jobDisk[j] = [mem[j] EXCEPT !.st = "stopping"]
       /\ j \in frozen => mem[j].st \in LiveStates

\* A service that does not run remembers nothing.
DownIsEmpty ==
    svc \in {"down", "refused"} => frozen = {} /\ \A j \in Jobs : mem[j] = JobAbsent

UnknownHasNoGroup == \A j \in Jobs : jobDisk[j] = JobAbsent => ~Alive(j)

JobInv ==
    /\ JobTypes /\ CarriedIsLive /\ EndIsSeen /\ IndexFollows /\ DownIsEmpty
    /\ UnknownHasNoGroup /\ SuccessIsPublished /\ OutcomeMeansGone
\* What no step does to a durable outcome.
OutcomeStands ==
    \A j \in Jobs :
       /\ jobDisk[j].st \in Terminal => jobDisk'[j] = jobDisk[j]
       /\ jobDisk[j].st = "stopping" => jobDisk'[j].st # "succeeded"
       /\ svc = "closing" /\ jobDisk'[j].st = "succeeded" => jobDisk[j].st = "succeeded"

LEMMA MarkIsRec ==
    ASSUME NEW rec \in JobRecs, NEW st \in LiveStates \cup Terminal
    PROVE  /\ [rec EXCEPT !.st = st] \in JobRecs /\ [rec EXCEPT !.st = st].st = st
           /\ [rec EXCEPT !.st = st] # JobAbsent
    BY DEF JobRecs, JobStates, JobAbsent, LiveStates, Terminal

\* What is written adopts the disk or is frozen, and the index still follows.
LEMMA WriteIsAdopted ==
    ASSUME JobInv, NEW j \in Jobs, NEW rec \in JobRecs, rec.st \in LiveStates \cup Terminal,
           mem[j].st \in LiveStates, j \notin frozen, StoreAdopting(j, rec), UNCHANGED svc
    PROVE  /\ jobDisk' \in [Jobs -> JobRecs] /\ mem' \in [Jobs -> JobRecs]
           /\ frozen' \subseteq Jobs /\ jobFaults' \in Nat
           /\ \A k \in Jobs : k # j => jobDisk'[k] = jobDisk[k]
           /\ jobDisk'[j] \in {jobDisk[j], rec} /\ jobDisk[j].st \in LiveStates
           /\ \A k \in Jobs : jobDisk'[k] = JobAbsent => jobDisk[k] = JobAbsent
           /\ IndexFollows' /\ DownIsEmpty'
<1>1. jobDisk[j].st \in LiveStates /\ jobDisk[j] \in JobRecs
    BY DEF JobInv, JobTypes, IndexFollows, LiveStates, JobRecs
<1>2. rec # JobAbsent /\ jobDisk[j] # JobAbsent
    BY <1>1 DEF JobAbsent, LiveStates, Terminal
<1>3. svc \notin {"down", "refused"}
    BY DEF JobInv, DownIsEmpty, JobAbsent, LiveStates
<1>4. DownIsEmpty'
    BY <1>3 DEF DownIsEmpty
<1>5. PICK d \in {jobDisk[j], rec} :
         /\ jobDisk' = [jobDisk EXCEPT ![j] = d]
         /\ \/ mem' = [mem EXCEPT ![j] = d] /\ UNCHANGED frozen
            \/ frozen' = frozen \cup {j} /\ UNCHANGED mem
    BY DEF StoreAdopting
<1>6. jobFaults' \in Nat
    BY DEF StoreAdopting, Raises, JobInv, JobTypes
<1>7. /\ jobDisk' \in [Jobs -> JobRecs] /\ mem' \in [Jobs -> JobRecs] /\ frozen' \subseteq Jobs
      /\ jobDisk'[j] = d /\ \A k \in Jobs : k # j => jobDisk'[k] = jobDisk[k]
    BY <1>1, <1>5 DEF JobInv, JobTypes
<1>8. IndexFollows'
    <2>1. CASE mem' = [mem EXCEPT ![j] = d] /\ UNCHANGED frozen
        <3>1. mem'[j] = d /\ \A k \in Jobs : k # j => mem'[k] = mem[k]
            BY <2>1 DEF JobInv, JobTypes
        <3> QED  BY <1>7, <2>1, <3>1 DEF JobInv, IndexFollows
    <2>2. CASE frozen' = frozen \cup {j} /\ UNCHANGED mem
        <3>1. mem[j].st \notin Terminal
            BY DEF LiveStates, Terminal
        <3> QED  BY <1>7, <2>2, <3>1 DEF JobInv, IndexFollows
    <2> QED  BY <1>5, <2>1, <2>2
<1> QED  BY <1>1, <1>2, <1>4, <1>5, <1>6, <1>7, <1>8

-----------------------------------------------------------------------------
(* Where the thread goes.                                                  *)

LEMMA OneMember == ASSUME NEW k PROVE Head(<<k>>) = k /\ Tail(<<k>>) = <<>>
    OBVIOUS

LEMMA TwoMembers == ASSUME NEW j, NEW k PROVE Head(<<j, k>>) = j /\ Tail(<<j, k>>) = <<k>>
    OBVIOUS

LEMMA IdleIsThread ==
    /\ JobIdle \in JobThreads /\ JobIdle.pc = "idle" /\ JobIdle.rest = <<>>
    /\ \A k \in Jobs : JobIdle.rest # <<k>>
    BY DEF JobIdle, JobThreads, Outs

LEMMA ThreadBegins ==
    ASSUME NEW j \in Jobs, JobBegin(<<j>>)
    PROVE  /\ thread' \in JobThreads /\ thread'.pc = "admit" /\ thread'.job = j
           /\ thread'.rest = <<>>
<1>1. thread' = [JobIdle EXCEPT !.pc = "admit", !.job = j, !.rest = <<>>]
    BY OneMember DEF JobBegin
<1> QED  BY <1>1 DEF JobIdle, JobThreads, Outs

LEMMA ThreadBeginsBatch ==
    ASSUME NEW j \in Jobs, NEW k \in Jobs, JobBegin(<<j, k>>)
    PROVE  /\ thread' \in JobThreads /\ thread'.pc = "admit" /\ thread'.job = j
           /\ thread'.rest = <<k>>
<1>1. thread' = [JobIdle EXCEPT !.pc = "admit", !.job = j, !.rest = <<k>>]
    BY TwoMembers DEF JobBegin
<1> QED  BY <1>1 DEF JobIdle, JobThreads, Outs

\* The slot is released, or given to the next member of the batch.
LEMMA ThreadEnds ==
    ASSUME JobInv, thread.pc # "idle", Finished \/ Escapes
    PROVE  \/ thread' = JobIdle
           \/ /\ thread' \in JobThreads /\ thread'.pc = "admit" /\ thread'.rest = <<>>
              /\ thread'.job \in Jobs /\ thread.rest = <<thread'.job>>
<1>1. CASE Escapes \/ thread.rest = <<>>
    BY <1>1 DEF Escapes, Finished
<1>2. CASE Finished /\ thread.rest # <<>>
    <2>1. PICK k \in Jobs : thread.rest = <<k>>
        BY <1>2 DEF JobInv, JobTypes, JobThreads
    <2>2. JobBegin(<<k>>)
        BY <1>2, <2>1 DEF Finished
    <2> QED  BY <2>1, <2>2, ThreadBegins
<1> QED  BY <1>1, <1>2

\* A step of the thread that writes nothing: no process comes back, and one
\* starts only with a spawn.
LEMMA ThreadKeepsJobs ==
    ASSUME JobInv, Same, UNCHANGED result, thread.pc # "idle",
           thread' \in JobThreads, thread'.pc # "idle", thread'.job = thread.job,
           thread'.rest = thread.rest,
           grp' \in [Jobs -> {"none", "running", "left", "dying", "gone"}],
           \A k \in Jobs : Alive(k)' /\ k # thread.job => Alive(k),
           EndIsSeen'
    PROVE  JobInv' /\ OutcomeStands
<1> USE DEF Same
<1>1. JobTypes'
    BY DEF JobInv, JobTypes
<1>2. IndexFollows' /\ DownIsEmpty' /\ SuccessIsPublished'
    BY DEF JobInv, IndexFollows, DownIsEmpty, SuccessIsPublished
<1>3. CarriedIsLive'
    BY DEF JobInv, CarriedIsLive
<1>4. jobDisk[thread.job].st \in LiveStates /\ thread.job \in Jobs
    BY DEF JobInv, CarriedIsLive
<1>5. UnknownHasNoGroup' /\ OutcomeMeansGone'
    BY <1>4 DEF JobInv, UnknownHasNoGroup, OutcomeMeansGone, JobAbsent, LiveStates
<1>6. OutcomeStands
    BY DEF OutcomeStands
<1> QED  BY <1>1, <1>2, <1>3, <1>5, <1>6 DEF JobInv
-----------------------------------------------------------------------------
(* The steps of the job service.                                           *)

\* A signal starts nothing.
LEMMA SignalStartsNothing ==
    ASSUME JobInv, NEW j \in Jobs
    PROVE  /\ Signalled(j) \in [Jobs -> {"none", "running", "left", "dying", "gone"}]
           /\ \A k \in Jobs : Signalled(j)[k] \in {"running", "left", "dying"} => Alive(k)
    BY DEF Signalled, JobInv, JobTypes, Alive

LEMMA ThreadMoves ==
    ASSUME JobInv, NEW pc \in {"prepare", "spawn", "supervise", "settle"}, JobAt(pc)
    PROVE  /\ thread' \in JobThreads /\ thread'.pc = pc /\ thread'.job = thread.job
           /\ thread'.rest = thread.rest
    BY DEF JobAt, JobInv, JobTypes, JobThreads

LEMMA ThreadIntends ==
    ASSUME JobInv, NEW out \in Outs, NEW ended \in BOOLEAN, Intend(out, ended)
    PROVE  /\ thread' \in JobThreads /\ thread'.pc = "final" /\ thread'.job = thread.job
           /\ thread'.rest = thread.rest /\ thread'.out = out /\ thread'.ended = ended
<1>1. thread \in JobThreads
    BY DEF JobInv, JobTypes
<1>2. thread' = [thread EXCEPT !.pc = "final", !.out = out, !.ended = ended]
    BY DEF Intend
<1> QED  BY <1>1, <1>2 DEF JobThreads

\* What a supervision notes is not where the thread is.
LEMMA ThreadNotes ==
    ASSUME NEW t \in JobThreads
    PROVE  /\ [t EXCEPT !.known = FALSE] \in JobThreads
           /\ [t EXCEPT !.stop = TRUE] \in JobThreads
           /\ [t EXCEPT !.sent = "term"] \in JobThreads
           /\ [t EXCEPT !.sent = "kill"] \in JobThreads
           /\ [t EXCEPT !.pc = "supervise"] \in JobThreads
    BY DEF JobThreads

LEMMA ThreadStepsKeepJobs ==
    ASSUME JobInv,
           \/ Prepare \/ Spawn \/ SuperviseEnd \/ SuperviseStop \/ SuperviseLeftover
           \/ SuperviseKill \/ SuperviseDeadline \/ JobSettle
    PROVE  JobInv' /\ OutcomeStands
<1>0. /\ thread \in JobThreads
      /\ thread.pc # "idle" => thread.job \in Jobs
      /\ grp \in [Jobs -> {"none", "running", "left", "dying", "gone"}]
    BY DEF JobInv, JobTypes, CarriedIsLive
<1>1. CASE Prepare
    <2>1. thread.pc = "prepare" /\ Same /\ UNCHANGED <<grp, result>> /\ ~Alive(thread.job)
        BY <1>1 DEF Prepare, JobDoing, JobInv, EndIsSeen
    <2>2. \/ Intend("stopped", TRUE) \/ Intend("failed", TRUE) \/ JobAt("spawn")
        BY <1>1 DEF Prepare
    <2>3. /\ thread' \in JobThreads /\ thread'.pc # "idle" /\ thread'.job = thread.job
          /\ thread'.rest = thread.rest
        BY <2>2, ThreadIntends, ThreadMoves DEF Outs
    <2>4. EndIsSeen'
        BY <2>1, <2>3 DEF EndIsSeen, Alive
    <2> QED  BY <1>0, <2>1, <2>3, <2>4, ThreadKeepsJobs DEF Alive
<1>2. CASE Spawn
    <2>1. thread.pc = "spawn" /\ Same /\ UNCHANGED result
        BY <1>2 DEF Spawn, JobDoing
    <2>2. grp' \in {grp, [grp EXCEPT ![thread.job] = "running"], [grp EXCEPT ![thread.job] = "gone"]}
        BY <1>2 DEF Spawn, Job
    <2>3. \/ JobAt("supervise") \/ Intend("failed", FALSE)
          \/ thread' = [thread EXCEPT !.pc = "supervise", !.known = FALSE]
        BY <1>2 DEF Spawn, SpawnFailed
    <2>4. /\ thread' \in JobThreads /\ thread'.job = thread.job /\ thread'.rest = thread.rest
          /\ \/ thread'.pc = "supervise"
             \/ thread'.pc = "final" /\ thread'.ended = FALSE /\ thread'.out = "failed"
        <3>1. CASE JobAt("supervise")
            BY <3>1, ThreadMoves
        <3>2. CASE Intend("failed", FALSE)
            BY <3>2, ThreadIntends DEF Outs
        <3>3. CASE thread' = [thread EXCEPT !.pc = "supervise", !.known = FALSE]
            <4>1. [thread EXCEPT !.pc = "supervise"] \in JobThreads
                BY <1>0, ThreadNotes
            <4>2. thread' \in JobThreads
                BY <3>3, <4>1, ThreadNotes
            <4> QED  BY <1>0, <3>3, <4>2 DEF JobThreads
        <3> QED  BY <2>3, <3>1, <3>2, <3>3
    <2>5. EndIsSeen'
        BY <2>4 DEF EndIsSeen
    <2> QED  BY <1>0, <2>1, <2>2, <2>4, <2>5, ThreadKeepsJobs DEF Alive
<1>3. CASE SuperviseEnd
    <2>1. thread.pc = "supervise" /\ Same /\ UNCHANGED <<grp, result>> /\ ~Alive(thread.job)
        BY <1>3 DEF SuperviseEnd, JobDoing, Gone, Job, Alive
    <2>2. \/ Intend("stopped", TRUE) \/ JobAt("settle")
        BY <1>3 DEF SuperviseEnd
    <2>3. /\ thread' \in JobThreads /\ thread'.pc # "idle" /\ thread'.job = thread.job
          /\ thread'.rest = thread.rest
        BY <2>2, ThreadIntends, ThreadMoves DEF Outs
    <2>4. EndIsSeen'
        BY <2>1, <2>3 DEF EndIsSeen, Alive
    <2> QED  BY <1>0, <2>1, <2>3, <2>4, ThreadKeepsJobs DEF Alive
<1>4. CASE SuperviseStop \/ SuperviseLeftover \/ SuperviseKill
    <2>1. thread.pc = "supervise" /\ Same /\ UNCHANGED result /\ grp' = Signalled(thread.job)
        BY <1>4 DEF SuperviseStop, SuperviseLeftover, SuperviseKill, JobDoing, Job
    <2>2. thread' \in {[thread EXCEPT !.stop = TRUE, !.sent = "term"], [thread EXCEPT !.sent = "kill"]}
        BY <1>4 DEF SuperviseStop, SuperviseLeftover, SuperviseKill
    <2>3. /\ thread' \in JobThreads /\ thread'.pc = "supervise" /\ thread'.job = thread.job
          /\ thread'.rest = thread.rest
        <3>1. [thread EXCEPT !.stop = TRUE] \in JobThreads
            BY <1>0, ThreadNotes
        <3>2. thread' \in JobThreads
            BY <1>0, <2>2, <3>1, ThreadNotes
        <3> QED  BY <1>0, <2>1, <2>2, <3>2 DEF JobThreads
    <2>4. EndIsSeen'
        BY <2>3 DEF EndIsSeen
    <2>5. /\ grp' \in [Jobs -> {"none", "running", "left", "dying", "gone"}]
          /\ \A k \in Jobs : Alive(k)' => Alive(k)
        BY <1>0, <2>1, SignalStartsNothing DEF Alive
    <2> QED  BY <2>1, <2>3, <2>4, <2>5, ThreadKeepsJobs
<1>5. CASE SuperviseDeadline
    <2>1. thread.pc = "supervise" /\ Same /\ UNCHANGED <<grp, result>>
        BY <1>5 DEF SuperviseDeadline, JobDoing
    <2>2. Intend("unconfirmed", FALSE) \/ Intend("failed", FALSE)
        BY <1>5 DEF SuperviseDeadline
    <2>3. /\ thread' \in JobThreads /\ thread'.pc = "final" /\ thread'.job = thread.job
          /\ thread'.rest = thread.rest /\ thread'.ended = FALSE /\ thread'.out # "succeeded"
        BY <2>2, ThreadIntends DEF Outs
    <2>4. EndIsSeen'
        BY <2>3 DEF EndIsSeen
    <2> QED  BY <1>0, <2>1, <2>3, <2>4, ThreadKeepsJobs DEF Alive
<1>6. CASE JobSettle
    <2>1. thread.pc = "settle" /\ Same /\ UNCHANGED <<grp, result>> /\ ~Alive(thread.job)
        BY <1>6 DEF JobSettle, JobDoing, JobInv, EndIsSeen
    <2>2. Intend("failed", TRUE) \/ Intend("succeeded", TRUE)
        BY <1>6 DEF JobSettle
    <2>3. /\ thread' \in JobThreads /\ thread'.pc # "idle" /\ thread'.job = thread.job
          /\ thread'.rest = thread.rest
        BY <2>2, ThreadIntends DEF Outs
    <2>4. EndIsSeen'
        BY <2>1, <2>3 DEF EndIsSeen, Alive
    <2> QED  BY <1>0, <2>1, <2>3, <2>4, ThreadKeepsJobs DEF Alive
<1> QED  BY <1>1, <1>2, <1>3, <1>4, <1>5, <1>6

LEMMA AdmitKeepsJobs ==
    ASSUME JobInv, Admit
    PROVE  JobInv' /\ OutcomeStands
<1>1. /\ thread.pc = "admit" /\ UNCHANGED <<svc, grp, result, reports>>
      /\ thread.job \in Jobs /\ ~Alive(thread.job) /\ svc \in {"up", "closing"}
    BY DEF Admit, JobDoing, JobInv, CarriedIsLive, EndIsSeen
<1>2. CASE ~Admissible
    <2>1. Same /\ Intend("stopped", TRUE)
        BY <1>1, <1>2 DEF Admit, Same
    <2>2. /\ thread' \in JobThreads /\ thread'.pc = "final" /\ thread'.job = thread.job
          /\ thread'.rest = thread.rest
        BY <2>1, ThreadIntends DEF Outs
    <2>3. EndIsSeen'
        BY <1>1, <2>2 DEF EndIsSeen, Alive
    <2>4. grp \in [Jobs -> {"none", "running", "left", "dying", "gone"}]
        BY DEF JobInv, JobTypes
    <2> QED  BY <1>1, <2>1, <2>2, <2>3, <2>4, ThreadKeepsJobs DEF Alive
<1>3. CASE Admissible
    <2> DEFINE rec == [mem[thread.job] EXCEPT !.st = "running"]
    <2>1. /\ mem[thread.job].st = "accepted" /\ svc # "closing" /\ thread.job \notin frozen
          /\ StoreAdopting(thread.job, rec)
        BY <1>1, <1>3 DEF Admit, Admissible, Job
    <2>2. JobAt("prepare") \/ Escapes
        BY <1>1, <1>3 DEF Admit
    <2>3. rec \in JobRecs /\ rec.st = "running" /\ mem[thread.job].st \in LiveStates
        BY <1>1, <2>1, MarkIsRec DEF JobInv, JobTypes, LiveStates
    <2> HIDE DEF rec
    <2>4. /\ jobDisk' \in [Jobs -> JobRecs] /\ mem' \in [Jobs -> JobRecs]
          /\ frozen' \subseteq Jobs /\ jobFaults' \in Nat
          /\ \A k \in Jobs : k # thread.job => jobDisk'[k] = jobDisk[k]
          /\ jobDisk'[thread.job] \in {jobDisk[thread.job], rec}
          /\ jobDisk[thread.job].st \in LiveStates
          /\ \A k \in Jobs : jobDisk'[k] = JobAbsent => jobDisk[k] = JobAbsent
          /\ IndexFollows' /\ DownIsEmpty'
        BY <1>1, <2>1, <2>3, WriteIsAdopted DEF LiveStates
    <2>5. \/ thread' = JobIdle
          \/ /\ thread' \in JobThreads /\ thread'.pc = "prepare" /\ thread'.job = thread.job
             /\ thread'.rest = thread.rest
        BY <2>2, ThreadMoves DEF Escapes
    <2>6. JobTypes'
        BY <1>1, <2>4, <2>5, IdleIsThread DEF JobInv, JobTypes
    <2>7. CarriedIsLive'
        <3>1. CASE thread' = JobIdle
            BY <3>1, IdleIsThread DEF CarriedIsLive
        <3>2. CASE thread' # JobIdle
            BY <1>1, <2>3, <2>4, <2>5, <3>2 DEF JobInv, CarriedIsLive, LiveStates, Alive
        <3> QED  BY <3>1, <3>2
    <2>8. EndIsSeen'
        BY <1>1, <2>5 DEF EndIsSeen, Alive, JobIdle
    <2>9. UnknownHasNoGroup' /\ SuccessIsPublished' /\ OutcomeMeansGone'
        BY <1>1, <2>3, <2>4
           DEF JobInv, UnknownHasNoGroup, SuccessIsPublished, OutcomeMeansGone, Alive,
               LiveStates
    <2>10. OutcomeStands
        BY <2>3, <2>4 DEF OutcomeStands, LiveStates, Terminal
    <2> QED  BY <2>4, <2>6, <2>7, <2>8, <2>9, <2>10 DEF JobInv
<1> QED  BY <1>2, <1>3

\* The one commit gate: a success is written only while no stop is recorded and
\* the service is not closing, a stop only once the group is gone.
LEMMA FinalizeKeepsJobs ==
    ASSUME JobInv, Finalize
    PROVE  JobInv' /\ OutcomeStands
<1>1. /\ thread.pc = "final" /\ UNCHANGED <<svc, grp, result>>
      /\ thread.job \in Jobs /\ svc \in {"up", "closing"}
      /\ (thread.ended \/ thread.out = "succeeded") => ~Alive(thread.job)
    BY DEF Finalize, JobDoing, JobInv, CarriedIsLive, EndIsSeen
<1>2. \/ thread' = JobIdle
      \/ /\ thread' \in JobThreads /\ thread'.pc = "admit" /\ thread'.rest = <<>>
         /\ thread'.job \in Jobs /\ thread.rest = <<thread'.job>>
    BY <1>1, ThreadEnds DEF Finalize
<1>3. \/ thread'.pc = "idle"
      \/ /\ thread'.pc = "admit" /\ thread'.job \in Jobs /\ thread'.job # thread.job
         /\ jobDisk[thread'.job].st \in LiveStates /\ ~Alive(thread'.job)
    BY <1>1, <1>2 DEF JobInv, CarriedIsLive, JobIdle
<1>4. thread' \in JobThreads /\ thread'.rest = <<>>
    BY <1>2, IdleIsThread
<1>5. \A k \in Jobs : thread'.rest # <<k>>
    BY <1>4
<1>6. EndIsSeen'
    BY <1>1, <1>3 DEF EndIsSeen, Alive
<1>7. CASE thread.job \in frozen \/ (~Stopping /\ mem[thread.job].st # "running")
    <2>1. UNCHANGED <<jobDisk, mem, frozen, jobFaults, reports>>
        BY <1>7 DEF Finalize, Job
    <2>2. JobTypes'
        BY <1>1, <1>4, <2>1 DEF JobInv, JobTypes
    <2>3. CarriedIsLive'
        BY <1>1, <1>3, <1>5, <2>1 DEF CarriedIsLive
    <2>4. IndexFollows' /\ DownIsEmpty' /\ UnknownHasNoGroup' /\ SuccessIsPublished'
          /\ OutcomeMeansGone'
        BY <1>1, <2>1 DEF JobInv, IndexFollows, DownIsEmpty, UnknownHasNoGroup,
                          SuccessIsPublished, OutcomeMeansGone, Alive
    <2>5. OutcomeStands
        BY <2>1 DEF OutcomeStands
    <2> QED  BY <1>6, <2>2, <2>3, <2>4, <2>5 DEF JobInv
<1>8. ASSUME thread.job \notin frozen, mem[thread.job].st \in LiveStates,
             NEW st \in LiveStates \cup Terminal, To(st),
             reports \subseteq reports', reports' \subseteq reports \cup {thread.job},
             st = "succeeded" =>
                /\ thread.job \in reports' /\ thread.out = "succeeded"
                /\ svc # "closing" /\ mem[thread.job].st # "stopping",
             st = "stopped" => thread.ended
      PROVE  JobInv' /\ OutcomeStands
    <2> DEFINE rec == [mem[thread.job] EXCEPT !.st = st]
    <2>1. StoreAdopting(thread.job, rec)
        BY <1>8 DEF To, Job
    <2>2. rec \in JobRecs /\ rec.st = st
        BY <1>1, MarkIsRec DEF JobInv, JobTypes
    <2> HIDE DEF rec
    <2>3. /\ jobDisk' \in [Jobs -> JobRecs] /\ mem' \in [Jobs -> JobRecs]
          /\ frozen' \subseteq Jobs /\ jobFaults' \in Nat
          /\ \A k \in Jobs : k # thread.job => jobDisk'[k] = jobDisk[k]
          /\ jobDisk'[thread.job] \in {jobDisk[thread.job], rec}
          /\ jobDisk[thread.job].st \in LiveStates
          /\ \A k \in Jobs : jobDisk'[k] = JobAbsent => jobDisk[k] = JobAbsent
          /\ IndexFollows' /\ DownIsEmpty'
        BY <1>1, <1>8, <2>1, <2>2, WriteIsAdopted
    <2>4. JobTypes'
        BY <1>1, <1>4, <1>8, <2>3 DEF JobInv, JobTypes
    <2>5. CarriedIsLive'
        BY <1>1, <1>3, <1>5, <2>3 DEF CarriedIsLive
    <2>6. UnknownHasNoGroup'
        BY <1>1, <2>3 DEF JobInv, UnknownHasNoGroup, Alive
    <2>7. SuccessIsPublished'
        BY <1>8, <2>2, <2>3 DEF JobInv, SuccessIsPublished, LiveStates
    <2>8. OutcomeMeansGone'
        BY <1>1, <1>8, <2>2, <2>3 DEF JobInv, OutcomeMeansGone, Alive, LiveStates
    <2>9. mem[thread.job].st # "stopping" /\ svc # "closing" => jobDisk[thread.job].st # "stopping"
        BY <1>1, <1>8 DEF JobInv, IndexFollows
    <2>10. OutcomeStands
        BY <1>8, <2>2, <2>3, <2>9 DEF OutcomeStands, LiveStates, Terminal
    <2> QED  BY <1>6, <2>3, <2>4, <2>5, <2>6, <2>7, <2>8, <2>10 DEF JobInv
<1>9. CASE thread.job \notin frozen /\ (Stopping \/ mem[thread.job].st = "running")
    <2>1. mem[thread.job].st \in LiveStates
        BY <1>9 DEF Stopping, Job, LiveStates
    <2>2. CASE Stopping
        <3>1. Confirmed \in LiveStates \cup Terminal /\ Confirmed # "succeeded"
            BY DEF Confirmed, LiveStates, Terminal
        <3>2. Confirmed = "stopped" => thread.ended
            BY DEF Confirmed
        <3>3. To(Confirmed) /\ UNCHANGED reports
            BY <1>9, <2>2 DEF Finalize, Job
        <3> QED  BY <1>8, <1>9, <2>1, <3>1, <3>2, <3>3
    <2>3. CASE ~Stopping /\ thread.out = "unconfirmed"
        <3>1. To("stopping") /\ UNCHANGED reports
            BY <1>9, <2>3 DEF Finalize, Job
        <3> QED  BY <1>8, <1>9, <2>1, <3>1 DEF LiveStates
    <2>4. CASE ~Stopping /\ thread.out # "unconfirmed"
        <3>1. svc # "closing" /\ mem[thread.job].st # "stopping"
            BY <2>1, <2>4 DEF Stopping, Job
        <3>2. Publish
            BY <1>9, <2>4 DEF Finalize, Job
        <3>3. \/ /\ thread.out = "succeeded" /\ To("succeeded")
                 /\ reports' = reports \cup {thread.job}
              \/ To("failed") /\ reports' \in {reports, reports \cup {thread.job}}
            BY <3>2 DEF Publish, Job
        <3> QED  BY <1>8, <1>9, <2>1, <3>1, <3>3 DEF Terminal
    <2> QED  BY <2>2, <2>3, <2>4
<1> QED  BY <1>7, <1>9

LEMMA StopKeepsJobs ==
    ASSUME JobInv, NEW j \in Jobs, StopJob(j)
    PROVE  JobInv' /\ OutcomeStands
<1> DEFINE rec == [mem[j] EXCEPT !.st = "stopping"]
<1>1. /\ mem[j].st \in LiveStates /\ j \notin frozen /\ StoreAdopting(j, rec)
      /\ grp' \in {grp, Signalled(j)} /\ UNCHANGED <<svc, thread, result, reports>>
    BY DEF StopJob
<1>2. rec \in JobRecs /\ rec.st = "stopping"
    BY MarkIsRec DEF JobInv, JobTypes, LiveStates
<1> HIDE DEF rec
<1>3. /\ jobDisk' \in [Jobs -> JobRecs] /\ mem' \in [Jobs -> JobRecs]
      /\ frozen' \subseteq Jobs /\ jobFaults' \in Nat
      /\ \A k \in Jobs : k # j => jobDisk'[k] = jobDisk[k]
      /\ jobDisk'[j] \in {jobDisk[j], rec} /\ jobDisk[j].st \in LiveStates
      /\ \A k \in Jobs : jobDisk'[k] = JobAbsent => jobDisk[k] = JobAbsent
      /\ IndexFollows' /\ DownIsEmpty'
    BY <1>1, <1>2, WriteIsAdopted DEF LiveStates
<1>4. /\ grp' \in [Jobs -> {"none", "running", "left", "dying", "gone"}]
      /\ \A k \in Jobs : Alive(k)' => Alive(k)
    BY <1>1, SignalStartsNothing DEF Alive, JobInv, JobTypes
<1>5. JobTypes'
    BY <1>1, <1>3, <1>4 DEF JobInv, JobTypes
<1>6. CarriedIsLive'
    BY <1>1, <1>2, <1>3, <1>4 DEF JobInv, CarriedIsLive, LiveStates
<1>7. EndIsSeen'
    BY <1>1, <1>4 DEF JobInv, CarriedIsLive, EndIsSeen, Alive
<1>8. UnknownHasNoGroup' /\ SuccessIsPublished' /\ OutcomeMeansGone'
    BY <1>1, <1>2, <1>3, <1>4
       DEF JobInv, UnknownHasNoGroup, SuccessIsPublished, OutcomeMeansGone, LiveStates
<1>9. OutcomeStands
    BY <1>2, <1>3 DEF OutcomeStands, LiveStates, Terminal
<1> QED  BY <1>3, <1>5, <1>6, <1>7, <1>8, <1>9 DEF JobInv
\* A job that is created takes the slot, or leaves what its failed write left.
LEMMA CreationKeepsJobs ==
    ASSUME JobInv,
           \/ \E j \in Jobs, r \in JobRequests : CreateJob(j, r)
           \/ \E j, k \in Jobs : CreateBatch(j, k) \/ CreateHoldout(j, k)
    PROVE  JobInv' /\ OutcomeStands
\* A write that raised: the index and the slot are as they were.
<1>1. ASSUME NEW j \in Jobs, Fresh(j), NEW rec \in JobRecs, rec.st = "accepted",
             jobDisk' \in {jobDisk, [jobDisk EXCEPT ![j] = rec]}, jobFaults' \in Nat,
             thread.pc = "idle", svc = "up", UNCHANGED <<mem, thread>>, JobQuiet
      PROVE  JobInv' /\ OutcomeStands
    <2> USE <1>1 DEF JobQuiet
    <2>1. /\ jobDisk' \in [Jobs -> JobRecs] /\ jobDisk[j] = JobAbsent /\ mem[j] = JobAbsent
          /\ \A k \in Jobs : k # j => jobDisk'[k] = jobDisk[k]
          /\ jobDisk'[j] \in {JobAbsent, rec}
        BY DEF JobInv, JobTypes, Fresh
    <2>2. JobTypes'
        BY <2>1 DEF JobInv, JobTypes
    <2>3. CarriedIsLive' /\ EndIsSeen' /\ DownIsEmpty'
        BY DEF JobInv, CarriedIsLive, EndIsSeen, DownIsEmpty
    <2>4. IndexFollows'
        BY <2>1 DEF JobInv, IndexFollows, JobAbsent, LiveStates, Terminal
    <2>5. UnknownHasNoGroup' /\ SuccessIsPublished' /\ OutcomeMeansGone'
        BY <2>1 DEF JobInv, UnknownHasNoGroup, SuccessIsPublished, OutcomeMeansGone, JobAbsent,
                    Alive
    <2>6. OutcomeStands
        BY <2>1 DEF OutcomeStands, JobAbsent, Terminal
    <2> QED  BY <2>2, <2>3, <2>4, <2>5, <2>6 DEF JobInv
\* One job, or the two of a batch, are stored and the first is begun.
<1>2. ASSUME NEW j \in Jobs, NEW k \in Jobs, Fresh(j), Fresh(k), NEW rec \in JobRecs,
             rec.st = "accepted",
             jobDisk' \in [Jobs -> JobRecs], mem' \in [Jobs -> JobRecs],
             \A x \in {j, k} : jobDisk'[x] = rec /\ mem'[x] = rec,
             \A x \in Jobs \ {j, k} : jobDisk'[x] = jobDisk[x] /\ mem'[x] = mem[x],
             UNCHANGED jobFaults,
             svc = "up", JobQuiet, thread' \in JobThreads, thread'.pc = "admit",
             thread'.job = j,
             thread'.rest = <<>> \/ (thread'.rest = <<k>> /\ j # k)
      PROVE  JobInv' /\ OutcomeStands
    <2> USE <1>2 DEF JobQuiet
    <2>1. \A x \in {j, k} : jobDisk[x] = JobAbsent /\ mem[x] = JobAbsent /\ ~Alive(x)
        BY DEF JobInv, JobTypes, Fresh, UnknownHasNoGroup
    <2>2. JobTypes'
        BY <2>1 DEF JobInv, JobTypes
    <2>a. EndIsSeen'
        BY <2>1 DEF EndIsSeen, Alive
    <2>b. \A x \in Jobs : thread'.rest = <<x>> => x = k /\ j # k
        OBVIOUS
    <2>c. \A x \in {j, k} : jobDisk'[x].st \in LiveStates /\ ~Alive(x)'
        BY <2>1 DEF Alive, LiveStates
    <2>3. CarriedIsLive'
        BY <2>b, <2>c DEF CarriedIsLive, Alive
    <2>4. DownIsEmpty'
        BY DEF DownIsEmpty
    <2>5. IndexFollows'
        BY <2>1 DEF JobInv, IndexFollows, JobAbsent, LiveStates, Terminal
    <2>6. UnknownHasNoGroup' /\ SuccessIsPublished' /\ OutcomeMeansGone'
        BY <2>1 DEF JobInv, UnknownHasNoGroup, SuccessIsPublished, OutcomeMeansGone, JobAbsent,
                    Alive
    <2>7. OutcomeStands
        BY <2>1 DEF OutcomeStands, JobAbsent, Terminal
    <2> QED  BY <2>2, <2>3, <2>4, <2>5, <2>6, <2>7, <2>a DEF JobInv
<1>3. ASSUME NEW req \in JobRequests \cup {"batch", "holdout"}
      PROVE  [st |-> "accepted", req |-> req] \in JobRecs
    BY <1>3 DEF JobRecs, JobStates, LiveStates
<1>4. jobFaults \in Nat /\ jobFaults + 1 \in Nat
    BY DEF JobInv, JobTypes
<1>5. ASSUME NEW j \in Jobs, NEW r \in JobRequests, CreateJob(j, r)
      PROVE  JobInv' /\ OutcomeStands
    <2> DEFINE rec == [st |-> "accepted", req |-> r]
    <2>1. Fresh(j) /\ svc = "up" /\ thread.pc = "idle" /\ JobQuiet /\ rec \in JobRecs
        BY <1>3, <1>5 DEF CreateJob, JobFree
    <2>a. rec.st = "accepted"
        OBVIOUS
    <2>r. \/ /\ JobBegin(<<j>>) /\ UNCHANGED jobFaults
             /\ jobDisk' = [jobDisk EXCEPT ![j] = rec] /\ mem' = [mem EXCEPT ![j] = rec]
          \/ Raises /\ jobDisk' \in {jobDisk, [jobDisk EXCEPT ![j] = rec]} /\ UNCHANGED <<mem, thread>>
        BY <1>5 DEF CreateJob
    <2> HIDE DEF rec
    <2>2. CASE JobBegin(<<j>>) /\ UNCHANGED jobFaults
               /\ jobDisk' = [jobDisk EXCEPT ![j] = rec] /\ mem' = [mem EXCEPT ![j] = rec]
        <3>1. /\ thread' \in JobThreads /\ thread'.pc = "admit" /\ thread'.job = j
              /\ thread'.rest = <<>>
            BY <2>2, ThreadBegins
        <3>2. /\ jobDisk' \in [Jobs -> JobRecs] /\ mem' \in [Jobs -> JobRecs]
              /\ jobDisk'[j] = rec /\ mem'[j] = rec
              /\ \A x \in Jobs \ {j} : jobDisk'[x] = jobDisk[x] /\ mem'[x] = mem[x]
            BY <2>1, <2>2 DEF JobInv, JobTypes
        <3>3. svc = "up" /\ UNCHANGED jobFaults
            BY <2>1, <2>2
        <3> QED  BY <1>2, <2>1, <2>a, <3>1, <3>2, <3>3
    <2>3. CASE Raises /\ jobDisk' \in {jobDisk, [jobDisk EXCEPT ![j] = rec]}
               /\ UNCHANGED <<mem, thread>>
        BY <1>1, <1>4, <2>1, <2>a, <2>3 DEF Raises
    <2> QED  BY <2>2, <2>3, <2>r
<1>6. ASSUME NEW j \in Jobs, NEW k \in Jobs, CreateBatch(j, k)
      PROVE  JobInv' /\ OutcomeStands
    <2> DEFINE rec == [st |-> "accepted", req |-> "batch"]
    <2>1. /\ Fresh(j) /\ Fresh(k) /\ j # k /\ svc = "up" /\ thread.pc = "idle" /\ JobQuiet
          /\ rec \in JobRecs
        BY <1>3, <1>6 DEF CreateBatch, JobFree
    <2>2. CASE /\ jobDisk' = [jobDisk EXCEPT ![j] = rec, ![k] = rec]
               /\ mem' = [mem EXCEPT ![j] = rec, ![k] = rec]
               /\ JobBegin(<<j, k>>) /\ UNCHANGED jobFaults
        <3>1. /\ thread' \in JobThreads /\ thread'.pc = "admit" /\ thread'.job = j
              /\ thread'.rest = <<k>>
            BY <2>2, ThreadBeginsBatch
        <3>2. /\ jobDisk' \in [Jobs -> JobRecs] /\ mem' \in [Jobs -> JobRecs]
              /\ \A x \in {j, k} : jobDisk'[x] = rec /\ mem'[x] = rec
              /\ \A x \in Jobs \ {j, k} : jobDisk'[x] = jobDisk[x] /\ mem'[x] = mem[x]
            BY <2>1, <2>2 DEF JobInv, JobTypes
        <3> QED  BY <1>2, <2>1, <2>2, <3>1, <3>2
    <2>3. CASE /\ Raises /\ UNCHANGED <<mem, thread>>
               /\ jobDisk' \in {jobDisk, [jobDisk EXCEPT ![j] = rec], [jobDisk EXCEPT ![k] = rec]}
        BY <1>1, <1>4, <2>1, <2>3 DEF Raises
    <2> QED  BY <1>6, <2>2, <2>3 DEF CreateBatch
<1>7. ASSUME NEW source \in Jobs, NEW j \in Jobs, CreateHoldout(source, j)
      PROVE  JobInv' /\ OutcomeStands
    <2> DEFINE rec == [st |-> "accepted", req |-> "holdout"]
    <2>1. Fresh(j) /\ svc = "up" /\ thread.pc = "idle" /\ JobQuiet /\ rec \in JobRecs
        BY <1>3, <1>7 DEF CreateHoldout, JobFree
    <2>a. rec.st = "accepted"
        OBVIOUS
    <2>r. \/ /\ JobBegin(<<j>>) /\ UNCHANGED jobFaults
             /\ jobDisk' = [jobDisk EXCEPT ![j] = rec] /\ mem' = [mem EXCEPT ![j] = rec]
          \/ Raises /\ UNCHANGED <<jobDisk, mem, thread>>
        BY <1>7 DEF CreateHoldout
    <2> HIDE DEF rec
    <2>2. CASE JobBegin(<<j>>) /\ UNCHANGED jobFaults
               /\ jobDisk' = [jobDisk EXCEPT ![j] = rec] /\ mem' = [mem EXCEPT ![j] = rec]
        <3>1. /\ thread' \in JobThreads /\ thread'.pc = "admit" /\ thread'.job = j
              /\ thread'.rest = <<>>
            BY <2>2, ThreadBegins
        <3>2. /\ jobDisk' \in [Jobs -> JobRecs] /\ mem' \in [Jobs -> JobRecs]
              /\ jobDisk'[j] = rec /\ mem'[j] = rec
              /\ \A x \in Jobs \ {j} : jobDisk'[x] = jobDisk[x] /\ mem'[x] = mem[x]
            BY <2>1, <2>2 DEF JobInv, JobTypes
        <3>3. svc = "up" /\ UNCHANGED jobFaults
            BY <2>1, <2>2
        <3> QED  BY <1>2, <2>1, <2>a, <3>1, <3>2, <3>3
    <2>3. CASE Raises /\ UNCHANGED <<jobDisk, mem, thread>>
        BY <1>1, <1>4, <2>1, <2>a, <2>3 DEF Raises
    <2> QED  BY <2>2, <2>3, <2>r
<1> QED  BY <1>5, <1>6, <1>7
\* The service stops, dies and starts; a worker ends.
LEMMA LifeKeepsJobs ==
    ASSUME JobInv,
           \/ Shutdown \/ Down \/ JobCrash \/ JobStart
           \/ \E j \in Jobs : WorkerEnds(j) \/ GroupDies(j)
    PROVE  JobInv' /\ OutcomeStands
<1>1. CASE Shutdown
    <2> DEFINE live == {j \in Jobs \ frozen : mem[j].st \in LiveStates}
               mark(j) == [mem[j] EXCEPT !.st = "stopping"]
    <2>1. /\ svc = "up" /\ svc' = "closing" /\ UNCHANGED <<frozen, thread, result, reports>>
          /\ jobFaults' \in Nat
          /\ grp' = grp \/ (thread.pc = "supervise" /\ grp' = Signalled(thread.job))
        BY <1>1 DEF Shutdown, Raises, JobInv, JobTypes
    <2>2. ASSUME NEW j \in Jobs PROVE mark(j) \in JobRecs /\ mark(j).st = "stopping"
        BY MarkIsRec DEF JobInv, JobTypes, LiveStates
    <2>3. /\ DOMAIN jobDisk' = Jobs /\ DOMAIN mem' = Jobs
          /\ jobDisk' = [j \in Jobs |-> jobDisk'[j]] /\ mem' = [j \in Jobs |-> mem'[j]]
          /\ \A j \in Jobs : \/ jobDisk'[j] = jobDisk[j] /\ mem'[j] = mem[j]
                             \/ /\ j \in live /\ jobDisk'[j] = mark(j)
                                /\ mem'[j] \in {mem[j], mark(j)}
        BY <1>1 DEF Shutdown
    <2>4. ASSUME NEW j \in live PROVE jobDisk[j].st \in LiveStates /\ mem[j].st \in LiveStates
        BY <2>1, <2>4 DEF JobInv, IndexFollows
    <2> HIDE DEF mark
    <2>5. /\ jobDisk' \in [Jobs -> JobRecs] /\ mem' \in [Jobs -> JobRecs]
        <3>1. \A j \in Jobs : jobDisk'[j] \in JobRecs /\ mem'[j] \in JobRecs
            BY <2>2, <2>3 DEF JobInv, JobTypes
        <3> QED  BY <2>3, <3>1
    <2>6. /\ grp' \in [Jobs -> {"none", "running", "left", "dying", "gone"}]
          /\ \A k \in Jobs : Alive(k)' => Alive(k)
        <3>1. thread.pc = "supervise" => thread.job \in Jobs
            BY DEF JobInv, CarriedIsLive
        <3> QED  BY <2>1, <3>1, SignalStartsNothing DEF Alive, JobInv, JobTypes
    <2>7. JobTypes'
        BY <2>1, <2>5, <2>6 DEF JobInv, JobTypes
    <2>8. CarriedIsLive'
        <3>1. \A j \in Jobs : jobDisk[j].st \in LiveStates => jobDisk'[j].st \in LiveStates
            BY <2>2, <2>3 DEF LiveStates
        <3> QED  BY <2>1, <2>6, <3>1 DEF JobInv, CarriedIsLive
    <2>9. EndIsSeen'
        <3>1. thread.pc # "idle" => thread.job \in Jobs
            BY DEF JobInv, CarriedIsLive
        <3> QED  BY <2>1, <2>6, <3>1 DEF JobInv, EndIsSeen, Alive
    <2>10. IndexFollows'
        <3> SUFFICES ASSUME NEW j \in Jobs
                     PROVE  /\ mem'[j].st \in Terminal => jobDisk'[j] = mem'[j]
                            /\ mem'[j].st \in LiveStates /\ j \notin frozen =>
                                  \/ jobDisk'[j] = mem'[j]
                                  \/ jobDisk'[j] = [mem'[j] EXCEPT !.st = "stopping"]
                            /\ j \in frozen => mem'[j].st \in LiveStates
            BY <2>1 DEF IndexFollows
        <3>1. CASE jobDisk'[j] = jobDisk[j] /\ mem'[j] = mem[j]
            BY <2>1, <3>1 DEF JobInv, IndexFollows
        <3>2. CASE j \in live /\ jobDisk'[j] = mark(j) /\ mem'[j] = mem[j]
            BY <2>4, <3>2 DEF mark, LiveStates, Terminal
        <3>3. CASE j \in live /\ jobDisk'[j] = mark(j) /\ mem'[j] = mark(j)
            BY <2>2, <3>3 DEF LiveStates, Terminal
        <3> QED  BY <2>3, <3>1, <3>2, <3>3
    <2>11. DownIsEmpty'
        BY <2>1 DEF DownIsEmpty
    <2>12. UnknownHasNoGroup' /\ SuccessIsPublished' /\ OutcomeMeansGone'
        <3>1. \A j \in Jobs : jobDisk'[j] = jobDisk[j] \/ jobDisk'[j].st = "stopping"
            BY <2>2, <2>3
        <3> QED  BY <2>1, <2>6, <3>1 DEF JobInv, UnknownHasNoGroup, SuccessIsPublished,
                                         OutcomeMeansGone, JobAbsent
    <2>13. OutcomeStands
        BY <2>1, <2>2, <2>3, <2>4 DEF OutcomeStands, LiveStates, Terminal
    <2> QED  BY <2>7, <2>8, <2>9, <2>10, <2>11, <2>12, <2>13 DEF JobInv
\* Down and JobCrash: the index and the thread go, and no process comes back.
<1>2. ASSUME svc' = "down", UNCHANGED <<jobDisk, result>>, jobFaults' \in Nat,
             mem' = [j \in Jobs |-> JobAbsent], frozen' = {},
             grp' = [j \in Jobs |-> IF Alive(j) THEN "dying" ELSE grp[j]],
             thread' \in JobThreads, thread'.pc = "idle", \A k \in Jobs : thread'.rest # <<k>>,
             reports \subseteq reports', reports' \subseteq Jobs
      PROVE  JobInv' /\ OutcomeStands
    <2> USE <1>2
    <2>1. JobAbsent \in JobRecs
        BY DEF JobAbsent, JobRecs, JobStates
    <2>2. JobTypes'
        BY <2>1 DEF JobInv, JobTypes
    <2>3. \A k \in Jobs : Alive(k)' => Alive(k)
        BY DEF Alive
    <2>4. CarriedIsLive' /\ EndIsSeen' /\ DownIsEmpty'
        BY DEF CarriedIsLive, EndIsSeen, DownIsEmpty
    <2>5. IndexFollows'
        BY DEF IndexFollows, JobAbsent, LiveStates, Terminal
    <2>6. UnknownHasNoGroup' /\ SuccessIsPublished' /\ OutcomeMeansGone'
        BY <2>3 DEF JobInv, UnknownHasNoGroup, SuccessIsPublished, OutcomeMeansGone
    <2>7. OutcomeStands
        BY DEF OutcomeStands
    <2> QED  BY <2>2, <2>4, <2>5, <2>6, <2>7 DEF JobInv
<1>3. CASE Down
    <2>1. thread.pc = "idle" /\ UNCHANGED thread
        BY <1>3 DEF Down
    <2>2. /\ thread \in JobThreads /\ jobFaults \in Nat /\ reports \subseteq Jobs
          /\ \A k \in Jobs : thread.rest # <<k>>
        BY <2>1 DEF JobInv, JobTypes, CarriedIsLive
    <2> QED  BY <1>2, <1>3, <2>1, <2>2 DEF Down
<1>4. CASE JobCrash
    <2>1. jobFaults' \in Nat
        BY <1>4 DEF JobCrash, Raises, JobInv, JobTypes
    <2>2. reports \subseteq reports' /\ reports' \subseteq Jobs
        BY <1>4 DEF JobCrash, Job, JobInv, JobTypes, CarriedIsLive
    <2> QED  BY <1>2, <1>4, <2>1, <2>2, IdleIsThread DEF JobCrash
<1>5. CASE JobStart
    <2>1. /\ svc = "down" /\ UNCHANGED <<frozen, thread, grp, result, reports>>
          /\ thread.pc = "idle" /\ frozen = {} /\ \A j \in Jobs : mem[j] = JobAbsent
        BY <1>5 DEF JobStart, JobInv, CarriedIsLive, DownIsEmpty
    <2>2. ASSUME NEW j \in Jobs
          PROVE  /\ Loaded(jobDisk[j]) \in JobRecs /\ Loaded(jobDisk[j]).st \notin LiveStates
                 /\ \/ Loaded(jobDisk[j]) = jobDisk[j]
                    \/ /\ Loaded(jobDisk[j]).st = "interrupted"
                       /\ jobDisk[j].st \in LiveStates
        <3>1. CASE jobDisk[j].st \in LiveStates
            <4> DEFINE read == [jobDisk[j] EXCEPT !.st = "interrupted"]
            <4>1. Loaded(jobDisk[j]) = read
                BY <3>1 DEF Loaded
            <4>2. read \in JobRecs /\ read.st = "interrupted"
                BY MarkIsRec DEF JobInv, JobTypes, Terminal
            <4> HIDE DEF read
            <4> QED  BY <3>1, <4>1, <4>2 DEF LiveStates
        <3>2. CASE jobDisk[j].st \notin LiveStates
            BY <3>2 DEF Loaded, JobInv, JobTypes
        <3> QED  BY <3>1, <3>2
    <2>3. /\ jobFaults' \in Nat /\ svc' \in {"up", "down", "refused"}
          /\ \/ UNCHANGED mem
             \/ svc' = "up" /\ mem' = jobDisk' /\ jobDisk' = [j \in Jobs |-> Loaded(jobDisk[j])]
          /\ svc' # "up" => UNCHANGED mem
        BY <1>5, <2>1 DEF JobStart, Raises, JobInv, JobTypes
    <2>4. /\ jobDisk' \in [Jobs -> JobRecs]
          /\ \A j \in Jobs : jobDisk'[j] \in {jobDisk[j], Loaded(jobDisk[j])}
        BY <1>5, <2>2 DEF JobStart, JobInv, JobTypes
    <2>5. JobTypes'
        BY <2>1, <2>3, <2>4 DEF JobInv, JobTypes
    <2>6. CarriedIsLive' /\ EndIsSeen'
        BY <2>1 DEF JobInv, CarriedIsLive, EndIsSeen
    <2>7. DownIsEmpty'
        BY <2>1, <2>3 DEF DownIsEmpty
    <2>8. IndexFollows'
        <3>1. CASE UNCHANGED mem
            BY <2>1, <3>1 DEF IndexFollows, JobAbsent, LiveStates, Terminal
        <3>2. CASE mem' = jobDisk' /\ jobDisk' = [j \in Jobs |-> Loaded(jobDisk[j])]
            BY <2>1, <3>2 DEF IndexFollows
        <3> QED  BY <2>3, <3>1, <3>2
    <2>9. UnknownHasNoGroup' /\ SuccessIsPublished' /\ OutcomeMeansGone'
        BY <2>1, <2>2, <2>4
           DEF JobInv, UnknownHasNoGroup, SuccessIsPublished, OutcomeMeansGone, JobAbsent, Alive
    <2>10. OutcomeStands
        BY <2>1, <2>2, <2>4 DEF OutcomeStands, LiveStates, Terminal
    <2> QED  BY <2>5, <2>6, <2>7, <2>8, <2>9, <2>10 DEF JobInv
<1>6. ASSUME NEW j \in Jobs, WorkerEnds(j) \/ GroupDies(j) PROVE JobInv' /\ OutcomeStands
    <2>1. /\ UNCHANGED <<jobDisk, mem, frozen, svc, thread, reports, jobFaults>>
          /\ grp' \in [Jobs -> {"none", "running", "left", "dying", "gone"}]
          /\ result' \in [Jobs -> {"none", "ok", "failed"}]
          /\ \A k \in Jobs : Alive(k)' => Alive(k)
        BY <1>6 DEF WorkerEnds, GroupDies, JobInv, JobTypes, Alive
    <2>2. JobTypes' /\ CarriedIsLive' /\ IndexFollows' /\ DownIsEmpty' /\ SuccessIsPublished'
        BY <2>1 DEF JobInv, JobTypes, CarriedIsLive, IndexFollows, DownIsEmpty,
                    SuccessIsPublished
    <2>3. thread.pc # "idle" => thread.job \in Jobs
        BY DEF JobInv, CarriedIsLive
    <2>4. EndIsSeen' /\ UnknownHasNoGroup' /\ OutcomeMeansGone'
        BY <2>1, <2>3 DEF JobInv, EndIsSeen, UnknownHasNoGroup, OutcomeMeansGone, Alive
    <2>5. OutcomeStands
        BY <2>1 DEF OutcomeStands
    <2> QED  BY <2>2, <2>4, <2>5 DEF JobInv
<1> QED  BY <1>1, <1>3, <1>4, <1>5, <1>6

LEMMA JobInductive ==
    ASSUME JobInv, [JobNext]_jobVars
    PROVE  JobInv' /\ OutcomeStands
<1>1. CASE UNCHANGED jobVars
    <2>1. JobInv'
        BY <1>1 DEF jobVars, JobInv, JobTypes, CarriedIsLive, EndIsSeen, IndexFollows,
                    DownIsEmpty, UnknownHasNoGroup, SuccessIsPublished, OutcomeMeansGone, Alive
    <2>2. OutcomeStands
        BY <1>1 DEF jobVars, OutcomeStands
    <2> QED  BY <2>1, <2>2
<1>2. CASE JobNext
    BY <1>2, ThreadStepsKeepJobs, AdmitKeepsJobs, FinalizeKeepsJobs, StopKeepsJobs,
       CreationKeepsJobs, LifeKeepsJobs DEF JobNext, Thread
<1> QED  BY <1>1, <1>2

LEMMA JobBegins == JobInit => JobInv
<1> SUFFICES ASSUME JobInit PROVE JobInv
    OBVIOUS
<1> USE DEF JobInit
<1>1. JobAbsent \in JobRecs /\ JobAbsent.st = "absent"
    BY DEF JobAbsent, JobRecs, JobStates
<1>2. JobTypes
    BY <1>1, IdleIsThread DEF JobTypes
<1>3. CarriedIsLive
    BY IdleIsThread DEF CarriedIsLive
<1>4. EndIsSeen /\ UnknownHasNoGroup
    BY IdleIsThread DEF EndIsSeen, UnknownHasNoGroup, Alive
<1>5. IndexFollows /\ DownIsEmpty /\ SuccessIsPublished /\ OutcomeMeansGone
    BY <1>1 DEF IndexFollows, DownIsEmpty, SuccessIsPublished, OutcomeMeansGone, Alive,
                LiveStates, Terminal
<1> QED  BY <1>2, <1>3, <1>4, <1>5 DEF JobInv

LEMMA JobInvIsSafe == JobInv => JobSafe
<1> SUFFICES ASSUME JobInv PROVE JobSafe
    OBVIOUS
<1>1. JobTypeOK
    BY DEF JobInv, JobTypes, CarriedIsLive, JobTypeOK, JobRecs, JobStates
<1>2. ServedIsDurable
    BY DEF JobInv, IndexFollows, ServedIsDurable
<1> QED  BY <1>1, <1>2 DEF JobInv, JobSafe
-----------------------------------------------------------------------------
(* The parts inside the service.                                           *)

\* Whatever the other parts do, each part of the service behaves as its own
\* specification says: their documents, locks and files are apart.
LEMMA PartsRun ==
    WebSpec => /\ TurnSpec /\ ResearchSpec /\ JobSpec /\ LaunchSpec
               /\ [][UploadNext]_uploadVars
<1>1. WebInit => TurnInit /\ ResearchInit /\ JobInit /\ LaunchInit
    BY DEF WebInit
<1>2. ASSUME [WebNext]_webVars
      PROVE  /\ [TurnNext]_turnVars /\ [ResearchNext]_researchVars /\ [JobNext]_jobVars
             /\ [LaunchNext]_launchVars /\ [UploadNext]_uploadVars
    BY <1>2 DEF WebNext, webVars, TurnMoves, ResearchMoves, JobMoves, LaunchMoves, DraftMoves,
                UploadMoves, PackageMoves
<1> QED  BY <1>1, <1>2, PTL DEF WebSpec, TurnSpec, ResearchSpec, JobSpec, LaunchSpec

\* A launch runs the input its preview showed, is sent once and is served as
\* the owner answered it (user_strategies.launch_experiment, web/quine.py).
THEOREM LaunchIsSafe == WebSpec => []LaunchSafe
<1>1. LaunchSpec => []LaunchInv
    BY LaunchBegins, LaunchInductive, PTL DEF LaunchSpec
<1> QED  BY <1>1, PartsRun, LaunchInvIsSafe, PTL

\* The jobs of the service: success is published, an outcome means that no
\* process of the run is left, and what is served is on disk (web/service.py
\* _run, _supervise, _store and _load_jobs).
THEOREM JobIsSafe == WebSpec => []JobSafe
<1>1. JobSpec => []JobInv
    BY JobBegins, JobInductive, PTL DEF JobSpec
<1> QED  BY <1>1, PartsRun, JobInvIsSafe, PTL

\* An outcome on disk is final, a run whose stop was recorded does not succeed
\* later, and a closing service publishes nothing (_finalize, close).
THEOREM OutcomesStand == JobSpec => OutcomeIsFinal /\ NothingPublishedWhileClosing
<1>1. JobSpec => []JobInv
    BY JobBegins, JobInductive, PTL DEF JobSpec
<1>2. ASSUME JobInv, [JobNext]_jobVars
      PROVE  /\ [\A j \in Jobs :
                    /\ jobDisk[j].st \in Terminal => jobDisk'[j] = jobDisk[j]
                    /\ jobDisk[j].st = "stopping" => jobDisk'[j].st # "succeeded"]_jobVars
             /\ [svc = "closing" =>
                    \A j \in Jobs : jobDisk'[j].st = "succeeded" => jobDisk[j].st = "succeeded"]_jobVars
    BY <1>2, JobInductive DEF OutcomeStands
<1> QED
    BY <1>1, <1>2, PTL DEF JobSpec, OutcomeIsFinal, NothingPublishedWhileClosing
-----------------------------------------------------------------------------
(* The upload store.                                                       *)

\* A sweep that may examine as many names as there are sees the whole directory.
LEMMA SweepSeesAll ==
    ASSUME MaxSweep >= MaxIds, NEW dir, NEW i \in Ids, dir[i].there
    PROVE  i \in Examined(dir)
<1> DEFINE names == {j \in Ids : dir[j].there}
           below == {j \in names : j < i}
<1>1. MaxIds \in Nat /\ MaxSweep \in Nat /\ i \in 1..MaxIds
    BY UploadAssumption DEF Ids
<1>2. below \subseteq 1..(i-1)
    BY <1>1 DEF Ids
<1>3. IsFiniteSet(1..(i-1)) /\ Cardinality(1..(i-1)) = i - 1
    BY <1>1, FS_Interval
<1>4. Cardinality(below) \in Nat /\ Cardinality(below) <= i - 1
    BY <1>2, <1>3, FS_Subset, FS_CardinalityType
<1> HIDE DEF below
<1>5. Cardinality(below) < MaxSweep
    BY <1>1, <1>4
<1> QED  BY <1>5 DEF Examined, below

\* Once the owner has started over, a file stands only beside the manifest of
\* its version (web/uploads.py _sweep_orphans).
THEOREM StartsClean == WebSpec => StartIsClean
<1>1. ASSUME [UploadNext]_uploadVars
      PROVE  [Restart /\ MaxSweep >= MaxIds =>
                 \A i \in Ids : raw'[i].there \/ captures'[i].there
                                   => versions'[i].there]_uploadVars
    <2> SUFFICES ASSUME Restart, MaxSweep >= MaxIds, NEW i \in Ids,
                        raw'[i].there \/ captures'[i].there
                 PROVE  versions'[i].there
        OBVIOUS
    <2>1. /\ raw'[i] = IF i \in Examined(raw) \ Versions THEN NoFile ELSE raw[i]
          /\ captures'[i] = IF i \in Examined(captures) \ Versions THEN NoFile ELSE captures[i]
          /\ versions' = versions
        BY DEF Restart, Swept
    <2>2. ~NoFile.there
        BY DEF NoFile
    <2>3. CASE raw'[i].there
        <3>1. raw[i].there /\ i \notin Examined(raw) \ Versions
            BY <2>1, <2>2, <2>3
        <3> QED  BY <2>1, <3>1, SweepSeesAll DEF Versions
    <2>4. CASE captures'[i].there
        <3>1. captures[i].there /\ i \notin Examined(captures) \ Versions
            BY <2>1, <2>2, <2>4
        <3> QED  BY <2>1, <3>1, SweepSeesAll DEF Versions
    <2> QED  BY <2>3, <2>4
<1> QED  BY <1>1, PartsRun, PTL DEF StartIsClean
-----------------------------------------------------------------------------
(* A conversation turn: cancellation and dispatch serialize.               *)

\* The reasons a task ends or waits with, and the outcomes of its calls; no
\* outcome is a dispatch.
Reasons == {"none", "observed", "text", "read", "propose", "refused", "declined", "unknown",
            "interrupted_before_dispatch", "cancelled", "interrupted", "scope_decision",
            "experiment_failed", "execution_limit", "decision_required", "completed",
            "unconfigured"}
TaskRecs == [status : Open \cup {"none", "stopped", "completed"}, reason : Reasons, limit : Nat]
CallStatuses == Reasons \cup {"absent", "pending", "dispatched"}
CallRecs == [status : CallStatuses, resp : Reasons]
Documented(d) ==
    /\ d = [call |-> d.call, task |-> d.task, pending |-> d.pending, prop |-> d.prop,
            rev |-> d.rev, base |-> d.base, exp |-> d.exp, launched |-> d.launched]
    /\ d.task \in [Turns -> TaskRecs] /\ d.call \in [Turns -> [Steps -> CallRecs]]
RunIsDriven ==
    \/ run = TurnIdle
    \/ /\ run = [t |-> run.t, pc |-> run.pc, step |-> run.step, answer |-> run.answer,
                 outcome |-> run.outcome, proposed |-> run.proposed]
       /\ run.t \in Turns /\ run.outcome \in Reasons
TurnInv == Documented(turnDoc) /\ RunIsDriven

\* What no transaction does to a cancelled task of document d.
CancelHolds(d, e) ==
    \A t \in Turns : d.task[t].reason = "cancelled" =>
        /\ e.task[t].reason = "cancelled"
        /\ \A s \in Steps : e.call[t][s].status = "dispatched"
                               => d.call[t][s].status = "dispatched"

\* A document is its eight columns.
Columns(d) == d = [call |-> d.call, task |-> d.task, pending |-> d.pending, prop |-> d.prop,
                   rev |-> d.rev, base |-> d.base, exp |-> d.exp, launched |-> d.launched]

LEMMA CallsWritten ==
    ASSUME NEW d, Columns(d), NEW calls
    PROVE  /\ Columns([d EXCEPT !.call = calls])
           /\ [d EXCEPT !.call = calls].call = calls
           /\ [d EXCEPT !.call = calls].task = d.task
BY DEF Columns

\* The transactions of the store, on any document.
LEMMA TaskUpdates ==
    ASSUME NEW d, Documented(d), NEW t \in Turns, NEW reason \in Reasons,
           NEW status \in Open \cup {"none", "stopped", "completed"}
    PROVE  /\ Documented(UpdateTask(d, t, status, reason))
           /\ CancelHolds(d, UpdateTask(d, t, status, reason))
<1> DEFINE rec == [status |-> status, reason |-> reason, limit |-> d.task[t].limit]
           tasks == [d.task EXCEPT ![t] = rec]
           e == UpdateTask(d, t, status, reason)
<1>1. rec \in TaskRecs /\ tasks \in [Turns -> TaskRecs]
    BY DEF Documented, TaskRecs
<1>2. CASE d.task[t].reason = "cancelled"
    BY <1>2 DEF UpdateTask, CancelHolds
<1>3. CASE d.task[t].reason # "cancelled"
    <2> DEFINE pending == IF reason = "cancelled" /\ d.pending.t = t THEN NoDecision ELSE d.pending
    <2>1. [[d.task EXCEPT ![t].status = status] EXCEPT ![t].reason = reason] = tasks
        BY DEF Documented, TaskRecs
    <2>2. e = [d EXCEPT !.task = tasks, !.pending = pending]
        BY <1>3, <2>1 DEF UpdateTask, Documented
    <2>3. Columns(d)
        BY DEF Documented, Columns
    <2> HIDE DEF e, tasks, pending
    <2>4. e.task = tasks /\ e.call = d.call /\ Columns(e)
        <3> DEFINE f == [d EXCEPT !.task = tasks]
        <3>1. Columns(f) /\ f.task = tasks /\ f.call = d.call
            BY <2>3 DEF Columns
        <3>2. e = [f EXCEPT !.pending = pending]
            BY <2>2
        <3> HIDE DEF f
        <3> QED  BY <3>1, <3>2 DEF Columns
    <2>5. Documented(e)
        BY <1>1, <2>4 DEF Documented, Columns
    <2>6. CancelHolds(d, e)
        BY <1>3, <2>4 DEF CancelHolds, Documented, tasks
    <2> QED  BY <2>5, <2>6 DEF e
<1> QED  BY <1>2, <1>3

LEMMA DecisionUpdates ==
    ASSUME NEW d, Documented(d), NEW t, NEW phase, NEW rev
    PROVE  /\ Documented(Remember(d, t, phase, rev)) /\ CancelHolds(d, Remember(d, t, phase, rev))
           /\ Documented(TurnForget(d)) /\ CancelHolds(d, TurnForget(d))
BY DEF Documented, CancelHolds, Remember, TurnForget

LEMMA CallWritten ==
    ASSUME NEW d, Documented(d), NEW t \in Turns, NEW s, NEW new, s \in Steps => new \in CallRecs,
           s \in Steps /\ new.status = "dispatched" => d.task[t].reason # "cancelled",
           NEW e, e = [d EXCEPT !.call = [d.call EXCEPT ![t] = [d.call[t] EXCEPT ![s] = new]]]
    PROVE  Documented(e) /\ CancelHolds(d, e)
<1> DEFINE calls == [d.call EXCEPT ![t] = [d.call[t] EXCEPT ![s] = new]]
<1>1. calls \in [Turns -> [Steps -> CallRecs]]
    BY DEF Documented
<1>2. \A u \in Turns, r \in Steps :
          calls[u][r] = IF u = t /\ r = s THEN new ELSE d.call[u][r]
    BY DEF Documented
<1>3. e = [d EXCEPT !.call = calls]
    OBVIOUS
<1> HIDE DEF calls
<1>4. e.call = calls /\ e.task = d.task /\ Columns(e)
    BY <1>3 DEF Documented, Columns
<1>5. Documented(e)
    BY <1>1, <1>4 DEF Documented, Columns
<1>6. CancelHolds(d, e)
    BY <1>2, <1>4 DEF CancelHolds
<1> QED  BY <1>5, <1>6

LEMMA CallUpdates ==
    ASSUME NEW d, Documented(d), NEW t \in Turns, NEW s, NEW status \in CallStatuses,
           NEW resp \in Reasons, status = "dispatched" => d.task[t].reason # "cancelled"
    PROVE  /\ Documented(SetCall(d, t, s, status, resp))
           /\ CancelHolds(d, SetCall(d, t, s, status, resp))
<1>1. [status |-> status, resp |-> resp] \in CallRecs
    BY DEF CallRecs, CallStatuses
<1> DEFINE put(w) == [d EXCEPT !.call = [d.call EXCEPT ![t] = [d.call[t] EXCEPT ![s] = w]]]
<1>2. ASSUME NEW w \in CallRecs, w.status = "dispatched" => d.task[t].reason # "cancelled"
      PROVE  Documented(put(w)) /\ CancelHolds(d, put(w))
    BY <1>2, CallWritten
<1>3. SetCall(d, t, s, status, resp) = put([status |-> status, resp |-> resp])
    BY DEF SetCall
<1> HIDE DEF put
<1> QED  BY <1>1, <1>2, <1>3

LEMMA StatusUpdates ==
    ASSUME NEW d, Documented(d), NEW t \in Turns, NEW s, NEW status \in CallStatuses,
           status = "dispatched" => d.task[t].reason # "cancelled"
    PROVE  Documented(SetStatus(d, t, s, status)) /\ CancelHolds(d, SetStatus(d, t, s, status))
<1> DEFINE new == [d.call[t][s] EXCEPT !.status = status]
<1>1. s \in Steps => new \in CallRecs /\ new.status = status
    BY DEF CallRecs, CallStatuses, Documented
<1> HIDE DEF new
<1> QED  BY <1>1, CallWritten DEF SetStatus, new

LEMMA DrivenIsTurn ==
    ASSUME TurnInv, NEW pc, Driving(pc)
    PROVE  /\ run.t \in Turns /\ run.outcome \in Reasons
           /\ run = [t |-> run.t, pc |-> run.pc, step |-> run.step, answer |-> run.answer,
                     outcome |-> run.outcome, proposed |-> run.proposed]
BY DEF TurnInv, RunIsDriven, Driving, TurnIdle

\* A node of the graph writes the document by a transaction of the store and
\* moves the run on.
LEMMA GraphKeepsCancelled ==
    ASSUME TurnInv, GraphStep
    PROVE  TurnInv' /\ CancelHolds(turnDoc, turnDoc')
<1> USE DEF TurnInv
<1>u. CancelHolds(turnDoc, turnDoc)
    BY DEF CancelHolds
<1>r. ASSUME run = [t |-> run.t, pc |-> run.pc, step |-> run.step, answer |-> run.answer,
                    outcome |-> run.outcome, proposed |-> run.proposed],
             run.t \in Turns, run.outcome \in Reasons
      PROVE  /\ \A pc : run' = [run EXCEPT !.pc = pc] => RunIsDriven'
             /\ \A pc, a : run' = [run EXCEPT !.pc = pc, !.answer = a] => RunIsDriven'
             /\ \A pc : \A o \in Reasons :
                    run' = [run EXCEPT !.pc = pc, !.outcome = o] => RunIsDriven'
    BY <1>r DEF RunIsDriven
<1>i. run' = TurnIdle => RunIsDriven'
    BY DEF RunIsDriven
<1>o. /\ {"pending", "dispatched"} \cup Reasons \subseteq CallStatuses
      /\ {"text", "read", "propose", "unknown", "observed", "cancelled", "interrupted", "none",
          "scope_decision", "interrupted_before_dispatch", "refused", "declined",
          "experiment_failed", "execution_limit", "decision_required", "completed"}
            \subseteq Reasons
    BY DEF Reasons, CallStatuses
<1>1. CASE GraphBudget
    <2>1. /\ Driving("budget")
          /\ \/ UNCHANGED turnDoc
             \/ turnDoc' = UpdateTask(turnDoc, run.t, "awaiting_budget", "execution_limit")
        BY <1>1 DEF GraphBudget
    <2>2. Documented(turnDoc') /\ CancelHolds(turnDoc, turnDoc')
        BY <2>1, <1>u, <1>o, DrivenIsTurn, TaskUpdates DEF Open
    <2> QED  BY <1>1, <2>1, <2>2, <1>r, <1>o, DrivenIsTurn DEF GraphBudget, Goto
<1>2. CASE PauseForBudget
    BY <1>2, <1>u, <1>r, DrivenIsTurn, DecisionUpdates DEF PauseForBudget, Goto
<1>3. CASE BudgetGranted
    <2>1. Driving("granted") /\ (UNCHANGED turnDoc \/ turnDoc' = TurnForget(turnDoc))
        BY <1>3 DEF BudgetGranted
    <2>2. Documented(turnDoc') /\ CancelHolds(turnDoc, turnDoc')
        BY <2>1, <1>u, DecisionUpdates
    <2> QED  BY <1>3, <2>1, <2>2, <1>r, <1>o, DrivenIsTurn DEF BudgetGranted, Goto
<1>4. CASE BudgetRunning
    <2>1. Driving("regained") /\ turnDoc' = UpdateTask(turnDoc, run.t, "running", "none")
        BY <1>4 DEF BudgetRunning
    <2>2. Documented(turnDoc') /\ CancelHolds(turnDoc, turnDoc')
        BY <2>1, <1>o, DrivenIsTurn, TaskUpdates DEF Open
    <2> QED  BY <1>4, <2>1, <2>2, <1>r, DrivenIsTurn DEF BudgetRunning
<1>5. CASE ReserveChild
    <2>1. /\ Driving("answer")
          /\ \/ UNCHANGED turnDoc
             \/ turnDoc' = SetCall(turnDoc, run.t, run.step, "pending", "none")
        BY <1>5 DEF ReserveChild
    <2>2. Documented(turnDoc') /\ CancelHolds(turnDoc, turnDoc')
        BY <2>1, <1>u, <1>o, DrivenIsTurn, CallUpdates
    <2> QED  BY <1>5, <2>1, <2>2, <1>r, <1>o, DrivenIsTurn DEF ReserveChild, Goto
<1>6. CASE ReplayAnswer
    BY <1>6, <1>u, <1>r, <1>o, DrivenIsTurn DEF ReplayAnswer, Goto
<1>7. CASE DispatchCall
    <2>1. CASE Cancelled(run.t)
        BY <1>7, <2>1, <1>u, <1>r, <1>o, DrivenIsTurn DEF DispatchCall
    <2>2. CASE ~Cancelled(run.t)
        <3>1. /\ Driving("answer") /\ Goto("provider")
              /\ turnDoc' = SetStatus(turnDoc, run.t, run.step, "dispatched")
            BY <1>7, <2>2 DEF DispatchCall
        <3>2. Documented(turnDoc') /\ CancelHolds(turnDoc, turnDoc')
            BY <2>2, <3>1, <1>o, DrivenIsTurn, StatusUpdates DEF Cancelled
        <3> QED  BY <3>1, <3>2, <1>r, DrivenIsTurn DEF Goto
    <2> QED  BY <2>1, <2>2
<1>8. CASE CallProvider
    BY <1>8, <1>u, <1>r, <1>o, DrivenIsTurn DEF CallProvider
<1>9. CASE RecordAnswer
    <2>1. /\ Driving("record") /\ Goto("answered")
          /\ turnDoc' = SetCall(turnDoc, run.t, run.step, "observed", run.outcome)
        BY <1>9 DEF RecordAnswer
    <2>2. Documented(turnDoc') /\ CancelHolds(turnDoc, turnDoc')
        BY <2>1, <1>o, DrivenIsTurn, CallUpdates
    <2> QED  BY <2>1, <2>2, <1>r, DrivenIsTurn DEF Goto
<1>10. CASE Answered
    <2>1. /\ Driving("answered")
          /\ turnDoc' = SetStatus(turnDoc, run.t, run.step, "observed")
        BY <1>10 DEF Answered
    <2>2. Documented(turnDoc') /\ CancelHolds(turnDoc, turnDoc')
        BY <2>1, <1>o, DrivenIsTurn, StatusUpdates
    <2> QED  BY <1>10, <2>1, <2>2, <1>r, <1>o, DrivenIsTurn DEF Answered
<1>11. CASE GraphTools
    <2>1. \/ UNCHANGED turnDoc
          \/ \E p : turnDoc' = [turnDoc EXCEPT !.prop[run.t] = p]
        BY <1>11 DEF GraphTools
    <2>2. Documented(turnDoc') /\ CancelHolds(turnDoc, turnDoc')
        BY <2>1, <1>u DEF Documented, CancelHolds
    <2>3. RunIsDriven'
        BY <1>11, <1>o, DrivenIsTurn DEF GraphTools, RunIsDriven
    <2> QED  BY <2>2, <2>3
<1>12. CASE GraphSettle
    <2>0. Driving("settle") /\ turnDoc' = SetStatus(turnDoc, run.t, run.step, run.outcome)
        BY <1>12 DEF GraphSettle
    <2>1. Documented(turnDoc') /\ CancelHolds(turnDoc, turnDoc')
        BY <2>0, <1>o, DrivenIsTurn, StatusUpdates DEF Reasons
    <2>2. RunIsDriven'
        BY <1>12, DrivenIsTurn DEF GraphSettle, RunIsDriven
    <2> QED  BY <2>1, <2>2
<1>13. CASE GraphProposal
    BY <1>13, <1>r, DrivenIsTurn, DecisionUpdates DEF GraphProposal, Goto
<1>14. CASE ProposalDecided
    <2>1. Driving("decided") /\ (UNCHANGED turnDoc \/ turnDoc' = TurnForget(turnDoc))
        BY <1>14 DEF ProposalDecided
    <2>2. Documented(turnDoc') /\ CancelHolds(turnDoc, turnDoc')
        BY <2>1, <1>u, DecisionUpdates
    <2> QED  BY <1>14, <2>1, <2>2, <1>r, <1>o, DrivenIsTurn DEF ProposalDecided
<1>15. CASE GraphPreview
    <2>1. /\ Driving("preview")
          /\ UNCHANGED turnDoc \/ turnDoc' = Remember(turnDoc, run.t, "confirmation", turnDoc.rev)
        BY <1>15 DEF GraphPreview
    <2>2. Documented(turnDoc') /\ CancelHolds(turnDoc, turnDoc')
        BY <2>1, <1>u, DecisionUpdates
    <2> QED  BY <1>15, <2>1, <2>2, <1>r, <1>o, DrivenIsTurn DEF GraphPreview, Goto
<1>16. CASE Previewed
    BY <1>16, <1>u, <1>r, DrivenIsTurn DEF Previewed, Goto
<1>17. CASE PreviewConfirmed
    <2>1. CASE turnDoc' = TurnForget(turnDoc)
        BY <1>17, <2>1, <1>r, <1>o, DrivenIsTurn, DecisionUpdates DEF PreviewConfirmed, Goto
    <2>2. CASE turnDoc' # TurnForget(turnDoc)
        <3>1. \E x, l : turnDoc' = [turnDoc EXCEPT !.exp[run.t] = x, !.launched[run.t] = l]
            BY <1>17, <2>2 DEF PreviewConfirmed
        <3>2. Documented(turnDoc') /\ CancelHolds(turnDoc, turnDoc')
            BY <3>1 DEF Documented, CancelHolds
        <3>3. RunIsDriven'
            BY <1>17, <2>2, <1>r, DrivenIsTurn DEF PreviewConfirmed, Goto
        <3> QED  BY <3>2, <3>3
    <2> QED  BY <2>1, <2>2
<1>18. CASE RememberLaunch
    BY <1>18, <1>r, DrivenIsTurn, DecisionUpdates DEF RememberLaunch, Goto
<1>19. CASE GraphObserve
    BY <1>19, <1>u, <1>r, <1>o, DrivenIsTurn, DecisionUpdates DEF GraphObserve, Goto
<1>20. CASE GraphEvidence
    <2>1. RunIsDriven'
        BY <1>20, DrivenIsTurn DEF GraphEvidence, Goto, RunIsDriven
    <2> QED  BY <1>20, <2>1, <1>u DEF GraphEvidence
<1>21. CASE Interrupted
    <2>1. turnDoc.task[run.t].reason \in Reasons
        BY <1>21, DrivenIsTurn DEF Interrupted, Documented, TaskRecs
    <2> QED  BY <1>21, <2>1, <1>i, <1>o, DrivenIsTurn, TaskUpdates DEF Interrupted, Open
<1>22. CASE Ended
    BY <1>22, <1>i, <1>o, DrivenIsTurn, TaskUpdates DEF Ended, TurnEnd
<1>23. CASE Stopped
    BY <1>23, <1>i, DrivenIsTurn, TaskUpdates DEF Stopped, TurnEnd
<1> QED
    BY <1>1, <1>2, <1>3, <1>4, <1>5, <1>6, <1>7, <1>8, <1>9, <1>10, <1>11, <1>12, <1>13, <1>14,
       <1>15, <1>16, <1>17, <1>18, <1>19, <1>20, <1>21, <1>22, <1>23 DEF GraphStep

LEMMA UsageIsNat == ASSUME NEW t PROVE Usage(t) \in Nat
<1>1. Initial + Extra * MaxGrants \in Nat
    BY ConversationAssumption
<1>2. IsFiniteSet(Steps)
    BY <1>1, FS_Interval DEF Steps
<1>3. IsFiniteSet({s \in Steps : turnDoc.call[t][s].status \in Reserved})
    BY <1>2, FS_Subset
<1> QED  BY <1>3, FS_CardinalityType DEF Usage

LEMMA CancelCarries ==
    ASSUME NEW d, NEW e, NEW f, CancelHolds(d, e), CancelHolds(e, f)
    PROVE  CancelHolds(d, f)
BY DEF CancelHolds

\* A request of the user, an edit and the reconciliation.
LEMMA RequestKeepsCancelled ==
    ASSUME TurnInv, EditDraft \/ Reconcile \/ Abandon \/ \E t \in Turns : TurnRequest(t)
    PROVE  TurnInv' /\ CancelHolds(turnDoc, turnDoc')
<1> USE DEF TurnInv
<1>u. CancelHolds(turnDoc, turnDoc)
    BY DEF CancelHolds
<1>i. run' = TurnIdle \/ UNCHANGED run => RunIsDriven'
    BY DEF RunIsDriven
<1>s. ASSUME NEW t \in Turns, NEW pc, NEW step, NEW answer, TurnStart(t, pc, step, answer)
      PROVE  RunIsDriven'
    BY <1>s DEF TurnStart, RunIsDriven, Reasons
<1>1. ASSUME NEW t \in Turns, AdmitTurn(t)
      PROVE  TurnInv' /\ CancelHolds(turnDoc, turnDoc')
    <2>1. ASSUME NEW rec \in TaskRecs, rec.reason # "cancelled",
                 NEW d, \/ d = [turnDoc EXCEPT !.task[t] = rec, !.base[t] = turnDoc.rev]
                        \/ d = [turnDoc EXCEPT !.task[t] = rec]
          PROVE  Documented(d) /\ CancelHolds(turnDoc, d)
        <3>1. d.task = [turnDoc.task EXCEPT ![t] = rec] /\ d.call = turnDoc.call
            BY <2>1 DEF Documented
        <3>2. d = [call |-> d.call, task |-> d.task, pending |-> d.pending, prop |-> d.prop,
                   rev |-> d.rev, base |-> d.base, exp |-> d.exp, launched |-> d.launched]
            BY <2>1 DEF Documented
        <3>3. turnDoc.task[t].reason # "cancelled"
            BY <1>1 DEF AdmitTurn, NoTask
        <3>4. Documented(d)
            BY <3>1, <3>2, <2>1 DEF Documented
        <3>5. CancelHolds(turnDoc, d)
            BY <3>1, <3>3 DEF CancelHolds, Documented
        <3> QED  BY <3>4, <3>5
    <2> DEFINE open == [status |-> "running", reason |-> "none", limit |-> Initial]
               shut == [open EXCEPT !.status = "stopped", !.reason = "unconfigured"]
    <2>2. /\ open \in TaskRecs /\ open.reason # "cancelled"
          /\ shut \in TaskRecs /\ shut.reason # "cancelled"
        BY ConversationAssumption DEF TaskRecs, Reasons, Open
    <2>3. {"pending", "unconfigured"} \subseteq CallStatuses /\ "none" \in Reasons
        BY DEF CallStatuses, Reasons
    <2>4. CASE turnDoc' = SetCall([turnDoc EXCEPT !.task[t] = open, !.base[t] = turnDoc.rev],
                                  t, 0, "pending", "none")
        <3> DEFINE d == [turnDoc EXCEPT !.task[t] = open, !.base[t] = turnDoc.rev]
        <3>1. Documented(d) /\ CancelHolds(turnDoc, d)
            BY <2>1, <2>2
        <3>2. turnDoc' = SetCall(d, t, 0, "pending", "none")
            BY <2>4
        <3> HIDE DEF d
        <3>3. Documented(turnDoc') /\ CancelHolds(d, turnDoc')
            BY <2>3, <3>1, <3>2, CallUpdates
        <3> QED
            BY <1>1, <1>i, <1>s, <3>1, <3>3, CancelCarries DEF AdmitTurn
    <2>5. CASE turnDoc' = SetCall([turnDoc EXCEPT !.task[t] = shut],
                                  t, 0, "unconfigured", "none")
        <3> DEFINE d == [turnDoc EXCEPT !.task[t] = shut]
        <3>1. Documented(d) /\ CancelHolds(turnDoc, d)
            BY <2>1, <2>2
        <3>2. turnDoc' = SetCall(d, t, 0, "unconfigured", "none")
            BY <2>5
        <3> HIDE DEF d
        <3>3. Documented(turnDoc') /\ CancelHolds(d, turnDoc')
            BY <2>3, <3>1, <3>2, CallUpdates
        <3> QED
            BY <1>1, <1>i, <1>s, <3>1, <3>3, CancelCarries DEF AdmitTurn
    <2> QED  BY <1>1, <2>4, <2>5 DEF AdmitTurn
<1>2. ASSUME NEW t \in Turns, ResumeTurn(t) PROVE TurnInv' /\ CancelHolds(turnDoc, turnDoc')
    BY <1>2, <1>u, <1>s DEF ResumeTurn
<1>3. ASSUME NEW t \in Turns, ContinueTurn(t) PROVE TurnInv' /\ CancelHolds(turnDoc, turnDoc')
    <2> DEFINE rec == [turnDoc.task[t] EXCEPT !.limit = Usage(t) + Extra]
               tasks == [turnDoc.task EXCEPT ![t] = rec]
    <2>1. Usage(t) + Extra \in Nat
        BY UsageIsNat, ConversationAssumption
    <2>2. rec \in TaskRecs /\ rec.reason = turnDoc.task[t].reason
        BY <2>1 DEF Documented, TaskRecs
    <2>3. turnDoc' = [turnDoc EXCEPT !.task = tasks]
        BY <1>3 DEF ContinueTurn
    <2> HIDE DEF rec
    <2>4. tasks \in [Turns -> TaskRecs] /\ \A u \in Turns : tasks[u].reason = turnDoc.task[u].reason
        BY <2>2 DEF Documented
    <2> HIDE DEF tasks
    <2>5. Documented(turnDoc') /\ CancelHolds(turnDoc, turnDoc')
        BY <2>3, <2>4 DEF Documented, CancelHolds
    <2> QED  BY <1>3, <1>i, <1>s, <2>5 DEF ContinueTurn
<1>4. ASSUME NEW t \in Turns, CancelTask(t) PROVE TurnInv' /\ CancelHolds(turnDoc, turnDoc')
    <2>1. turnDoc' = UpdateTask(turnDoc, t, "stopped", "cancelled") /\ UNCHANGED run
        BY <1>4 DEF CancelTask
    <2> QED  BY <2>1, <1>i, TaskUpdates DEF Reasons
<1>5. ASSUME NEW t \in Turns, ApplyProposal(t) \/ RejectProposal(t) \/ JobEnds(t)
      PROVE  TurnInv' /\ CancelHolds(turnDoc, turnDoc')
    <2>1. /\ UNCHANGED run
          /\ \/ \E p : turnDoc' = [turnDoc EXCEPT !.prop = p]
             \/ \E p, r : turnDoc' = [turnDoc EXCEPT !.prop = p, !.rev = r]
             \/ \E x : turnDoc' = [turnDoc EXCEPT !.exp = x]
        <3>1. CASE ApplyProposal(t)
            BY <3>1 DEF ApplyProposal
        <3>2. CASE RejectProposal(t) \/ JobEnds(t)
            BY <3>2 DEF RejectProposal, JobEnds
        <3> QED  BY <1>5, <3>1, <3>2
    <2>2. Documented(turnDoc') /\ CancelHolds(turnDoc, turnDoc')
        BY <2>1 DEF Documented, CancelHolds
    <2> QED  BY <2>1, <2>2, <1>i
<1>6. CASE EditDraft
    <2>1. Documented(turnDoc') /\ CancelHolds(turnDoc, turnDoc')
        BY <1>6 DEF EditDraft, Documented, CancelHolds
    <2> QED  BY <1>6, <2>1, <1>i DEF EditDraft
<1>7. CASE Abandon \/ \E t \in Turns : LoseCheckpoint(t)
    BY <1>7, <1>u, <1>i DEF Abandon, LoseCheckpoint
<1>8. CASE Reconcile
    <2> DEFINE calls == [t \in Turns |-> [s \in Steps |->
                            [turnDoc.call[t][s] EXCEPT !.status = Classified(@)]]]
               tasks == [t \in Turns |->
                            IF turnDoc.task[t].status = "running" /\ ~Cancelled(t)
                            THEN [turnDoc.task[t] EXCEPT !.status = "stopped", !.reason = "interrupted"]
                            ELSE turnDoc.task[t]]
    <2>1. turnDoc' = [turnDoc EXCEPT !.call = calls, !.task = tasks] /\ UNCHANGED run
        BY <1>8 DEF Reconcile
    <2>2. ASSUME NEW t \in Turns, NEW s \in Steps
          PROVE  calls[t][s] \in CallRecs /\ calls[t][s].status # "dispatched"
        <3>1. turnDoc.call[t][s] \in CallRecs
            BY DEF Documented
        <3>2. /\ Classified(turnDoc.call[t][s].status) \in CallStatuses
              /\ Classified(turnDoc.call[t][s].status) # "dispatched"
            BY <3>1 DEF Classified, CallRecs, CallStatuses, Reasons
        <3> QED  BY <3>1, <3>2 DEF CallRecs
    <2>3. ASSUME NEW t \in Turns
          PROVE  /\ tasks[t] \in TaskRecs
                 /\ turnDoc.task[t].reason = "cancelled" => tasks[t].reason = "cancelled"
        <3>1. turnDoc.task[t] \in TaskRecs
            BY DEF Documented
        <3> QED  BY <3>1 DEF TaskRecs, Cancelled, Reasons
    <2>4. calls \in [Turns -> [Steps -> CallRecs]] /\ tasks \in [Turns -> TaskRecs]
        BY <2>2, <2>3
    <2> HIDE DEF calls, tasks
    <2>5. /\ turnDoc'.call = calls /\ turnDoc'.task = tasks
          /\ Columns(turnDoc')
        BY <2>1 DEF Documented, Columns
    <2>6. Documented(turnDoc')
        BY <2>4, <2>5 DEF Documented, Columns
    <2>7. CancelHolds(turnDoc, turnDoc')
        BY <2>2, <2>3, <2>5 DEF CancelHolds
    <2> QED  BY <2>1, <2>6, <2>7, <1>i
<1> QED  BY <1>1, <1>2, <1>3, <1>4, <1>5, <1>6, <1>7, <1>8 DEF TurnRequest

LEMMA TurnInductive ==
    ASSUME TurnInv, [TurnNext]_turnVars
    PROVE  TurnInv' /\ CancelHolds(turnDoc, turnDoc')
<1>1. CASE UNCHANGED turnVars
    BY <1>1 DEF turnVars, TurnInv, RunIsDriven, CancelHolds
<1>2. CASE TurnNext
    BY <1>2, GraphKeepsCancelled, RequestKeepsCancelled DEF TurnNext, Drive
<1> QED  BY <1>1, <1>2

LEMMA TurnBegins == TurnInit => TurnInv
BY DEF TurnInit, TurnInv, Documented, RunIsDriven, TaskRecs, CallRecs, CallStatuses, Reasons,
       NoTask, TurnNoCall

\* Cancellation and dispatch serialize: whatever the driver has read, no call of
\* a cancelled task is dispatched, and a task stays cancelled
\* (user_strategies.dispatch_task_call, cancel_conversation_task).
THEOREM CancelBars == TurnSpec => NoDispatchAfterCancel
<1>1. TurnSpec => []TurnInv
    BY TurnBegins, TurnInductive, PTL DEF TurnSpec
<1>2. ASSUME TurnInv, [TurnNext]_turnVars
      PROVE  [\A t \in Turns : Cancelled(t) =>
                 /\ Cancelled(t)'
                 /\ \A s \in Steps : turnDoc'.call[t][s].status = "dispatched"
                                       => turnDoc.call[t][s].status = "dispatched"]_turnVars
    BY <1>2, TurnInductive DEF Cancelled, CancelHolds
<1> QED  BY <1>1, <1>2, PTL DEF TurnSpec, NoDispatchAfterCancel
-----------------------------------------------------------------------------
(* A research task: its inductive invariant.                               *)

TaskStatuses == {"drafting", "awaiting_confirmation", "confirmed", "running", "succeeded",
                 "failed", "cancelled", "unsupported"}
ModelCalls == {ResearchNoCall} \cup [st : {"pending", "dispatched"}, seq : Nat]
JobStatuses == {"none", "hidden", "accepted", "stopping", "stopped", "succeeded", "failed",
                "interrupted"}
\* The steps that follow a proposal, a run and an interpretation.
ProposeSteps == {"reserve", "dispatch", "call", "unknown", "observed", "tools"}
RunSteps == {"start", "breserve", "bdispatch", "submit", "publish", "refused"}
InterpretSteps == {"ireserve", "idispatch", "icall", "iunknown", "concluded", "ifail", "publishc"}
BindSteps == {"recover", "bind", "state"}
ResearchSteps == ProposeSteps \cup RunSteps \cup InterpretSteps \cup BindSteps
                 \cup {"confirm", "edit", "editw", "interpret", "reconcile", "rfail", "retry"}
ResearchOps == [pc : ResearchSteps, then : {"none", "backtest", "retry"}, rep : Nat]

TaskShape(t) ==
    /\ t = [kind |-> t.kind, status |-> t.status, draft |-> t.draft, conf |-> t.conf,
            calls |-> t.calls, spent |-> t.spent, res |-> t.res, runs |-> t.runs,
            bres |-> t.bres, bound |-> t.bound, err |-> t.err, step |-> t.step,
            last |-> t.last, evid |-> t.evid, concl |-> t.concl, ierr |-> t.ierr]
    /\ t.kind \in {"legacy", "owned"} /\ t.status \in TaskStatuses
    /\ {t.draft, t.conf, t.bound} \subseteq BOOLEAN
    /\ {t.calls, t.spent, t.runs, t.evid, t.concl} \subseteq Nat
    /\ t.res \in ModelCalls /\ t.bres \in {"none", "pending", "dispatched"}

\* The calls are those spent and the one in flight; only that one may not have
\* been counted by the provider yet.
CallsAreCharged(t, n) ==
    /\ t.calls = t.spent + (IF t.res.st = "none" THEN 0 ELSE 1) /\ t.calls <= MaxCalls
    /\ t.res.st # "none" => t.res.seq = t.spent + 1
    /\ n <= t.spent + (IF t.res.st = "dispatched" THEN 1 ELSE 0)

\* A run is charged before it is submitted; what is pending left no job.
RunsAreCharged(t, jst) ==
    /\ t.runs <= MaxRuns /\ (t.bres # "none" \/ jst # "none" => t.runs >= 1)
    /\ t.bres = "pending" => jst = "none"
    /\ jst = "hidden" => t.bres = "dispatched"
    /\ t.bound => jst \notin {"none", "hidden"} /\ t.bres = "none"

\* What a record may hold before and after its spec was confirmed.
TaskPhase(t, jst) ==
    /\ ~t.conf => /\ t.kind = "legacy" /\ jst = "none" /\ t.bres = "none"
                  /\ t.status \in {"drafting", "awaiting_confirmation", "failed", "unsupported",
                                   "cancelled"}
    /\ t.draft => /\ ~t.conf /\ t.res.st = "none"
                  /\ t.status \in {"awaiting_confirmation", "cancelled"}
    /\ t.conf => /\ t.status \notin {"drafting", "awaiting_confirmation"}
                 /\ t.status # "succeeded" => t.res.st = "none"
                 /\ t.kind = "legacy" /\ t.status = "failed" /\ t.err = "retry"
                      => t.step = "backtest"
    /\ t.status = "awaiting_confirmation" => t.draft /\ t.last = "observed"
    /\ t.status = "confirmed" /\ t.kind = "legacy" => t.last = "observed"
    /\ t.status = "failed" /\ t.step # "propose" => t.conf
    /\ t.status = "succeeded" => t.bound
    /\ t.concl # 0 => t.concl = t.evid

TaskRecord(t, n, jst) ==
    TaskShape(t) /\ CallsAreCharged(t, n) /\ RunsAreCharged(t, jst) /\ TaskPhase(t, jst)

\* What the operation in progress relies on, whatever a cancellation does to
\* the record between its writes.
StepRelies(t, pc, then, n, jst) ==
    /\ pc \in ProposeSteps =>
          /\ ~t.conf /\ ~t.draft
          /\ pc # "unknown" => t.last # "unknown"
    /\ pc = "reserve" => t.res.st = "none"
    /\ pc = "dispatch" => t.res.st = "pending"
    /\ pc \in {"call", "icall"} => t.res.st = "dispatched" /\ n <= t.spent
    /\ pc \in {"unknown", "observed", "iunknown", "concluded"} => t.res.st = "dispatched"
    /\ pc = "tools" => t.last = "observed" /\ t.res.st = "none"
    /\ pc = "editw" => t.draft
    /\ pc \in RunSteps => t.conf /\ t.status # "succeeded"
    /\ pc = "breserve" => t.bres = "none" /\ jst = "none"
    /\ pc = "bdispatch" => t.bres = "pending" /\ t.kind = "legacy"
    /\ pc = "submit" => t.bres = IF t.kind = "owned" THEN "pending" ELSE "dispatched"
    /\ pc = "publish" => t.bres = "dispatched"
    /\ pc = "recover" => t.bres # "none"
    /\ pc \in {"bind", "state"} => jst \notin {"none", "hidden"} /\ t.res.st = "none"
    /\ pc = "state" => t.bound
    /\ pc \in InterpretSteps => t.status = "succeeded"
    /\ pc \in {"ireserve", "idispatch", "icall", "concluded"} => t.concl = 0
    /\ pc = "rfail" => ~t.conf /\ ~t.draft /\ t.res.st = "none"
    /\ pc = "retry" => t.kind = "legacy" /\ (t.res.st = "none" \/ t.status = "succeeded")
    /\ then = "retry" => /\ t.kind = "legacy"
                         /\ pc \in InterpretSteps \cup BindSteps \cup {"reconcile", "rfail"}
    /\ then = "backtest" => pc = "confirm"

\* What the caller asks for next can be begun, unless an unconfirmed save keeps
\* the task.
NextIsReady(t, nxt, jst) ==
    /\ nxt = "propose" => /\ ~t.conf /\ ~t.draft /\ t.calls = 0
                           /\ t.last = "none" /\ t.status \in {"drafting", "failed", "cancelled"}
    /\ nxt = "backtest" => /\ t.conf /\ t.status # "succeeded"
                            /\ jst = "none" /\ t.bres = "none"
    /\ nxt = "retry" => t.kind = "legacy" /\ (t.res.st = "none" \/ t.status = "succeeded")

ResearchInv ==
    /\ TaskRecord(task, researchGhost.sends, job.st)
    /\ job \in [st : JobStatuses] /\ rep \in Nat /\ owned \in BOOLEAN
    /\ next \in {"none", "propose", "backtest", "retry"}
    /\ researchGhost = [sends |-> researchGhost.sends, faults |-> researchGhost.faults,
                        reports |-> researchGhost.reports, was |-> researchGhost.was,
                        lost |-> researchGhost.lost]
    /\ researchGhost.sends \in Nat /\ researchGhost.lost \in BOOLEAN
    /\ researchOp # ResearchNoOp =>
          /\ researchOp \in ResearchOps /\ owned
          /\ StepRelies(task, researchOp.pc, researchOp.then, researchGhost.sends, job.st)
          /\ next # "none" => researchOp.pc \notin ProposeSteps \cup RunSteps \cup {"retry"}
    /\ ~owned \/ researchOp # ResearchNoOp => NextIsReady(task, next, job.st)
    /\ OwnerIsLive
    /\ cancel = "answered" /\ task.status = "cancelled" =>
          job.st # "accepted" /\ (researchOp # ResearchNoOp => researchOp.pc # "publish")
\* What a write of an operation keeps, and what a cancelled task demands of it.
IsWrite(t) ==
    /\ TaskRecord(t, researchGhost.sends, job.st)
    /\ t.status = "cancelled" => task.status = "cancelled"
    /\ task.status = "cancelled" =>
         /\ t.kind = task.kind /\ t.conf = task.conf /\ t.draft = task.draft
         /\ t.evid = task.evid /\ (t.conf => t.res.st = "none")

\* A late write leaves a cancelled task its status and its conclusion.
LEMMA ReducedFields ==
    ASSUME TaskShape(task), NEW t
    PROVE  /\ task.status # "cancelled" => Reduced(t) = t
           /\ task.status = "cancelled" =>
                /\ Reduced(t).calls = t.calls /\ Reduced(t).spent = t.spent
                /\ Reduced(t).last = t.last /\ Reduced(t).bound = t.bound
                /\ Reduced(t).res = t.res /\ Reduced(t).bres = t.bres
                /\ Reduced(t).runs = t.runs /\ Reduced(t).evid = t.evid
                /\ Reduced(t).kind = task.kind /\ Reduced(t).status = task.status
                /\ Reduced(t).draft = task.draft /\ Reduced(t).conf = task.conf
                /\ Reduced(t).err = task.err /\ Reduced(t).step = task.step
                /\ Reduced(t).concl = task.concl /\ Reduced(t).ierr = task.ierr
                /\ Reduced(t) = [kind |-> Reduced(t).kind, status |-> Reduced(t).status,
                     draft |-> Reduced(t).draft, conf |-> Reduced(t).conf,
                     calls |-> Reduced(t).calls, spent |-> Reduced(t).spent,
                     res |-> Reduced(t).res, runs |-> Reduced(t).runs,
                     bres |-> Reduced(t).bres, bound |-> Reduced(t).bound,
                     err |-> Reduced(t).err, step |-> Reduced(t).step,
                     last |-> Reduced(t).last, evid |-> Reduced(t).evid,
                     concl |-> Reduced(t).concl, ierr |-> Reduced(t).ierr]
BY DEF Reduced, TaskShape

\* The record that is saved is a task's record, whichever write it was.
LEMMA ReducedRecord ==
    ASSUME ResearchInv, NEW t, IsWrite(t)
    PROVE  /\ TaskRecord(Reduced(t), researchGhost.sends, job.st)
           /\ Reduced(t).status = "cancelled" => task.status = "cancelled"
<1> TaskShape(task)  BY DEF ResearchInv, TaskRecord
<1> DEFINE r == Reduced(t)
<1>1. CASE task.status # "cancelled"
  BY <1>1, ReducedFields DEF IsWrite
<1>2. CASE task.status = "cancelled"
  <2>1. TaskShape(r)
    BY <1>2, ReducedFields DEF TaskShape, IsWrite, TaskRecord
  <2>2. CallsAreCharged(r, researchGhost.sends)
    BY <1>2, ReducedFields DEF IsWrite, TaskRecord, CallsAreCharged
  <2>3. RunsAreCharged(r, job.st)
    BY <1>2, ReducedFields DEF IsWrite, TaskRecord, RunsAreCharged
  <2>4. TaskPhase(r, job.st)
    BY <1>2, ReducedFields DEF IsWrite, ResearchInv, TaskRecord, TaskPhase
  <2> QED  BY <1>2, <2>1, <2>2, <2>3, <2>4 DEF TaskRecord
<1> QED  BY <1>1, <1>2
\* What an operation that is at a step may count on.
LEMMA AtAStep ==
    ASSUME ResearchInv, NEW pc \in ResearchSteps, ResearchDoing(pc)
    PROVE  /\ researchOp # ResearchNoOp /\ researchOp \in ResearchOps /\ owned
           /\ researchOp.pc = pc
           /\ StepRelies(task, pc, researchOp.then, researchGhost.sends, job.st)
           /\ next # "none" => pc \notin ProposeSteps \cup RunSteps \cup {"retry"}
           /\ NextIsReady(task, next, job.st)
           /\ TaskRecord(task, researchGhost.sends, job.st)
           /\ cancel = "answered" /\ task.status = "cancelled" => job.st # "accepted"
<1>1. researchOp # ResearchNoOp
  BY DEF ResearchDoing, ResearchNoOp, ResearchSteps, ProposeSteps, RunSteps, InterpretSteps, BindSteps
<1> QED  BY <1>1 DEF ResearchInv, ResearchDoing

\* An operation that finishes leaves a record its caller can go on from.
LEMMA EndKeepsResearch ==
    ASSUME ResearchInv, researchOp # ResearchNoOp, Others, NEW t, IsWrite(t),
           ResearchSave(t, TRUE, ResearchNoOp), NEW nxt, next' = nxt,
           nxt \in {"none", "propose", "backtest", "retry"}, NextIsReady(Reduced(t), nxt, job.st)
    PROVE  ResearchInv'
<1> DEFINE r == Reduced(t)
<1>1. /\ TaskRecord(r, researchGhost.sends, job.st)
      /\ r.status = "cancelled" => task.status = "cancelled"
  BY ReducedRecord
<1>3. /\ researchOp' = ResearchNoOp /\ job' = job /\ rep' = rep /\ cancel' = cancel
      /\ \/ task' = r /\ owned' = FALSE /\ Saw(r)
         \/ /\ task' \in {task, r} /\ owned' = owned
            /\ researchGhost' = [researchGhost EXCEPT !.faults = @ + 1, !.lost = TRUE]
  BY DEF ResearchSave, Others
<1>4. /\ researchGhost' = [sends |-> researchGhost'.sends, faults |-> researchGhost'.faults,
                           reports |-> researchGhost'.reports, was |-> researchGhost'.was,
                           lost |-> researchGhost'.lost]
      /\ researchGhost'.sends = researchGhost.sends /\ researchGhost'.lost \in BOOLEAN
      /\ ~owned' \/ researchGhost'.lost
  BY <1>3 DEF Saw, ResearchInv
<1>5. TaskRecord(task, researchGhost.sends, job.st)  BY DEF ResearchInv
<1> HIDE DEF r
<1>6. TaskRecord(task', researchGhost'.sends, job'.st)  BY <1>1, <1>3, <1>4, <1>5
<1>7. ~owned' => NextIsReady(task', next', job'.st)
  <2>1. NextIsReady(r, nxt, job.st)  BY DEF r
  <2>2. ~owned' => task' = r  BY <1>3 DEF ResearchInv
  <2> QED  BY <1>3, <2>1, <2>2
<1>8. cancel' = "answered" /\ task'.status = "cancelled" => job'.st # "accepted"
  BY <1>1, <1>3 DEF ResearchInv
<1> QED  BY <1>3, <1>4, <1>6, <1>7, <1>8 DEF ResearchInv, OwnerIsLive

LEMMA FinishKeepsResearch ==
    ASSUME ResearchInv, researchOp # ResearchNoOp, Others, NEW t, IsWrite(t), Finish(t),
           NextIsReady(Reduced(t), IF researchOp.then = "none" THEN next ELSE researchOp.then, job.st)
    PROVE  ResearchInv'
<1> DEFINE nxt == IF researchOp.then = "none" THEN next ELSE researchOp.then
<1>1. /\ next' = nxt /\ nxt \in {"none", "propose", "backtest", "retry"}
      /\ ResearchSave(t, TRUE, ResearchNoOp)
  BY DEF Finish, ResearchInv, ResearchOps
<1>2. NextIsReady(Reduced(t), nxt, job.st)  OBVIOUS
<1> HIDE DEF nxt
<1> QED  BY <1>1, <1>2, EndKeepsResearch

\* An operation that writes and goes on.
LEMMA GoKeepsResearch ==
    ASSUME ResearchInv, researchOp # ResearchNoOp, Others, NEW t, IsWrite(t),
           NEW pc \in ResearchSteps, pc # "publish" \/ Reduced(t).status # "cancelled",
           Go(t, pc), NextIsReady(Reduced(t), next, job.st),
           StepRelies(Reduced(t), pc, researchOp.then, researchGhost.sends, job.st),
           next # "none" => pc \notin ProposeSteps \cup RunSteps \cup {"retry"}
    PROVE  ResearchInv'
<1> DEFINE r == Reduced(t)
<1>1. /\ TaskRecord(r, researchGhost.sends, job.st)
      /\ r.status = "cancelled" => task.status = "cancelled"
  BY ReducedRecord
<1>2. researchOp \in ResearchOps /\ owned /\ NextIsReady(task, next, job.st)  BY DEF ResearchInv
<1>3. /\ job' = job /\ rep' = rep /\ cancel' = cancel /\ next' = next
      /\ \/ task' = r /\ owned' = TRUE /\ Saw(r) /\ researchOp' = ResearchAt(pc)
         \/ /\ task' \in {task, r} /\ owned' = owned /\ researchOp' = ResearchNoOp
            /\ researchGhost' = [researchGhost EXCEPT !.faults = @ + 1, !.lost = TRUE]
  BY DEF Go, ResearchSave, Others
<1>4. /\ researchGhost' = [sends |-> researchGhost'.sends, faults |-> researchGhost'.faults,
                           reports |-> researchGhost'.reports, was |-> researchGhost'.was,
                           lost |-> researchGhost'.lost]
      /\ researchGhost'.sends = researchGhost.sends /\ researchGhost'.lost \in BOOLEAN
      /\ researchOp' = ResearchNoOp => researchGhost'.lost
  <2>1. ResearchAt(pc).pc # "none"
    BY <1>2 DEF ResearchAt, ResearchOps, ResearchSteps, ProposeSteps, RunSteps, InterpretSteps, BindSteps
  <2>2. ResearchAt(pc) # ResearchNoOp  BY <2>1 DEF ResearchNoOp
  <2> QED  BY <1>3, <2>2 DEF Saw, ResearchInv
<1>5. /\ researchOp' # ResearchNoOp => /\ task' = r /\ researchOp' \in ResearchOps
                                       /\ researchOp'.pc = pc /\ researchOp'.then = researchOp.then
      /\ owned'
  BY <1>2, <1>3 DEF ResearchAt, ResearchOps
<1>6. TaskRecord(task, researchGhost.sends, job.st)  BY DEF ResearchInv
<1>7. /\ NextIsReady(r, next, job.st)
      /\ StepRelies(r, pc, researchOp.then, researchGhost.sends, job.st)
      /\ pc # "publish" \/ r.status # "cancelled"
  OBVIOUS
<1> HIDE DEF r
<1>8. TaskRecord(task', researchGhost'.sends, job'.st)  BY <1>1, <1>3, <1>4, <1>6
<1>9. NextIsReady(task', next', job'.st) \/ researchOp' = ResearchNoOp  BY <1>3, <1>5, <1>7
<1>10. researchOp' # ResearchNoOp
          => StepRelies(task', researchOp'.pc, researchOp'.then, researchGhost'.sends, job'.st)
  BY <1>3, <1>4, <1>5, <1>7
<1>11. cancel' = "answered" /\ task'.status = "cancelled" =>
          job'.st # "accepted" /\ (researchOp' # ResearchNoOp => researchOp'.pc # "publish")
  BY <1>1, <1>3, <1>5, <1>7 DEF ResearchInv
<1> QED  BY <1>3, <1>4, <1>5, <1>8, <1>9, <1>10, <1>11 DEF ResearchInv, OwnerIsLive

\* An operation that reads and goes on, having noted the report it saw.
LEMMA MoveKeepsResearch ==
    ASSUME ResearchInv, researchOp # ResearchNoOp, Others, NEW pc \in ResearchSteps, NEW n \in Nat,
           researchOp' = [ResearchAt(pc) EXCEPT !.rep = n],
           UNCHANGED <<task, owned, next, researchGhost>>,
           pc # "publish" \/ task.status # "cancelled",
           StepRelies(task, pc, researchOp.then, researchGhost.sends, job.st),
           next # "none" => pc \notin ProposeSteps \cup RunSteps \cup {"retry"}
    PROVE  ResearchInv'
<1>1. researchOp \in ResearchOps /\ owned /\ NextIsReady(task, next, job.st)  BY DEF ResearchInv
<1>2. researchOp' \in ResearchOps /\ researchOp'.pc = pc /\ researchOp'.then = researchOp.then
  BY <1>1 DEF ResearchAt, ResearchOps
<1>3. researchOp' # ResearchNoOp
  BY <1>2 DEF ResearchNoOp, ResearchOps, ResearchSteps, ProposeSteps, RunSteps, InterpretSteps, BindSteps
<1>4. job' = job /\ rep' = rep /\ cancel' = cancel  BY DEF Others
<1> QED  BY <1>1, <1>2, <1>3, <1>4 DEF ResearchInv, OwnerIsLive

\* Going on without having noted anything.
LEMMA StepKeepsResearch ==
    ASSUME ResearchInv, researchOp # ResearchNoOp, Others, NEW pc \in ResearchSteps,
           researchOp' = ResearchAt(pc), UNCHANGED <<task, owned, next, researchGhost>>,
           pc # "publish" \/ task.status # "cancelled",
           StepRelies(task, pc, researchOp.then, researchGhost.sends, job.st),
           next # "none" => pc \notin ProposeSteps \cup RunSteps \cup {"retry"}
    PROVE  ResearchInv'
<1>1. researchOp \in ResearchOps  BY DEF ResearchInv
<1>2. /\ ResearchAt(pc) = [ResearchAt(pc) EXCEPT !.rep = researchOp.rep]
      /\ researchOp.rep \in Nat
  BY <1>1 DEF ResearchAt, ResearchOps
<1> QED  BY <1>2, MoveKeepsResearch
-----------------------------------------------------------------------------
(* What each write of a research task changes.                             *)

Whole(t) ==
    t = [kind |-> t.kind, status |-> t.status, draft |-> t.draft, conf |-> t.conf,
         calls |-> t.calls, spent |-> t.spent, res |-> t.res, runs |-> t.runs,
         bres |-> t.bres, bound |-> t.bound, err |-> t.err, step |-> t.step,
         last |-> t.last, evid |-> t.evid, concl |-> t.concl, ierr |-> t.ierr]
KeepsSpec(t) == t.kind = task.kind /\ t.draft = task.draft /\ t.conf = task.conf
KeepsReading(t) == t.evid = task.evid /\ t.concl = task.concl
KeepsCalls(t) == t.calls = task.calls /\ t.spent = task.spent /\ t.res = task.res /\ t.last = task.last
KeepsRuns(t) == t.runs = task.runs /\ t.bres = task.bres /\ t.bound = task.bound
KeepsStatus(t) == t.status = task.status /\ t.err = task.err /\ t.step = task.step

LEMMA FailedWrites ==
    ASSUME TaskShape(task), NEW err, NEW step
    PROVE  LET t == Failed(err, step)
           IN  /\ Whole(t) /\ KeepsSpec(t) /\ KeepsReading(t) /\ KeepsCalls(t) /\ KeepsRuns(t)
               /\ t.status = "failed" /\ t.err = err /\ t.step = step
<1> SUFFICES ASSUME NEW t, t = Failed(err, step)
             PROVE  /\ Whole(t) /\ KeepsSpec(t) /\ KeepsReading(t) /\ KeepsCalls(t) /\ KeepsRuns(t)
                    /\ t.status = "failed" /\ t.err = err /\ t.step = step
  OBVIOUS
<1>1. Whole(task)  BY DEF TaskShape, Whole
<1> QED  BY <1>1 DEF Failed, Whole, KeepsSpec, KeepsReading, KeepsCalls, KeepsRuns

LEMMA TaskKeeps ==
    ASSUME TaskShape(task)
    PROVE  /\ Whole(task) /\ KeepsSpec(task) /\ KeepsReading(task) /\ KeepsCalls(task)
           /\ KeepsRuns(task) /\ KeepsStatus(task)
<1>1. Whole(task)  BY DEF TaskShape, Whole
<1> QED  BY <1>1 DEF Whole, KeepsSpec, KeepsReading, KeepsCalls, KeepsRuns, KeepsStatus

LEMMA ReserveWrites ==
    ASSUME TaskShape(task)
    PROVE  LET t == ReserveCall(task)
           IN  /\ Whole(t) /\ KeepsSpec(t) /\ KeepsReading(t) /\ KeepsRuns(t) /\ KeepsStatus(t)
               /\ t.calls = task.calls + 1 /\ t.spent = task.spent /\ t.last = task.last
               /\ t.res = [st |-> "pending", seq |-> task.spent + 1]
<1> SUFFICES ASSUME NEW t, t = ReserveCall(task)
             PROVE  /\ Whole(t) /\ KeepsSpec(t) /\ KeepsReading(t) /\ KeepsRuns(t) /\ KeepsStatus(t)
                    /\ t.calls = task.calls + 1 /\ t.spent = task.spent /\ t.last = task.last
                    /\ t.res = [st |-> "pending", seq |-> task.spent + 1]
  OBVIOUS
<1>1. Whole(task)  BY DEF TaskShape, Whole
<1> QED  BY <1>1 DEF ReserveCall, Whole, KeepsSpec, KeepsReading, KeepsRuns, KeepsStatus

LEMMA DispatchWrites ==
    ASSUME TaskShape(task), task.res.st # "none"
    PROVE  LET t == [task EXCEPT !.res.st = "dispatched"]
           IN  /\ Whole(t) /\ KeepsSpec(t) /\ KeepsReading(t) /\ KeepsRuns(t) /\ KeepsStatus(t)
               /\ t.calls = task.calls /\ t.spent = task.spent /\ t.last = task.last
               /\ t.res = [st |-> "dispatched", seq |-> task.res.seq]
<1> SUFFICES ASSUME NEW t, t = [task EXCEPT !.res.st = "dispatched"]
             PROVE  /\ Whole(t) /\ KeepsSpec(t) /\ KeepsReading(t) /\ KeepsRuns(t) /\ KeepsStatus(t)
                    /\ t.calls = task.calls /\ t.spent = task.spent /\ t.last = task.last
                    /\ t.res = [st |-> "dispatched", seq |-> task.res.seq]
  OBVIOUS
<1>1. task.res = [st |-> task.res.st, seq |-> task.res.seq]
  BY DEF TaskShape, ModelCalls, ResearchNoCall
<1>2. [task.res EXCEPT !.st = "dispatched"] = [st |-> "dispatched", seq |-> task.res.seq]
  BY <1>1
<1> QED
  BY <1>2 DEF TaskShape, Whole, KeepsSpec, KeepsReading, KeepsRuns, KeepsStatus

LEMMA RefundWrites ==
    ASSUME TaskShape(task)
    PROVE  LET t == Refunded(task)
           IN  /\ Whole(t) /\ KeepsSpec(t) /\ KeepsReading(t) /\ KeepsRuns(t) /\ KeepsStatus(t)
               /\ t.calls = task.calls - 1 /\ t.spent = task.spent /\ t.last = task.last
               /\ t.res = ResearchNoCall
<1> SUFFICES ASSUME NEW t, t = Refunded(task)
             PROVE  /\ Whole(t) /\ KeepsSpec(t) /\ KeepsReading(t) /\ KeepsRuns(t) /\ KeepsStatus(t)
                    /\ t.calls = task.calls - 1 /\ t.spent = task.spent /\ t.last = task.last
                    /\ t.res = ResearchNoCall
  OBVIOUS
<1>1. Whole(task)  BY DEF TaskShape, Whole
<1> QED  BY <1>1 DEF Refunded, Whole, KeepsSpec, KeepsReading, KeepsRuns, KeepsStatus

LEMMA SettleWrites ==
    ASSUME TaskShape(task), task.res # ResearchNoCall, NEW outcome
    PROVE  LET t == Settled(task, outcome)
           IN  /\ Whole(t) /\ KeepsSpec(t) /\ KeepsReading(t) /\ KeepsRuns(t) /\ KeepsStatus(t)
               /\ t.calls = task.calls /\ t.spent = task.res.seq /\ t.last = outcome
               /\ t.res = ResearchNoCall
<1> SUFFICES ASSUME NEW t, t = Settled(task, outcome)
             PROVE  /\ Whole(t) /\ KeepsSpec(t) /\ KeepsReading(t) /\ KeepsRuns(t) /\ KeepsStatus(t)
                    /\ t.calls = task.calls /\ t.spent = task.res.seq /\ t.last = outcome
                    /\ t.res = ResearchNoCall
  OBVIOUS
<1>1. Whole(task)  BY DEF TaskShape, Whole
<1> QED  BY <1>1 DEF Settled, Whole, KeepsSpec, KeepsReading, KeepsRuns, KeepsStatus

LEMMA ErrorWrites ==
    ASSUME NEW d, Whole(d), NEW err, NEW step
    PROVE  LET t == WithError(d, err, step)
           IN  /\ Whole(t)
               /\ KeepsSpec(d) => KeepsSpec(t)
               /\ KeepsReading(d) => KeepsReading(t)
               /\ KeepsRuns(d) => KeepsRuns(t)
               /\ t.calls = d.calls /\ t.spent = d.spent /\ t.last = d.last /\ t.res = d.res
               /\ \/ t.status = d.status /\ t.err = d.err /\ t.step = d.step
                  \/ t.status = "failed" /\ t.err = err /\ t.step = step
<1> DEFINE v == [d EXCEPT !.status = "failed", !.err = err, !.step = step]
<1> PICK u : u = v  OBVIOUS
<1>1. /\ Whole(u) /\ u.status = "failed" /\ u.err = err /\ u.step = step
      /\ u.calls = d.calls /\ u.spent = d.spent /\ u.last = d.last /\ u.res = d.res
      /\ u.kind = d.kind /\ u.draft = d.draft /\ u.conf = d.conf /\ u.evid = d.evid
      /\ u.concl = d.concl /\ u.runs = d.runs /\ u.bres = d.bres /\ u.bound = d.bound
  BY DEF Whole
<1>2. WithError(d, err, step) \in {d, u}  BY DEF WithError
<1> QED  BY <1>1, <1>2 DEF KeepsSpec, KeepsReading, KeepsRuns
\* The names of the steps are what tells them apart.
LEMMA StepNames ==
    /\ ResearchSteps = {"reserve", "dispatch", "call", "unknown", "observed", "tools", "start",
         "breserve", "bdispatch", "submit", "publish", "refused", "ireserve", "idispatch",
         "icall", "iunknown", "concluded", "ifail", "publishc", "recover", "bind", "state",
         "confirm", "edit", "editw", "interpret", "reconcile", "rfail", "retry"}
BY DEF ResearchSteps, ProposeSteps, RunSteps, InterpretSteps, BindSteps

LEMMA ReserveKeepsResearch ==
    ASSUME ResearchInv, ProposeReserve PROVE ResearchInv'
<1>1. ResearchDoing("reserve") /\ Others  BY DEF ProposeReserve
<1>2. /\ researchOp # ResearchNoOp /\ researchOp \in ResearchOps
      /\ StepRelies(task, "reserve", researchOp.then, researchGhost.sends, job.st)
      /\ next = "none" /\ TaskRecord(task, researchGhost.sends, job.st)
  BY <1>1, AtAStep, StepNames DEF ProposeSteps
<1>3. /\ ~task.conf /\ ~task.draft /\ task.last # "unknown" /\ task.res = ResearchNoCall
      /\ researchOp.then = "none"
  BY <1>2 DEF StepRelies, TaskRecord, TaskShape, ModelCalls, ResearchOps, ProposeSteps,
     InterpretSteps, BindSteps
<1>4. CASE task.status = "cancelled"
  <2>1. Finish(task) /\ IsWrite(task)
    BY <1>1, <1>2, <1>3, <1>4 DEF ProposeReserve, Noop, IsWrite
  <2> QED  BY <1>1, <1>2, <1>3, <2>1, FinishKeepsResearch DEF NextIsReady
<1>5. CASE task.status # "cancelled" /\ task.calls + 1 >= MaxCalls
  <2> DEFINE t == Failed("retry", "propose")
  <2>1. Finish(t)  BY <1>3, <1>5 DEF ProposeReserve
  <2>2. IsWrite(t)
    <3>1. /\ Whole(t) /\ KeepsSpec(t) /\ KeepsReading(t) /\ KeepsCalls(t) /\ KeepsRuns(t)
          /\ t.status = "failed" /\ t.err = "retry" /\ t.step = "propose"
      BY <1>2, FailedWrites DEF TaskRecord
    <3> HIDE DEF t
    <3> QED
      BY <1>2, <1>3, <1>5, <3>1 DEF IsWrite, TaskRecord, TaskShape, Whole, KeepsSpec,
         KeepsReading, KeepsCalls, KeepsRuns, CallsAreCharged, RunsAreCharged, TaskPhase,
         TaskStatuses
  <2> QED  BY <1>1, <1>2, <1>3, <2>1, <2>2, FinishKeepsResearch DEF NextIsReady
<1>6. CASE task.status # "cancelled" /\ ~(task.calls + 1 >= MaxCalls)
  <2> DEFINE t == ReserveCall(task)
  <2>1. Go(t, "dispatch")  BY <1>3, <1>6 DEF ProposeReserve
  <2>2. /\ Whole(t) /\ KeepsSpec(t) /\ KeepsReading(t) /\ KeepsRuns(t) /\ KeepsStatus(t)
        /\ t.calls = task.calls + 1 /\ t.spent = task.spent /\ t.last = task.last
        /\ t.res = [st |-> "pending", seq |-> task.spent + 1]
    BY <1>2, ReserveWrites DEF TaskRecord
  <2>3. Reduced(t) = t  BY <1>6 DEF Reduced
  <2> HIDE DEF t
  <2>4. IsWrite(t)
    BY <1>2, <1>3, <1>6, <2>2, ResearchAssumption DEF IsWrite, TaskRecord, TaskShape, Whole,
       KeepsSpec, KeepsReading, KeepsStatus, KeepsRuns, CallsAreCharged, RunsAreCharged, TaskPhase,
       ModelCalls, ResearchNoCall
  <2>5. StepRelies(t, "dispatch", researchOp.then, researchGhost.sends, job.st)
    BY <1>3, <2>2 DEF StepRelies, ProposeSteps, RunSteps, InterpretSteps, KeepsSpec
  <2> QED
    BY <1>1, <1>2, <2>1, <2>3, <2>4, <2>5, GoKeepsResearch, StepNames DEF NextIsReady
<1> QED  BY <1>4, <1>5, <1>6
\* What the caller's next operation is once this one has finished.
ThenNext == IF researchOp.then = "none" THEN next ELSE researchOp.then

\* Reading the record and writing it back changes nothing.
LEMMA NoopKeepsResearch ==
    ASSUME ResearchInv, researchOp # ResearchNoOp, Others, Noop,
           NextIsReady(task, ThenNext, job.st)
    PROVE  ResearchInv'
<1>1. TaskShape(task) /\ TaskRecord(task, researchGhost.sends, job.st)
  BY DEF ResearchInv, TaskRecord
<1>2. IsWrite(task)
  BY <1>1 DEF IsWrite, TaskRecord, TaskPhase
<1>3. Reduced(task) = task
  BY <1>1, ReducedFields, TaskKeeps DEF Whole
<1> QED  BY <1>2, <1>3, FinishKeepsResearch DEF Noop, ThenNext

\* The record after a write that keeps the spec.
LEMMA ReducedKeeps ==
    ASSUME TaskShape(task), NEW t, KeepsSpec(t)
    PROVE  LET r == Reduced(t)
           IN  /\ r.calls = t.calls /\ r.spent = t.spent /\ r.last = t.last /\ r.res = t.res
               /\ r.bound = t.bound /\ r.bres = t.bres /\ r.runs = t.runs /\ KeepsSpec(r)
               /\ r.status = IF task.status = "cancelled" THEN "cancelled" ELSE t.status
BY ReducedFields DEF KeepsSpec

\* A failure of a step whose call is settled.
LEMMA FailureKeepsResearch ==
    ASSUME ResearchInv, researchOp # ResearchNoOp, Others, NEW err, NEW step,
           Finish(Failed(err, step)), ~task.draft, task.res.st = "none",
           step # "propose" => task.conf,
           task.conf /\ err = "retry" /\ task.kind = "legacy" => step = "backtest",
           NextIsReady(task, ThenNext, job.st)
    PROVE  ResearchInv'
<1> DEFINE t == Failed(err, step)
<1>1. TaskShape(task) /\ TaskRecord(task, researchGhost.sends, job.st)
  BY DEF ResearchInv, TaskRecord
<1>2. /\ Whole(t) /\ KeepsSpec(t) /\ KeepsReading(t) /\ KeepsCalls(t) /\ KeepsRuns(t)
      /\ t.status = "failed" /\ t.err = err /\ t.step = step
  BY <1>1, FailedWrites
<1>3. Finish(t)  OBVIOUS
<1> HIDE DEF t
<1>4. IsWrite(t)
  BY <1>1, <1>2 DEF IsWrite, TaskRecord, TaskShape, Whole, KeepsSpec, KeepsReading, KeepsCalls,
     KeepsRuns, CallsAreCharged, RunsAreCharged, TaskPhase, TaskStatuses
<1>5. NextIsReady(Reduced(t), ThenNext, job.st)
  BY <1>1, <1>2, ReducedKeeps DEF NextIsReady, KeepsSpec, KeepsCalls, KeepsRuns
<1> QED  BY <1>3, <1>4, <1>5, FinishKeepsResearch DEF ThenNext

\* A write that changes the reservation and nothing else, or fails the task with it.
LEMMA CallWriteIsWrite ==
    ASSUME ResearchInv, NEW t, Whole(t), KeepsSpec(t), KeepsReading(t), KeepsRuns(t),
           ~task.conf, ~task.draft,
           \/ t.status = task.status /\ t.step = task.step
           \/ t.status = "failed" /\ t.step = "propose",
           {t.calls, t.spent} \subseteq Nat, t.res \in ModelCalls,
           CallsAreCharged(t, researchGhost.sends)
    PROVE  IsWrite(t)
<1>1. TaskRecord(task, researchGhost.sends, job.st)  BY DEF ResearchInv
<1>2. TaskShape(t)
  BY <1>1 DEF TaskRecord, TaskShape, Whole, KeepsSpec, KeepsReading, KeepsRuns, TaskStatuses
<1>3. RunsAreCharged(t, job.st)
  BY <1>1 DEF TaskRecord, RunsAreCharged, KeepsRuns
<1>4. TaskPhase(t, job.st)
  BY <1>1 DEF TaskRecord, TaskPhase, KeepsSpec, KeepsReading, KeepsRuns
<1> QED
  BY <1>1, <1>2, <1>3, <1>4 DEF IsWrite, TaskRecord, KeepsSpec, KeepsReading

LEMMA DispatchKeepsResearch ==
    ASSUME ResearchInv, ProposeDispatch PROVE ResearchInv'
<1>1. ResearchDoing("dispatch") /\ Others  BY DEF ProposeDispatch
<1>2. /\ researchOp # ResearchNoOp /\ researchOp \in ResearchOps
      /\ StepRelies(task, "dispatch", researchOp.then, researchGhost.sends, job.st)
      /\ next = "none" /\ TaskRecord(task, researchGhost.sends, job.st)
  BY <1>1, AtAStep, StepNames DEF ProposeSteps
<1>3. /\ ~task.conf /\ ~task.draft /\ task.last # "unknown" /\ task.res.st = "pending"
      /\ researchOp.then = "none" /\ ReleasePending(task) = Refunded(task) /\ TaskShape(task)
  BY <1>2 DEF StepRelies, TaskRecord, ResearchOps, ProposeSteps, InterpretSteps, BindSteps,
     ReleasePending
<1>4. /\ task.calls = task.spent + 1 /\ researchGhost.sends <= task.spent /\ task.calls <= MaxCalls
      /\ task.calls \in Nat /\ task.spent \in Nat /\ task.res.seq = task.spent + 1
      /\ researchGhost.sends \in Nat
  BY <1>2, <1>3 DEF ResearchInv, TaskRecord, CallsAreCharged, TaskShape
<1>5. ASSUME Finish(ReleasePending(task)) PROVE ResearchInv'
  <2> DEFINE t == Refunded(task)
  <2>1. /\ Whole(t) /\ KeepsSpec(t) /\ KeepsReading(t) /\ KeepsRuns(t) /\ KeepsStatus(t)
        /\ t.calls = task.calls - 1 /\ t.spent = task.spent /\ t.last = task.last
        /\ t.res = ResearchNoCall
    BY <1>3, RefundWrites
  <2>2. Finish(t)  BY <1>3, <1>5
  <2> HIDE DEF t
  <2>3. IsWrite(t)
    BY <1>3, <1>4, <2>1, CallWriteIsWrite, ResearchAssumption
       DEF CallsAreCharged, ResearchNoCall, ModelCalls, KeepsStatus
  <2> QED  BY <1>1, <1>2, <1>3, <2>2, <2>3, FinishKeepsResearch DEF NextIsReady
<1>6. ASSUME Finish(WithError(ReleasePending(task), "retry", "propose")) PROVE ResearchInv'
  <2> DEFINE d == Refunded(task)
             t == WithError(d, "retry", "propose")
  <2>1. /\ Whole(d) /\ KeepsSpec(d) /\ KeepsReading(d) /\ KeepsRuns(d) /\ KeepsStatus(d)
        /\ d.calls = task.calls - 1 /\ d.spent = task.spent /\ d.last = task.last
        /\ d.res = ResearchNoCall
    BY <1>3, RefundWrites
  <2>2. Finish(t)  BY <1>3, <1>6
  <2> HIDE DEF d
  <2>3. /\ Whole(t) /\ KeepsSpec(t) /\ KeepsReading(t) /\ KeepsRuns(t)
        /\ t.calls = d.calls /\ t.spent = d.spent /\ t.last = d.last /\ t.res = d.res
        /\ \/ t.status = d.status /\ t.err = d.err /\ t.step = d.step
           \/ t.status = "failed" /\ t.err = "retry" /\ t.step = "propose"
    BY <2>1, ErrorWrites
  <2> HIDE DEF t
  <2>4. IsWrite(t)
    BY <1>3, <1>4, <2>1, <2>3, CallWriteIsWrite, ResearchAssumption
       DEF CallsAreCharged, ResearchNoCall, ModelCalls, KeepsStatus
  <2> QED  BY <1>1, <1>2, <1>3, <2>2, <2>4, FinishKeepsResearch DEF NextIsReady
<1>7. ASSUME Go([task EXCEPT !.res.st = "dispatched"], "call"), task.status # "cancelled"
      PROVE  ResearchInv'
  <2> DEFINE t == [task EXCEPT !.res.st = "dispatched"]
  <2>1. /\ Whole(t) /\ KeepsSpec(t) /\ KeepsReading(t) /\ KeepsRuns(t) /\ KeepsStatus(t)
        /\ t.calls = task.calls /\ t.spent = task.spent /\ t.last = task.last
        /\ t.res = [st |-> "dispatched", seq |-> task.res.seq]
    BY <1>3, DispatchWrites
  <2>2. Go(t, "call")  BY <1>7
  <2>3. Reduced(t) = t  BY <1>7 DEF Reduced
  <2> HIDE DEF t
  <2>4. IsWrite(t)
    <3>1. t.res \in ModelCalls /\ {t.calls, t.spent} \subseteq Nat
      BY <1>4, <2>1 DEF ModelCalls
    <3>2. CallsAreCharged(t, researchGhost.sends)
      BY <1>3, <1>4, <2>1, ResearchAssumption DEF CallsAreCharged
    <3> QED  BY <1>3, <2>1, <3>1, <3>2, CallWriteIsWrite DEF KeepsStatus
  <2>5. StepRelies(t, "call", researchOp.then, researchGhost.sends, job.st)
    BY <1>3, <1>4, <2>1 DEF StepRelies, ProposeSteps, RunSteps, InterpretSteps, KeepsSpec
  <2> QED
    BY <1>1, <1>2, <2>2, <2>3, <2>4, <2>5, GoKeepsResearch, StepNames DEF NextIsReady
<1> QED  BY <1>5, <1>6, <1>7 DEF ProposeDispatch
\* A proposal is made before a spec is confirmed, and nothing else is asked for.
LEMMA ProposalAt ==
    ASSUME ResearchInv, NEW pc \in ProposeSteps, ResearchDoing(pc)
    PROVE  /\ researchOp # ResearchNoOp /\ researchOp \in ResearchOps
           /\ StepRelies(task, pc, researchOp.then, researchGhost.sends, job.st)
           /\ next = "none" /\ ThenNext = "none" /\ researchOp.then = "none" /\ ~task.conf /\ ~task.draft
           /\ TaskRecord(task, researchGhost.sends, job.st) /\ TaskShape(task)
           /\ task.calls \in Nat /\ task.spent \in Nat /\ researchGhost.sends \in Nat
           /\ task.calls <= MaxCalls
           /\ \A t, jst : NextIsReady(t, "none", jst)
<1>1. pc \in ResearchSteps  BY DEF ResearchSteps
<1>2. /\ researchOp # ResearchNoOp /\ researchOp \in ResearchOps
      /\ StepRelies(task, pc, researchOp.then, researchGhost.sends, job.st)
      /\ next = "none" /\ TaskRecord(task, researchGhost.sends, job.st)
  BY <1>1, AtAStep
<1>3. ~task.conf /\ ~task.draft  BY <1>2 DEF StepRelies
<1>4. researchOp.then = "none"
  BY <1>2 DEF StepRelies, ResearchOps, ProposeSteps, InterpretSteps, BindSteps
<1>5. /\ TaskShape(task) /\ task.calls \in Nat /\ task.spent \in Nat
      /\ researchGhost.sends \in Nat /\ task.calls <= MaxCalls
  BY <1>2 DEF TaskRecord, TaskShape, CallsAreCharged, ResearchInv
<1> QED  BY <1>2, <1>3, <1>4, <1>5 DEF NextIsReady, ThenNext

\* A call that leaves is counted against the reservation that was dispatched for it.
LEMMA CalledKeepsResearch ==
    ASSUME ResearchInv, researchOp # ResearchNoOp, Others, Called,
           task.res.st = "dispatched", researchGhost.sends <= task.spent,
           NEW pc \in ResearchSteps, researchOp' = ResearchAt(pc), pc # "publish",
           UNCHANGED <<task, owned, next>>,
           pc \notin {"call", "icall"},
           StepRelies(task, pc, researchOp.then, researchGhost.sends, job.st),
           next # "none" => pc \notin ProposeSteps \cup RunSteps \cup {"retry"}
    PROVE  ResearchInv'
<1>1. /\ researchOp \in ResearchOps /\ owned /\ NextIsReady(task, next, job.st)
      /\ TaskRecord(task, researchGhost.sends, job.st) /\ researchGhost.sends \in Nat
      /\ task.spent \in Nat
  BY DEF ResearchInv, TaskRecord, TaskShape
<1>2. researchOp' \in ResearchOps /\ researchOp'.pc = pc /\ researchOp'.then = researchOp.then
  BY <1>1 DEF ResearchAt, ResearchOps
<1>3. researchOp' # ResearchNoOp
  BY <1>2 DEF ResearchNoOp, ResearchOps, ResearchSteps, ProposeSteps, RunSteps, InterpretSteps, BindSteps
<1>4. job' = job /\ rep' = rep /\ cancel' = cancel  BY DEF Others
<1>5. /\ researchGhost' = [sends |-> researchGhost'.sends, faults |-> researchGhost'.faults,
                           reports |-> researchGhost'.reports, was |-> researchGhost'.was,
                           lost |-> researchGhost'.lost]
      /\ researchGhost'.sends = researchGhost.sends + 1 /\ researchGhost'.lost = researchGhost.lost
  BY DEF Called, ResearchInv
<1>6. TaskRecord(task, researchGhost.sends + 1, job.st)
  BY <1>1 DEF TaskRecord, CallsAreCharged
<1>7. StepRelies(task, pc, researchOp.then, researchGhost.sends + 1, job.st)
  BY DEF StepRelies
<1> QED  BY <1>1, <1>2, <1>3, <1>4, <1>5, <1>6, <1>7 DEF ResearchInv, OwnerIsLive

\* What the reservation's refund and its settlement leave of a proposal's charges.
LEMMA RefundedIsWrite ==
    ASSUME ResearchInv, ~task.conf, ~task.draft, task.res.st # "none",
           researchGhost.sends <= task.spent, NEW err,
           NEW t, t = WithError(Refunded(task), err, "propose")
    PROVE  IsWrite(t) /\ KeepsSpec(t)
<1>1. /\ TaskShape(task) /\ task.calls = task.spent + 1 /\ task.calls \in Nat /\ task.spent \in Nat
      /\ task.calls <= MaxCalls /\ researchGhost.sends \in Nat
  BY DEF ResearchInv, TaskRecord, TaskShape, CallsAreCharged
<1> DEFINE d == Refunded(task)
<1>2. /\ Whole(d) /\ KeepsSpec(d) /\ KeepsReading(d) /\ KeepsRuns(d) /\ KeepsStatus(d)
      /\ d.calls = task.calls - 1 /\ d.spent = task.spent /\ d.last = task.last
      /\ d.res = ResearchNoCall
  BY <1>1, RefundWrites
<1>3. t = WithError(d, err, "propose")  OBVIOUS
<1> HIDE DEF d
<1>4. /\ Whole(t) /\ KeepsSpec(t) /\ KeepsReading(t) /\ KeepsRuns(t)
      /\ t.calls = d.calls /\ t.spent = d.spent /\ t.last = d.last /\ t.res = d.res
      /\ \/ t.status = d.status /\ t.err = d.err /\ t.step = d.step
         \/ t.status = "failed" /\ t.err = err /\ t.step = "propose"
  BY <1>2, <1>3, ErrorWrites
<1>5. t.res \in ModelCalls /\ {t.calls, t.spent} \subseteq Nat
  BY <1>1, <1>2, <1>4 DEF ModelCalls
<1>6. CallsAreCharged(t, researchGhost.sends)
  BY <1>1, <1>2, <1>4, ResearchAssumption DEF CallsAreCharged, ResearchNoCall
<1> QED  BY <1>2, <1>4, <1>5, <1>6, CallWriteIsWrite DEF KeepsStatus

LEMMA SettledIsWrite ==
    ASSUME ResearchInv, ~task.conf, ~task.draft, task.res.st = "dispatched", NEW err, NEW outcome,
           NEW d, d = Settled(task, outcome), NEW t, t \in {d, WithError(d, err, "propose")}
    PROVE  /\ IsWrite(t) /\ KeepsSpec(t) /\ t.last = outcome /\ t.res = ResearchNoCall
           /\ t = d => t.status = task.status
<1>1. /\ TaskShape(task) /\ task.calls = task.spent + 1 /\ task.calls \in Nat /\ task.spent \in Nat
      /\ task.calls <= MaxCalls /\ researchGhost.sends \in Nat /\ task.res.seq = task.spent + 1
      /\ researchGhost.sends <= task.spent + 1
  BY DEF ResearchInv, TaskRecord, TaskShape, CallsAreCharged
<1>2. /\ Whole(d) /\ KeepsSpec(d) /\ KeepsReading(d) /\ KeepsRuns(d) /\ KeepsStatus(d)
      /\ d.calls = task.calls /\ d.spent = task.res.seq /\ d.last = outcome
      /\ d.res = ResearchNoCall
  BY <1>1, SettleWrites DEF ResearchNoCall
<1>3. /\ Whole(t) /\ KeepsSpec(t) /\ KeepsReading(t) /\ KeepsRuns(t)
      /\ t.calls = d.calls /\ t.spent = d.spent /\ t.last = d.last /\ t.res = d.res
      /\ \/ t.status = d.status /\ t.err = d.err /\ t.step = d.step
         \/ t.status = "failed" /\ t.err = err /\ t.step = "propose"
  BY <1>2, ErrorWrites
<1>4. t.res \in ModelCalls /\ {t.calls, t.spent} \subseteq Nat
  BY <1>1, <1>2, <1>3 DEF ModelCalls
<1>5. CallsAreCharged(t, researchGhost.sends)
  BY <1>1, <1>2, <1>3, ResearchAssumption DEF CallsAreCharged, ResearchNoCall
<1> QED  BY <1>2, <1>3, <1>4, <1>5, CallWriteIsWrite DEF KeepsStatus

LEMMA ProposeCallKeepsResearch ==
    ASSUME ResearchInv, ProposeCall PROVE ResearchInv'
<1>1. ResearchDoing("call") /\ Others /\ "call" \in ProposeSteps  BY DEF ProposeCall, ProposeSteps
<1>2. /\ task.res.st = "dispatched" /\ researchGhost.sends <= task.spent /\ task.last # "unknown"
  BY <1>1, ProposalAt DEF StepRelies
<1>3. ASSUME Called, NEW pc \in {"observed", "unknown"}, researchOp' = ResearchAt(pc),
             UNCHANGED <<task, owned, next>>
      PROVE  ResearchInv'
  <2>1. StepRelies(task, pc, researchOp.then, researchGhost.sends, job.st)
    BY <1>1, <1>2, ProposalAt DEF StepRelies, ProposeSteps, RunSteps, InterpretSteps
  <2> QED  BY <1>1, <1>2, <1>3, <2>1, ProposalAt, CalledKeepsResearch, StepNames
<1>4. ASSUME Finish(WithError(Refunded(task), "retry", "propose")) PROVE ResearchInv'
  <2> PICK t : t = WithError(Refunded(task), "retry", "propose")  OBVIOUS
  <2>1. IsWrite(t)  BY <1>1, <1>2, ProposalAt, RefundedIsWrite
  <2> QED  BY <1>1, <1>4, <2>1, ProposalAt, FinishKeepsResearch DEF ThenNext
<1> QED  BY <1>3, <1>4 DEF ProposeCall

LEMMA ProposeSettles ==
    ASSUME ResearchInv, ProposeUnknown \/ ProposeObserved PROVE ResearchInv'
<1>1. CASE ProposeUnknown
  <2>1. /\ ResearchDoing("unknown") /\ Others /\ "unknown" \in ProposeSteps
        /\ Finish(WithError(Settled(task, "unknown"), "retry", "propose"))
    BY <1>1 DEF ProposeUnknown, ProposeSteps
  <2>2. task.res.st = "dispatched"  BY <2>1, ProposalAt DEF StepRelies
  <2> PICK t : t = WithError(Settled(task, "unknown"), "retry", "propose")  OBVIOUS
  <2>3. IsWrite(t)  BY <2>1, <2>2, ProposalAt, SettledIsWrite
  <2> QED  BY <2>1, <2>3, ProposalAt, FinishKeepsResearch DEF ThenNext
<1>2. CASE ProposeObserved
  <2>1. /\ ResearchDoing("observed") /\ Others /\ {"observed", "tools"} \subseteq ProposeSteps
        /\ Go(Settled(task, "observed"), "tools")
    BY <1>2 DEF ProposeObserved, ProposeSteps
  <2>2. task.res.st = "dispatched"  BY <2>1, ProposalAt DEF StepRelies
  <2> PICK t : t = Settled(task, "observed")  OBVIOUS
  <2>3. IsWrite(t) /\ KeepsSpec(t) /\ t.last = "observed" /\ t.res = ResearchNoCall
    BY <2>1, <2>2, ProposalAt, SettledIsWrite
  <2>4. /\ KeepsSpec(Reduced(t)) /\ Reduced(t).last = "observed" /\ Reduced(t).res.st = "none"
    BY <2>1, <2>3, ProposalAt, ReducedKeeps DEF ResearchNoCall
  <2>5. StepRelies(Reduced(t), "tools", researchOp.then, researchGhost.sends, job.st)
    BY <2>1, <2>4, ProposalAt DEF StepRelies, ProposeSteps, RunSteps, InterpretSteps, KeepsSpec
  <2> QED  BY <2>1, <2>3, <2>5, ProposalAt, GoKeepsResearch, StepNames
<1> QED  BY <1>1, <1>2
\* An exception of a cancelled task's operation.
LEMMA RaiseKeepsResearch ==
    ASSUME ResearchInv, researchOp # ResearchNoOp, Others, Raise, task.status = "cancelled"
    PROVE  ResearchInv'
BY DEF ResearchInv, Raise, Others, OwnerIsLive

LEMMA ToolsKeepResearch ==
    ASSUME ResearchInv, ProposeTools PROVE ResearchInv'
<1>1. ResearchDoing("tools") /\ Others /\ {"tools", "reserve"} \subseteq ProposeSteps
  BY DEF ProposeTools, ProposeSteps
<1>2. task.last = "observed" /\ task.res.st = "none"
  BY <1>1, ProposalAt DEF StepRelies
<1>3. CASE task.status = "cancelled"
  BY <1>1, <1>3, ProposalAt, NoopKeepsResearch DEF ProposeTools
<1>4. ASSUME task.status # "cancelled", NEW t,
             \/ t = [task EXCEPT !.status = "awaiting_confirmation", !.err = "none", !.draft = TRUE]
             \/ t = [task EXCEPT !.status = "unsupported", !.err = "none"],
             Finish(t)
      PROVE  ResearchInv'
  <2>1. /\ Whole(t) /\ t.kind = task.kind /\ t.conf = task.conf /\ KeepsReading(t)
        /\ KeepsCalls(t) /\ KeepsRuns(t)
        /\ \/ t.status = "awaiting_confirmation" /\ t.draft
           \/ t.status = "unsupported" /\ t.draft = task.draft
        /\ t.draft \in BOOLEAN
    <3>1. Whole(task) /\ task.draft \in BOOLEAN
      BY <1>1, ProposalAt, TaskKeeps DEF TaskShape
    <3> QED  BY <1>4, <3>1 DEF Whole, KeepsReading, KeepsCalls, KeepsRuns
  <2>2. TaskRecord(task, researchGhost.sends, job.st) /\ ~task.conf /\ ~task.draft
    BY <1>1, ProposalAt
  <2>3. TaskShape(t)
    BY <2>1, <2>2 DEF TaskRecord, TaskShape, Whole, KeepsReading, KeepsCalls, KeepsRuns, TaskStatuses
  <2>4. CallsAreCharged(t, researchGhost.sends) /\ RunsAreCharged(t, job.st)
    BY <2>1, <2>2 DEF TaskRecord, CallsAreCharged, RunsAreCharged, KeepsCalls, KeepsRuns
  <2>5. TaskPhase(t, job.st)
    BY <1>2, <2>1, <2>2 DEF TaskRecord, TaskPhase, KeepsReading, KeepsCalls, KeepsRuns
  <2>6. IsWrite(t)
    BY <1>4, <2>1, <2>3, <2>4, <2>5 DEF IsWrite, TaskRecord
  <2> QED  BY <1>1, <1>4, <2>6, ProposalAt, FinishKeepsResearch DEF ThenNext
<1>5. ASSUME researchOp' = ResearchAt("reserve"), UNCHANGED <<task, owned, next, researchGhost>>
      PROVE  ResearchInv'
  <2>1. StepRelies(task, "reserve", researchOp.then, researchGhost.sends, job.st)
    BY <1>1, <1>2, ProposalAt DEF StepRelies, ProposeSteps, RunSteps, InterpretSteps
  <2> QED  BY <1>1, <1>5, <2>1, ProposalAt, StepKeepsResearch, StepNames
<1>6. ASSUME Finish(Failed("retry", "propose")) PROVE ResearchInv'
  BY <1>1, <1>2, <1>6, ProposalAt, FailureKeepsResearch
<1> QED
  <2>1. CASE task.status # "cancelled"
    <3>1. CASE Finish([task EXCEPT !.status = "awaiting_confirmation", !.err = "none", !.draft = TRUE])
      BY <1>4, <2>1, <3>1
    <3>2. CASE Finish([task EXCEPT !.status = "unsupported", !.err = "none"])
      BY <1>4, <2>1, <3>2
    <3> QED  BY <1>5, <1>6, <2>1, <3>1, <3>2 DEF ProposeTools
  <2> QED  BY <1>3, <2>1

LEMMA ConfirmKeepsResearch ==
    ASSUME ResearchInv, Confirm PROVE ResearchInv'
<1>1. ResearchDoing("confirm") /\ Others /\ "confirm" \in ResearchSteps
  BY StepNames DEF Confirm
<1>2. /\ researchOp # ResearchNoOp /\ researchOp \in ResearchOps
      /\ TaskRecord(task, researchGhost.sends, job.st) /\ TaskShape(task)
      /\ StepRelies(task, "confirm", researchOp.then, researchGhost.sends, job.st)
      /\ NextIsReady(task, next, job.st) /\ next \in {"none", "propose", "backtest", "retry"}
  BY <1>1, AtAStep DEF TaskRecord, ResearchInv
<1>3. researchOp.then \in {"none", "backtest"}
  BY <1>2 DEF StepRelies, ResearchOps, InterpretSteps, BindSteps
<1>4. ASSUME task.draft, task.status # "cancelled", NEW t,
             t = [task EXCEPT !.draft = FALSE, !.conf = TRUE, !.status = "confirmed", !.err = "none"],
             Finish(t)
      PROVE  ResearchInv'
  <2>1. /\ Whole(t) /\ t.kind = task.kind /\ t.conf = TRUE /\ t.draft = FALSE
        /\ KeepsReading(t) /\ KeepsCalls(t) /\ KeepsRuns(t) /\ t.status = "confirmed"
    <3>1. Whole(task)  BY <1>2, TaskKeeps
    <3> QED  BY <1>4, <3>1 DEF Whole, KeepsReading, KeepsCalls, KeepsRuns
  <2>2. /\ ~task.conf /\ task.res.st = "none" /\ task.last = "observed" /\ job.st = "none"
        /\ task.bres = "none"
    BY <1>2, <1>4 DEF TaskRecord, TaskPhase
  <2>3. TaskShape(t)
    BY <1>2, <2>1 DEF TaskShape, Whole, KeepsReading, KeepsCalls, KeepsRuns, TaskStatuses
  <2>4. CallsAreCharged(t, researchGhost.sends) /\ RunsAreCharged(t, job.st)
    BY <1>2, <2>1 DEF TaskRecord, CallsAreCharged, RunsAreCharged, KeepsCalls, KeepsRuns
  <2>5. TaskPhase(t, job.st)
    BY <1>2, <2>1, <2>2 DEF TaskRecord, TaskPhase, KeepsReading, KeepsCalls, KeepsRuns
  <2>6. IsWrite(t) /\ Reduced(t) = t
    BY <1>4, <2>1, <2>3, <2>4, <2>5 DEF IsWrite, TaskRecord, Reduced
  <2>7. NextIsReady(t, ThenNext, job.st)
    BY <1>2, <1>3, <1>4, <2>1, <2>2 DEF NextIsReady, ThenNext, KeepsCalls, KeepsRuns
  <2> QED  BY <1>1, <1>2, <1>4, <2>6, <2>7, FinishKeepsResearch DEF ThenNext
<1>5. ASSUME ResearchSave(task, TRUE, ResearchNoOp), UNCHANGED next PROVE ResearchInv'
  <2>1. IsWrite(task)
    BY <1>2 DEF IsWrite, TaskRecord, TaskPhase
  <2>2. Reduced(task) = task
    BY <1>2, ReducedFields, TaskKeeps DEF Whole
  <2> QED  BY <1>1, <1>2, <1>5, <2>1, <2>2, EndKeepsResearch
<1> QED  BY <1>4, <1>5 DEF Confirm

LEMMA EditKeepsResearch ==
    ASSUME ResearchInv, EditRead \/ EditWrite PROVE ResearchInv'
<1>1. /\ Others /\ {"edit", "editw"} \subseteq ResearchSteps
      /\ ResearchDoing("edit") \/ ResearchDoing("editw")
  BY StepNames DEF EditRead, EditWrite
<1>2. /\ researchOp # ResearchNoOp /\ researchOp \in ResearchOps
      /\ TaskRecord(task, researchGhost.sends, job.st) /\ TaskShape(task)
      /\ NextIsReady(task, next, job.st) /\ researchOp.then = "none" /\ ThenNext = next
  <2>1. /\ researchOp # ResearchNoOp /\ researchOp \in ResearchOps
        /\ TaskRecord(task, researchGhost.sends, job.st) /\ TaskShape(task)
        /\ NextIsReady(task, next, job.st)
        /\ StepRelies(task, researchOp.pc, researchOp.then, researchGhost.sends, job.st)
        /\ researchOp.pc \in {"edit", "editw"}
    BY <1>1, AtAStep DEF TaskRecord
  <2> QED  BY <2>1 DEF StepRelies, ResearchOps, ThenNext, InterpretSteps, BindSteps
<1>3. CASE EditRead
  <2>1. ASSUME task.draft, researchOp' = ResearchAt("editw"), UNCHANGED <<task, owned, next, researchGhost>>
        PROVE  ResearchInv'
    <3>1. StepRelies(task, "editw", researchOp.then, researchGhost.sends, job.st)
      BY <1>2, <2>1 DEF StepRelies, ProposeSteps, RunSteps, InterpretSteps
    <3>2. "editw" \notin ProposeSteps \cup RunSteps \cup {"retry"}  BY DEF ProposeSteps, RunSteps
    <3> QED  BY <1>1, <1>2, <2>1, <3>1, <3>2, StepKeepsResearch
  <2>2. ASSUME Noop PROVE ResearchInv'
    BY <1>1, <1>2, <2>2, NoopKeepsResearch
  <2> QED  BY <1>3, <2>1, <2>2 DEF EditRead
<1>4. CASE EditWrite
  <2>1. ResearchDoing("editw")  BY <1>4 DEF EditWrite
  <2>2. task.draft  BY <1>1, <2>1, AtAStep DEF StepRelies
  <2>3. ASSUME NEW t, t = [task EXCEPT !.err = "none"], Finish(t),
               task.status = "awaiting_confirmation"
        PROVE  ResearchInv'
    <3>1. /\ Whole(t) /\ KeepsSpec(t) /\ KeepsReading(t) /\ KeepsCalls(t) /\ KeepsRuns(t)
          /\ t.status = task.status /\ t.step = task.step
      <4>1. Whole(task)  BY <1>2, TaskKeeps
      <4> QED  BY <2>3, <4>1 DEF Whole, KeepsSpec, KeepsReading, KeepsCalls, KeepsRuns
    <3>2. TaskShape(t)
      BY <1>2, <3>1 DEF TaskShape, Whole, KeepsSpec, KeepsReading, KeepsCalls, KeepsRuns
    <3>3. CallsAreCharged(t, researchGhost.sends) /\ RunsAreCharged(t, job.st)
      BY <1>2, <3>1 DEF TaskRecord, CallsAreCharged, RunsAreCharged, KeepsCalls, KeepsRuns
    <3>4. TaskPhase(t, job.st)
      BY <1>2, <2>3, <3>1 DEF TaskRecord, TaskPhase, KeepsSpec, KeepsReading, KeepsCalls, KeepsRuns
    <3>5. IsWrite(t) /\ Reduced(t) = t
      BY <2>3, <3>1, <3>2, <3>3, <3>4 DEF IsWrite, TaskRecord, Reduced
    <3>6. NextIsReady(t, next, job.st)
      BY <1>2, <3>1 DEF NextIsReady, KeepsSpec, KeepsCalls, KeepsRuns
    <3> QED  BY <1>1, <1>2, <2>3, <3>5, <3>6, FinishKeepsResearch
  <2>4. ASSUME Raise, task.status # "awaiting_confirmation" PROVE ResearchInv'
    <3>1. task.status = "cancelled"
      BY <1>2, <2>2, <2>4 DEF TaskRecord, TaskPhase
    <3> QED  BY <1>1, <1>2, <2>4, <3>1, RaiseKeepsResearch
  <2> QED  BY <1>4, <2>3, <2>4 DEF EditWrite
<1> QED  BY <1>3, <1>4
\* A run belongs to a confirmed spec, its proposal is settled, and nothing else is asked for.
LEMMA RunAt ==
    ASSUME ResearchInv, NEW pc \in RunSteps, ResearchDoing(pc)
    PROVE  /\ researchOp # ResearchNoOp /\ researchOp \in ResearchOps
           /\ StepRelies(task, pc, researchOp.then, researchGhost.sends, job.st)
           /\ next = "none" /\ ThenNext = "none" /\ researchOp.then = "none"
           /\ task.conf /\ ~task.draft /\ task.res.st = "none" /\ task.status # "succeeded"
           /\ TaskRecord(task, researchGhost.sends, job.st) /\ TaskShape(task)
           /\ job \in [st : JobStatuses]
           /\ cancel = "answered" /\ task.status = "cancelled" => job.st # "accepted"
           /\ \A t, jst : NextIsReady(t, "none", jst)
<1>1. pc \in ResearchSteps  BY DEF ResearchSteps
<1>2. /\ researchOp # ResearchNoOp /\ researchOp \in ResearchOps
      /\ StepRelies(task, pc, researchOp.then, researchGhost.sends, job.st)
      /\ next = "none" /\ TaskRecord(task, researchGhost.sends, job.st)
      /\ cancel = "answered" /\ task.status = "cancelled" => job.st # "accepted"
  BY <1>1, AtAStep
<1>3. task.conf /\ task.status # "succeeded"  BY <1>2 DEF StepRelies
<1>4. researchOp.then = "none"
  BY <1>2 DEF StepRelies, ResearchOps, RunSteps, InterpretSteps, BindSteps
<1>5. ~task.draft /\ task.res.st = "none" /\ TaskShape(task) /\ job \in [st : JobStatuses]
  BY <1>2, <1>3 DEF TaskRecord, TaskPhase, ResearchInv
<1> QED  BY <1>2, <1>3, <1>4, <1>5 DEF NextIsReady, ThenNext

\* A run that fails, for a retry or with a submission nobody can vouch for.
LEMMA RunFails ==
    ASSUME ResearchInv, NEW pc \in RunSteps, ResearchDoing(pc), Others, NEW err,
           Finish(Failed(err, "backtest"))
    PROVE  ResearchInv'
BY RunAt, FailureKeepsResearch

LEMMA StartKeepsResearch ==
    ASSUME ResearchInv, StartBacktest PROVE ResearchInv'
<1>1. ResearchDoing("start") /\ Others /\ {"start", "breserve"} \subseteq RunSteps
  BY DEF StartBacktest, RunSteps
<1>2. ASSUME Noop PROVE ResearchInv'  BY <1>1, <1>2, RunAt, NoopKeepsResearch
<1>3. ASSUME NEW err, Finish(Failed(err, "backtest")) PROVE ResearchInv'
  BY <1>1, <1>3, RunFails
<1>4. ASSUME NEW pc \in ResearchSteps, researchOp' = ResearchAt(pc),
             UNCHANGED <<task, owned, next, researchGhost>>,
             \/ pc = "bind" /\ JobRead
             \/ pc = "recover" /\ task.bres # "none"
             \/ pc = "breserve" /\ ~JobRead /\ task.bres = "none"
      PROVE  ResearchInv'
  <2>1. pc = "breserve" => job.st = "none"
    BY <1>1, <1>4, RunAt DEF JobRead, TaskRecord, RunsAreCharged
  <2>2. StepRelies(task, pc, researchOp.then, researchGhost.sends, job.st)
    BY <1>1, <1>4, <2>1, RunAt DEF StepRelies, ProposeSteps, RunSteps, InterpretSteps, JobRead
  <2> QED  BY <1>1, <1>4, <2>2, RunAt, StepKeepsResearch
<1> QED  BY <1>2, <1>3, <1>4, StepNames DEF StartBacktest, UnknownJob

LEMMA RunReserveKeepsResearch ==
    ASSUME ResearchInv, BacktestReserve PROVE ResearchInv'
<1>1. ResearchDoing("breserve") /\ Others /\ {"breserve", "submit", "bdispatch"} \subseteq RunSteps
  BY DEF BacktestReserve, RunSteps
<1>2. task.bres = "none" /\ job.st = "none"  BY <1>1, RunAt DEF StepRelies
<1>3. ~task.bound  BY <1>1, <1>2, RunAt DEF TaskRecord, RunsAreCharged
<1>4. ASSUME Noop PROVE ResearchInv'  BY <1>1, <1>4, RunAt, NoopKeepsResearch
<1>5. ASSUME Finish(Failed("retry", "backtest")) PROVE ResearchInv'
  BY <1>1, <1>5, RunFails
<1>6. ASSUME task.status # "cancelled", ~(task.runs >= MaxRuns),
             NEW t, t = [task EXCEPT !.status = "running", !.bres = "pending", !.runs = @ + 1],
             NEW pc, pc = IF Owned THEN "submit" ELSE "bdispatch", Go(t, pc)
      PROVE  ResearchInv'
  <2>1. TaskRecord(task, researchGhost.sends, job.st) /\ TaskShape(task) /\ task.conf
        /\ ~task.draft /\ task.res.st = "none"
    BY <1>1, RunAt
  <2>2. /\ Whole(t) /\ KeepsSpec(t) /\ KeepsReading(t) /\ KeepsCalls(t)
        /\ t.status = "running" /\ t.bres = "pending" /\ t.runs = task.runs + 1
        /\ t.bound = task.bound
    <3>1. Whole(task)  BY <2>1, TaskKeeps
    <3> QED  BY <1>6, <3>1 DEF Whole, KeepsSpec, KeepsReading, KeepsCalls
  <2>3. TaskShape(t)
    BY <2>1, <2>2 DEF TaskShape, Whole, KeepsSpec, KeepsReading, KeepsCalls, TaskStatuses
  <2>4. CallsAreCharged(t, researchGhost.sends)
    BY <2>1, <2>2 DEF TaskRecord, CallsAreCharged, KeepsCalls
  <2>5. RunsAreCharged(t, job.st)
    BY <1>2, <1>3, <1>6, <2>1, <2>2, ResearchAssumption DEF TaskRecord, TaskShape, RunsAreCharged
  <2>6. TaskPhase(t, job.st)
    BY <2>1, <2>2 DEF TaskRecord, TaskPhase, KeepsSpec, KeepsReading, KeepsCalls
  <2>7. IsWrite(t) /\ Reduced(t) = t
    BY <1>6, <2>2, <2>3, <2>4, <2>5, <2>6 DEF IsWrite, TaskRecord, Reduced
  <2>8. pc \in {"submit", "bdispatch"} /\ pc \in ResearchSteps  BY <1>6, StepNames
  <2>9. StepRelies(t, pc, researchOp.then, researchGhost.sends, job.st)
    BY <1>1, <1>6, <2>1, <2>2, <2>8, RunAt DEF StepRelies, ProposeSteps, RunSteps, InterpretSteps, Owned, KeepsSpec, TaskShape
  <2> QED  BY <1>1, <1>6, <2>7, <2>8, <2>9, RunAt, GoKeepsResearch
<1> QED
  <2>1. CASE task.status = "cancelled"  BY <1>4, <2>1 DEF BacktestReserve
  <2>2. CASE task.status # "cancelled" /\ task.runs >= MaxRuns
    BY <1>2, <1>3, <1>5, <2>2 DEF BacktestReserve
  <2>3. CASE task.status # "cancelled" /\ ~(task.runs >= MaxRuns)
    <3>1. Go([task EXCEPT !.status = "running", !.bres = "pending", !.runs = @ + 1],
             IF Owned THEN "submit" ELSE "bdispatch")
      BY <1>2, <1>3, <2>3 DEF BacktestReserve
    <3> QED  BY <1>6, <2>3, <3>1
  <2> QED  BY <2>1, <2>2, <2>3

\* A reservation that never left is returned with its charge.
LEMMA RunReleased ==
    ASSUME ResearchInv, researchOp # ResearchNoOp, Others, NEW err, Finish(ReleaseRun(err)),
           task.bres = "pending", NextIsReady(task, ThenNext, job.st)
    PROVE  ResearchInv'
<1>1. TaskRecord(task, researchGhost.sends, job.st) /\ TaskShape(task)
  BY DEF ResearchInv, TaskRecord
<1>2. /\ task.conf /\ ~task.draft /\ ~task.bound /\ job.st = "none" /\ task.runs >= 1
      /\ task.status # "succeeded" /\ task.res.st = "none"
  BY <1>1 DEF TaskRecord, TaskPhase, RunsAreCharged
<1> PICK t : t = ReleaseRun(err)  OBVIOUS
<1>3. /\ Whole(t) /\ KeepsSpec(t) /\ KeepsReading(t) /\ KeepsCalls(t)
      /\ t.status = "failed" /\ t.bres = "none" /\ t.runs = task.runs - 1
      /\ t.bound = task.bound /\ t.step = "backtest"
  <2>1. Whole(task)  BY <1>1, TaskKeeps
  <2> QED  BY <2>1 DEF ReleaseRun, Whole, KeepsSpec, KeepsReading, KeepsCalls
<1>4. TaskShape(t)
  BY <1>1, <1>2, <1>3 DEF TaskShape, Whole, KeepsSpec, KeepsReading, KeepsCalls, TaskStatuses
<1>5. CallsAreCharged(t, researchGhost.sends)
  BY <1>1, <1>3 DEF TaskRecord, CallsAreCharged, KeepsCalls
<1>6. RunsAreCharged(t, job.st)
  BY <1>1, <1>2, <1>3, ResearchAssumption DEF TaskRecord, TaskShape, RunsAreCharged
<1>7. TaskPhase(t, job.st)
  BY <1>1, <1>2, <1>3 DEF TaskRecord, TaskPhase, KeepsSpec, KeepsReading, KeepsCalls
<1>8. IsWrite(t)
  BY <1>2, <1>3, <1>4, <1>5, <1>6, <1>7 DEF IsWrite, TaskRecord, KeepsSpec, KeepsReading, KeepsCalls
<1>9. NextIsReady(Reduced(t), ThenNext, job.st)
  BY <1>1, <1>2, <1>3, ReducedKeeps DEF NextIsReady, KeepsSpec, KeepsCalls
<1> QED  BY <1>8, <1>9, FinishKeepsResearch DEF ThenNext

\* The submission is recorded before it leaves.
LEMMA RunDispatched ==
    ASSUME ResearchInv, NEW here \in RunSteps, ResearchDoing(here), Others, task.bres = "pending",
           task.status # "cancelled", NEW pc, Go([task EXCEPT !.bres = "dispatched"], pc),
           \/ pc = "publish"
           \/ pc = "submit" /\ ~Owned
    PROVE  ResearchInv'
<1>1. /\ TaskRecord(task, researchGhost.sends, job.st) /\ TaskShape(task) /\ task.conf
      /\ ~task.draft /\ task.res.st = "none" /\ task.status # "succeeded"
  BY RunAt
<1> PICK t : t = [task EXCEPT !.bres = "dispatched"]  OBVIOUS
<1>2. /\ Whole(t) /\ KeepsSpec(t) /\ KeepsReading(t) /\ KeepsCalls(t) /\ KeepsStatus(t)
      /\ t.bres = "dispatched" /\ t.runs = task.runs /\ t.bound = task.bound
  <2>1. Whole(task)  BY <1>1, TaskKeeps
  <2> QED  BY <2>1 DEF Whole, KeepsSpec, KeepsReading, KeepsCalls, KeepsStatus
<1>3. TaskShape(t)
  BY <1>1, <1>2 DEF TaskShape, Whole, KeepsSpec, KeepsReading, KeepsCalls, KeepsStatus
<1>4. CallsAreCharged(t, researchGhost.sends)
  BY <1>1, <1>2 DEF TaskRecord, CallsAreCharged, KeepsCalls
<1>5. RunsAreCharged(t, job.st)
  BY <1>1, <1>2 DEF TaskRecord, RunsAreCharged
<1>6. TaskPhase(t, job.st)
  BY <1>1, <1>2 DEF TaskRecord, TaskPhase, KeepsSpec, KeepsReading, KeepsCalls, KeepsStatus
<1>7. IsWrite(t) /\ Reduced(t) = t
  BY <1>2, <1>3, <1>4, <1>5, <1>6 DEF IsWrite, TaskRecord, Reduced, KeepsStatus
<1>8. pc \in RunSteps /\ pc \in ResearchSteps  BY StepNames DEF RunSteps
<1>9. StepRelies(t, pc, researchOp.then, researchGhost.sends, job.st)
  BY <1>1, <1>2, <1>8, RunAt DEF StepRelies, ProposeSteps, RunSteps, InterpretSteps, KeepsStatus, KeepsSpec, Owned
<1>10. researchOp # ResearchNoOp /\ next = "none" /\ NextIsReady(t, next, job.st)
  BY RunAt
<1>11. Go(t, pc)  OBVIOUS
<1>12. pc # "publish" \/ Reduced(t).status # "cancelled"
  BY <1>2, <1>7 DEF KeepsStatus
<1> QED  BY <1>7, <1>8, <1>9, <1>10, <1>11, <1>12, GoKeepsResearch

LEMMA RunDispatchKeepsResearch ==
    ASSUME ResearchInv, BacktestDispatch \/ SubmitJob PROVE ResearchInv'
<1>1. {"bdispatch", "submit", "publish", "refused"} \subseteq RunSteps
      /\ {"bdispatch", "submit", "publish", "refused"} \subseteq ResearchSteps
  BY StepNames DEF RunSteps
<1>2. CASE BacktestDispatch
  <2>1. ResearchDoing("bdispatch") /\ Others  BY <1>2 DEF BacktestDispatch
  <2>2. task.bres = "pending" /\ ~Owned
    BY <1>1, <2>1, RunAt DEF StepRelies, Owned
  <2>3. CASE task.status = "cancelled"
    <3>1. Finish(ReleaseRun("retry"))  BY <1>2, <2>3 DEF BacktestDispatch
    <3> QED  BY <1>1, <2>1, <2>2, <3>1, RunAt, RunReleased
  <2>4. CASE task.status # "cancelled"
    <3>1. Go([task EXCEPT !.bres = "dispatched"], "submit")  BY <1>2, <2>4 DEF BacktestDispatch
    <3> QED  BY <1>1, <2>1, <2>2, <2>4, <3>1, RunDispatched
  <2> QED  BY <2>3, <2>4
<1>3. CASE SubmitJob
  <2>1. ResearchDoing("submit") /\ Others  BY <1>3 DEF SubmitJob
  <2>2. task.bres = IF task.kind = "owned" THEN "pending" ELSE "dispatched"
    BY <1>1, <2>1, RunAt DEF StepRelies
  <2>3. ASSUME NEW pc \in {"refused", "publish"}, researchOp' = ResearchAt(pc),
               UNCHANGED <<task, owned, next, researchGhost>>,
               pc = "publish" => ~Owned /\ task.status # "cancelled"
        PROVE  ResearchInv'
    <3>1. StepRelies(task, pc, researchOp.then, researchGhost.sends, job.st)
      BY <1>1, <2>1, <2>2, <2>3, RunAt DEF StepRelies, ProposeSteps, RunSteps, InterpretSteps, Owned
    <3> QED  BY <1>1, <2>1, <2>3, <3>1, RunAt, StepKeepsResearch
  <2>4. ASSUME UnknownJob PROVE ResearchInv'
    BY <1>1, <2>1, <2>4, RunFails DEF UnknownJob
  <2>5. ASSUME DispatchGate, Owned, Go([task EXCEPT !.bres = "dispatched"], "publish")
        PROVE  ResearchInv'
    BY <1>1, <2>1, <2>5, RunDispatched DEF DispatchGate
  <2> QED  BY <1>3, <2>3, <2>4, <2>5 DEF SubmitJob, DispatchGate
<1> QED  BY <1>2, <1>3

LEMMA RefusedKeepsResearch ==
    ASSUME ResearchInv, SubmissionRefused PROVE ResearchInv'
<1>1. ResearchDoing("refused") /\ Others /\ "refused" \in RunSteps
  BY DEF SubmissionRefused, RunSteps
<1>2. CASE task.bres = "none"
  BY <1>1, <1>2, RunAt, NoopKeepsResearch DEF SubmissionRefused
<1>3. CASE task.bres = "dispatched"
  BY <1>1, <1>3, RunFails DEF SubmissionRefused, UnknownJob
<1>4. CASE task.bres = "pending"
  BY <1>1, <1>4, RunAt, RunReleased DEF SubmissionRefused
<1> QED  BY <1>1, <1>2, <1>3, <1>4, RunAt DEF TaskShape

LEMMA PublishKeepsResearch ==
    ASSUME ResearchInv, PublishJob PROVE ResearchInv'
<1>1. /\ ResearchDoing("publish") /\ rep' = rep /\ cancel' = cancel /\ task' = task
      /\ owned' = owned /\ next' = next
      /\ {"publish", "bind", "refused"} \subseteq ResearchSteps /\ "publish" \in RunSteps
      /\ "refused" \in RunSteps
  BY StepNames DEF PublishJob, RunSteps
<1>2. /\ task.bres = "dispatched" /\ owned /\ ~(cancel = "answered" /\ task.status = "cancelled")
      /\ TaskRecord(task, researchGhost.sends, job.st)
  <2>1. researchOp # ResearchNoOp /\ researchOp.pc = "publish" /\ owned
    BY <1>1, AtAStep
  <2> QED  BY <1>1, <2>1, RunAt DEF ResearchInv, StepRelies
<1>3. /\ researchOp \in ResearchOps /\ researchOp.then = "none" /\ next = "none"
      /\ task.conf /\ ~task.draft /\ task.res.st = "none" /\ task.status # "succeeded"
  BY <1>1, RunAt
<1>4. \/ /\ job' = [st |-> "accepted"] /\ researchOp' = ResearchAt("bind")
         /\ researchGhost' = researchGhost
      \/ /\ job' \in {job, [st |-> "hidden"]} /\ researchOp' = ResearchAt("refused")
         /\ researchGhost' = [researchGhost EXCEPT !.faults = @ + 1]
  BY DEF PublishJob, ResearchFault
<1>5. /\ researchGhost' = [sends |-> researchGhost'.sends, faults |-> researchGhost'.faults,
                           reports |-> researchGhost'.reports, was |-> researchGhost'.was,
                           lost |-> researchGhost'.lost]
      /\ researchGhost'.sends = researchGhost.sends /\ researchGhost'.lost = researchGhost.lost
  BY <1>4 DEF ResearchInv
<1>6. /\ job' \in [st : JobStatuses]
      /\ \/ job'.st = "accepted" /\ researchOp' = ResearchAt("bind")
         \/ job'.st \in {job.st, "hidden"} /\ researchOp' = ResearchAt("refused")
  BY <1>4 DEF ResearchInv, JobStatuses
<1>7. TaskRecord(task, researchGhost.sends, job'.st)
  BY <1>2, <1>3, <1>6 DEF TaskRecord, RunsAreCharged, TaskPhase
<1>8. /\ researchOp' \in ResearchOps /\ researchOp'.then = "none"
      /\ \/ researchOp'.pc = "bind" /\ job'.st = "accepted"
         \/ researchOp'.pc = "refused"
  BY <1>1, <1>3, <1>6 DEF ResearchAt, ResearchOps
<1>9. StepRelies(task, researchOp'.pc, researchOp'.then, researchGhost.sends, job'.st)
  BY <1>3, <1>8 DEF StepRelies, ProposeSteps, RunSteps, InterpretSteps
<1>10. researchOp' # ResearchNoOp
  BY <1>8 DEF ResearchNoOp, ResearchOps
<1>11. NextIsReady(task', next', job'.st)  BY <1>1, <1>3 DEF NextIsReady
<1> QED
  BY <1>1, <1>2, <1>3, <1>5, <1>6, <1>7, <1>8, <1>9, <1>10, <1>11 DEF ResearchInv, OwnerIsLive

-----------------------------------------------------------------------------
(* A found run.                                                            *)

\* An operation that looks for the run, or has found it, belongs to a confirmed spec.
LEMMA BindAt ==
    ASSUME ResearchInv, NEW pc \in BindSteps, ResearchDoing(pc)
    PROVE  /\ researchOp # ResearchNoOp /\ researchOp \in ResearchOps
           /\ StepRelies(task, pc, researchOp.then, researchGhost.sends, job.st)
           /\ next \in {"none", "retry"} /\ ThenNext \in {"none", "retry"}
           /\ NextIsReady(task, ThenNext, job.st)
           /\ task.conf /\ ~task.draft /\ task.res.st = "none" /\ TaskShape(task)
           /\ TaskRecord(task, researchGhost.sends, job.st)
           /\ \A t, jst : t.res.st = "none" /\ KeepsSpec(t) =>
                 NextIsReady(t, ThenNext, jst) /\ NextIsReady(t, next, jst)
<1>1. pc \in ResearchSteps  BY DEF ResearchSteps
<1>2. /\ researchOp # ResearchNoOp /\ researchOp \in ResearchOps
      /\ StepRelies(task, pc, researchOp.then, researchGhost.sends, job.st)
      /\ NextIsReady(task, next, job.st) /\ TaskShape(task)
      /\ TaskRecord(task, researchGhost.sends, job.st)
      /\ next \in {"none", "propose", "backtest", "retry"}
  BY <1>1, AtAStep DEF ResearchInv, TaskRecord
<1>3. task.bres # "none" \/ job.st # "none"
  BY <1>2 DEF StepRelies, BindSteps
<1>4. task.conf /\ ~task.draft  BY <1>2, <1>3 DEF TaskRecord, TaskPhase
<1>5. task.res.st = "none"
  BY <1>2, <1>4 DEF StepRelies, BindSteps, TaskRecord, TaskPhase, RunsAreCharged
<1>6. next \in {"none", "retry"}  BY <1>2, <1>3, <1>4 DEF NextIsReady
<1>7. researchOp.then \in {"none", "retry"}
  BY <1>2 DEF StepRelies, ResearchOps, BindSteps
<1>8. ThenNext \in {"none", "retry"}  BY <1>6, <1>7 DEF ThenNext
<1>9. next = "retry" \/ ThenNext = "retry" => task.kind = "legacy"
  BY <1>2 DEF NextIsReady, ThenNext, StepRelies
<1>10. \A t, jst : t.res.st = "none" /\ KeepsSpec(t) =>
          NextIsReady(t, ThenNext, jst) /\ NextIsReady(t, next, jst)
  BY <1>6, <1>8, <1>9 DEF NextIsReady, KeepsSpec
<1>11. KeepsSpec(task)  BY DEF KeepsSpec
<1> QED  BY <1>2, <1>4, <1>5, <1>6, <1>8, <1>10, <1>11

LEMMA BindKeepsResearch ==
    ASSUME ResearchInv, BindFound PROVE ResearchInv'
<1>1. /\ ResearchDoing("bind") /\ Others /\ {"bind", "state"} \subseteq BindSteps
      /\ "state" \in ResearchSteps
      /\ "state" \notin ProposeSteps \cup RunSteps \cup {"retry"}
      /\ Go([task EXCEPT !.bound = TRUE, !.bres = "none", !.status = "running", !.err = "none"], "state")
  BY StepNames DEF BindFound, BindSteps, ProposeSteps, RunSteps
<1>2. TaskShape(task) /\ TaskRecord(task, researchGhost.sends, job.st) /\ task.conf /\ ~task.draft
      /\ task.res.st = "none" /\ job.st \notin {"none", "hidden"}
  BY <1>1, BindAt DEF StepRelies
<1> PICK t : t = [task EXCEPT !.bound = TRUE, !.bres = "none", !.status = "running", !.err = "none"]
  OBVIOUS
<1>3. /\ Whole(t) /\ KeepsSpec(t) /\ KeepsReading(t) /\ KeepsCalls(t)
      /\ t.status = "running" /\ t.bres = "none" /\ t.runs = task.runs
      /\ t.bound \in BOOLEAN /\ t.bound
  <2>1. Whole(task)  BY <1>2, TaskKeeps
  <2> QED  BY <2>1 DEF Whole, KeepsSpec, KeepsReading, KeepsCalls
<1>4. TaskShape(t)
  <2>1. {t.draft, t.conf, t.bound} \subseteq BOOLEAN
    BY <1>2, <1>3 DEF TaskShape, KeepsSpec
  <2>2. {t.calls, t.spent, t.runs, t.evid, t.concl} \subseteq Nat /\ t.res \in ModelCalls
    BY <1>2, <1>3 DEF TaskShape, KeepsReading, KeepsCalls
  <2>3. t.status \in TaskStatuses /\ t.kind \in {"legacy", "owned"}
    BY <1>2, <1>3 DEF TaskShape, KeepsSpec, TaskStatuses
  <2> QED  BY <1>3, <2>1, <2>2, <2>3 DEF TaskShape, Whole
<1>5. CallsAreCharged(t, researchGhost.sends)
  BY <1>2, <1>3 DEF TaskRecord, CallsAreCharged, KeepsCalls
<1>6. RunsAreCharged(t, job.st)
  BY <1>2, <1>3 DEF TaskRecord, RunsAreCharged
<1>7. TaskPhase(t, job.st)
  BY <1>2, <1>3 DEF TaskRecord, TaskPhase, KeepsSpec, KeepsReading, KeepsCalls
<1>8. IsWrite(t)
  BY <1>2, <1>3, <1>4, <1>5, <1>6, <1>7 DEF IsWrite, TaskRecord, KeepsSpec, KeepsReading, KeepsCalls
<1>9. /\ Reduced(t).res.st = "none" /\ Reduced(t).bound /\ KeepsSpec(Reduced(t))
  BY <1>2, <1>3, ReducedKeeps DEF KeepsCalls
<1>10. StepRelies(Reduced(t), "state", researchOp.then, researchGhost.sends, job.st)
  <2>1. researchOp.then # "backtest" /\ (researchOp.then = "retry" => task.kind = "legacy")
    BY <1>1, BindAt DEF StepRelies
  <2> QED
    BY <1>2, <1>9, <2>1 DEF StepRelies, ProposeSteps, RunSteps, InterpretSteps, BindSteps, KeepsSpec
<1>11. researchOp # ResearchNoOp /\ NextIsReady(Reduced(t), next, job.st)
  BY <1>1, <1>9, BindAt
<1> QED  BY <1>1, <1>8, <1>10, <1>11, GoKeepsResearch

LEMMA BindStateKeepsResearch ==
    ASSUME ResearchInv, BindState PROVE ResearchInv'
<1>1. ResearchDoing("state") /\ Others /\ "state" \in BindSteps
  BY DEF BindState, BindSteps
<1>2. TaskShape(task) /\ TaskRecord(task, researchGhost.sends, job.st) /\ task.conf /\ ~task.draft
      /\ task.res.st = "none" /\ job.st \notin {"none", "hidden"} /\ task.bound
  BY <1>1, BindAt DEF StepRelies
<1>3. ASSUME NEW st \in {"running", "succeeded"}, NEW t, t = [task EXCEPT !.status = st, !.err = "none"],
             Finish(t)
      PROVE  ResearchInv'
  <2>1. /\ Whole(t) /\ KeepsSpec(t) /\ KeepsReading(t) /\ KeepsCalls(t) /\ KeepsRuns(t)
        /\ t.status = st
    <3>1. Whole(task)  BY <1>2, TaskKeeps
    <3> QED  BY <1>3, <3>1 DEF Whole, KeepsSpec, KeepsReading, KeepsCalls, KeepsRuns
  <2>2. TaskShape(t)
    BY <1>2, <2>1 DEF TaskShape, Whole, KeepsSpec, KeepsReading, KeepsCalls, KeepsRuns, TaskStatuses
  <2>3. CallsAreCharged(t, researchGhost.sends) /\ RunsAreCharged(t, job.st)
    BY <1>2, <2>1 DEF TaskRecord, CallsAreCharged, RunsAreCharged, KeepsCalls, KeepsRuns
  <2>4. TaskPhase(t, job.st)
    BY <1>2, <2>1 DEF TaskRecord, TaskPhase, KeepsSpec, KeepsReading, KeepsCalls, KeepsRuns
  <2>5. IsWrite(t)
    BY <1>2, <2>1, <2>2, <2>3, <2>4 DEF IsWrite, TaskRecord, KeepsSpec, KeepsReading, KeepsCalls
  <2>6. Reduced(t).res.st = "none" /\ KeepsSpec(Reduced(t))
    BY <1>2, <2>1, ReducedKeeps DEF KeepsCalls
  <2>7. researchOp # ResearchNoOp /\ NextIsReady(Reduced(t), ThenNext, job.st)
    BY <1>1, <2>6, BindAt
  <2> QED  BY <1>1, <1>3, <2>5, <2>7, FinishKeepsResearch DEF ThenNext
<1>4. ASSUME Finish(Failed("retry", "backtest")) PROVE ResearchInv'
  BY <1>1, <1>2, <1>4, BindAt, FailureKeepsResearch
<1>5. CASE job.st \in Live
  <2>1. Finish([task EXCEPT !.status = "running", !.err = "none"])
    BY <1>2, <1>5 DEF BindState, Live
  <2> QED  BY <1>3, <2>1
<1>6. CASE job.st = "succeeded"
  <2>1. Finish([task EXCEPT !.status = "succeeded", !.err = "none"])
    BY <1>2, <1>6 DEF BindState, Live
  <2> QED  BY <1>3, <2>1
<1>7. CASE job.st \notin Live /\ job.st # "succeeded"
  BY <1>2, <1>4, <1>7 DEF BindState
<1> QED  BY <1>5, <1>6, <1>7

LEMMA RecoverKeepsResearch ==
    ASSUME ResearchInv, RecoverBacktest PROVE ResearchInv'
<1>1. ResearchDoing("recover") /\ Others /\ {"bind", "recover"} \subseteq BindSteps
      /\ "bind" \in ResearchSteps /\ "bind" \notin ProposeSteps \cup RunSteps \cup {"retry"}
  BY StepNames DEF RecoverBacktest, BindSteps, ProposeSteps, RunSteps
<1>2. CASE JobRead
  <2>1. researchOp.then # "backtest"  BY <1>1, BindAt DEF StepRelies
  <2>2. StepRelies(task, "bind", researchOp.then, researchGhost.sends, job.st)
    BY <1>1, <1>2, <2>1, BindAt DEF StepRelies, ProposeSteps, RunSteps, InterpretSteps, BindSteps, JobRead
  <2>3. researchOp' = ResearchAt("bind") /\ UNCHANGED <<task, owned, next, researchGhost>>
    BY <1>2 DEF RecoverBacktest
  <2> QED  BY <1>1, <2>2, <2>3, BindAt, StepKeepsResearch
<1>3. CASE ~JobRead /\ task.bres = "pending"
  <2>1. Finish(ReleaseRun("retry"))  BY <1>3 DEF RecoverBacktest
  <2> QED  BY <1>1, <1>3, <2>1, BindAt, RunReleased
<1>4. CASE ~JobRead /\ task.bres # "pending"
  <2>1. Finish(Failed("unknown", "backtest"))  BY <1>4 DEF RecoverBacktest, UnknownJob
  <2> QED  BY <1>1, <2>1, BindAt, FailureKeepsResearch
<1> QED  BY <1>2, <1>3, <1>4
-----------------------------------------------------------------------------
(* The conclusion of a completed run.                                      *)

\* A completed run is bound, so only a retry can be asked for after it.
LEMMA CompletedAt ==
    ASSUME ResearchInv, NEW pc \in ResearchSteps, ResearchDoing(pc), pc # "confirm",
           task.status = "succeeded"
    PROVE  /\ researchOp # ResearchNoOp /\ researchOp \in ResearchOps /\ researchOp.then # "backtest"
           /\ StepRelies(task, pc, researchOp.then, researchGhost.sends, job.st)
           /\ next \in {"none", "retry"} /\ ThenNext \in {"none", "retry"}
           /\ task.conf /\ ~task.draft /\ task.bound /\ TaskShape(task) /\ rep \in Nat
           /\ TaskRecord(task, researchGhost.sends, job.st) /\ NextIsReady(task, ThenNext, job.st)
           /\ NextIsReady(task, next, job.st) /\ \A t : Reduced(t) = t
<1>1. /\ researchOp # ResearchNoOp /\ researchOp \in ResearchOps
      /\ StepRelies(task, pc, researchOp.then, researchGhost.sends, job.st)
      /\ NextIsReady(task, next, job.st) /\ TaskShape(task)
      /\ TaskRecord(task, researchGhost.sends, job.st) /\ rep \in Nat
      /\ next \in {"none", "propose", "backtest", "retry"}
  BY AtAStep DEF ResearchInv, TaskRecord
<1>2. task.bound /\ task.conf /\ ~task.draft
  BY <1>1 DEF TaskRecord, TaskPhase, RunsAreCharged
<1>3. next \in {"none", "retry"}  BY <1>1, <1>2 DEF NextIsReady
<1>4. researchOp.then \in {"none", "retry"}
  BY <1>1 DEF StepRelies, ResearchOps
<1>5. ThenNext \in {"none", "retry"}  BY <1>3, <1>4 DEF ThenNext
<1>6. NextIsReady(task, ThenNext, job.st)
  BY <1>1, <1>5 DEF NextIsReady, ThenNext, StepRelies
<1>7. \A t : Reduced(t) = t  BY DEF Reduced
<1> QED  BY <1>1, <1>2, <1>3, <1>4, <1>5, <1>6, <1>7

\* A write to the conclusion axis, or to the calls it takes.
LEMMA ReadingIsWrite ==
    ASSUME ResearchInv, NEW pc \in ResearchSteps, ResearchDoing(pc), pc # "confirm",
           task.status = "succeeded", NEW t, Whole(t), KeepsSpec(t), KeepsRuns(t),
           KeepsStatus(t), {t.calls, t.spent, t.evid, t.concl} \subseteq Nat, t.res \in ModelCalls,
           CallsAreCharged(t, researchGhost.sends), t.concl # 0 => t.concl = t.evid
    PROVE  /\ IsWrite(t) /\ Reduced(t) = t /\ t.status = "succeeded"
           /\ NextIsReady(t, next, job.st) /\ NextIsReady(t, ThenNext, job.st)
<1>1. /\ TaskRecord(task, researchGhost.sends, job.st) /\ TaskShape(task) /\ Reduced(t) = t
      /\ next \in {"none", "retry"} /\ ThenNext \in {"none", "retry"}
      /\ NextIsReady(task, next, job.st) /\ NextIsReady(task, ThenNext, job.st)
  BY CompletedAt
<1>2. TaskShape(t)
  BY <1>1 DEF TaskShape, Whole, KeepsSpec, KeepsRuns, KeepsStatus
<1>3. RunsAreCharged(t, job.st)
  BY <1>1 DEF TaskRecord, RunsAreCharged, KeepsRuns
<1>4. TaskPhase(t, job.st)
  BY <1>1 DEF TaskRecord, TaskPhase, KeepsSpec, KeepsRuns, KeepsStatus, RunsAreCharged
<1>5. IsWrite(t) /\ t.status = "succeeded"
  BY <1>2, <1>3, <1>4 DEF IsWrite, TaskRecord, KeepsStatus
<1> QED  BY <1>1, <1>5 DEF NextIsReady, KeepsSpec

\* The charges of a record whose calls are the task's.
LEMMA SameCalls ==
    ASSUME ResearchInv, NEW t, KeepsCalls(t)
    PROVE  /\ CallsAreCharged(t, researchGhost.sends) /\ t.res \in ModelCalls
           /\ {t.calls, t.spent} \subseteq Nat
BY DEF ResearchInv, TaskRecord, TaskShape, CallsAreCharged, KeepsCalls

LEMMA FailedReadingEnds ==
    ASSUME ResearchInv, NEW pc \in ResearchSteps, ResearchDoing(pc), pc # "confirm", Others,
           task.status = "succeeded", Finish(InterpretFailed(task))
    PROVE  ResearchInv'
<1>1. /\ TaskShape(task) /\ TaskRecord(task, researchGhost.sends, job.st)
      /\ researchOp # ResearchNoOp
  BY CompletedAt
<1> PICK t : t = InterpretFailed(task)  OBVIOUS
<1>2. /\ Whole(t) /\ KeepsSpec(t) /\ KeepsReading(t) /\ KeepsCalls(t) /\ KeepsRuns(t)
      /\ KeepsStatus(t)
  <2>1. Whole(task)  BY <1>1, TaskKeeps
  <2> QED  BY <2>1 DEF InterpretFailed, Whole, KeepsSpec, KeepsReading, KeepsCalls, KeepsRuns, KeepsStatus
<1>3. {t.evid, t.concl} \subseteq Nat /\ (t.concl # 0 => t.concl = t.evid)
  BY <1>1, <1>2 DEF TaskShape, TaskRecord, TaskPhase, KeepsReading
<1>4. IsWrite(t) /\ NextIsReady(Reduced(t), ThenNext, job.st)
  BY <1>2, <1>3, SameCalls, ReadingIsWrite
<1> QED  BY <1>1, <1>4, FinishKeepsResearch DEF ThenNext

\* The steps of an interpretation that may follow a write of it.
LEMMA ReadingGoes ==
    ASSUME ResearchInv, NEW here \in ResearchSteps, ResearchDoing(here), here # "confirm", Others,
           task.status = "succeeded", NEW t, IsWrite(t), Reduced(t) = t, t.status = "succeeded",
           NextIsReady(t, next, job.st), KeepsSpec(t), NEW pc \in InterpretSteps, Go(t, pc),
           pc \in {"ireserve", "idispatch", "icall", "concluded"} => t.concl = 0,
           pc = "icall" => t.res.st = "dispatched" /\ researchGhost.sends <= t.spent,
           pc \notin {"iunknown", "concluded"}
    PROVE  ResearchInv'
<1>1. /\ researchOp # ResearchNoOp /\ researchOp.then # "backtest"
      /\ researchOp.then = "retry" => task.kind = "legacy"
  BY CompletedAt DEF StepRelies
<1>2. pc \in ResearchSteps /\ pc # "publish" /\ pc \notin ProposeSteps \cup RunSteps \cup {"retry"}
  BY StepNames DEF InterpretSteps, ProposeSteps, RunSteps
<1>3. StepRelies(t, pc, researchOp.then, researchGhost.sends, job.st)
  BY <1>1 DEF StepRelies, ProposeSteps, RunSteps, InterpretSteps, BindSteps, KeepsSpec
<1> QED  BY <1>1, <1>2, <1>3, GoKeepsResearch

LEMMA InterpretKeepsResearch ==
    ASSUME ResearchInv, Interpret PROVE ResearchInv'
<1>1. /\ ResearchDoing("interpret") /\ Others /\ "interpret" \in ResearchSteps
      /\ {"publishc", "ireserve"} \subseteq InterpretSteps
      /\ {"publishc", "ireserve"} \subseteq ResearchSteps
      /\ {"publishc", "ireserve"} \cap (ProposeSteps \cup RunSteps \cup {"retry"}) = {}
  BY StepNames DEF Interpret, InterpretSteps, ProposeSteps, RunSteps
<1>2. ASSUME Noop PROVE ResearchInv'
  <2>1. /\ researchOp # ResearchNoOp /\ researchOp \in ResearchOps /\ NextIsReady(task, next, job.st)
        /\ StepRelies(task, "interpret", researchOp.then, researchGhost.sends, job.st)
    BY <1>1, AtAStep
  <2>2. ThenNext = next
    BY <2>1 DEF ThenNext, StepRelies, ResearchOps, InterpretSteps, BindSteps
  <2> QED  BY <1>1, <1>2, <2>1, <2>2, NoopKeepsResearch
<1>3. ASSUME task.status = "succeeded", Finish(InterpretFailed(task)) PROVE ResearchInv'
  BY <1>1, <1>3, FailedReadingEnds
<1>4. ASSUME task.status = "succeeded", researchOp' = ResearchAt("publishc"),
             UNCHANGED <<task, owned, next, researchGhost>>
      PROVE  ResearchInv'
  <2>1. StepRelies(task, "publishc", researchOp.then, researchGhost.sends, job.st)
    BY <1>1, <1>4, CompletedAt DEF StepRelies, ProposeSteps, RunSteps, InterpretSteps
  <2> QED  BY <1>1, <1>4, <2>1, CompletedAt, StepKeepsResearch
<1>5. ASSUME ~Closed(task), task.status = "succeeded", NEW t, t = [task EXCEPT !.evid = rep],
             Go(t, "publishc")
      PROVE  ResearchInv'
  <2>1. TaskShape(task) /\ rep \in Nat  BY <1>1, <1>5, CompletedAt
  <2>2. /\ Whole(t) /\ KeepsSpec(t) /\ KeepsCalls(t) /\ KeepsRuns(t) /\ KeepsStatus(t)
        /\ t.evid = rep /\ t.concl = task.concl
    <3>1. Whole(task)  BY <2>1, TaskKeeps
    <3> QED  BY <1>5, <3>1 DEF Whole, KeepsSpec, KeepsCalls, KeepsRuns, KeepsStatus
  <2>3. {t.evid, t.concl} \subseteq Nat /\ t.concl = 0
    BY <1>5, <2>1, <2>2 DEF Closed
  <2>4. IsWrite(t) /\ Reduced(t) = t /\ t.status = "succeeded" /\ NextIsReady(t, next, job.st)
    BY <1>1, <1>5, <2>2, <2>3, SameCalls, ReadingIsWrite
  <2> QED  BY <1>1, <1>5, <2>2, <2>3, <2>4, ReadingGoes
<1>6. ASSUME ~Closed(task), task.status = "succeeded",
             researchOp' = [ResearchAt("ireserve") EXCEPT !.rep = rep],
             UNCHANGED <<task, owned, next, researchGhost>>
      PROVE  ResearchInv'
  <2>1. StepRelies(task, "ireserve", researchOp.then, researchGhost.sends, job.st)
    BY <1>1, <1>6, CompletedAt DEF StepRelies, ProposeSteps, RunSteps, InterpretSteps, Closed
  <2> QED  BY <1>1, <1>6, <2>1, CompletedAt, MoveKeepsResearch
<1> QED  BY <1>2, <1>3, <1>4, <1>5, <1>6 DEF Interpret
\* Each step of an interpretation finds the run completed.
LEMMA ReadingAt ==
    ASSUME ResearchInv, NEW pc \in InterpretSteps, ResearchDoing(pc)
    PROVE  /\ pc \in ResearchSteps /\ pc # "confirm" /\ task.status = "succeeded"
           /\ researchOp # ResearchNoOp /\ researchOp \in ResearchOps
           /\ StepRelies(task, pc, researchOp.then, researchGhost.sends, job.st)
           /\ TaskShape(task) /\ TaskRecord(task, researchGhost.sends, job.st)
           /\ task.calls \in Nat /\ task.spent \in Nat /\ researchGhost.sends \in Nat
           /\ task.calls <= MaxCalls
<1>1. pc \in ResearchSteps /\ pc # "confirm"  BY DEF ResearchSteps, InterpretSteps
<1>2. StepRelies(task, pc, researchOp.then, researchGhost.sends, job.st)
  BY <1>1, AtAStep
<1>3. task.status = "succeeded"  BY <1>2 DEF StepRelies
<1>4. /\ researchOp # ResearchNoOp /\ researchOp \in ResearchOps
      /\ TaskShape(task) /\ TaskRecord(task, researchGhost.sends, job.st)
  BY <1>1, <1>3, CompletedAt
<1> QED
  BY <1>1, <1>2, <1>3, <1>4 DEF ResearchInv, TaskRecord, TaskShape, CallsAreCharged

\* A record that differs in its calls and accounts for them.
ChangesCalls(t) ==
    /\ Whole(t) /\ KeepsSpec(t) /\ KeepsReading(t) /\ KeepsRuns(t) /\ KeepsStatus(t)
    /\ {t.calls, t.spent} \subseteq Nat /\ t.res \in ModelCalls
    /\ CallsAreCharged(t, researchGhost.sends)

\* What a settled or refunded call leaves of the charges of a completed run's task.
LEMMA ReadingCallEnds ==
    ASSUME ResearchInv, NEW here \in ResearchSteps, ResearchDoing(here), here # "confirm",
           task.status = "succeeded", NEW t,
           \/ t = Refunded(task) /\ task.res.st # "none" /\ researchGhost.sends <= task.spent
           \/ t = ReleasePending(task) /\ task.res.st = "pending"
           \/ \E outcome : t = Settled(task, outcome) /\ task.res.st # "pending"
           \/ t = task
    PROVE  /\ IsWrite(t) /\ Reduced(t) = t /\ t.status = "succeeded"
           /\ NextIsReady(t, next, job.st) /\ NextIsReady(t, ThenNext, job.st)
           /\ ChangesCalls(t)
<1>1. /\ TaskShape(task) /\ TaskRecord(task, researchGhost.sends, job.st)
      /\ task.calls \in Nat /\ task.spent \in Nat /\ researchGhost.sends \in Nat
      /\ task.res \in ModelCalls /\ CallsAreCharged(task, researchGhost.sends)
  BY CompletedAt DEF ResearchInv, TaskRecord, TaskShape
<1>2. task.res.st # "none" =>
        /\ task.calls = task.spent + 1 /\ task.calls <= MaxCalls /\ task.res.seq = task.spent + 1
        /\ task.res.st = "pending" => researchGhost.sends <= task.spent
        /\ researchGhost.sends <= task.spent + 1
  BY <1>1 DEF CallsAreCharged
<1>3. task.res.st = "none" <=> task.res = ResearchNoCall
  BY <1>1 DEF ModelCalls, ResearchNoCall
<1>4. ChangesCalls(t)
  <2>1. ASSUME t = Refunded(task), task.res.st # "none", researchGhost.sends <= task.spent
        PROVE  ChangesCalls(t)
    <3>1. /\ Whole(t) /\ KeepsSpec(t) /\ KeepsReading(t) /\ KeepsRuns(t) /\ KeepsStatus(t)
          /\ t.calls = task.calls - 1 /\ t.spent = task.spent /\ t.last = task.last
          /\ t.res = ResearchNoCall
      BY <1>1, <2>1, RefundWrites
    <3>2. {t.calls, t.spent} \subseteq Nat /\ t.res \in ModelCalls
      BY <1>1, <1>2, <2>1, <3>1 DEF ModelCalls
    <3>3. CallsAreCharged(t, researchGhost.sends)
      BY <1>1, <1>2, <2>1, <3>1, ResearchAssumption DEF CallsAreCharged, ResearchNoCall
    <3> QED  BY <3>1, <3>2, <3>3 DEF ChangesCalls
  <2>2. ASSUME t = ReleasePending(task), task.res.st = "pending" PROVE ChangesCalls(t)
    <3>1. t = Refunded(task)  BY <2>2 DEF ReleasePending
    <3> QED  BY <1>2, <2>1, <2>2, <3>1
  <2>3. CASE t = task  BY <1>1, <2>3, TaskKeeps DEF ChangesCalls
  <2>4. ASSUME NEW outcome, t = Settled(task, outcome), task.res.st # "pending"
        PROVE  ChangesCalls(t)
    <3>1. CASE task.res.st = "none"  BY <1>3, <2>3, <2>4, <3>1 DEF Settled
    <3>2. CASE task.res.st # "none"
      <4>1. /\ Whole(t) /\ KeepsSpec(t) /\ KeepsReading(t) /\ KeepsRuns(t) /\ KeepsStatus(t)
            /\ t.calls = task.calls /\ t.spent = task.res.seq /\ t.last = outcome
            /\ t.res = ResearchNoCall
        BY <1>1, <1>3, <2>4, <3>2, SettleWrites
      <4>2. {t.calls, t.spent} \subseteq Nat /\ t.res \in ModelCalls
        BY <1>1, <1>2, <3>2, <4>1 DEF ModelCalls
      <4>3. CallsAreCharged(t, researchGhost.sends)
        BY <1>1, <1>2, <3>2, <4>1 DEF CallsAreCharged, ResearchNoCall
      <4> QED  BY <4>1, <4>2, <4>3 DEF ChangesCalls
    <3> QED  BY <3>1, <3>2
  <2> QED  BY <2>1, <2>2, <2>3, <2>4
<1>5. {t.calls, t.spent, t.evid, t.concl} \subseteq Nat /\ (t.concl # 0 => t.concl = t.evid)
  BY <1>1, <1>4 DEF TaskShape, TaskRecord, TaskPhase, KeepsReading, ChangesCalls
<1> QED  BY <1>4, <1>5, ReadingIsWrite DEF ChangesCalls

LEMMA ReadingReserves ==
    ASSUME ResearchInv, InterpretReserve PROVE ResearchInv'
<1>1. /\ ResearchDoing("ireserve") /\ Others /\ {"ireserve", "idispatch"} \subseteq InterpretSteps
  BY DEF InterpretReserve, InterpretSteps
<1>2. /\ task.concl = 0 /\ researchOp # ResearchNoOp /\ NextIsReady(task, ThenNext, job.st)
      /\ "ireserve" \in ResearchSteps /\ task.status = "succeeded"
      /\ TaskShape(task) /\ TaskRecord(task, researchGhost.sends, job.st)
      /\ task.calls \in Nat /\ task.spent \in Nat /\ researchGhost.sends \in Nat
  BY <1>1, ReadingAt, CompletedAt DEF StepRelies
<1>3. ASSUME Noop PROVE ResearchInv'  BY <1>1, <1>2, <1>3, NoopKeepsResearch
<1>4. ASSUME Finish(InterpretFailed(task)) PROVE ResearchInv'
  BY <1>1, <1>2, <1>4, FailedReadingEnds
<1>5. ASSUME task.res = ResearchNoCall, ~(task.calls >= MaxCalls), NEW t, t = ReserveCall(task),
             Go(t, "idispatch")
      PROVE  ResearchInv'
  <2>1. /\ Whole(t) /\ KeepsSpec(t) /\ KeepsReading(t) /\ KeepsRuns(t) /\ KeepsStatus(t)
        /\ t.calls = task.calls + 1 /\ t.spent = task.spent /\ t.last = task.last
        /\ t.res = [st |-> "pending", seq |-> task.spent + 1]
    BY <1>2, <1>5, ReserveWrites
  <2>2. t.res \in ModelCalls /\ {t.calls, t.spent} \subseteq Nat
    BY <1>2, <2>1 DEF ModelCalls
  <2>3. CallsAreCharged(t, researchGhost.sends)
    BY <1>2, <1>5, <2>1, ResearchAssumption DEF CallsAreCharged, TaskRecord, ResearchNoCall
  <2>4. {t.calls, t.spent, t.evid, t.concl} \subseteq Nat /\ t.concl = 0
    BY <1>2, <2>1, <2>2 DEF TaskShape, KeepsReading
  <2>5. IsWrite(t) /\ Reduced(t) = t /\ t.status = "succeeded" /\ NextIsReady(t, next, job.st)
    BY <1>1, <1>2, <2>1, <2>2, <2>3, <2>4, ReadingIsWrite
  <2> QED  BY <1>1, <1>2, <1>5, <2>1, <2>4, <2>5, ReadingGoes
<1> QED  BY <1>3, <1>4, <1>5 DEF InterpretReserve

LEMMA ReadingDispatches ==
    ASSUME ResearchInv, InterpretDispatch PROVE ResearchInv'
<1>1. /\ ResearchDoing("idispatch") /\ Others /\ {"icall", "idispatch"} \subseteq InterpretSteps
  BY DEF InterpretDispatch, InterpretSteps
<1>2. /\ task.concl = 0 /\ researchOp # ResearchNoOp /\ NextIsReady(task, ThenNext, job.st)
      /\ "idispatch" \in ResearchSteps /\ task.status = "succeeded"
      /\ TaskShape(task) /\ TaskRecord(task, researchGhost.sends, job.st)
      /\ task.calls \in Nat /\ task.spent \in Nat /\ researchGhost.sends \in Nat
  BY <1>1, ReadingAt, CompletedAt DEF StepRelies
<1>3. ASSUME Noop PROVE ResearchInv'  BY <1>1, <1>2, <1>3, NoopKeepsResearch
<1>4. ASSUME task.res.st = "pending", NEW t, t = [task EXCEPT !.res.st = "dispatched"], Go(t, "icall")
      PROVE  ResearchInv'
  <2>1. /\ Whole(t) /\ KeepsSpec(t) /\ KeepsReading(t) /\ KeepsRuns(t) /\ KeepsStatus(t)
        /\ t.calls = task.calls /\ t.spent = task.spent /\ t.last = task.last
        /\ t.res = [st |-> "dispatched", seq |-> task.res.seq]
    BY <1>2, <1>4, DispatchWrites
  <2>2. /\ task.calls = task.spent + 1 /\ task.calls <= MaxCalls /\ task.res.seq = task.spent + 1
        /\ researchGhost.sends <= task.spent
    BY <1>2, <1>4 DEF TaskRecord, CallsAreCharged
  <2>3. t.res \in ModelCalls /\ {t.calls, t.spent} \subseteq Nat
    BY <1>2, <2>1, <2>2 DEF ModelCalls
  <2>4. CallsAreCharged(t, researchGhost.sends)
    BY <1>2, <2>1, <2>2 DEF CallsAreCharged
  <2>5. {t.calls, t.spent, t.evid, t.concl} \subseteq Nat /\ t.concl = 0
    BY <1>2, <2>1, <2>3 DEF TaskShape, KeepsReading
  <2>6. IsWrite(t) /\ Reduced(t) = t /\ t.status = "succeeded" /\ NextIsReady(t, next, job.st)
    BY <1>1, <1>2, <2>1, <2>3, <2>4, <2>5, ReadingIsWrite
  <2>7. t.res.st = "dispatched" /\ researchGhost.sends <= t.spent  BY <2>1, <2>2
  <2> QED  BY <1>1, <1>2, <1>4, <2>1, <2>5, <2>6, <2>7, ReadingGoes
<1> QED  BY <1>3, <1>4 DEF InterpretDispatch

LEMMA ReadingCalls ==
    ASSUME ResearchInv, InterpretCall PROVE ResearchInv'
<1>1. /\ ResearchDoing("icall") /\ Others
      /\ {"icall", "concluded", "iunknown", "ifail"} \subseteq InterpretSteps
      /\ {"icall", "concluded", "iunknown", "ifail"} \subseteq ResearchSteps
  BY StepNames DEF InterpretCall, InterpretSteps
<1>2. /\ task.concl = 0 /\ task.res.st = "dispatched" /\ researchGhost.sends <= task.spent
      /\ task.status = "succeeded" /\ task.res # ResearchNoCall
  BY <1>1, ReadingAt DEF StepRelies, ResearchNoCall
<1>3. ASSUME Called, NEW pc \in {"concluded", "iunknown"}, researchOp' = ResearchAt(pc),
             UNCHANGED <<task, owned, next>>
      PROVE  ResearchInv'
  <2>1. StepRelies(task, pc, researchOp.then, researchGhost.sends, job.st)
    BY <1>1, <1>2, <1>3, CompletedAt DEF StepRelies, ProposeSteps, RunSteps, InterpretSteps
  <2>2. pc \notin ProposeSteps \cup RunSteps \cup {"retry"}  BY DEF ProposeSteps, RunSteps
  <2> QED  BY <1>1, <1>2, <1>3, <2>1, <2>2, CompletedAt, CalledKeepsResearch
<1>4. ASSUME Go(Refunded(task), "ifail") PROVE ResearchInv'
  <2> PICK t : t = Refunded(task)  OBVIOUS
  <2>1. /\ IsWrite(t) /\ Reduced(t) = t /\ t.status = "succeeded" /\ NextIsReady(t, next, job.st)
        /\ KeepsSpec(t)
    BY <1>1, <1>2, ReadingCallEnds DEF ChangesCalls
  <2> QED  BY <1>1, <1>2, <1>4, <2>1, ReadingGoes
<1> QED  BY <1>2, <1>3, <1>4 DEF InterpretCall

LEMMA ReadingSettles ==
    ASSUME ResearchInv, InterpretUnknown \/ InterpretFail \/ InterpretConcluded
    PROVE  ResearchInv'
<1>1. /\ {"iunknown", "concluded", "ifail", "publishc"} \subseteq InterpretSteps
      /\ {"iunknown", "concluded", "ifail", "publishc"} \subseteq ResearchSteps
  BY StepNames DEF InterpretSteps
<1>2. CASE InterpretUnknown
  <2>1. ResearchDoing("iunknown") /\ Others /\ Go(Settled(task, "unknown"), "ifail")
    BY <1>2 DEF InterpretUnknown
  <2>2. task.res.st # "pending" /\ task.status = "succeeded"
    BY <1>1, <2>1, ReadingAt DEF StepRelies
  <2> PICK t : t = Settled(task, "unknown")  OBVIOUS
  <2>3. /\ IsWrite(t) /\ Reduced(t) = t /\ t.status = "succeeded" /\ NextIsReady(t, next, job.st)
        /\ KeepsSpec(t)
    BY <1>1, <2>1, <2>2, ReadingCallEnds DEF ChangesCalls
  <2> QED  BY <1>1, <2>1, <2>2, <2>3, ReadingGoes
<1>3. CASE InterpretFail
  BY <1>1, <1>3, ReadingAt, FailedReadingEnds DEF InterpretFail
<1>4. CASE InterpretConcluded
  <2>1. /\ ResearchDoing("concluded") /\ Others
        /\ Go([Settled(task, "observed") EXCEPT !.evid = researchOp.rep], "publishc")
    BY <1>4 DEF InterpretConcluded
  <2>2. /\ task.res.st # "pending" /\ task.status = "succeeded" /\ task.concl = 0
        /\ researchOp.rep \in Nat /\ TaskShape(task)
    BY <1>1, <2>1, ReadingAt DEF StepRelies, ResearchOps
  <2> PICK d : d = Settled(task, "observed")  OBVIOUS
  <2>3. ChangesCalls(d)
    BY <1>1, <2>1, <2>2, ReadingCallEnds
  <2> PICK t : t = [d EXCEPT !.evid = researchOp.rep]  OBVIOUS
  <2>4. /\ Whole(t) /\ KeepsSpec(t) /\ KeepsRuns(t) /\ KeepsStatus(t)
        /\ t.evid = researchOp.rep /\ t.concl = task.concl
        /\ t.calls = d.calls /\ t.spent = d.spent /\ t.res = d.res
    BY <2>3 DEF ChangesCalls, Whole, KeepsSpec, KeepsReading, KeepsRuns, KeepsStatus
  <2>5. /\ {t.calls, t.spent, t.evid, t.concl} \subseteq Nat /\ t.concl = 0 /\ t.res \in ModelCalls
        /\ CallsAreCharged(t, researchGhost.sends)
    BY <2>2, <2>3, <2>4 DEF ChangesCalls, CallsAreCharged
  <2>6. IsWrite(t) /\ Reduced(t) = t /\ t.status = "succeeded" /\ NextIsReady(t, next, job.st)
    BY <1>1, <2>1, <2>2, <2>4, <2>5, ReadingIsWrite
  <2> QED  BY <1>1, <2>1, <2>2, <2>4, <2>5, <2>6, ReadingGoes
<1> QED  BY <1>2, <1>3, <1>4

LEMMA ReadingPublishes ==
    ASSUME ResearchInv, PublishInterpretation PROVE ResearchInv'
<1>1. /\ ResearchDoing("publishc") /\ Others /\ "publishc" \in InterpretSteps
      /\ "publishc" \in ResearchSteps
  BY StepNames DEF PublishInterpretation, InterpretSteps
<1>2. /\ task.status = "succeeded" /\ researchOp # ResearchNoOp
      /\ NextIsReady(task, ThenNext, job.st) /\ TaskShape(task)
  BY <1>1, ReadingAt, CompletedAt
<1>3. ASSUME Noop PROVE ResearchInv'  BY <1>1, <1>2, <1>3, NoopKeepsResearch
<1>4. ASSUME Finish(InterpretFailed(task)) PROVE ResearchInv'
  BY <1>1, <1>2, <1>4, FailedReadingEnds
<1>5. ASSUME NEW t, t = [task EXCEPT !.concl = task.evid], Finish(t) PROVE ResearchInv'
  <2>1. /\ Whole(t) /\ KeepsSpec(t) /\ KeepsCalls(t) /\ KeepsRuns(t) /\ KeepsStatus(t)
        /\ t.evid = task.evid /\ t.concl = task.evid
    <3>1. Whole(task)  BY <1>2, TaskKeeps
    <3> QED  BY <1>5, <3>1 DEF Whole, KeepsSpec, KeepsCalls, KeepsRuns, KeepsStatus
  <2>2. {t.evid, t.concl} \subseteq Nat /\ t.concl = t.evid
    BY <1>2, <2>1 DEF TaskShape
  <2>3. IsWrite(t) /\ NextIsReady(Reduced(t), ThenNext, job.st)
    BY <1>1, <1>2, <2>1, <2>2, SameCalls, ReadingIsWrite
  <2> QED  BY <1>1, <1>2, <1>5, <2>3, FinishKeepsResearch DEF ThenNext
<1> QED
  <2>1. CASE Finish(IF Publishable THEN [task EXCEPT !.concl = task.evid] ELSE task)
    BY <1>3, <1>5, <2>1 DEF Noop
  <2> QED  BY <1>3, <1>4, <2>1 DEF PublishInterpretation
-----------------------------------------------------------------------------
(* Reconciliation and retry.                                               *)

\* A call that was in flight before the spec was confirmed is returned or spent.
LEMMA InFlightReconciled ==
    ASSUME ResearchInv, ResearchDoing("reconcile"), Others, task.status # "succeeded",
           \/ task.res.st = "pending" /\ Go(ReleasePending(task), "rfail")
           \/ /\ task.res.st = "dispatched"
              /\ Finish(WithError(Settled(task, "unknown"), "unknown", "propose"))
    PROVE  ResearchInv'
<1>1. /\ researchOp # ResearchNoOp /\ researchOp \in ResearchOps /\ TaskShape(task)
      /\ TaskRecord(task, researchGhost.sends, job.st) /\ NextIsReady(task, next, job.st)
      /\ StepRelies(task, "reconcile", researchOp.then, researchGhost.sends, job.st)
      /\ researchGhost.sends \in Nat /\ next \in {"none", "propose", "backtest", "retry"}
  BY AtAStep, StepNames DEF TaskRecord, ResearchInv
<1>2. /\ ~task.conf /\ ~task.draft
      /\ task.calls = task.spent + 1 /\ task.calls \in Nat /\ task.spent \in Nat
      /\ task.calls <= MaxCalls
      /\ task.res.st = "pending" => researchGhost.sends <= task.spent
  BY <1>1 DEF TaskRecord, TaskPhase, CallsAreCharged, TaskShape
<1>3. /\ next = "none" /\ researchOp.then \in {"none", "retry"}
      /\ ThenNext = "retry" => task.kind = "legacy"
  BY <1>1, <1>2 DEF NextIsReady, StepRelies, ResearchOps, ThenNext
<1>4. CASE task.res.st = "pending"
  <2> PICK t : t = ReleasePending(task)  OBVIOUS
  <2>1. /\ Whole(t) /\ KeepsSpec(t) /\ KeepsReading(t) /\ KeepsRuns(t) /\ KeepsStatus(t)
        /\ t.calls = task.calls - 1 /\ t.spent = task.spent /\ t.last = task.last
        /\ t.res = ResearchNoCall
    <3>1. t = Refunded(task)  BY <1>4 DEF ReleasePending
    <3> QED  BY <1>1, <3>1, RefundWrites
  <2>2. t.res \in ModelCalls /\ {t.calls, t.spent} \subseteq Nat
    BY <1>2, <2>1 DEF ModelCalls
  <2>3. CallsAreCharged(t, researchGhost.sends)
    BY <1>1, <1>2, <1>4, <2>1, ResearchAssumption DEF CallsAreCharged, ResearchNoCall
  <2>4. IsWrite(t)  BY <1>2, <2>1, <2>2, <2>3, CallWriteIsWrite DEF KeepsStatus
  <2>5. KeepsSpec(Reduced(t)) /\ Reduced(t).res.st = "none"
    BY <1>1, <2>1, ReducedKeeps DEF ResearchNoCall
  <2>6. StepRelies(Reduced(t), "rfail", researchOp.then, researchGhost.sends, job.st)
    BY <1>1, <1>2, <1>3, <2>5 DEF StepRelies, ProposeSteps, RunSteps, InterpretSteps, KeepsSpec
  <2>7. Go(t, "rfail")  BY <1>4
  <2>8. NextIsReady(Reduced(t), next, job.st)  BY <1>3 DEF NextIsReady
  <2> QED  BY <1>1, <1>3, <2>4, <2>6, <2>7, <2>8, StepNames, GoKeepsResearch
<1>5. CASE task.res.st = "dispatched"
  <2> PICK t : t = WithError(Settled(task, "unknown"), "unknown", "propose")  OBVIOUS
  <2>1. IsWrite(t) /\ KeepsSpec(t) /\ t.res = ResearchNoCall
    BY <1>2, <1>5, SettledIsWrite
  <2>2. KeepsSpec(Reduced(t)) /\ Reduced(t).res.st = "none"
    BY <1>1, <2>1, ReducedKeeps DEF ResearchNoCall
  <2>3. NextIsReady(Reduced(t), ThenNext, job.st)
    BY <1>3, <2>2 DEF NextIsReady, KeepsSpec, ThenNext
  <2>4. Finish(t)  BY <1>5
  <2> QED  BY <1>1, <2>1, <2>3, <2>4, FinishKeepsResearch DEF ThenNext
<1> QED  BY <1>4, <1>5

\* Reading what is left of the task once no call is in flight.
LEMMA ReconcileReads ==
    ASSUME ResearchInv, ResearchDoing("reconcile"), Others,
           task.res.st = "none" \/ task.status = "succeeded",
           \/ Noop
           \/ \E pc \in {"publishc", "recover", "bind"} :
                 /\ researchOp' = ResearchAt(pc) /\ UNCHANGED <<task, owned, next, researchGhost>>
                 /\ pc = "publishc" => task.status = "succeeded"
                 /\ pc = "recover" => task.bres # "none"
                 /\ pc = "bind" => JobRead /\ task.res.st = "none"
    PROVE  ResearchInv'
<1>1. /\ researchOp # ResearchNoOp /\ researchOp \in ResearchOps
      /\ NextIsReady(task, next, job.st)
      /\ StepRelies(task, "reconcile", researchOp.then, researchGhost.sends, job.st)
  BY AtAStep, StepNames
<1>2. /\ NextIsReady(task, ThenNext, job.st) /\ researchOp.then # "backtest"
      /\ researchOp.then = "retry" => task.kind = "legacy"
  BY <1>1 DEF NextIsReady, StepRelies, ResearchOps, ThenNext
<1>3. CASE Noop  BY <1>1, <1>2, <1>3, NoopKeepsResearch
<1>4. ASSUME NEW pc \in {"publishc", "recover", "bind"}, researchOp' = ResearchAt(pc),
             UNCHANGED <<task, owned, next, researchGhost>>,
             pc = "publishc" => task.status = "succeeded",
             pc = "recover" => task.bres # "none",
             pc = "bind" => JobRead /\ task.res.st = "none"
      PROVE  ResearchInv'
  <2>1. StepRelies(task, pc, researchOp.then, researchGhost.sends, job.st)
    BY <1>2, <1>4 DEF StepRelies, ProposeSteps, RunSteps, InterpretSteps, BindSteps, JobRead
  <2>2. pc \in ResearchSteps /\ pc # "publish" /\ pc \notin ProposeSteps \cup RunSteps \cup {"retry"}
    BY StepNames DEF ProposeSteps, RunSteps
  <2> QED  BY <1>1, <1>4, <2>1, <2>2, StepKeepsResearch
<1> QED  BY <1>3, <1>4

LEMMA ReconcileKeepsResearch ==
    ASSUME ResearchInv, ResearchReconcile PROVE ResearchInv'
<1>1. ResearchDoing("reconcile") /\ Others /\ "reconcile" \in ResearchSteps
  BY StepNames DEF ResearchReconcile
<1>2. /\ researchOp # ResearchNoOp /\ researchOp \in ResearchOps /\ TaskShape(task)
      /\ TaskRecord(task, researchGhost.sends, job.st) /\ NextIsReady(task, next, job.st)
      /\ StepRelies(task, "reconcile", researchOp.then, researchGhost.sends, job.st)
      /\ next \in {"none", "propose", "backtest", "retry"}
  BY <1>1, AtAStep DEF TaskRecord, ResearchInv
<1>3. /\ task.res.st \in {"none", "pending", "dispatched"}
      /\ task.res.st = "none" <=> task.res = ResearchNoCall
  BY <1>2 DEF TaskShape, ModelCalls, ResearchNoCall
<1>4. CASE task.res # ResearchNoCall /\ task.status = "succeeded"
  <2> PICK t : t = IF task.res.st = "pending" THEN ReleasePending(task) ELSE Settled(task, "unknown")
    OBVIOUS
  <2>1. /\ IsWrite(t) /\ Reduced(t) = t /\ t.status = "succeeded" /\ NextIsReady(t, next, job.st)
        /\ KeepsSpec(t)
    <3>1. \/ t = ReleasePending(task) /\ task.res.st = "pending"
          \/ t = Settled(task, "unknown") /\ task.res.st # "pending"
      OBVIOUS
    <3> QED  BY <1>1, <1>4, <3>1, ReadingCallEnds DEF ChangesCalls
  <2>2. Go(t, "ifail")  BY <1>4 DEF ResearchReconcile
  <2>3. "ifail" \in InterpretSteps  BY DEF InterpretSteps
  <2> QED  BY <1>1, <1>4, <2>1, <2>2, <2>3, ReadingGoes
<1>5. CASE task.res = ResearchNoCall /\ task.status = "succeeded" /\ task.concl # 0
  <2>1. CASE rep = task.concl
    <3>1. Noop  BY <1>5, <2>1 DEF ResearchReconcile
    <3> QED  BY <1>1, <1>5, <3>1, ReconcileReads
  <2>2. CASE rep # task.concl
    <3> PICK t : t = [task EXCEPT !.concl = 0, !.ierr = "failed"]  OBVIOUS
    <3>1. Finish(t)  BY <1>5, <2>2 DEF ResearchReconcile
    <3>2. /\ Whole(t) /\ KeepsSpec(t) /\ KeepsCalls(t) /\ KeepsRuns(t) /\ KeepsStatus(t)
          /\ t.evid = task.evid /\ t.concl = 0
      <4>1. Whole(task)  BY <1>2, TaskKeeps
      <4> QED  BY <4>1 DEF Whole, KeepsSpec, KeepsCalls, KeepsRuns, KeepsStatus
    <3>3. {t.evid, t.concl} \subseteq Nat  BY <1>2, <3>2 DEF TaskShape
    <3>4. IsWrite(t) /\ NextIsReady(Reduced(t), ThenNext, job.st)
      BY <1>1, <1>5, <3>2, <3>3, SameCalls, ReadingIsWrite
    <3> QED  BY <1>1, <1>2, <3>1, <3>4, FinishKeepsResearch DEF ThenNext
  <2> QED  BY <2>1, <2>2
<1>6. CASE task.res = ResearchNoCall /\ task.status = "succeeded" /\ task.concl = 0 /\ task.evid # 0
  <2>1. researchOp' = ResearchAt("publishc") /\ UNCHANGED <<task, owned, next, researchGhost>>
    BY <1>6 DEF ResearchReconcile
  <2> QED  BY <1>1, <1>6, <2>1, ReconcileReads
<1>7. CASE task.res # ResearchNoCall /\ task.status # "succeeded"
  <2>1. \/ task.res.st = "pending" /\ Go(ReleasePending(task), "rfail")
        \/ /\ task.res.st = "dispatched"
           /\ Finish(WithError(Settled(task, "unknown"), "unknown", "propose"))
    BY <1>3, <1>7 DEF ResearchReconcile
  <2> QED  BY <1>1, <1>7, <2>1, InFlightReconciled
<1>8. CASE /\ task.res = ResearchNoCall
           /\ task.status = "succeeded" => task.concl = 0 /\ task.evid = 0
  <2>1. task.res.st = "none"  BY <1>3, <1>8
  <2>2. CASE task.bres # "none"
    <3>1. researchOp' = ResearchAt("recover") /\ UNCHANGED <<task, owned, next, researchGhost>>
      BY <1>8, <2>1, <2>2 DEF ResearchReconcile
    <3> QED  BY <1>1, <2>1, <2>2, <3>1, ReconcileReads
  <2>3. CASE task.bres = "none" /\ task.bound
    <3>1. \/ researchOp' = ResearchAt("bind") /\ UNCHANGED <<task, owned, next, researchGhost>>
          \/ Noop
      BY <1>8, <2>1, <2>3 DEF ResearchReconcile
    <3>2. JobRead  BY <1>2, <2>3 DEF TaskRecord, RunsAreCharged, JobRead
    <3> QED  BY <1>1, <2>1, <3>1, <3>2, ReconcileReads
  <2>4. CASE task.bres = "none" /\ ~task.bound /\ task.status \notin {"drafting", "confirmed"}
    <3>1. Noop  BY <1>8, <2>1, <2>4 DEF ResearchReconcile
    <3> QED  BY <1>1, <2>1, <3>1, ReconcileReads
  <2>5. CASE task.bres = "none" /\ ~task.bound /\ task.status \in {"drafting", "confirmed"}
    <3>1. ASSUME JobRead, researchOp' = ResearchAt("bind"), UNCHANGED <<task, owned, next, researchGhost>>
          PROVE  ResearchInv'
      BY <1>1, <2>1, <3>1, ReconcileReads
    <3>2. ASSUME Noop PROVE ResearchInv'
      BY <1>1, <2>1, <3>2, ReconcileReads
    <3>3. ASSUME task.last # "observed", NEW err, Finish(Failed(err, "propose")) PROVE ResearchInv'
      <4>1. ~task.draft /\ ~(task.conf /\ task.kind = "legacy")
        BY <1>2, <2>5, <3>3 DEF TaskRecord, TaskPhase
      <4>2. NextIsReady(task, ThenNext, job.st)
        BY <1>2, <2>1 DEF NextIsReady, StepRelies, ResearchOps, ThenNext
      <4> QED  BY <1>1, <1>2, <2>1, <3>3, <4>1, <4>2, FailureKeepsResearch
    <3>4. \/ Noop
          \/ JobRead /\ researchOp' = ResearchAt("bind") /\ UNCHANGED <<task, owned, next, researchGhost>>
          \/ /\ task.last # "observed"
             /\ Finish(Failed(IF task.last = "unknown" THEN "unknown" ELSE "retry", "propose"))
      BY <1>8, <2>1, <2>5 DEF ResearchReconcile
    <3> QED  BY <3>1, <3>2, <3>3, <3>4
  <2> QED  BY <2>2, <2>3, <2>4, <2>5
<1> QED  BY <1>4, <1>5, <1>6, <1>7, <1>8

LEMMA RetryKeepsResearch ==
    ASSUME ResearchInv, ReconcileFail \/ Retry PROVE ResearchInv'
<1>1. CASE ReconcileFail
  <2>1. ResearchDoing("rfail") /\ Others /\ Finish(Failed("retry", "propose"))
        /\ "rfail" \in ResearchSteps
    BY <1>1, StepNames DEF ReconcileFail
  <2>2. /\ researchOp # ResearchNoOp /\ researchOp \in ResearchOps /\ NextIsReady(task, next, job.st)
        /\ StepRelies(task, "rfail", researchOp.then, researchGhost.sends, job.st)
    BY <2>1, AtAStep
  <2>3. ~task.conf /\ ~task.draft /\ task.res.st = "none"  BY <2>2 DEF StepRelies
  <2>4. NextIsReady(task, ThenNext, job.st)
    BY <2>2, <2>3 DEF NextIsReady, StepRelies, ResearchOps, ThenNext
  <2> QED  BY <2>1, <2>2, <2>3, <2>4, FailureKeepsResearch
<1>2. CASE Retry
  <2>1. ResearchDoing("retry") /\ Others /\ {"retry", "reserve", "start"} \subseteq ResearchSteps
    BY <1>2, StepNames DEF Retry
  <2>2. /\ researchOp # ResearchNoOp /\ researchOp \in ResearchOps /\ next = "none"
        /\ StepRelies(task, "retry", researchOp.then, researchGhost.sends, job.st)
        /\ TaskRecord(task, researchGhost.sends, job.st)
    BY <2>1, AtAStep
  <2>3. researchOp.then = "none" /\ task.kind = "legacy"
        /\ (task.res.st = "none" \/ task.status = "succeeded")
    BY <2>2 DEF StepRelies, ResearchOps, InterpretSteps, BindSteps
  <2>4. CASE Retryable
    <3> DEFINE pc == IF task.step = "propose" THEN "reserve" ELSE "start"
    <3>1. researchOp' = ResearchAt(pc) /\ UNCHANGED <<task, owned, next, researchGhost>>
      BY <1>2, <2>4 DEF Retry
    <3>2. /\ pc = "reserve" => ~task.conf /\ ~task.draft
          /\ pc = "start" => task.conf
      BY <2>2, <2>3, <2>4 DEF TaskRecord, TaskPhase, Retryable
    <3>3. pc \in {"reserve", "start"}  OBVIOUS
    <3> HIDE DEF pc
    <3>4. StepRelies(task, pc, researchOp.then, researchGhost.sends, job.st)
      BY <2>3, <2>4, <3>2, <3>3 DEF StepRelies, ProposeSteps, RunSteps, InterpretSteps, Retryable
    <3> QED  BY <2>1, <2>2, <3>1, <3>3, <3>4, StepKeepsResearch
  <2>5. CASE ~Retryable
    <3>1. Noop  BY <1>2, <2>5 DEF Retry
    <3>2. NextIsReady(task, ThenNext, job.st)
      BY <2>2, <2>3 DEF NextIsReady, ThenNext
    <3> QED  BY <2>1, <2>2, <3>1, <3>2, NoopKeepsResearch
  <2> QED  BY <2>4, <2>5
<1> QED  BY <1>1, <1>2
-----------------------------------------------------------------------------
(* What happens around an operation.                                       *)

LEMMA BeginKeeps ==
    ASSUME ResearchInv, NEW pc \in ResearchSteps, NEW then \in {"none", "backtest", "retry"},
           Begin(pc, then), next' \in {"none", next}, pc # "publish",
           StepRelies(task, pc, then, researchGhost.sends, job.st),
           next' # "none" => pc \notin ProposeSteps \cup RunSteps \cup {"retry"}
    PROVE  ResearchInv'
<1>1. /\ task' = task /\ job' = job /\ rep' = rep /\ cancel' = cancel /\ owned'
      /\ owned' = TRUE
      /\ \/ /\ researchOp' = [pc |-> pc, then |-> then, rep |-> 0]
            /\ researchGhost' = researchGhost
         \/ /\ researchOp' = ResearchNoOp
            /\ researchGhost' = [researchGhost EXCEPT !.faults = @ + 1, !.lost = TRUE]
  BY DEF Begin, Enter
<1>2. NextIsReady(task, next, job.st) /\ NextIsReady(task, "none", job.st)
  BY DEF ResearchInv, Begin, NextIsReady
<1>3. /\ researchGhost' = [sends |-> researchGhost'.sends, faults |-> researchGhost'.faults,
                           reports |-> researchGhost'.reports, was |-> researchGhost'.was,
                           lost |-> researchGhost'.lost]
      /\ researchGhost'.sends = researchGhost.sends /\ researchGhost'.lost \in BOOLEAN
      /\ researchOp' = ResearchNoOp => researchGhost'.lost
  <2>1. [pc |-> pc, then |-> then, rep |-> 0].pc # "none"  BY StepNames
  <2>2. [pc |-> pc, then |-> then, rep |-> 0] # ResearchNoOp  BY <2>1 DEF ResearchNoOp
  <2> QED  BY <1>1, <2>2 DEF ResearchInv
<1>4. researchOp' # ResearchNoOp => /\ researchOp' \in ResearchOps
                                    /\ researchOp'.pc = pc /\ researchOp'.then = then
  BY <1>1 DEF ResearchOps
<1>5. NextIsReady(task', next', job'.st)  BY <1>1, <1>2
<1>6. TaskRecord(task', researchGhost'.sends, job'.st)  BY <1>1, <1>3 DEF ResearchInv
<1>7. researchOp' # ResearchNoOp
        => StepRelies(task', researchOp'.pc, researchOp'.then, researchGhost'.sends, job'.st)
  BY <1>1, <1>3, <1>4
<1>8. /\ job' \in [st : JobStatuses] /\ rep' \in Nat /\ owned' \in BOOLEAN
      /\ next' \in {"none", "propose", "backtest", "retry"} /\ researchGhost'.sends \in Nat
  BY <1>1, <1>3 DEF ResearchInv
<1>9. cancel' = "answered" /\ task'.status = "cancelled" =>
        job'.st # "accepted" /\ (researchOp' # ResearchNoOp => researchOp'.pc # "publish")
  BY <1>1, <1>4 DEF ResearchInv
<1> QED
  BY <1>1, <1>3, <1>4, <1>5, <1>6, <1>7, <1>8, <1>9 DEF ResearchInv, OwnerIsLive

LEMMA BeginsKeepResearch ==
    ASSUME ResearchInv, BeginNext \/ DropNext \/ BeginConfirm \/ BeginEdit \/ BeginInterpret
                        \/ BeginReconcile \/ BeginRetry
    PROVE  ResearchInv'
<1>1. CASE BeginNext
  <2>1. /\ ~owned /\ next' = "none" /\ next \in {"propose", "backtest", "retry"}
        /\ NextIsReady(task, next, job.st) /\ TaskRecord(task, researchGhost.sends, job.st)
    BY <1>1 DEF ResearchInv, BeginNext, Begin
  <2>2. PICK pc \in {"reserve", "start", "retry"} :
          /\ Begin(pc, "none")
          /\ pc = "reserve" => next = "propose"
          /\ pc = "start" => next = "backtest"
          /\ pc = "retry" => next = "retry"
    BY <1>1, <2>1 DEF BeginNext
  <2>3. pc = "reserve" => task.res.st = "none"
    BY <2>1, <2>2 DEF NextIsReady, TaskRecord, CallsAreCharged, TaskShape
  <2>4. StepRelies(task, pc, "none", researchGhost.sends, job.st)
    BY <2>1, <2>2, <2>3 DEF NextIsReady, StepRelies, ProposeSteps, RunSteps, InterpretSteps
  <2>5. pc \in ResearchSteps /\ pc # "publish"  BY StepNames
  <2> QED  BY <2>1, <2>2, <2>4, <2>5, BeginKeeps
<1>2. CASE DropNext
  BY <1>2 DEF DropNext, ResearchInv, OwnerIsLive, NextIsReady
<1>3. ASSUME NEW pc \in {"confirm", "edit", "interpret", "reconcile"},
             NEW then \in {"none", "backtest", "retry"}, Begin(pc, then), UNCHANGED next,
             then = "backtest" => pc = "confirm",
             then = "retry" => pc = "reconcile" /\ ~Owned
      PROVE  ResearchInv'
  <2>1. TaskShape(task)  BY DEF ResearchInv, TaskRecord
  <2>2. then = "retry" => task.kind = "legacy"  BY <1>3, <2>1 DEF TaskShape, Owned
  <2>3. StepRelies(task, pc, then, researchGhost.sends, job.st)
    BY <1>3, <2>2 DEF StepRelies, ProposeSteps, RunSteps, InterpretSteps
  <2>4. pc \in ResearchSteps /\ pc # "publish" /\ pc \notin ProposeSteps \cup RunSteps \cup {"retry"}
    BY StepNames DEF ProposeSteps, RunSteps
  <2> QED  BY <1>3, <2>3, <2>4, BeginKeeps
<1> QED
  BY <1>1, <1>2, <1>3 DEF BeginConfirm, BeginEdit, BeginInterpret, BeginReconcile, BeginRetry

\* A cancellation takes back a call that did not leave and disturbs no step in progress.
LEMMA CancelRecordIsRecord ==
    ASSUME ResearchInv
    PROVE  LET t == CancelRecord
           IN  /\ TaskRecord(t, researchGhost.sends, job.st)
               /\ \A pc \in ResearchSteps, then \in {"none", "backtest", "retry"} :
                    StepRelies(task, pc, then, researchGhost.sends, job.st)
                      => StepRelies(t, pc, then, researchGhost.sends, job.st)
               /\ \A nxt : NextIsReady(task, nxt, job.st) => NextIsReady(t, nxt, job.st)
               /\ task.status = "cancelled" => t.status = "cancelled"
<1> SUFFICES ASSUME NEW t, t = CancelRecord
             PROVE  /\ TaskRecord(t, researchGhost.sends, job.st)
                    /\ \A pc \in ResearchSteps, then \in {"none", "backtest", "retry"} :
                         StepRelies(task, pc, then, researchGhost.sends, job.st)
                           => StepRelies(t, pc, then, researchGhost.sends, job.st)
                    /\ \A nxt : NextIsReady(task, nxt, job.st) => NextIsReady(t, nxt, job.st)
                    /\ task.status = "cancelled" => t.status = "cancelled"
  OBVIOUS
<1>1. TaskShape(task) /\ TaskRecord(task, researchGhost.sends, job.st)
  BY DEF ResearchInv, TaskRecord
<1>2. CASE t = task  BY <1>1, <1>2
<1>3. CASE task.status = "succeeded" /\ ~Closed(task)
  <2> PICK d : d = ReleasePending(task)  OBVIOUS
  <2>1. t = [d EXCEPT !.ierr = "cancelled"]  BY <1>3 DEF CancelRecord
  <2>2. /\ task.res.st = "pending"
              => task.calls = task.spent + 1 /\ researchGhost.sends <= task.spent
        /\ researchGhost.sends \in Nat /\ task.calls \in Nat /\ task.spent \in Nat
    BY <1>1 DEF TaskRecord, CallsAreCharged, TaskShape, ResearchInv
  <2>3. /\ Whole(d) /\ KeepsSpec(d) /\ KeepsReading(d) /\ KeepsRuns(d) /\ KeepsStatus(d)
        /\ d.spent = task.spent /\ d.last = task.last
        /\ \/ task.res.st = "pending" /\ d.res = ResearchNoCall /\ d.calls = task.calls - 1
           \/ task.res.st # "pending" /\ d.res = task.res /\ d.calls = task.calls
    <3>1. CASE task.res.st = "pending"
      <4>1. d = Refunded(task)  BY <3>1 DEF ReleasePending
      <4> QED  BY <1>1, <3>1, <4>1, RefundWrites
    <3>2. CASE task.res.st # "pending"
      <4>1. d = task  BY <3>2 DEF ReleasePending
      <4> QED  BY <1>1, <3>2, <4>1, TaskKeeps
    <3> QED  BY <3>1, <3>2
  <2>4. /\ Whole(t) /\ KeepsSpec(t) /\ KeepsReading(t) /\ KeepsRuns(t) /\ KeepsStatus(t)
        /\ t.spent = d.spent /\ t.last = d.last /\ t.res = d.res /\ t.calls = d.calls
    BY <2>1, <2>3 DEF Whole, KeepsSpec, KeepsReading, KeepsRuns, KeepsStatus
  <2>5. {t.calls, t.spent} \subseteq Nat /\ t.res \in ModelCalls
    BY <1>1, <2>2, <2>3, <2>4 DEF TaskShape, ModelCalls
  <2>6. CallsAreCharged(t, researchGhost.sends)
    BY <1>1, <2>2, <2>3, <2>4, <2>5, ResearchAssumption
       DEF TaskRecord, TaskShape, CallsAreCharged, ResearchNoCall, ResearchInv
  <2>7. TaskShape(t)
    BY <1>1, <2>4, <2>5 DEF TaskShape, Whole, KeepsSpec, KeepsReading, KeepsRuns, KeepsStatus
  <2>8. RunsAreCharged(t, job.st) /\ TaskPhase(t, job.st)
    BY <1>1, <1>3, <2>4 DEF TaskRecord, RunsAreCharged, TaskPhase, KeepsSpec, KeepsReading, KeepsRuns, KeepsStatus
  <2>9. ASSUME NEW pc \in ResearchSteps, NEW then \in {"none", "backtest", "retry"},
               StepRelies(task, pc, then, researchGhost.sends, job.st)
        PROVE  StepRelies(t, pc, then, researchGhost.sends, job.st)
    <3>1. task.conf  BY <1>1, <1>3 DEF TaskRecord, TaskPhase
    <3>2. pc \notin ProposeSteps  BY <2>9, <3>1 DEF StepRelies
    <3> QED
      BY <1>3, <2>3, <2>4, <2>9, <3>2 DEF StepRelies, ResearchNoCall, ProposeSteps, KeepsSpec,
         KeepsReading, KeepsRuns, KeepsStatus
  <2>10. ASSUME NEW nxt, NextIsReady(task, nxt, job.st) PROVE NextIsReady(t, nxt, job.st)
    BY <1>1, <1>3, <2>4, <2>10 DEF TaskRecord, TaskPhase, NextIsReady, KeepsSpec, KeepsRuns, KeepsStatus
  <2> QED  BY <1>3, <2>6, <2>7, <2>8, <2>9, <2>10 DEF TaskRecord
<1>4. CASE t = [task EXCEPT !.status = "cancelled", !.err = "none"]
           /\ task.status \notin {"succeeded", "unsupported", "cancelled"}
  <2>1. /\ Whole(t) /\ KeepsSpec(t) /\ KeepsReading(t) /\ KeepsCalls(t) /\ KeepsRuns(t)
        /\ t.status = "cancelled" /\ t.step = task.step
    <3>1. Whole(task)  BY <1>1, TaskKeeps
    <3> QED  BY <1>4, <3>1 DEF Whole, KeepsSpec, KeepsReading, KeepsCalls, KeepsRuns
  <2>2. TaskShape(t)
    BY <1>1, <2>1 DEF TaskShape, Whole, KeepsSpec, KeepsReading, KeepsCalls, KeepsRuns, TaskStatuses
  <2>3. CallsAreCharged(t, researchGhost.sends) /\ RunsAreCharged(t, job.st)
    BY <1>1, <2>1 DEF TaskRecord, CallsAreCharged, RunsAreCharged, KeepsCalls, KeepsRuns
  <2>4. TaskPhase(t, job.st)
    BY <1>1, <1>4, <2>1 DEF TaskRecord, TaskPhase, KeepsSpec, KeepsReading, KeepsCalls, KeepsRuns
  <2>5. ASSUME NEW pc \in ResearchSteps, NEW then \in {"none", "backtest", "retry"},
               StepRelies(task, pc, then, researchGhost.sends, job.st)
        PROVE  StepRelies(t, pc, then, researchGhost.sends, job.st)
    BY <1>4, <2>1, <2>5 DEF StepRelies, KeepsSpec, KeepsReading, KeepsCalls, KeepsRuns
  <2>6. ASSUME NEW nxt, NextIsReady(task, nxt, job.st) PROVE NextIsReady(t, nxt, job.st)
    BY <1>4, <2>1, <2>6 DEF NextIsReady, KeepsSpec, KeepsCalls, KeepsRuns
  <2> QED  BY <2>1, <2>2, <2>3, <2>4, <2>5, <2>6 DEF TaskRecord
<1> QED  BY <1>2, <1>3, <1>4 DEF CancelRecord

LEMMA CancelKeepsResearch ==
    ASSUME ResearchInv, CancelResearch PROVE ResearchInv'
<1> PICK t : t = CancelRecord  OBVIOUS
<1>1. /\ TaskRecord(t, researchGhost.sends, job.st)
      /\ \A pc \in ResearchSteps, then \in {"none", "backtest", "retry"} :
           StepRelies(task, pc, then, researchGhost.sends, job.st)
             => StepRelies(t, pc, then, researchGhost.sends, job.st)
      /\ \A nxt : NextIsReady(task, nxt, job.st) => NextIsReady(t, nxt, job.st)
      /\ task.status = "cancelled" => t.status = "cancelled"
  BY CancelRecordIsRecord
<1>2. /\ task' \in {task, t} /\ cancel' # "answered"
      /\ UNCHANGED <<owned, researchOp, next, job, rep>>
      /\ researchGhost' \in {researchGhost, [researchGhost EXCEPT !.faults = @ + 1]}
  BY DEF CancelResearch, ResearchFault
<1>3. /\ researchGhost' = [sends |-> researchGhost'.sends, faults |-> researchGhost'.faults,
                           reports |-> researchGhost'.reports, was |-> researchGhost'.was,
                           lost |-> researchGhost'.lost]
      /\ researchGhost'.sends = researchGhost.sends /\ researchGhost'.lost = researchGhost.lost
  BY <1>2 DEF ResearchInv
<1>4. TaskRecord(task', researchGhost'.sends, job'.st)  BY <1>1, <1>2, <1>3 DEF ResearchInv
<1>5. researchOp' # ResearchNoOp =>
        /\ researchOp' \in ResearchOps /\ owned'
        /\ StepRelies(task', researchOp'.pc, researchOp'.then, researchGhost'.sends, job'.st)
        /\ next' # "none" => researchOp'.pc \notin ProposeSteps \cup RunSteps \cup {"retry"}
  BY <1>1, <1>2, <1>3 DEF ResearchInv, ResearchOps
<1>6. ~owned' \/ researchOp' # ResearchNoOp => NextIsReady(task', next', job'.st)
  BY <1>1, <1>2 DEF ResearchInv
<1>7. OwnerIsLive'  BY <1>1, <1>2, <1>3 DEF ResearchInv, OwnerIsLive
<1> QED  BY <1>2, <1>3, <1>4, <1>5, <1>6, <1>7 DEF ResearchInv

\* The run ends or is stopped, its report changes, the process restarts.
LEMMA RunKeepsResearch ==
    ASSUME ResearchInv, StopBoundJobs \/ ResearchJobEnds \/ ReportChanges \/ ResearchCrash
    PROVE  ResearchInv'
<1>1. TaskShape(task) /\ TaskRecord(task, researchGhost.sends, job.st) /\ job \in [st : JobStatuses]
      /\ task' = task
  BY DEF ResearchInv, TaskRecord, StopBoundJobs, ResearchJobEnds, ReportChanges, ResearchCrash
<1>2. /\ researchGhost' = [sends |-> researchGhost'.sends, faults |-> researchGhost'.faults,
                           reports |-> researchGhost'.reports, was |-> researchGhost'.was,
                           lost |-> researchGhost'.lost]
      /\ researchGhost'.sends = researchGhost.sends /\ researchGhost'.lost \in BOOLEAN
  BY DEF ResearchInv, StopBoundJobs, ResearchJobEnds, ReportChanges, ResearchCrash
<1>3. /\ job' \in [st : JobStatuses]
      /\ \/ job'.st = job.st
         \/ job.st # "none" /\ job'.st \notin {"none", "hidden", "accepted"}
  BY <1>1 DEF StopBoundJobs, ResearchJobEnds, ReportChanges, ResearchCrash, Live, JobStatuses
<1>4. TaskRecord(task', researchGhost'.sends, job'.st)
  BY <1>1, <1>2, <1>3 DEF TaskRecord, RunsAreCharged, TaskPhase
<1>5. \A pc, then : StepRelies(task, pc, then, researchGhost.sends, job.st)
                      => StepRelies(task, pc, then, researchGhost.sends, job'.st)
  BY <1>3 DEF StepRelies
<1>6. \A nxt : NextIsReady(task, nxt, job.st) => NextIsReady(task, nxt, job'.st)
  BY <1>3 DEF NextIsReady
<1>7. CASE StopBoundJobs
  <2>1. /\ UNCHANGED <<task, owned, researchOp, next, rep, researchGhost>>
        /\ researchOp.pc # "publish" /\ job'.st # "accepted"
    BY <1>1, <1>7 DEF StopBoundJobs, ResearchDoing
  <2> QED  BY <1>1, <1>2, <1>3, <1>4, <1>5, <1>6, <2>1 DEF ResearchInv, OwnerIsLive
<1>8. CASE ResearchJobEnds
  <2>1. UNCHANGED <<task, owned, researchOp, next, rep, researchGhost, cancel>>
    BY <1>8 DEF ResearchJobEnds
  <2> QED  BY <1>1, <1>2, <1>3, <1>4, <1>5, <1>6, <2>1 DEF ResearchInv, OwnerIsLive
<1>9. CASE ReportChanges
  <2>1. /\ UNCHANGED <<task, owned, researchOp, next, job, cancel>> /\ rep' \in Nat
        /\ researchGhost'.lost = researchGhost.lost
    BY <1>9 DEF ReportChanges, ResearchInv
  <2> QED  BY <1>1, <1>2, <1>3, <1>4, <2>1 DEF ResearchInv, OwnerIsLive
<1>10. CASE ResearchCrash
  <2>1. /\ UNCHANGED <<task, rep>> /\ researchOp' = ResearchNoOp /\ owned' = FALSE
        /\ next' = "none" /\ (cancel' = "answered" => cancel = "answered")
    BY <1>10 DEF ResearchCrash
  <2>2. NextIsReady(task', next', job'.st)  BY <2>1 DEF NextIsReady
  <2> QED  BY <1>1, <1>2, <1>3, <1>4, <2>1, <2>2 DEF ResearchInv, OwnerIsLive
<1> QED  BY <1>7, <1>8, <1>9, <1>10

LEMMA ResearchInductive == ResearchInv /\ [ResearchNext]_researchVars => ResearchInv'
<1> SUFFICES ASSUME ResearchInv, [ResearchNext]_researchVars PROVE ResearchInv'
  OBVIOUS
<1>1. CASE ResearchStep
  BY <1>1, ReserveKeepsResearch, DispatchKeepsResearch, ProposeCallKeepsResearch, ProposeSettles,
     ToolsKeepResearch, ConfirmKeepsResearch, EditKeepsResearch, StartKeepsResearch,
     RunReserveKeepsResearch, RunDispatchKeepsResearch, PublishKeepsResearch,
     RefusedKeepsResearch, BindKeepsResearch, BindStateKeepsResearch, RecoverKeepsResearch,
     InterpretKeepsResearch, ReadingReserves, ReadingDispatches, ReadingCalls, ReadingSettles,
     ReadingPublishes, ReconcileKeepsResearch, RetryKeepsResearch DEF ResearchStep
<1>2. CASE UNCHANGED researchVars
  BY <1>2 DEF researchVars, ResearchInv, OwnerIsLive
<1> QED
  BY <1>1, <1>2, BeginsKeepResearch, CancelKeepsResearch, RunKeepsResearch DEF ResearchNext

LEMMA ResearchBegins == ResearchInit => ResearchInv
<1> SUFFICES ASSUME ResearchInit PROVE ResearchInv
  OBVIOUS
<1>1. PICK k \in ResearchKinds :
        /\ task = [kind |-> k, status |-> IF k = "owned" THEN "confirmed" ELSE "drafting",
                   draft |-> FALSE, conf |-> k = "owned", calls |-> 0, spent |-> 0,
                   res |-> ResearchNoCall, runs |-> 0, bres |-> "none", bound |-> FALSE,
                   err |-> "none", step |-> "propose", last |-> "none", evid |-> 0, concl |-> 0,
                   ierr |-> "none"]
        /\ next = IF k = "owned" THEN "backtest" ELSE "propose"
  BY DEF ResearchInit
<1>2. k \in {"legacy", "owned"} /\ {MaxCalls, MaxRuns} \subseteq Nat  BY ResearchAssumption
<1>3. /\ owned = FALSE /\ researchOp = ResearchNoOp /\ job = [st |-> "none"] /\ rep = 1
      /\ cancel = "none"
      /\ researchGhost = [sends |-> 0, faults |-> 0, reports |-> 0, was |-> FALSE, lost |-> FALSE]
  BY DEF ResearchInit
<1>4. TaskShape(task)  BY <1>1, <1>2 DEF TaskShape, TaskStatuses, ModelCalls
<1>5. CallsAreCharged(task, researchGhost.sends) /\ RunsAreCharged(task, job.st)
  BY <1>1, <1>2, <1>3 DEF CallsAreCharged, RunsAreCharged, ResearchNoCall
<1>6. TaskPhase(task, job.st)
  BY <1>1, <1>2, <1>3 DEF TaskPhase, ResearchNoCall
<1>7. NextIsReady(task, next, job.st)
  BY <1>1, <1>2, <1>3 DEF NextIsReady
<1>8. job \in [st : JobStatuses]  BY <1>3 DEF JobStatuses
<1> QED
  BY <1>1, <1>2, <1>3, <1>4, <1>5, <1>6, <1>7, <1>8 DEF ResearchInv, TaskRecord, OwnerIsLive

LEMMA ResearchInvIsSafe == ResearchInv => ResearchSafe
<1> SUFFICES ASSUME ResearchInv PROVE ResearchSafe
  OBVIOUS
<1>1. /\ TaskShape(task) /\ CallsAreCharged(task, researchGhost.sends)
      /\ RunsAreCharged(task, job.st) /\ TaskPhase(task, job.st)
      /\ researchGhost.sends \in Nat
  BY DEF ResearchInv, TaskRecord
<1>2. ResearchTypeOK
  BY <1>1, ResearchAssumption DEF ResearchTypeOK, TaskShape, TaskStatuses, ModelCalls,
     ResearchNoCall, CallsAreCharged, RunsAreCharged
<1>3. SendsAreCharged
  BY <1>1 DEF SendsAreCharged, TaskShape, ModelCalls, ResearchNoCall, CallsAreCharged
<1>4. RunIsCharged  BY <1>1 DEF RunIsCharged, RunsAreCharged, TaskShape
<1>5. OwnerIsLive /\ CancelStopsTheRun
  BY DEF ResearchInv, CancelStopsTheRun
<1>6. ConclusionIsEvidenced  BY <1>1 DEF ConclusionIsEvidenced, TaskPhase
<1> QED  BY <1>2, <1>3, <1>4, <1>5, <1>6 DEF ResearchSafe
\* Only a call to the provider counts as one.
LEMMA SavesSendNothing ==
    ASSUME ResearchInv, NEW t, NEW op, NEW done, ResearchSave(t, done, op)
    PROVE  researchGhost'.sends = researchGhost.sends
BY DEF ResearchInv, ResearchSave, Saw

LEMMA OnlyCallsSend ==
    ASSUME ResearchInv, [ResearchNext]_researchVars
    PROVE  researchGhost'.sends = researchGhost.sends \/ ProposeCall \/ InterpretCall
<1>1. /\ \A t, op, done : ResearchSave(t, done, op) => researchGhost'.sends = researchGhost.sends
      /\ \A t, pc : Go(t, pc) => researchGhost'.sends = researchGhost.sends
      /\ \A t : Finish(t) => researchGhost'.sends = researchGhost.sends
      /\ Noop => researchGhost'.sends = researchGhost.sends
      /\ \A pc, then : Begin(pc, then) => researchGhost'.sends = researchGhost.sends
  BY SavesSendNothing DEF Go, Finish, Noop, Begin, Enter, ResearchInv
<1>2. CASE ResearchStep
  <2>1. CASE ProposeReserve  BY <1>1, <2>1 DEF ProposeReserve, Raise
  <2>2. CASE ProposeDispatch  BY <1>1, <2>2 DEF ProposeDispatch
  <2>3. CASE ProposeUnknown \/ ProposeObserved
    BY <1>1, <2>3 DEF ProposeUnknown, ProposeObserved
  <2>4. CASE ProposeTools  BY <1>1, <2>4 DEF ProposeTools
  <2>5. CASE Confirm \/ EditRead \/ EditWrite
    BY <1>1, <2>5 DEF Confirm, EditRead, EditWrite, Raise
  <2>6. CASE StartBacktest  BY <1>1, <2>6 DEF StartBacktest, UnknownJob
  <2>7. CASE BacktestReserve  BY <1>1, <2>7 DEF BacktestReserve, Raise
  <2>8. CASE BacktestDispatch  BY <1>1, <2>8 DEF BacktestDispatch
  <2>9. CASE SubmitJob  BY <1>1, <2>9 DEF SubmitJob, UnknownJob
  <2>10. CASE PublishJob  BY <2>10 DEF PublishJob, ResearchFault, ResearchInv
  <2>11. CASE SubmissionRefused  BY <1>1, <2>11 DEF SubmissionRefused, UnknownJob
  <2>12. CASE BindFound \/ BindState  BY <1>1, <2>12 DEF BindFound, BindState, Raise
  <2>13. CASE RecoverBacktest  BY <1>1, <2>13 DEF RecoverBacktest, UnknownJob
  <2>14. CASE Interpret  BY <1>1, <2>14 DEF Interpret
  <2>15. CASE InterpretReserve \/ InterpretDispatch
    BY <1>1, <2>15 DEF InterpretReserve, InterpretDispatch
  <2>16. CASE InterpretUnknown \/ InterpretFail \/ InterpretConcluded
    BY <1>1, <2>16 DEF InterpretUnknown, InterpretFail, InterpretConcluded
  <2>17. CASE PublishInterpretation  BY <1>1, <2>17 DEF PublishInterpretation
  <2>18. CASE ResearchReconcile  BY <1>1, <2>18 DEF ResearchReconcile
  <2>19. CASE ReconcileFail \/ Retry  BY <1>1, <2>19 DEF ReconcileFail, Retry
  <2> QED
    BY <1>2, <2>1, <2>2, <2>3, <2>4, <2>5, <2>6, <2>7, <2>8, <2>9, <2>10, <2>11, <2>12, <2>13,
       <2>14, <2>15, <2>16, <2>17, <2>18, <2>19 DEF ResearchStep
<1>3. CASE BeginNext \/ DropNext \/ BeginConfirm \/ BeginEdit \/ BeginInterpret
           \/ BeginReconcile \/ BeginRetry
  BY <1>1, <1>3 DEF BeginNext, DropNext, BeginConfirm, BeginEdit, BeginInterpret,
     BeginReconcile, BeginRetry
<1>4. CASE CancelResearch \/ StopBoundJobs \/ ResearchJobEnds \/ ReportChanges \/ ResearchCrash
  BY <1>4 DEF CancelResearch, StopBoundJobs, ResearchJobEnds, ReportChanges, ResearchCrash,
     ResearchFault, ResearchInv
<1>5. CASE UNCHANGED researchVars  BY <1>5 DEF researchVars
<1> QED  BY <1>2, <1>3, <1>4, <1>5 DEF ResearchNext

\* A research task: what was sent is charged, a run is, an open task keeps a
\* live owner, a cancellation stops the run and a conclusion has its evidence
\* (web/research.py and its callers' retries, cancellations and crashes).
THEOREM ResearchIsSafe == WebSpec => []ResearchSafe
<1>1. ResearchSpec => []ResearchInv
    BY ResearchBegins, ResearchInductive, PTL DEF ResearchSpec
<1> QED  BY <1>1, PartsRun, ResearchInvIsSafe, PTL

\* No step of a task whose proposal has an unknown outcome calls the provider:
\* neither a retry, nor a reconciliation, nor a restart sends it again
\* (web/research.py retry, _reserve_call, _propose).
THEOREM UnknownStaysUnsent == ResearchSpec => UnknownProposalIsNotResent
<1>1. ResearchSpec => []ResearchInv
    BY ResearchBegins, ResearchInductive, PTL DEF ResearchSpec
<1>2. ASSUME ResearchInv, [ResearchNext]_researchVars
      PROVE  [(researchGhost'.sends # researchGhost.sends /\ task.status # "succeeded")
                 => task.last # "unknown"]_researchVars
  <2>1. SUFFICES ASSUME researchGhost'.sends # researchGhost.sends, task.status # "succeeded"
                 PROVE  task.last # "unknown"
    OBVIOUS
  <2>2. CASE ProposeCall
    <3>1. researchOp.pc = "call"  BY <2>2 DEF ProposeCall, ResearchDoing
    <3>2. StepRelies(task, "call", researchOp.then, researchGhost.sends, job.st)
      BY <1>2, <3>1 DEF ResearchInv, ResearchNoOp
    <3> QED  BY <3>2 DEF StepRelies, ProposeSteps
  <2>3. CASE InterpretCall
    <3>1. researchOp.pc = "icall"  BY <2>3 DEF InterpretCall, ResearchDoing
    <3>2. StepRelies(task, "icall", researchOp.then, researchGhost.sends, job.st)
      BY <1>2, <3>1 DEF ResearchInv, ResearchNoOp
    <3> QED  BY <2>1, <3>2 DEF StepRelies, InterpretSteps
  <2> QED  BY <1>2, <2>1, <2>2, <2>3, OnlyCallsSend
<1> QED  BY <1>1, <1>2, PTL DEF ResearchSpec, UnknownProposalIsNotResent

\* What no step of the service does: dispatch a call of a cancelled task, send
\* an unknown proposal again, rewrite an outcome, publish while closing, or
\* start a store over a dead owner's leavings (web/user_strategies.py,
\* research.py, service.py and uploads.py).
THEOREM WebStepsHold == WebSpec => WebSteps
<1> QED
    BY PartsRun, CancelBars, UnknownStaysUnsent, OutcomesStand, StartsClean, PTL DEF WebSteps
=============================================================================
