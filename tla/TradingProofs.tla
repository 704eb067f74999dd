--------------------------- MODULE TradingProofs ----------------------------
(***************************************************************************)
(* What holds of the submission authorization, of the risk gate and of the *)
(* execution facts for any orders, limits, intents, snapshots, reports and *)
(* bounds, and what the composed trading components inherit from them.     *)
(***************************************************************************)
EXTENDS MCTrading, FiniteSetTheorems, WellFoundedInduction, TLAPS
-----------------------------------------------------------------------------
(***************************************************************************)
(* The submission authorization.  Each record of the journal is accounted  *)
(* for by exactly one thing the authority holds: the attempt of its order, *)
(* an unresolved payload, or the call in progress.                         *)
(***************************************************************************)
WorldVersions == {"root", "pv", "rv", "ge", "gv", "sv"}
AuthWorlds == [root : Nat, pv : Nat, rv : Nat, rh : BOOLEAN, ge : Nat, gh : BOOLEAN,
               gv : Nat, held : AuthOrders \cup {NoOrder}, sv : Nat, run : BOOLEAN]
AuthPays == [order : AuthOrders, root : Nat, pv : Nat, rv : Nat, ge : Nat, gv : Nat, sv : Nat]
AuthAttempts == [pay : AuthPays, burned : BOOLEAN]
AuthCalls == [o : AuthOrders, pay : AuthPays, at : {"append", "after", "settle"}]
AuthOutcomes == {"none", "denied", "authorized", "burned", "failed", "unresolved"}

\* What every variable holds.
AuthShape ==
    /\ w \in AuthWorlds
    /\ auth \in [state : {"down", "dormant", "active"},
                 attempts : [AuthOrders -> AuthAttempts \cup {AuthNone}],
                 unresolved : [AuthOrders -> AuthPays \cup {AuthNone}]]
    /\ authCall \in AuthCalls \cup {AuthNone}
    /\ records \subseteq AuthPays
    /\ status \in [AuthOrders -> AuthOutcomes]
    /\ receipts \in [AuthOrders -> AuthWorlds \cup {AuthNone}]

CallOf(o) == authCall # AuthNone /\ authCall.o = o

\* An attempt is its order's one record.
AttemptsAreRecords ==
    \A o \in AuthOrders : auth.attempts[o] # AuthNone =>
        /\ auth.attempts[o].pay.order = o
        /\ RecordsOf(o) = {auth.attempts[o].pay}
        /\ auth.unresolved[o] = AuthNone /\ ~CallOf(o)

\* The record of an unresolved order is the payload that is kept, if there is one.
UnresolvedMayBeRecord ==
    \A o \in AuthOrders : auth.unresolved[o] # AuthNone =>
        /\ auth.unresolved[o].order = o
        /\ RecordsOf(o) \subseteq {auth.unresolved[o]}
        /\ CallOf(o) => authCall.at = "settle" /\ authCall.pay = auth.unresolved[o]

\* The record of a call's order is the call's own.
CallOwnsRecord ==
    \A o \in AuthOrders : CallOf(o) =>
        /\ auth.state = "active" /\ authCall.pay.order = o
        /\ RecordsOf(o) \subseteq {authCall.pay}
        /\ authCall.at = "append" => RecordsOf(o) = {}
        /\ authCall.at = "after" => authCall.pay \in records

\* Outside of these no record is held by a running authority, and a stopped one holds none.
NothingElseIsRecord ==
    /\ \A o \in AuthOrders : (/\ auth.state # "down" /\ auth.attempts[o] = AuthNone
                              /\ auth.unresolved[o] = AuthNone /\ ~CallOf(o))
                             => RecordsOf(o) = {}
    /\ auth.state # "active" => /\ authCall = AuthNone
                                /\ \A o \in AuthOrders : auth.unresolved[o] = AuthNone
    /\ auth.state = "down" => \A o \in AuthOrders : auth.attempts[o] = AuthNone

\* One record at most, also while the authority is down.
RecordIsSingle == \A o \in AuthOrders : \A p, q \in RecordsOf(o) : p = q

\* The outcome reported last agrees with the journal except while a call is in progress.
OutcomesFollowRecords ==
    \A o \in AuthOrders :
        /\ status[o] \in {"authorized", "burned"} => RecordsOf(o) # {}
        /\ (status[o] = "failed" /\ ~CallOf(o)) => RecordsOf(o) = {}

AuthInv ==
    /\ AuthShape /\ AttemptsAreRecords /\ UnresolvedMayBeRecord /\ CallOwnsRecord
    /\ NothingElseIsRecord /\ RecordIsSingle /\ OutcomesFollowRecords
    /\ SubmittedUnderItsRecord

\* The journal as a set of records of each order.
LEMMA RecordsStay == ASSUME UNCHANGED records
                     PROVE  \A o : RecordsOf(o)' = RecordsOf(o)
  BY DEF RecordsOf

\* No payload and no attempt is mistaken for an absent one.
LEMMA HeldIsSome ==
    /\ \A p \in AuthPays : p # AuthNone
    /\ \A p \in AuthPays, b \in BOOLEAN : Attempt(p, b) \in AuthAttempts /\ Attempt(p, b) # AuthNone
    /\ \A a \in AuthAttempts : a # AuthNone
    /\ \A c \in AuthCalls : c # AuthNone
  BY DEF AuthPays, AuthNone, AuthAttempts, AuthCalls, Attempt

\* The payload the authority would bind an order to now is a payload of that order.
LEMMA PayloadIsPay == ASSUME w \in AuthWorlds, NEW o \in AuthOrders
                      PROVE  Payload(o) \in AuthPays /\ Payload(o).order = o
  BY DEF Payload, AuthPays, AuthWorlds

\* The world moves and the authority does not.
LEMMA WorldKeeps ==
    ASSUME AuthInv, w' \in AuthWorlds, UNCHANGED <<auth, authCall, records, status, receipts>>
    PROVE  AuthInv'
  BY DEF AuthInv, AuthShape, AttemptsAreRecords, UnresolvedMayBeRecord,
         CallOwnsRecord, 
         NothingElseIsRecord, RecordIsSingle, OutcomesFollowRecords,
         SubmittedUnderItsRecord, RecordsOf, CallOf

\* A moved world is a world.
LEMMA WorldsMove ==
    ASSUME NEW x \in AuthWorlds
    PROVE  /\ \A o \in AuthOrders \cup {NoOrder} : [x EXCEPT !.held = o, !.gv = @ + 1] \in AuthWorlds
           /\ [x EXCEPT !.pv = @ + 1] \in AuthWorlds
           /\ [x EXCEPT !.rv = @ + 1, !.rh = ~@] \in AuthWorlds
           /\ [x EXCEPT !.ge = @ + 1, !.gh = ~@] \in AuthWorlds
           /\ [x EXCEPT !.sv = @ + 1, !.run = FALSE] \in AuthWorlds
           /\ [x EXCEPT !.root = 2, !.sv = @ + 2] \in AuthWorlds
  <1>1. /\ x.gv + 1 \in Nat /\ x.pv + 1 \in Nat /\ x.rv + 1 \in Nat /\ x.ge + 1 \in Nat
        /\ x.sv + 1 \in Nat /\ x.sv + 2 \in Nat
    BY DEF AuthWorlds
  <1>2. \A o \in AuthOrders \cup {NoOrder} : [x EXCEPT !.held = o, !.gv = @ + 1] \in AuthWorlds
    BY <1>1 DEF AuthWorlds
  <1>3. [x EXCEPT !.pv = @ + 1] \in AuthWorlds
    BY <1>1 DEF AuthWorlds
  <1>4. [x EXCEPT !.rv = @ + 1, !.rh = ~@] \in AuthWorlds
    BY <1>1 DEF AuthWorlds
  <1>5. [x EXCEPT !.ge = @ + 1, !.gh = ~@] \in AuthWorlds
    BY <1>1 DEF AuthWorlds
  <1>6. [x EXCEPT !.sv = @ + 1, !.run = FALSE] \in AuthWorlds
    BY <1>1 DEF AuthWorlds
  <1>7. [x EXCEPT !.root = 2, !.sv = @ + 2] \in AuthWorlds
    BY <1>1 DEF AuthWorlds
  <1> QED BY <1>2, <1>3, <1>4, <1>5, <1>6, <1>7

LEMMA WorldStep == ASSUME AuthInv, WorldMoves \/ NextRoot \/ \E o \in AuthOrders : IssueOrder(o)
                   PROVE  AuthInv'
  <1>1. /\ UNCHANGED <<auth, authCall, records, status, receipts>>
        /\ w \in AuthWorlds
    BY DEF AuthInv, AuthShape, WorldMoves, NextRoot, IssueOrder, Drift
  <1>2. \/ \E o \in AuthOrders \cup {NoOrder} : w' = [w EXCEPT !.held = o, !.gv = @ + 1]
        \/ w' = [w EXCEPT !.pv = @ + 1]
        \/ w' = [w EXCEPT !.rv = @ + 1, !.rh = ~@]
        \/ w' = [w EXCEPT !.ge = @ + 1, !.gh = ~@]
        \/ w' = [w EXCEPT !.sv = @ + 1, !.run = FALSE]
        \/ w' = [w EXCEPT !.root = 2, !.sv = @ + 2]
    BY DEF WorldMoves, NextRoot, IssueOrder, Drift
  <1>3. w' \in AuthWorlds
    BY <1>1, <1>2, WorldsMove
  <1> QED BY <1>1, <1>3, WorldKeeps

LEMMA PrepareStep == ASSUME AuthInv, NEW c \in AuthOrders, PrepareAttempt(c)
                     PROVE  AuthInv'
  <1> USE HeldIsSome DEF AuthInv
  <1>1. /\ auth.state = "active" /\ authCall = AuthNone
        /\ UNCHANGED <<w, approved, auth, records, receipts>>
    BY DEF PrepareAttempt, AuthIdle
  <1>2. \A o : RecordsOf(o)' = RecordsOf(o)
    BY <1>1, RecordsStay
  <1>3. \A o : ~CallOf(o)
    BY <1>1 DEF CallOf
  <1>4. \/ /\ auth.unresolved[c] # AuthNone /\ status' = status
           /\ authCall' = [o |-> c, pay |-> auth.unresolved[c], at |-> "settle"]
        \/ /\ auth.unresolved[c] = AuthNone /\ auth.attempts[c] = AuthNone /\ status' = status
           /\ authCall' = [o |-> c, pay |-> Payload(c), at |-> "append"]
        \/ /\ authCall' = AuthNone
           /\ \/ status' = [status EXCEPT ![c] = "denied"]
              \/ /\ auth.attempts[c] # AuthNone
                 /\ \E s \in {"burned", "authorized"} : status' = [status EXCEPT ![c] = s]
    BY DEF PrepareAttempt, Report
  <1>5. AuthShape'
    BY <1>1, <1>4, PayloadIsPay DEF AuthShape, AuthCalls, AuthOutcomes
  <1>6. AttemptsAreRecords' /\ UnresolvedMayBeRecord' /\ CallOwnsRecord'
    BY <1>1, <1>2, <1>3, <1>4, <1>5, PayloadIsPay
       DEF AttemptsAreRecords, UnresolvedMayBeRecord, CallOwnsRecord, CallOf,
           NothingElseIsRecord, AuthShape, AuthCalls
  <1>7. NothingElseIsRecord' /\ RecordIsSingle'
    BY <1>1, <1>2, <1>3, <1>4 DEF NothingElseIsRecord, RecordIsSingle, CallOf
  <1>8. OutcomesFollowRecords'
    <2> SUFFICES ASSUME NEW o \in AuthOrders
                 PROVE  /\ status'[o] \in {"authorized", "burned"} => RecordsOf(o) # {}
                        /\ (status'[o] = "failed" /\ ~CallOf(o)') => RecordsOf(o) = {}
      BY <1>2 DEF OutcomesFollowRecords
    <2>1. CASE status'[o] = status[o]
      BY <1>3, <2>1 DEF OutcomesFollowRecords
    <2>2. CASE o = c /\ status'[c] = "denied"
      BY <2>2
    <2>3. CASE o = c /\ auth.attempts[c] # AuthNone /\ status'[c] \in {"burned", "authorized"}
      BY <2>3 DEF AttemptsAreRecords
    <2> QED BY <1>4, <2>1, <2>2, <2>3 DEF AuthShape
  <1>9. SubmittedUnderItsRecord'
    BY <1>1, <1>2 DEF SubmittedUnderItsRecord
  <1> QED BY <1>5, <1>6, <1>7, <1>8, <1>9

\* A durable payload joins the records of its own order only.
LEMMA RecordJoins ==
    ASSUME NEW p, records' \in {records, records \cup {p}}
    PROVE  /\ \A o : o # p.order => RecordsOf(o)' = RecordsOf(o)
           /\ RecordsOf(p.order)' \in {RecordsOf(p.order), RecordsOf(p.order) \cup {p}}
           /\ \A o : RecordsOf(o) \subseteq RecordsOf(o)'
           /\ records' = records \cup {p} => RecordsOf(p.order)' = RecordsOf(p.order) \cup {p}
  BY DEF RecordsOf

LEMMA AppendStep == ASSUME AuthInv, AppendRecord PROVE AuthInv'
  <1> USE HeldIsSome DEF AuthInv
  <1>1. PICK c \in AuthOrders, p \in AuthPays : authCall.o = c /\ authCall.pay = p
    BY DEF AppendRecord, AuthShape, AuthCalls
  <1>2. /\ authCall \in AuthCalls /\ authCall.at = "append"
        /\ UNCHANGED <<w, approved, auth, status, receipts>>
        /\ records' \in {records, records \cup {p}}
    BY <1>1 DEF AppendRecord, AuthShape, AuthCalls
  <1>3. /\ CallOf(c) /\ \A o : CallOf(o) => o = c
        /\ p.order = c /\ RecordsOf(c) = {}
    BY <1>2, <1>1 DEF CallOf, CallOwnsRecord
  <1>4. /\ authCall' \in AuthCalls /\ authCall'.o = c /\ authCall'.pay = p
        /\ authCall'.at \in {"after", "settle"}
        /\ authCall'.at = "after" => records' = records \cup {p}
    BY <1>2, <1>1 DEF AppendRecord, AuthCalls
  <1>5. \A o : o # c => RecordsOf(o)' = RecordsOf(o)
    BY <1>2, <1>3, RecordJoins
  <1>6. RecordsOf(c)' \subseteq {p}
    BY <1>2, <1>3, RecordJoins
  <1>7. \A o : RecordsOf(o) \subseteq RecordsOf(o)'
    BY <1>2, <1>3, RecordJoins
  <1>8. \A o : CallOf(o)' <=> o = c
    BY <1>4 DEF CallOf
  <1>9. AuthShape'
    BY <1>2, <1>4 DEF AuthShape
  <1>10. auth.unresolved[c] = AuthNone /\ auth.attempts[c] = AuthNone
    BY <1>2, <1>3 DEF UnresolvedMayBeRecord, AttemptsAreRecords
  <1>11. AttemptsAreRecords' /\ UnresolvedMayBeRecord'
    BY <1>2, <1>3, <1>5, <1>8, <1>10 DEF AttemptsAreRecords, UnresolvedMayBeRecord
  <1>12. CallOwnsRecord'
    <2>1. c \in AuthOrders /\ auth.state = "active"
      BY <1>2, <1>3 DEF CallOwnsRecord
    <2>2. authCall'.at = "after" => p \in records'
      BY <1>4
    <2> QED BY <1>2, <1>3, <1>4, <1>6, <1>8, <2>1, <2>2 DEF CallOwnsRecord
  <1>13. NothingElseIsRecord'
    BY <1>2, <1>3, <1>5, <1>8 DEF NothingElseIsRecord, CallOwnsRecord
  <1>14. RecordIsSingle'
    BY <1>5, <1>6 DEF RecordIsSingle
  <1>15. OutcomesFollowRecords'
    BY <1>2, <1>3, <1>5, <1>7, <1>8 DEF OutcomesFollowRecords
  <1>16. SubmittedUnderItsRecord'
    BY <1>2, <1>7 DEF SubmittedUnderItsRecord
  <1> QED BY <1>9, <1>11, <1>12, <1>13, <1>14, <1>15, <1>16

\* An attempt is entered for the order of the call, whose record is durable.
LEMMA AttemptEntered ==
    ASSUME AuthInv, authCall # AuthNone, authCall.pay \in records, NEW b \in BOOLEAN,
           NEW s \in {"authorized", "burned"},
           UNCHANGED <<records, receipts>>, w' \in AuthWorlds, authCall' = AuthNone,
           auth' = [auth EXCEPT !.unresolved[authCall.o] = AuthNone,
                                !.attempts[authCall.o] = Attempt(authCall.pay, b)],
           status' = [status EXCEPT ![authCall.o] = s]
    PROVE  AuthInv'
  <1> USE HeldIsSome DEF AuthInv
  <1> DEFINE c == authCall.o
             p == authCall.pay
             a == Attempt(p, b)
  <1>1. /\ authCall \in AuthCalls /\ c \in AuthOrders /\ p \in AuthPays /\ CallOf(c)
        /\ a \in AuthAttempts /\ a # AuthNone /\ a.pay = p
    BY DEF AuthShape, AuthCalls, CallOf, Attempt
  <1>2. auth.state = "active" /\ p.order = c /\ RecordsOf(c) = {p}
    BY <1>1 DEF CallOwnsRecord, RecordsOf
  <1>3. /\ auth'.state = auth.state
        /\ auth'.attempts = [auth.attempts EXCEPT ![c] = a]
        /\ auth'.unresolved = [auth.unresolved EXCEPT ![c] = AuthNone]
        /\ auth' \in [state : {"down", "dormant", "active"},
                      attempts : [AuthOrders -> AuthAttempts \cup {AuthNone}],
                      unresolved : [AuthOrders -> AuthPays \cup {AuthNone}]]
    BY <1>1 DEF AuthShape
  <1>4. \A o \in AuthOrders : /\ auth'.attempts[o] = IF o = c THEN a ELSE auth.attempts[o]
                              /\ auth'.unresolved[o] = IF o = c THEN AuthNone
                                                       ELSE auth.unresolved[o]
                              /\ status'[o] = IF o = c THEN s ELSE status[o]
    BY <1>1, <1>3 DEF AuthShape
  <1>5. \A o : RecordsOf(o)' = RecordsOf(o)
    BY RecordsStay
  <1>6. (\A o : ~CallOf(o)') /\ (\A o : CallOf(o) => o = c)
    BY DEF CallOf
  <1> HIDE DEF c, p, a
  <1>7. AuthShape'
    BY <1>1, <1>3 DEF AuthShape, AuthOutcomes
  <1>8. AttemptsAreRecords'
    BY <1>1, <1>2, <1>4, <1>5, <1>6 DEF AttemptsAreRecords
  <1>9. UnresolvedMayBeRecord' /\ CallOwnsRecord'
    BY <1>4, <1>5, <1>6 DEF UnresolvedMayBeRecord, CallOwnsRecord
  <1>10. NothingElseIsRecord'
    BY <1>1, <1>2, <1>3, <1>4, <1>5, <1>6 DEF NothingElseIsRecord
  <1>11. RecordIsSingle' /\ SubmittedUnderItsRecord'
    BY <1>5 DEF RecordIsSingle, SubmittedUnderItsRecord
  <1>12. OutcomesFollowRecords'
    BY <1>1, <1>2, <1>4, <1>5, <1>6 DEF OutcomesFollowRecords
  <1> QED BY <1>7, <1>8, <1>9, <1>10, <1>11, <1>12

LEMMA PostAppendStep == ASSUME AuthInv, PostAppend PROVE AuthInv'
  <1> USE HeldIsSome DEF AuthInv
  <1>1. /\ authCall \in AuthCalls /\ authCall # AuthNone /\ authCall.o \in AuthOrders
        /\ CallOf(authCall.o) /\ authCall.at = "after"
    BY DEF PostAppend, AuthShape, AuthCalls, CallOf
  <1>2. authCall.pay \in records /\ auth.unresolved[authCall.o] = AuthNone
    BY <1>1 DEF CallOwnsRecord, UnresolvedMayBeRecord
  <1>3. PICK b \in BOOLEAN :
            /\ auth' = [auth EXCEPT !.attempts[authCall.o] = Attempt(authCall.pay, b)]
            /\ status' = [status EXCEPT ![authCall.o] = IF b THEN "burned" ELSE "authorized"]
    <2>1. PICK fresh \in BOOLEAN :
            /\ auth' = [auth EXCEPT !.attempts[authCall.o] = Attempt(authCall.pay, ~fresh)]
            /\ status' = [status EXCEPT ![authCall.o] = IF fresh THEN "authorized" ELSE "burned"]
      BY DEF PostAppend, Report
    <2> QED BY <2>1
  <1>4. auth' = [auth EXCEPT !.unresolved[authCall.o] = AuthNone,
                             !.attempts[authCall.o] = Attempt(authCall.pay, b)]
    BY <1>1, <1>2, <1>3 DEF AuthShape
  <1>5. UNCHANGED <<records, receipts, w>> /\ authCall' = AuthNone /\ w' \in AuthWorlds
    BY DEF PostAppend, AuthShape
  <1> QED BY <1>1, <1>2, <1>3, <1>4, <1>5, AttemptEntered

\* The settlement ends without an attempt: the journal did not answer, or the record is absent.
LEMMA SettledWithoutAttempt ==
    ASSUME AuthInv, authCall # AuthNone, authCall.at = "settle",
           NEW c \in AuthOrders, NEW p \in AuthPays, authCall.o = c, authCall.pay = p,
           NEW u, NEW s, 
           (u = p /\ s = "unresolved") \/ (u = AuthNone /\ s = "failed" /\ p \notin records),
           UNCHANGED <<records, receipts, w>>, authCall' = AuthNone,
           auth' = [auth EXCEPT !.unresolved[c] = u], status' = [status EXCEPT ![c] = s]
    PROVE  AuthInv'
  <1> USE HeldIsSome DEF AuthInv
  <1>1. CallOf(c) /\ auth.state = "active" /\ p.order = c /\ RecordsOf(c) \subseteq {p}
    BY DEF CallOf, CallOwnsRecord
  <1>2. auth.attempts[c] = AuthNone
    BY <1>1 DEF AttemptsAreRecords
  <1>3. u = AuthNone => RecordsOf(c) = {}
    BY <1>1 DEF RecordsOf
  <1>4. /\ auth'.state = auth.state /\ auth'.attempts = auth.attempts
        /\ auth' \in [state : {"down", "dormant", "active"},
                      attempts : [AuthOrders -> AuthAttempts \cup {AuthNone}],
                      unresolved : [AuthOrders -> AuthPays \cup {AuthNone}]]
    BY DEF AuthShape
  <1>5. \A o \in AuthOrders : /\ auth'.unresolved[o] = IF o = c THEN u ELSE auth.unresolved[o]
                              /\ status'[o] = IF o = c THEN s ELSE status[o]
    BY DEF AuthShape
  <1>6. \A o : RecordsOf(o)' = RecordsOf(o)
    BY RecordsStay
  <1>7. (\A o : ~CallOf(o)') /\ (\A o : CallOf(o) => o = c)
    BY DEF CallOf
  <1>8. AuthShape'
    BY <1>4 DEF AuthShape, AuthOutcomes
  <1>9. AttemptsAreRecords' /\ UnresolvedMayBeRecord' /\ CallOwnsRecord'
    BY <1>1, <1>2, <1>4, <1>5, <1>6, <1>7
       DEF AttemptsAreRecords, UnresolvedMayBeRecord, CallOwnsRecord
  <1>10. NothingElseIsRecord'
    BY <1>1, <1>2, <1>3, <1>4, <1>5, <1>6, <1>7 DEF NothingElseIsRecord
  <1>11. RecordIsSingle' /\ SubmittedUnderItsRecord'
    BY <1>6 DEF RecordIsSingle, SubmittedUnderItsRecord
  <1>12. OutcomesFollowRecords'
    BY <1>3, <1>5, <1>6, <1>7 DEF OutcomesFollowRecords
  <1> QED BY <1>8, <1>9, <1>10, <1>11, <1>12

LEMMA SettleStep == ASSUME AuthInv, SettleUncertainAttempt PROVE AuthInv'
  <1>1. PICK c \in AuthOrders, p \in AuthPays : authCall.o = c /\ authCall.pay = p
    BY DEF AuthInv, SettleUncertainAttempt, AuthShape, AuthCalls
  <1>2. /\ authCall # AuthNone /\ authCall.at = "settle" /\ authCall' = AuthNone
        /\ UNCHANGED <<records, receipts, w>>
    BY DEF SettleUncertainAttempt
  <1>3. CASE /\ auth' = [auth EXCEPT !.unresolved[authCall.o] = authCall.pay]
             /\ Report(authCall.o, "unresolved")
    BY <1>1, <1>2, <1>3, SettledWithoutAttempt DEF Report
  <1>4. CASE /\ authCall.pay \notin records
             /\ auth' = [auth EXCEPT !.unresolved[authCall.o] = AuthNone]
             /\ Report(authCall.o, "failed")
    BY <1>1, <1>2, <1>4, SettledWithoutAttempt DEF Report
  <1>5. ASSUME authCall.pay \in records, NEW fresh \in BOOLEAN,
               auth' = [auth EXCEPT !.unresolved[authCall.o] = AuthNone,
                                    !.attempts[authCall.o] = Attempt(authCall.pay, ~fresh)],
               Report(authCall.o, IF fresh THEN "authorized" ELSE "burned")
        PROVE  AuthInv'
    <2>1. w' \in AuthWorlds
      BY <1>2 DEF AuthInv, AuthShape
    <2> QED BY <1>2, <1>5, <2>1, AttemptEntered DEF Report
  <1> QED BY <1>3, <1>4, <1>5 DEF SettleUncertainAttempt

\* The verifier accepts only the world the order's record binds.
LEMMA VerifyStep == ASSUME AuthInv, NEW c \in AuthOrders, VerifyAuthorizedHistoricalSubmission(c)
                    PROVE  AuthInv'
  <1> USE HeldIsSome DEF AuthInv
  <1>1. /\ auth.attempts[c] # AuthNone /\ auth.attempts[c] \in AuthAttempts
        /\ RecordsOf(c) = {auth.attempts[c].pay}
        /\ UNCHANGED <<w, authCall, records, status>>
    BY DEF VerifyAuthorizedHistoricalSubmission, Usable, AuthShape, AttemptsAreRecords
  <1>2. \A o : RecordsOf(o)' = RecordsOf(o) /\ CallOf(o)' = CallOf(o)
    BY <1>1, RecordsStay DEF CallOf
  <1>3. CASE Agrees(c) /\ receipts' = [receipts EXCEPT ![c] = w] /\ UNCHANGED auth
    <2>1. AuthShape'
      BY <1>1, <1>3 DEF AuthShape
    <2>2. SubmittedUnderItsRecord'
      <3> SUFFICES ASSUME NEW o \in AuthOrders, receipts'[o] # AuthNone
                   PROVE  /\ ~receipts'[o].rh /\ ~receipts'[o].gh /\ receipts'[o].held = o
                          /\ receipts'[o].run
                          /\ \E r \in RecordsOf(o) : \A f \in WorldVersions :
                                                        r[f] = receipts'[o][f]
        BY <1>2 DEF SubmittedUnderItsRecord, WorldVersions
      <3>1. CASE o # c
        BY <1>3, <3>1 DEF AuthShape, SubmittedUnderItsRecord, WorldVersions
      <3>2. CASE o = c
        <4>1. receipts'[o] = w
          BY <1>3, <3>2 DEF AuthShape
        <4>2. auth.attempts[c].pay = Payload(c) /\ Fresh(c)
          BY <1>3 DEF Agrees
        <4>3. \A f \in WorldVersions : Payload(c)[f] = w[f]
          BY DEF Payload, WorldVersions
        <4> QED BY <1>1, <3>2, <4>1, <4>2, <4>3 DEF Fresh
      <3> QED BY <3>1, <3>2
    <2> QED BY <1>1, <1>2, <1>3, <2>1, <2>2
           DEF AttemptsAreRecords, UnresolvedMayBeRecord, CallOwnsRecord, NothingElseIsRecord,
               RecordIsSingle, OutcomesFollowRecords
  <1>4. CASE auth' = [auth EXCEPT !.attempts[c].burned = TRUE] /\ UNCHANGED receipts
    <2>1. /\ auth'.state = auth.state /\ auth'.unresolved = auth.unresolved
          /\ auth'.attempts = [auth.attempts EXCEPT ![c] = [auth.attempts[c] EXCEPT !.burned = TRUE]]
          /\ auth' \in [state : {"down", "dormant", "active"},
                        attempts : [AuthOrders -> AuthAttempts \cup {AuthNone}],
                        unresolved : [AuthOrders -> AuthPays \cup {AuthNone}]]
      BY <1>1, <1>4 DEF AuthShape, AuthAttempts
    <2>2. /\ [auth.attempts[c] EXCEPT !.burned = TRUE] \in AuthAttempts
          /\ [auth.attempts[c] EXCEPT !.burned = TRUE].pay = auth.attempts[c].pay
      BY <1>1 DEF AuthAttempts
    <2>3. \A o \in AuthOrders : /\ auth'.attempts[o] = AuthNone <=> auth.attempts[o] = AuthNone
                                /\ auth.attempts[o] # AuthNone =>
                                      auth'.attempts[o].pay = auth.attempts[o].pay
      BY <1>1, <2>1, <2>2 DEF AuthShape
    <2>4. AuthShape'
      BY <1>1, <1>4, <2>1 DEF AuthShape
    <2>5. AttemptsAreRecords' /\ UnresolvedMayBeRecord' /\ CallOwnsRecord'
      BY <1>1, <1>2, <2>1, <2>3 DEF AttemptsAreRecords, UnresolvedMayBeRecord,
                                    CallOwnsRecord
    <2>6. NothingElseIsRecord' /\ RecordIsSingle' /\ OutcomesFollowRecords'
      BY <1>1, <1>2, <2>1, <2>3 DEF NothingElseIsRecord, RecordIsSingle,
                                    OutcomesFollowRecords
    <2>7. SubmittedUnderItsRecord'
      BY <1>2, <1>4 DEF SubmittedUnderItsRecord
    <2> QED BY <2>4, <2>5, <2>6, <2>7
  <1> QED BY <1>3, <1>4 DEF VerifyAuthorizedHistoricalSubmission

LEMMA AuthCrashStep == ASSUME AuthInv, AuthCrash PROVE AuthInv'
  <1>1. /\ authCall' = AuthNone /\ status' = [o \in AuthOrders |-> "none"]
        /\ UNCHANGED <<w, records, receipts>>
        /\ auth' = [Dormant(NoAttempts) EXCEPT !.state = "down"]
    BY DEF AuthCrash
  <1>2. auth' = [state |-> "down", attempts |-> [o \in AuthOrders |-> AuthNone],
                 unresolved |-> [o \in AuthOrders |-> AuthNone]]
    BY <1>1 DEF Dormant, NoAttempts
  <1>3. \A o : RecordsOf(o)' = RecordsOf(o)
    BY <1>1, RecordsStay
  <1>4. status' \in [AuthOrders -> AuthOutcomes]
    BY <1>1 DEF AuthOutcomes
  <1>5. auth' \in [state : {"down", "dormant", "active"},
                   attempts : [AuthOrders -> AuthAttempts \cup {AuthNone}],
                   unresolved : [AuthOrders -> AuthPays \cup {AuthNone}]]
    BY <1>2
  <1>6. AuthShape'
    BY <1>1, <1>4, <1>5 DEF AuthInv, AuthShape
  <1> QED BY <1>1, <1>2, <1>3, <1>6
         DEF AuthInv, AttemptsAreRecords, UnresolvedMayBeRecord, CallOwnsRecord, CallOf,
             NothingElseIsRecord, RecordIsSingle, OutcomesFollowRecords,
             SubmittedUnderItsRecord

LEMMA RecoverStep == ASSUME AuthInv, RecoverAttempts PROVE AuthInv'
  <1> USE HeldIsSome DEF AuthInv
  <1> DEFINE Burnt(o) == IF RecordsOf(o) = {} THEN AuthNone
                         ELSE Attempt(CHOOSE r \in RecordsOf(o) : TRUE, TRUE)
  <1>1. /\ auth.state = "down" /\ authCall = AuthNone
        /\ auth' = Dormant([o \in AuthOrders |-> Burnt(o)])
        /\ UNCHANGED <<w, authCall, records, status, receipts>>
    BY DEF RecoverAttempts, NothingElseIsRecord
  <1>2. \A o : RecordsOf(o)' = RecordsOf(o)
    BY <1>1, RecordsStay
  <1>3. \A o \in AuthOrders : /\ RecordsOf(o) # {} =>
                                    /\ Burnt(o) \in AuthAttempts
                                    /\ Burnt(o).pay.order = o /\ RecordsOf(o) = {Burnt(o).pay}
                              /\ RecordsOf(o) = {} => Burnt(o) = AuthNone
    <2> SUFFICES ASSUME NEW o \in AuthOrders, RecordsOf(o) # {}
                 PROVE  /\ Burnt(o) \in AuthAttempts /\ Burnt(o).pay.order = o
                        /\ RecordsOf(o) = {Burnt(o).pay}
      OBVIOUS
    <2> DEFINE r == CHOOSE r \in RecordsOf(o) : TRUE
    <2>1. r \in RecordsOf(o)
      OBVIOUS
    <2>2. r \in AuthPays /\ r.order = o
      BY <2>1 DEF RecordsOf, AuthShape
    <2>3. RecordsOf(o) = {r}
      BY <2>1 DEF RecordIsSingle
    <2>4. Burnt(o) = Attempt(r, TRUE)
      OBVIOUS
    <2> HIDE DEF r
    <2>5. Attempt(r, TRUE).pay = r
      BY DEF Attempt
    <2> QED BY <2>2, <2>3, <2>4, <2>5
  <1> HIDE DEF Burnt
  <1>4. auth' = [state |-> "dormant", attempts |-> [o \in AuthOrders |-> Burnt(o)],
                 unresolved |-> [o \in AuthOrders |-> AuthNone]]
    BY <1>1 DEF Dormant
  <1>5. AuthShape'
    BY <1>1, <1>3, <1>4 DEF AuthShape
  <1>6. \A o : ~CallOf(o)'
    BY <1>1 DEF CallOf
  <1>7. AttemptsAreRecords'
    BY <1>2, <1>3, <1>4, <1>6 DEF AttemptsAreRecords
  <1>8. UnresolvedMayBeRecord' /\ CallOwnsRecord' /\ NothingElseIsRecord'
    BY <1>1, <1>2, <1>3, <1>4, <1>6
       DEF UnresolvedMayBeRecord, CallOwnsRecord, NothingElseIsRecord
  <1>9. RecordIsSingle' /\ OutcomesFollowRecords' /\ SubmittedUnderItsRecord'
    BY <1>1, <1>2, <1>6
       DEF RecordIsSingle, OutcomesFollowRecords, SubmittedUnderItsRecord, CallOf
  <1> QED BY <1>5, <1>7, <1>8, <1>9

LEMMA ActivateStep == ASSUME AuthInv, AuthActivate PROVE AuthInv'
  <1> USE HeldIsSome DEF AuthInv
  <1> DEFINE Woken(o) == IF auth.attempts[o] = AuthNone THEN AuthNone
                         ELSE Attempt(auth.attempts[o].pay,
                                ~(Fresh(o) /\ Payload(o) = auth.attempts[o].pay))
  <1>1. /\ auth.state = "dormant" /\ authCall = AuthNone
        /\ auth' = [auth EXCEPT !.state = "active",
                                !.attempts = [o \in AuthOrders |-> Woken(o)]]
        /\ UNCHANGED <<w, authCall, records, status, receipts>>
    BY DEF AuthActivate, NothingElseIsRecord
  <1>2. \A o : RecordsOf(o)' = RecordsOf(o)
    BY <1>1, RecordsStay
  <1>3. \A o \in AuthOrders : /\ auth.attempts[o] # AuthNone =>
                                    /\ Woken(o) \in AuthAttempts /\ Woken(o) # AuthNone
                                    /\ Woken(o).pay = auth.attempts[o].pay
                              /\ auth.attempts[o] = AuthNone => Woken(o) = AuthNone
    <2> SUFFICES ASSUME NEW o \in AuthOrders, auth.attempts[o] # AuthNone
                 PROVE  /\ Woken(o) \in AuthAttempts /\ Woken(o) # AuthNone
                        /\ Woken(o).pay = auth.attempts[o].pay
      OBVIOUS
    <2>1. auth.attempts[o].pay \in AuthPays
      BY DEF AuthShape, AuthAttempts
    <2> QED BY <2>1 DEF Attempt
  <1> HIDE DEF Woken
  <1>4. auth' = [state |-> "active", attempts |-> [o \in AuthOrders |-> Woken(o)],
                 unresolved |-> auth.unresolved]
    BY <1>1 DEF AuthShape
  <1>5. /\ auth'.state = "active" /\ auth'.unresolved = auth.unresolved
         /\ \A o \in AuthOrders : auth'.attempts[o] = Woken(o)
    BY <1>4
  <1>6. [o \in AuthOrders |-> Woken(o)] \in [AuthOrders -> AuthAttempts \cup {AuthNone}]
    BY <1>3
  <1>7. auth' \in [state : {"down", "dormant", "active"},
                    attempts : [AuthOrders -> AuthAttempts \cup {AuthNone}],
                    unresolved : [AuthOrders -> AuthPays \cup {AuthNone}]]
    BY <1>4, <1>6 DEF AuthShape
  <1>8. AuthShape'
    BY <1>1, <1>7 DEF AuthShape
  <1>9. \A o : ~CallOf(o)' /\ ~CallOf(o)
    BY <1>1 DEF CallOf
  <1>10. AttemptsAreRecords' /\ UnresolvedMayBeRecord' /\ CallOwnsRecord'
    BY <1>2, <1>3, <1>4, <1>9 DEF AttemptsAreRecords, UnresolvedMayBeRecord,
                                  CallOwnsRecord
  <1>11. NothingElseIsRecord'
    BY <1>1, <1>2, <1>3, <1>9, <1>5 DEF NothingElseIsRecord
  <1>12. RecordIsSingle' /\ OutcomesFollowRecords' /\ SubmittedUnderItsRecord'
    BY <1>1, <1>2, <1>9
       DEF RecordIsSingle, OutcomesFollowRecords, SubmittedUnderItsRecord, CallOf
  <1> QED BY <1>8, <1>10, <1>11, <1>12

LEMMA AuthStarts == AuthInit => AuthInv
  <1> SUFFICES ASSUME AuthInit PROVE AuthInv
    OBVIOUS
  <1>1. \A o : RecordsOf(o) = {}
    BY DEF AuthInit, RecordsOf
  <1>2. AuthShape
    BY DEF AuthInit, AuthShape, World0, AuthWorlds, Dormant, NoAttempts, AuthOutcomes
  <1> QED BY <1>1, <1>2
         DEF AuthInit, AuthInv, AttemptsAreRecords, UnresolvedMayBeRecord, CallOwnsRecord,
             CallOf, NothingElseIsRecord, RecordIsSingle, OutcomesFollowRecords,
             SubmittedUnderItsRecord, Dormant, NoAttempts

\* Whatever the world, the journal and the process do, each durable record is
\* held by exactly one attempt, unresolved payload or call of its order.
THEOREM AuthorizationInvariant == AuthSpec => []AuthInv
  <1>1. AuthInv /\ [AuthNext]_authVars => AuthInv'
    <2> SUFFICES ASSUME AuthInv, [AuthNext]_authVars PROVE AuthInv'
      OBVIOUS
    <2>1. CASE UNCHANGED authVars
      BY <2>1, WorldKeeps DEF authVars, AuthInv, AuthShape
    <2>2. CASE AuthNext
      BY <2>2, WorldStep, PrepareStep, AppendStep, PostAppendStep, SettleStep,
         VerifyStep, 
         AuthCrashStep, RecoverStep, ActivateStep DEF AuthNext, AuthorityStep
    <2> QED BY <2>1, <2>2
  <1> QED BY AuthStarts, <1>1, PTL DEF AuthSpec

\* An order is submitted under its own durable record, has at most one of them
\* and is reported as what happened (authorization.py, prepare_attempt and the
\* verifier), for any number of orders and faults.
THEOREM AuthorizationIsSafe == AuthSpec => []AuthorizationSafe
  <1>1. AuthInv => AuthorizationSafe
    <2> SUFFICES ASSUME AuthInv PROVE AuthorizationSafe
      OBVIOUS
    <2> USE DEF AuthInv
    <2>1. AuthTypeOK
      BY DEF AuthTypeOK, AuthShape, AuthOutcomes, AttemptsAreRecords
    <2>2. OneRecordPerOrder
      <3> SUFFICES ASSUME NEW o \in AuthOrders PROVE Cardinality(RecordsOf(o)) <= 1
        BY DEF OneRecordPerOrder
      <3>1. CASE RecordsOf(o) = {}
        BY <3>1, FS_EmptySet
      <3>2. ASSUME NEW r \in RecordsOf(o) PROVE Cardinality(RecordsOf(o)) <= 1
        <4>1. RecordsOf(o) = {r}
          BY <3>2 DEF RecordIsSingle
        <4> QED BY <4>1, FS_Singleton
      <3> QED BY <3>1, <3>2
    <2>3. OutcomeIsHonest
      BY DEF OutcomeIsHonest, OutcomesFollowRecords, CallOf
    <2> QED BY <2>1, <2>2, <2>3 DEF AuthorizationSafe
  <1> QED BY AuthorizationInvariant, <1>1, PTL

\* An attempt burned in this process never becomes an effect in it.
THEOREM BurnedStaysWithoutEffect == AuthSpec => BurnedHasNoEffect
  <1>1. ASSUME AuthInv, [AuthNext]_authVars
        PROVE  [\A o \in AuthOrders :
                   (auth.attempts[o] # AuthNone /\ auth.attempts[o].burned
                    /\ receipts[o] = AuthNone) => receipts'[o] = AuthNone]_authVars
    <2> SUFFICES ASSUME AuthNext, NEW o \in AuthOrders, auth.attempts[o].burned,
                        receipts[o] = AuthNone
                 PROVE  receipts'[o] = AuthNone
      BY <1>1
    <2>1. CASE \E c \in AuthOrders : VerifyAuthorizedHistoricalSubmission(c)
      BY <1>1, <2>1 DEF VerifyAuthorizedHistoricalSubmission, Usable, AuthInv,
                        AuthShape
    <2>2. CASE UNCHANGED receipts
      BY <2>2
    <2>3. \/ UNCHANGED receipts
          \/ \E c \in AuthOrders : VerifyAuthorizedHistoricalSubmission(c)
      BY DEF AuthNext, AuthorityStep, WorldMoves, NextRoot, Drift, IssueOrder,
             AuthCrash, 
             PrepareAttempt, AppendRecord, PostAppend, SettleUncertainAttempt,
             RecoverAttempts, AuthActivate
    <2> QED BY <2>1, <2>2, <2>3
  <1> QED BY AuthorizationInvariant, <1>1, PTL DEF AuthSpec, BurnedHasNoEffect

-----------------------------------------------------------------------------
(***************************************************************************)
(* The risk and the order authority.                                       *)
(***************************************************************************)
RiskReasons == {"LINEAGE_MISMATCH", "STALE_PORTFOLIO_SNAPSHOT", "HALTED", "WITHIN_LIMITS",
                "INSTRUMENT_NOT_CONFIGURED", "NO_POSITION_CAPACITY", "ORDER", "POSITION",
                "ORDER_AND_POSITION", "APPROVAL_SEQUENCE_EXHAUSTED"}
RiskResults == [intent : Intents, snap : Snapshots, risk : {0, 1},
                kind : {"ALLOW", "RESIZE", "REJECT", "EVALUATION_FAILED"}, reason : RiskReasons,
                qty : Int, dec : 1..RiskMaxSequence, app : 0..RiskMaxSequence]
RiskOrderRecords == [id : 0..RiskMaxSequence, intent : Intents, result : RiskResults]

RiskShape ==
    /\ riskHalt.reason \in {"none", "OPERATOR", "INTENT_IDENTITY_CONFLICT"}
    /\ decNext \in 0..RiskMaxSequence /\ appNext \in 0..RiskMaxSequence
    /\ ordNext \in 0..RiskMaxSequence
    /\ decided \in Seq(RiskResults) /\ riskOrders \in Seq(RiskOrderRecords)

\* The approved quantity is positive, no more than asked and within both limits.
WithinLimits(r) ==
    LET pos == r.snap.pos[r.intent.inst]
        lim == Limits[r.intent.inst]
    IN /\ r.intent.inst \in DOMAIN Limits
       /\ 0 < r.qty /\ r.qty <= r.intent.qty /\ r.qty <= lim.order
       /\ r.intent.side = "BUY" => pos + r.qty <= lim.position
       /\ r.intent.side = "SELL" => -lim.position <= pos - r.qty

\* What a verdict of the limits has to be.
SoundVerdict(i, s, kind, reason, qty) ==
    LET pos == s.pos[i.inst]
        lim == Limits[i.inst]
    IN /\ kind \in {"ALLOW", "RESIZE", "REJECT"} /\ reason \in RiskReasons /\ qty \in Int
       /\ kind \in RiskExecutable => /\ 0 < qty /\ qty <= i.qty /\ qty <= lim.order
                                     /\ i.side = "BUY" => pos + qty <= lim.position
                                     /\ i.side = "SELL" => -lim.position <= pos - qty
       /\ kind = "ALLOW" => reason = "WITHIN_LIMITS" /\ qty = i.qty
       /\ kind = "RESIZE" =>
            /\ reason \in {"ORDER", "POSITION", "ORDER_AND_POSITION"} /\ qty < i.qty
            /\ reason # "POSITION" => i.qty > lim.order /\ qty = lim.order
            /\ reason = "POSITION" => qty < lim.order

\* The order authority's own checks of an executable result pass.
Orderable(r) == EvidenceOk(r.intent, r) /\ FrozenLineage(r.intent) /\ StaticProof(r.intent, r)

ApprovalsAreSound ==
    \A r \in Elems(decided) : r.kind \in RiskExecutable => WithinLimits(r) /\ Orderable(r)

\* An identity is decided once.
DecidedOnce == \A r, q \in Elems(decided) : r.intent.id = q.intent.id => r = q

\* An order carries a registered approval and its intent.
OrdersCarryApprovals ==
    \A o \in Elems(riskOrders) : /\ o.result \in Elems(decided) /\ o.result.intent = o.intent
                                 /\ o.result.kind \in RiskExecutable

RiskInv ==
    /\ RiskShape /\ ApprovalsAreSound /\ DecidedOnce /\ OrdersCarryApprovals
    /\ OrderIsIssuedOnce /\ SequencesAreDense /\ HaltIsExplained /\ AnswerIsOfTheIntent

\* The elements of a sequence that grew by one.
LEMMA ElemsOfAppend ==
    ASSUME NEW E, NEW s \in Seq(E), NEW e \in E
    PROVE  /\ Append(s, e) \in Seq(E) /\ Len(Append(s, e)) = Len(s) + 1
           /\ \A k \in 1..Len(s) : Append(s, e)[k] = s[k]
           /\ Append(s, e)[Len(s) + 1] = e
           /\ Elems(Append(s, e)) = Elems(s) \cup {e}
           /\ SubSeq(Append(s, e), 1, Len(s)) = s
           /\ Len(s) \in Nat /\ DOMAIN s = 1..Len(s)
           /\ DOMAIN Append(s, e) = 1..(Len(s) + 1)
  <1>1. /\ Append(s, e) \in Seq(E) /\ Len(Append(s, e)) = Len(s) + 1
        /\ \A k \in 1..Len(s) : Append(s, e)[k] = s[k]
        /\ Append(s, e)[Len(s) + 1] = e
        /\ Len(s) \in Nat /\ DOMAIN s = 1..Len(s)
        /\ DOMAIN Append(s, e) = 1..(Len(s) + 1)
    OBVIOUS
  <1>2. Elems(Append(s, e)) \subseteq Elems(s) \cup {e}
    BY <1>1 DEF Elems
  <1>3. Elems(s) \cup {e} \subseteq Elems(Append(s, e))
    <2>1. \A x \in Elems(s) : \E k \in 1..Len(s) : x = Append(s, e)[k]
      BY <1>1 DEF Elems
    <2>2. 1..Len(s) \subseteq 1..(Len(s) + 1) /\ Len(s) + 1 \in 1..(Len(s) + 1)
      BY <1>1
    <2> QED BY <1>1, <2>1, <2>2 DEF Elems
  <1>4. SubSeq(Append(s, e), 1, Len(s)) = s
    BY <1>1
  <1> QED BY <1>1, <1>2, <1>3, <1>4

LEMMA RiskAdvances == ASSUME NEW n \in 0..RiskMaxSequence, n # 0
                      PROVE  /\ n \in 1..RiskMaxSequence /\ RiskAdvance(n) \in 0..RiskMaxSequence
  BY PolicyAssumption DEF RiskAdvance

\* An intent the limits apply to gets a positive quantity within them, or nothing.
LEMMA VerdictIsSound ==
    ASSUME NEW i \in Intents, NEW s \in Snapshots, i.inst \in DOMAIN Limits, i.qty > 0
    PROVE  SoundVerdict(i, s, Verdict(i, s)[1], Verdict(i, s)[2], Verdict(i, s)[3])
  <1> DEFINE most == Limits[i.inst].order
             pos == s.pos[i.inst]
             bound == Limits[i.inst].position
             room == SideCapacity(i.inst, i.side, pos)
             qty == Min2(i.qty, Min2(most, room))
  <1>1. /\ most \in Nat \ {0} /\ bound \in Nat /\ pos \in Int /\ i.qty \in Int
        /\ i.side \in {"BUY", "SELL"}
    BY PolicyAssumption, InputsAssumption
  <1>2. /\ room \in Nat
        /\ i.side = "BUY" /\ room > 0 => room = bound - pos
        /\ i.side = "SELL" /\ room > 0 => room = bound + pos
    BY <1>1 DEF SideCapacity
  <1> HIDE DEF room
  <1>3. /\ qty \in Nat /\ qty <= i.qty /\ qty <= most /\ qty <= room
        /\ qty = i.qty \/ qty = most \/ qty = room
    BY <1>1, <1>2 DEF Min2
  <1> HIDE DEF qty
  <1> DEFINE byOrder == most < i.qty /\ most = qty
             byRoom == room < i.qty /\ room = qty
  <1>4. Verdict(i, s) = CASE qty = 0 -> <<"REJECT", "NO_POSITION_CAPACITY", 0>>
                          [] qty = i.qty -> <<"ALLOW", "WITHIN_LIMITS", qty>>
                          [] byOrder /\ byRoom -> <<"RESIZE", "ORDER_AND_POSITION", qty>>
                          [] byOrder /\ ~byRoom -> <<"RESIZE", "ORDER", qty>>
                          [] OTHER -> <<"RESIZE", "POSITION", qty>>
    BY DEF Verdict, qty, room
  <1>5. CASE qty = 0
    <2>1. Verdict(i, s) = <<"REJECT", "NO_POSITION_CAPACITY", 0>>
      BY <1>1, <1>4, <1>5
    <2>2. SoundVerdict(i, s, "REJECT", "NO_POSITION_CAPACITY", 0)
      BY DEF SoundVerdict, RiskExecutable, RiskReasons
    <2> QED BY <2>1, <2>2
  <1>6. CASE qty = i.qty /\ qty # 0
    <2>1. Verdict(i, s) = <<"ALLOW", "WITHIN_LIMITS", qty>>
      BY <1>1, <1>4, <1>6
    <2>2. SoundVerdict(i, s, "ALLOW", "WITHIN_LIMITS", qty)
      BY <1>1, <1>2, <1>3, <1>6 DEF SoundVerdict, RiskExecutable, RiskReasons
    <2> QED BY <2>1, <2>2
  <1>7. CASE qty # i.qty /\ qty # 0 /\ byOrder
    <2>1. Verdict(i, s) = <<"RESIZE", "ORDER_AND_POSITION", qty>>
          \/ Verdict(i, s) = <<"RESIZE", "ORDER", qty>>
      BY <1>1, <1>4, <1>7
    <2>2. \A reason \in {"ORDER", "ORDER_AND_POSITION"} :
             SoundVerdict(i, s, "RESIZE", reason, qty)
      BY <1>1, <1>2, <1>3, <1>7 DEF SoundVerdict, RiskExecutable, RiskReasons
    <2> QED BY <2>1, <2>2
  <1>8. CASE qty # i.qty /\ qty # 0 /\ ~byOrder
    <2>1. Verdict(i, s) = <<"RESIZE", "POSITION", qty>>
      BY <1>1, <1>4, <1>8
    <2>2. qty < most
      BY <1>1, <1>2, <1>3, <1>8
    <2>3. SoundVerdict(i, s, "RESIZE", "POSITION", qty)
      BY <1>1, <1>2, <1>3, <1>8, <2>2 DEF SoundVerdict, RiskExecutable, RiskReasons
    <2> QED BY <2>1, <2>3
  <1> QED BY <1>5, <1>6, <1>7, <1>8

\* An approval is given only while nothing is halted and a number is left, and it is within
\* the limits and passes the order authority's checks.
LEMMA ResultIsSound ==
    ASSUME RiskShape, NEW i \in Intents, NEW s \in Snapshots, Structural(i), decNext # 0,
           NEW r, r = RiskResult(i, s, Registered(Evaluation(i, s)))
    PROVE  /\ r \in RiskResults /\ r.intent = i /\ r.dec = decNext
           /\ r.kind \in RiskExecutable => /\ WithinLimits(r) /\ Orderable(r) /\ ~RiskHalted
                                           /\ r.app = appNext /\ appNext # 0
           /\ r.kind \notin RiskExecutable => r.app = 0
  <1> DEFINE v == Evaluation(i, s)
             Failed(t) == t[1] \in {"EVALUATION_FAILED", "REJECT"} /\ t[2] \in RiskReasons /\ t[3] = 0
  <1>1. /\ LineageFailure(i, s) \in {"", "LINEAGE_MISMATCH", "STALE_PORTFOLIO_SNAPSHOT"}
        /\ LineageFailure(i, s) = "" => i.lineage # "execution" /\ s.ver = i.ver
    BY InputsAssumption DEF LineageFailure
  <1>2. i.qty \in Int /\ i.qty > 0 /\ i.lineage \in {"same", "execution", "run"} /\ i.lineage # "run"
    BY InputsAssumption DEF Structural
  <1>3. \/ Failed(v)
        \/ /\ LineageFailure(i, s) = "" /\ ~RiskHalted /\ i.inst \in DOMAIN Limits
           /\ v = Verdict(i, s)
    <2>1. CASE LineageFailure(i, s) # ""
      <3>1. v = <<"EVALUATION_FAILED", LineageFailure(i, s), 0>>
        BY <2>1 DEF Evaluation
      <3> HIDE DEF v
      <3>2. v[1] = "EVALUATION_FAILED" /\ v[2] = LineageFailure(i, s) /\ v[3] = 0
        BY <3>1
      <3>3. LineageFailure(i, s) \in RiskReasons
        BY <1>1, <2>1 DEF RiskReasons
      <3> QED BY <3>2, <3>3
    <2>2. CASE LineageFailure(i, s) = "" /\ RiskHalted
      <3>1. v = <<"REJECT", "HALTED", 0>>
        BY <2>2 DEF Evaluation
      <3> QED BY <3>1 DEF RiskReasons
    <2>3. CASE LineageFailure(i, s) = "" /\ ~RiskHalted /\ i.inst \notin DOMAIN Limits
      <3>1. v = <<"REJECT", "INSTRUMENT_NOT_CONFIGURED", 0>>
        BY <2>3 DEF Evaluation
      <3> QED BY <3>1 DEF RiskReasons
    <2>4. CASE LineageFailure(i, s) = "" /\ ~RiskHalted /\ i.inst \in DOMAIN Limits
      BY <2>4 DEF Evaluation
    <2> QED BY <2>1, <2>2, <2>3, <2>4
  <1> HIDE DEF v
  <1>4. decNext \in 1..RiskMaxSequence /\ appNext \in 0..RiskMaxSequence
    BY RiskAdvances DEF RiskShape
  <1> DEFINE x == Registered(v)
             risk == IF RiskHalted THEN 1 ELSE 0
  <1>5. \/ Failed(x)
        \/ /\ LineageFailure(i, s) = "" /\ ~RiskHalted /\ i.inst \in DOMAIN Limits
           /\ x = Verdict(i, s) /\ (x[1] \in RiskExecutable => appNext # 0)
    <2>1. CASE v[1] \in RiskExecutable /\ appNext = 0
      <3>1. x[1] = "EVALUATION_FAILED" /\ x[2] = "APPROVAL_SEQUENCE_EXHAUSTED" /\ x[3] = 0
        BY <2>1 DEF Registered
      <3> QED BY <3>1 DEF RiskReasons
    <2>2. CASE ~(v[1] \in RiskExecutable /\ appNext = 0)
      <3>1. x = v
        BY <2>2 DEF Registered
      <3> HIDE DEF x
      <3> QED BY <1>3, <2>2, <3>1
    <2> QED BY <2>1, <2>2
  <1>6. r = RiskResult(i, s, x)
    BY DEF v
  <1> HIDE DEF x
  <1>7. /\ r = [intent |-> i, snap |-> s, risk |-> risk, kind |-> x[1], reason |-> x[2],
                qty |-> x[3], dec |-> decNext,
                app |-> IF x[1] \in RiskExecutable THEN appNext ELSE 0]
        /\ risk \in {0, 1}
    BY <1>6 DEF RiskResult
  <1> HIDE DEF risk
  <1>8. /\ r.intent = i /\ r.snap = s /\ r.kind = x[1] /\ r.reason = x[2] /\ r.qty = x[3]
        /\ r.dec = decNext /\ r.app = IF x[1] \in RiskExecutable THEN appNext ELSE 0
    BY <1>7
  <1>9. CASE Failed(x)
    <2>1. x[1] \notin RiskExecutable
      BY <1>9 DEF RiskExecutable
    <2>2. x[1] \in {"ALLOW", "RESIZE", "REJECT", "EVALUATION_FAILED"} /\ x[2] \in RiskReasons
          /\ x[3] \in Int /\ 0 \in 0..RiskMaxSequence
      BY <1>9, PolicyAssumption
    <2>3. r = [intent |-> i, snap |-> s, risk |-> risk, kind |-> x[1], reason |-> x[2],
               qty |-> x[3], dec |-> decNext, app |-> 0]
      BY <1>7, <2>1
    <2>4. r \in RiskResults
      BY <1>4, <1>7, <2>2, <2>3 DEF RiskResults
    <2> QED BY <1>8, <2>1, <2>4
  <1>10. CASE /\ LineageFailure(i, s) = "" /\ ~RiskHalted /\ i.inst \in DOMAIN Limits
              /\ x = Verdict(i, s) /\ (x[1] \in RiskExecutable => appNext # 0)
    <2>1. SoundVerdict(i, s, x[1], x[2], x[3])
      BY <1>2, <1>10, VerdictIsSound
    <2>2. x[1] \in {"ALLOW", "RESIZE", "REJECT", "EVALUATION_FAILED"} /\ x[2] \in RiskReasons
          /\ x[3] \in Int
      BY <2>1 DEF SoundVerdict
    <2>3. (IF x[1] \in RiskExecutable THEN appNext ELSE 0) \in 0..RiskMaxSequence
      BY <1>4, PolicyAssumption
    <2>4. r \in RiskResults
      BY <1>4, <1>7, <2>2, <2>3 DEF RiskResults
    <2>5. x[1] \in RiskExecutable => WithinLimits(r)
      BY <1>8, <1>10, <2>1 DEF SoundVerdict, WithinLimits
    <2>6. x[1] \in RiskExecutable => Orderable(r)
      <3> SUFFICES ASSUME x[1] \in RiskExecutable PROVE Orderable(r)
        OBVIOUS
      <3>1. EvidenceOk(i, r)
        BY <1>1, <1>4, <1>8, <1>10, <2>1 DEF EvidenceOk, SoundVerdict, RiskExecutable
      <3>2. FrozenLineage(i)
        BY <1>1, <1>2, <1>10 DEF FrozenLineage
      <3>3. StaticProof(i, r)
        BY <1>8, <1>10, <2>1 DEF StaticProof, SoundVerdict, RiskExecutable
      <3> QED BY <1>8, <3>1, <3>2, <3>3 DEF Orderable
    <2> QED BY <1>8, <1>10, <2>4, <2>5, <2>6
  <1> QED BY <1>5, <1>9, <1>10

LEMMA DecidedAreResults ==
    ASSUME RiskShape
    PROVE  \A r \in Elems(decided) : /\ r \in RiskResults /\ r.intent \in Intents
                                     /\ r.intent.id # RiskNoIntent.id
  <1>1. \A r \in Elems(decided) : r \in RiskResults
    BY DEF RiskShape, Elems
  <1>2. \A r \in RiskResults : r.intent \in Intents
    BY DEF RiskResults
  <1> QED BY <1>1, <1>2, InputsAssumption DEF RiskNoIntent

\* The approvals among the results.
Approved == {r \in Elems(decided) : r.kind \in RiskExecutable}

LEMMA ApprovedIsFinite == ASSUME RiskShape PROVE IsFiniteSet(Elems(decided)) /\ IsFiniteSet(Approved)
  <1>1. Len(decided) \in Nat /\ DOMAIN decided = 1..Len(decided)
    BY DEF RiskShape
  <1>2. IsFiniteSet(1..Len(decided))
    BY <1>1, FS_Interval
  <1>3. decided \in Surjection(1..Len(decided), Elems(decided))
    BY <1>1 DEF Elems, Surjection, RiskShape
  <1>4. IsFiniteSet(Elems(decided))
    BY <1>2, <1>3, FS_Surjection
  <1> QED BY <1>4, FS_Subset DEF Approved

\* A new decision takes the next number, and a new approval the next of its own.
LEMMA RegisterStep ==
    ASSUME RiskInv, NEW i \in Intents, NEW s \in Snapshots, Known(i) = {}, Structural(i),
           decNext # 0, Register(i, s), UNCHANGED <<ordNext, riskOrders>>
    PROVE  RiskInv'
  <1> USE DEF RiskInv
  <1>1. PICK r : /\ r = RiskResult(i, s, Registered(Evaluation(i, s)))
                 /\ decided' = Append(decided, r) /\ decNext' = RiskAdvance(decNext)
                 /\ appNext' = IF r.app # 0 THEN RiskAdvance(appNext) ELSE appNext
                 /\ riskAnswer' = <<i, r>> /\ UNCHANGED riskHalt
    BY DEF Register
  <1>2. /\ r \in RiskResults /\ r.intent = i /\ r.dec = decNext
        /\ r.kind \in RiskExecutable => /\ WithinLimits(r) /\ Orderable(r) /\ ~RiskHalted
                                        /\ r.app = appNext /\ appNext # 0
        /\ r.kind \notin RiskExecutable => r.app = 0
    BY <1>1, ResultIsSound
  <1>3. /\ decided' \in Seq(RiskResults) /\ Len(decided') = Len(decided) + 1
        /\ Elems(decided)' = Elems(decided) \cup {r} /\ Len(decided) \in Nat
        /\ DOMAIN decided = 1..Len(decided) /\ DOMAIN decided' = 1..(Len(decided) + 1)
        /\ \A k \in 1..Len(decided) : decided'[k] = decided[k]
        /\ decided'[Len(decided) + 1] = r
    <2>1. decided \in Seq(RiskResults)
      BY DEF RiskShape
    <2>2. Elems(decided)' = Elems(Append(decided, r))
      BY <1>1 DEF Elems
    <2> QED BY <1>1, <1>2, <2>1, <2>2, ElemsOfAppend
  <1>4. RiskShape'
    BY <1>1, <1>2, <1>3, RiskAdvances DEF RiskShape
  <1>5. ApprovalsAreSound'
    BY <1>2, <1>3 DEF ApprovalsAreSound
  <1>6. \A q \in Elems(decided) : q.intent.id # i.id
    BY DEF Known
  <1>7. DecidedOnce'
    BY <1>2, <1>3, <1>6 DEF DecidedOnce
  <1>8. OrdersCarryApprovals' /\ OrderIsIssuedOnce'
    BY <1>3 DEF OrdersCarryApprovals, OrderIsIssuedOnce, Elems
  <1>9. SequencesAreDense'
    <2>1. /\ \A k \in 1..Len(decided) : decided[k].dec = k
          /\ decNext = Len(decided) + 1 /\ Len(decided) # RiskMaxSequence
          /\ {q.app : q \in Approved} = 1..Cardinality(Approved)
          /\ appNext = IF Cardinality(Approved) = RiskMaxSequence THEN 0
                       ELSE Cardinality(Approved) + 1
      BY <1>3 DEF SequencesAreDense, Approved
    <2>2. \A k \in 1..(Len(decided) + 1) : decided'[k].dec = k
      <3> SUFFICES ASSUME NEW k \in 1..(Len(decided) + 1) PROVE decided'[k].dec = k
        OBVIOUS
      <3>1. CASE k = Len(decided) + 1
        BY <1>2, <1>3, <2>1, <3>1
      <3>2. CASE k \in 1..Len(decided)
        BY <1>3, <2>1, <3>2
      <3> QED BY <1>3, <3>1, <3>2
    <2>3. decNext' = IF Len(decided') = RiskMaxSequence THEN 0 ELSE Len(decided') + 1
      BY <1>1, <1>3, <2>1 DEF RiskAdvance
    <2>4. /\ IsFiniteSet(Approved) /\ Cardinality(Approved) \in Nat
      BY ApprovedIsFinite, FS_CardinalityType
    <2>5. CASE r.kind \notin RiskExecutable
      <3>1. Approved' = Approved /\ appNext' = appNext
        BY <1>1, <1>2, <1>3, <2>5 DEF Approved
      <3> QED BY <1>3, <2>1, <2>2, <2>3, <3>1 DEF SequencesAreDense, Approved
    <2>6. CASE r.kind \in RiskExecutable
      <3>1. r \notin Approved
        <4>1. \A q \in Elems(decided) : q.dec \in 1..Len(decided)
          BY <1>3, <2>1 DEF Elems
        <4> QED BY <1>2, <1>3, <2>1, <4>1 DEF Approved
      <3>2. Approved' = Approved \cup {r}
        BY <1>3, <2>6 DEF Approved
      <3>3. Cardinality(Approved') = Cardinality(Approved) + 1
        BY <2>4, <3>1, <3>2, FS_AddElement
      <3>4. r.app = Cardinality(Approved) + 1 /\ Cardinality(Approved) # RiskMaxSequence
        BY <1>2, <2>1, <2>4, <2>6
      <3>5. {q.app : q \in Approved'} = 1..Cardinality(Approved')
        <4>1. {q.app : q \in Approved'} = {q.app : q \in Approved} \cup {r.app}
          BY <3>2
        <4>2. 1..(Cardinality(Approved) + 1)
                = 1..Cardinality(Approved) \cup {Cardinality(Approved) + 1}
          BY <2>4
        <4> QED BY <2>1, <3>3, <3>4, <4>1, <4>2
      <3>6. appNext' = IF Cardinality(Approved') = RiskMaxSequence THEN 0
                       ELSE Cardinality(Approved') + 1
        BY <1>1, <1>2, <2>1, <2>4, <2>6, <3>3, <3>4 DEF RiskAdvance
      <3> QED BY <1>3, <2>2, <2>3, <3>5, <3>6 DEF SequencesAreDense, Approved
    <2> QED BY <2>5, <2>6
  <1>10. HaltIsExplained'
    BY <1>1, <1>3 DEF HaltIsExplained, RiskStateValid
  <1>11. AnswerIsOfTheIntent'
    <2>1. riskAnswer'[1] = i /\ riskAnswer'[2] = r
      BY <1>1
    <2> QED BY <1>2, <1>3, <1>6, <2>1 DEF AnswerIsOfTheIntent
  <1> QED BY <1>4, <1>5, <1>7, <1>8, <1>9, <1>10, <1>11

\* An identity conflict: two intents with one identity, the first of which is decided.
LEMMA ConflictStep ==
    ASSUME RiskInv, NEW i \in Intents, NEW r \in Known(i), r.intent # i,
           EngageConflict(r.intent, i),
           UNCHANGED <<decNext, appNext, decided, ordNext, riskOrders>>
    PROVE  RiskInv'
  <1> USE DEF RiskInv
  <1>1. r \in Elems(decided) /\ r.intent.id = i.id /\ r.intent \in Intents
    BY DecidedAreResults DEF Known
  <1>2. r.intent # RiskNoIntent /\ i # RiskNoIntent
    BY <1>1, InputsAssumption DEF RiskNoIntent
  <1>3. /\ riskHalt' = IF RiskHalted THEN riskHalt
                       ELSE [reason |-> "INTENT_IDENTITY_CONFLICT", old |-> r.intent, new |-> i]
        /\ riskAnswer'[1] = i /\ riskAnswer'[2] = Raised
    BY DEF EngageConflict
  <1>4. RiskHalted'
    BY <1>3 DEF RiskHalted
  <1>5. HaltIsExplained'
    <2>1. CASE RiskHalted
      BY <1>3, <2>1 DEF HaltIsExplained, RiskStateValid
    <2>2. CASE ~RiskHalted
      BY <1>1, <1>2, <1>3, <2>2 DEF HaltIsExplained, RiskStateValid
    <2> QED BY <2>1, <2>2
  <1>6. AnswerIsOfTheIntent'
    BY <1>3, <1>4 DEF AnswerIsOfTheIntent, Raised
  <1>7. RiskShape'
    BY <1>3 DEF RiskShape
  <1>8. ApprovalsAreSound' /\ DecidedOnce' /\ OrdersCarryApprovals'
    BY DEF ApprovalsAreSound, DecidedOnce, OrdersCarryApprovals, Elems
  <1>9. OrderIsIssuedOnce'
    BY DEF OrderIsIssuedOnce, Elems
  <1>10. SequencesAreDense'
    BY DEF SequencesAreDense, Approved, Elems
  <1> QED BY <1>5, <1>6, <1>7, <1>8, <1>9, <1>10

\* What leaves the authority alone and is answered truthfully.
LEMMA AnswerOnly ==
    ASSUME RiskInv, UNCHANGED <<riskHalt, decNext, appNext, decided, ordNext, riskOrders>>,
           AnswerIsOfTheIntent'
    PROVE  RiskInv'
  <1> USE DEF RiskInv
  <1>1. Elems(decided)' = Elems(decided) /\ Elems(riskOrders)' = Elems(riskOrders)
    BY DEF Elems
  <1>2. RiskShape' /\ ApprovalsAreSound' /\ DecidedOnce'
    BY <1>1 DEF RiskShape, ApprovalsAreSound, DecidedOnce
  <1>3. OrdersCarryApprovals' /\ OrderIsIssuedOnce' /\ SequencesAreDense'
    BY <1>1 DEF OrdersCarryApprovals, OrderIsIssuedOnce, SequencesAreDense
  <1>4. HaltIsExplained'
    BY <1>1 DEF HaltIsExplained, RiskStateValid
  <1> QED BY <1>2, <1>3, <1>4

LEMMA EvaluateStep == ASSUME RiskInv, NEW i \in Intents, NEW s \in Snapshots, Evaluate(i, s)
                      PROVE  RiskInv'
  <1>1. ASSUME NEW r \in Known(i), r.intent = i, riskAnswer' = <<i, r>>,
               UNCHANGED <<riskHalt, decNext, appNext, decided, ordNext, riskOrders>>
        PROVE  RiskInv'
    <2>1. riskAnswer'[1] = i /\ riskAnswer'[2] = r
      BY <1>1
    <2>2. \A q \in Elems(decided) : q.intent.id = i.id => q.intent = i
      BY <1>1 DEF RiskInv, DecidedOnce, Known
    <2>3. AnswerIsOfTheIntent'
      BY <1>1, <2>1, <2>2 DEF AnswerIsOfTheIntent, Elems
    <2> QED BY <1>1, <2>3, AnswerOnly
  <1>2. ASSUME Known(i) = {}, riskAnswer' = <<i, Raised>>,
               UNCHANGED <<riskHalt, decNext, appNext, decided, ordNext, riskOrders>>
        PROVE  RiskInv'
    <2>1. riskAnswer'[1] = i /\ riskAnswer'[2].kind = "RAISED"
      BY <1>2 DEF Raised
    <2>2. AnswerIsOfTheIntent'
      BY <1>2, <2>1 DEF AnswerIsOfTheIntent, Elems, Known
    <2> QED BY <1>2, <2>2, AnswerOnly
  <1> QED BY <1>1, <1>2, RegisterStep, ConflictStep DEF Evaluate

LEMMA EngageHaltStep ==
    ASSUME RiskInv, NEW reason \in {"OPERATOR", "INTENT_IDENTITY_CONFLICT"}, EngageHalt(reason)
    PROVE  RiskInv'
  <1> USE DEF RiskInv
  <1>1. UNCHANGED <<decNext, appNext, decided, ordNext, riskOrders>>
    BY DEF EngageHalt
  <1>2. \A r \in Elems(decided) : r.intent.id # RiskNoIntent.id
    BY DecidedAreResults
  <1>3. riskAnswer'[1] = RiskNoIntent /\ riskAnswer'[2].kind \in {"RAISED", "HALTED"}
    BY DEF EngageHalt, Raised
  <1>4. AnswerIsOfTheIntent'
    BY <1>1, <1>2, <1>3 DEF AnswerIsOfTheIntent, Elems
  <1>5. CASE UNCHANGED riskHalt
    BY <1>1, <1>4, <1>5, AnswerOnly
  <1>6. CASE ~RiskHalted /\ riskHalt' = [reason |-> "OPERATOR", old |-> RiskNoIntent,
                                         new |-> RiskNoIntent]
    <2>1. RiskShape'
      BY <1>1, <1>6 DEF RiskShape
    <2>2. HaltIsExplained'
      BY <1>6 DEF HaltIsExplained, RiskStateValid
    <2> QED BY <1>1, <1>4, <2>1, <2>2
           DEF ApprovalsAreSound, DecidedOnce, OrdersCarryApprovals, OrderIsIssuedOnce,
               SequencesAreDense, Elems
  <1> QED BY <1>5, <1>6 DEF EngageHalt

\* An order is created for an approval that was registered, and occupies its identities.
LEMMA CreateStep ==
    ASSUME RiskInv, NEW i \in Intents, NEW r, Occupied(i, r) = {}, Creatable(i, r),
           CreateNew(i, r), UNCHANGED <<riskHalt, decNext, appNext, decided>>
    PROVE  RiskInv'
  <1> USE DEF RiskInv
  <1>1. PICK o : /\ o = [id |-> ordNext, intent |-> i, result |-> r]
                 /\ riskOrders' = Append(riskOrders, o) /\ ordNext' = RiskAdvance(ordNext)
                 /\ riskAnswer' = <<RiskNoIntent, OrderId(o)>>
    BY DEF CreateNew
  <1>2. /\ r \in Elems(decided) /\ r.intent = i /\ r.kind \in RiskExecutable /\ r.app # 0
        /\ ordNext # 0
    BY DEF Creatable, RiskHasIssued, EvidenceOk
  <1>3. r \in RiskResults /\ o \in RiskOrderRecords
    BY <1>1, <1>2 DEF RiskShape, Elems, RiskOrderRecords
  <1>4. /\ riskOrders' \in Seq(RiskOrderRecords) /\ Elems(riskOrders)' = Elems(riskOrders) \cup {o}
        /\ DOMAIN riskOrders = 1..Len(riskOrders) /\ DOMAIN riskOrders' = 1..(Len(riskOrders) + 1)
        /\ \A k \in 1..Len(riskOrders) : riskOrders'[k] = riskOrders[k]
        /\ riskOrders'[Len(riskOrders) + 1] = o /\ Len(riskOrders) \in Nat
    <2>1. riskOrders \in Seq(RiskOrderRecords)
      BY DEF RiskShape
    <2>2. Elems(riskOrders)' = Elems(Append(riskOrders, o))
      BY <1>1 DEF Elems
    <2> QED BY <1>1, <1>3, <2>1, <2>2, ElemsOfAppend
  <1>5. RiskShape'
    BY <1>1, <1>2, <1>4, RiskAdvances DEF RiskShape
  <1>6. OrdersCarryApprovals'
    BY <1>1, <1>2, <1>4 DEF OrdersCarryApprovals, Elems
  <1>7. \A q \in Elems(riskOrders) : /\ q.intent.id # i.id /\ q.result.dec # r.dec
                                     /\ q.result.app # r.app
    BY <1>2 DEF Occupied
  <1>8. OrderIsIssuedOnce'
    <2>1. \A p \in Elems(riskOrders)' : \E q \in Elems(decided)' : q.intent = p.intent
                                                                 /\ q = p.result
      BY <1>6 DEF OrdersCarryApprovals
    <2>2. \A a \in 1..Len(riskOrders) : riskOrders[a] \in Elems(riskOrders)
      BY <1>4 DEF Elems
    <2>3. ASSUME NEW a \in 1..(Len(riskOrders) + 1), NEW b \in 1..(Len(riskOrders) + 1), a # b
          PROVE  /\ riskOrders'[a].intent.id # riskOrders'[b].intent.id
                 /\ riskOrders'[a].result.dec # riskOrders'[b].result.dec
                 /\ riskOrders'[a].result.app # riskOrders'[b].result.app
      <3>1. CASE a \in 1..Len(riskOrders) /\ b \in 1..Len(riskOrders)
        BY <1>4, <2>3, <3>1 DEF OrderIsIssuedOnce
      <3>2. CASE a \in 1..Len(riskOrders) /\ b = Len(riskOrders) + 1
        BY <1>1, <1>4, <1>7, <2>2, <3>2
      <3>3. CASE b \in 1..Len(riskOrders) /\ a = Len(riskOrders) + 1
        BY <1>1, <1>4, <1>7, <2>2, <3>3
      <3> QED BY <1>4, <2>3, <3>1, <3>2, <3>3
    <2> QED BY <1>4, <2>1, <2>3 DEF OrderIsIssuedOnce
  <1>9. AnswerIsOfTheIntent'
    <2>1. \A q \in Elems(decided) : q.intent.id # RiskNoIntent.id
      BY DecidedAreResults
    <2>2. riskAnswer'[1] = RiskNoIntent /\ riskAnswer'[2].kind = "ORDER"
      BY <1>1 DEF OrderId
    <2> QED BY <2>1, <2>2 DEF AnswerIsOfTheIntent, Elems
  <1>10. Elems(decided)' = Elems(decided)
    BY DEF Elems
  <1>11. ApprovalsAreSound' /\ DecidedOnce' /\ SequencesAreDense'
    BY <1>10 DEF ApprovalsAreSound, DecidedOnce, SequencesAreDense
  <1>12. HaltIsExplained'
    BY <1>10 DEF HaltIsExplained, RiskStateValid
  <1> QED BY <1>5, <1>6, <1>8, <1>9, <1>11, <1>12

LEMMA CreateOrderStep == ASSUME RiskInv, NEW i \in Intents, NEW r, RiskCreateOrder(i, r)
                         PROVE  RiskInv'
  <1>1. UNCHANGED <<riskHalt, decNext, appNext, decided>>
    BY DEF RiskCreateOrder
  <1>2. CASE Occupied(i, r) = {} /\ Creatable(i, r) /\ CreateNew(i, r)
    BY <1>1, <1>2, CreateStep
  <1>3. CASE /\ UNCHANGED <<riskOrders, ordNext>>
             /\ \E x \in {"ORDER", "RAISED"} : riskAnswer'[1] = RiskNoIntent /\ riskAnswer'[2].kind = x
    <2>1. \A q \in Elems(decided) : q.intent.id # RiskNoIntent.id
      BY DecidedAreResults DEF RiskInv
    <2>2. AnswerIsOfTheIntent'
      BY <1>1, <1>3, <2>1 DEF AnswerIsOfTheIntent, Elems
    <2> QED BY <1>1, <1>3, <2>2, AnswerOnly
  <1>4. ASSUME NEW o, riskAnswer' = <<RiskNoIntent, OrderId(o)>> \/ riskAnswer' = <<RiskNoIntent, Raised>>
        PROVE  \E x \in {"ORDER", "RAISED"} : riskAnswer'[1] = RiskNoIntent /\ riskAnswer'[2].kind = x
    BY <1>4 DEF OrderId, Raised
  <1> QED BY <1>2, <1>3, <1>4 DEF RiskCreateOrder

LEMMA RiskStarts == RiskInit => RiskInv
  <1> SUFFICES ASSUME RiskInit PROVE RiskInv
    OBVIOUS
  <1>1. Elems(decided) = {} /\ Elems(riskOrders) = {}
    BY DEF RiskInit, Elems
  <1>2. RiskShape
    BY PolicyAssumption DEF RiskInit, RiskShape, RiskRunning
  <1>3. SequencesAreDense
    <2>1. Approved = {} /\ Cardinality(Approved) = 0
      BY <1>1, FS_EmptySet DEF Approved
    <2>2. {r.app : r \in Approved} = 1..0
      BY <2>1
    <2>3. Len(decided) = 0 /\ DOMAIN decided = {} /\ decNext = 1 /\ appNext = 1
      BY DEF RiskInit
    <2>4. RiskMaxSequence # 0 /\ 1..0 = {}
      BY PolicyAssumption
    <2>5. \A k \in DOMAIN decided : decided[k].dec = k
      BY <2>3
    <2>6. decNext = IF Len(decided) = RiskMaxSequence THEN 0 ELSE Len(decided) + 1
      BY <2>3, <2>4
    <2>7. appNext = IF Cardinality(Approved) = RiskMaxSequence THEN 0 ELSE Cardinality(Approved) + 1
      BY <2>1, <2>3, <2>4
    <2>8. {r.app : r \in Approved} = 1..Cardinality(Approved)
      BY <2>1, <2>2
    <2> QED BY <2>5, <2>6, <2>7, <2>8 DEF SequencesAreDense, Approved
  <1>4. HaltIsExplained
    BY DEF RiskInit, HaltIsExplained, RiskStateValid, RiskRunning
  <1>5. AnswerIsOfTheIntent
    BY <1>1 DEF RiskInit, AnswerIsOfTheIntent, Raised
  <1>6. OrderIsIssuedOnce
    BY <1>1 DEF RiskInit, OrderIsIssuedOnce
  <1> QED BY <1>1, <1>2, <1>3, <1>4, <1>5, <1>6
         DEF RiskInv, ApprovalsAreSound, DecidedOnce, OrdersCarryApprovals

LEMMA RiskStep == RiskInv /\ [RiskNext]_riskVars => RiskInv'
  <1> SUFFICES ASSUME RiskInv, [RiskNext]_riskVars PROVE RiskInv'
    OBVIOUS
  <1>1. CASE UNCHANGED riskVars
    BY <1>1, AnswerOnly DEF riskVars, RiskInv, AnswerIsOfTheIntent, RiskHalted
  <1>2. CASE RiskNext
    BY <1>2, EvaluateStep, EngageHaltStep, CreateOrderStep DEF RiskNext
  <1> QED BY <1>1, <1>2

\* What holds together in both authorities for every policy, set of intents and
\* set of snapshots, and every order of calls.
THEOREM RiskInvariant == RiskSpec => []RiskInv
  BY RiskStarts, RiskStep, PTL DEF RiskSpec

\* Approvals keep the limits and can become orders, an order is issued once, the
\* sequences have no gap, and halts and answers are truthful (risk/authority.py
\* evaluate, execution/authority.py create_order).
THEOREM RiskIsSafe == RiskSpec => []RiskSafe
  <1>1. RiskInv => RiskSafe
    <2> SUFFICES ASSUME RiskInv PROVE RiskSafe
      OBVIOUS
    <2> USE DEF RiskInv
    <2>1. \A r \in Elems(decided) : r \in RiskResults
      BY DEF RiskShape, Elems
    <2>2. RiskTypeOK
      BY <2>1 DEF RiskTypeOK, RiskShape, RiskResults
    <2>3. ApprovalKeepsLimits
      BY DEF ApprovalKeepsLimits, OrdersCarryApprovals, ApprovalsAreSound,
             WithinLimits
    <2>4. ApprovalIsOrderable
      BY DEF ApprovalIsOrderable, ApprovalsAreSound, Orderable
    <2> QED BY <2>2, <2>3, <2>4 DEF RiskSafe
  <1> QED BY RiskInvariant, <1>1, PTL

\* After a halt nothing more is approved and what was decided stays as it was
\* (risk/authority.py, engage_halt and evaluate).
THEOREM RiskHaltIsFinal == RiskSpec => HaltIsFinal
  <1>1. ASSUME RiskInv, [RiskNext]_riskVars
        PROVE  [/\ RiskHalted => riskHalt' = riskHalt
                /\ SubSeq(decided', 1, Len(decided)) = decided
                /\ RiskHalted /\ Len(decided') > Len(decided) =>
                      decided'[Len(decided')].kind \notin RiskExecutable]_riskVars
    <2> SUFFICES ASSUME RiskNext
                 PROVE  /\ RiskHalted => riskHalt' = riskHalt
                        /\ SubSeq(decided', 1, Len(decided)) = decided
                        /\ RiskHalted /\ Len(decided') > Len(decided) =>
                              decided'[Len(decided')].kind \notin RiskExecutable
      BY <1>1
    <2> USE <1>1 DEF RiskInv
    <2>1. RiskHalted => riskHalt' = riskHalt
      BY DEF RiskNext, Evaluate, EngageHalt, RiskCreateOrder, Register, EngageConflict
    <2>2. decided \in Seq(RiskResults) /\ Len(decided) \in Nat
      BY DEF RiskShape
    <2>3. CASE UNCHANGED decided
      BY <2>1, <2>2, <2>3
    <2>4. ASSUME NEW i \in Intents, NEW s \in Snapshots, Structural(i), decNext # 0, Register(i, s)
          PROVE  /\ SubSeq(decided', 1, Len(decided)) = decided
                 /\ RiskHalted => decided'[Len(decided')].kind \notin RiskExecutable
      <3>1. PICK r : /\ r = RiskResult(i, s, Registered(Evaluation(i, s)))
                     /\ decided' = Append(decided, r)
        BY <2>4 DEF Register
      <3>2. r \in RiskResults /\ (r.kind \in RiskExecutable => ~RiskHalted)
        BY <2>4, <3>1, ResultIsSound
      <3> QED BY <2>2, <3>1, <3>2, ElemsOfAppend
    <2>5. \/ UNCHANGED decided
          \/ \E i \in Intents, s \in Snapshots : Structural(i) /\ decNext # 0 /\ Register(i, s)
      BY DEF RiskNext, Evaluate, EngageHalt, RiskCreateOrder
    <2> QED BY <2>1, <2>3, <2>4, <2>5
  <1> QED BY RiskInvariant, <1>1, PTL DEF RiskSpec, HaltIsFinal

-----------------------------------------------------------------------------
(***************************************************************************)
(* Sums over finite sets.  What MapThenSumSet computes depends neither on  *)
(* the order in which it takes the members nor on anything but them.       *)
(***************************************************************************)
\* A set of numbers that is not empty has a least member.
LEMMA LeastOf ==
    ASSUME NEW T \in SUBSET Nat, T # {}
    PROVE  \E x \in T : \A y \in T : x <= y
<1>1. PICK x \in T : \A y \in T : ~(<<y, x>> \in OpToRel(<, Nat))
    BY NatLessThanWellFounded, WFMin
<1>2. \A y \in T : ~(y < x)
    BY <1>1 DEF OpToRel
<1> QED BY <1>2

\* A set of numbers that holds zero and with each number the next holds all of them.
LEMMA SizesInduct ==
    ASSUME NEW T \in SUBSET Nat, 0 \in T, \A n \in T : n + 1 \in T
    PROVE  T = Nat
<1> SUFFICES ASSUME Nat \ T # {} PROVE FALSE
    OBVIOUS
<1>1. PICK x \in Nat \ T : \A y \in Nat \ T : x <= y
    BY LeastOf
<1>2. x - 1 \in T
    BY <1>1
<1> QED  BY <1>1, <1>2

AnyOf(s) == CHOOSE x \in s : TRUE
SumStep(F, g, s) == IF s = {} THEN 0 ELSE F[AnyOf(s)] + g[s \ {AnyOf(s)}]
SumOver(F, D) == MapThenSumSet(LAMBDA x : F[x], D)

\* One member less.
LEMMA OneLess ==
    ASSUME NEW s, IsFiniteSet(s), NEW n \in Nat, Cardinality(s) = n + 1, NEW x \in s
    PROVE  IsFiniteSet(s \ {x}) /\ Cardinality(s \ {x}) = n /\ s # {}
<1>1. IsFiniteSet(s \ {x}) /\ Cardinality(s \ {x}) = Cardinality(s) - 1
    BY FS_RemoveElement
<1> QED  BY <1>1

\* The function that the fold builds exists.
LEMMA FoldExists ==
    ASSUME NEW F, NEW D, IsFiniteSet(D)
    PROVE  \E g : g = [s \in SUBSET D |-> SumStep(F, g, s)]
<1> DEFINE N == {n \in Nat : \E g : \A s \in SUBSET D :
                    Cardinality(s) <= n => g[s] = SumStep(F, g, s)}
<1>0. ASSUME NEW s \in SUBSET D, s # {}
      PROVE  /\ s \ {AnyOf(s)} \in SUBSET D /\ Cardinality(s) \in Nat
             /\ Cardinality(s \ {AnyOf(s)}) = Cardinality(s) - 1
    <2>1. IsFiniteSet(s)  BY FS_Subset
    <2>2. AnyOf(s) \in s  BY <1>0 DEF AnyOf
    <2> QED  BY <2>1, <2>2, FS_RemoveElement, FS_CardinalityType
<1>1. 0 \in N
    <2> DEFINE g == [s \in SUBSET D |-> 0]
    <2>1. ASSUME NEW s \in SUBSET D, Cardinality(s) <= 0 PROVE g[s] = SumStep(F, g, s)
        <3>1. s = {}  BY <2>1, FS_Subset, FS_EmptySet, FS_CardinalityType
        <3> QED  BY <3>1 DEF SumStep
    <2> QED  BY <2>1
<1>2. ASSUME NEW n \in N PROVE n + 1 \in N
    <2>1. PICK g : \A s \in SUBSET D : Cardinality(s) <= n => g[s] = SumStep(F, g, s)
        OBVIOUS
    <2> DEFINE h == [s \in SUBSET D |-> SumStep(F, g, s)]
    <2>2. ASSUME NEW s \in SUBSET D, Cardinality(s) <= n + 1 PROVE h[s] = SumStep(F, h, s)
        <3>1. CASE s = {}  BY <3>1 DEF SumStep
        <3>2. CASE s # {}
            <4> DEFINE t == s \ {AnyOf(s)}
            <4>1. t \in SUBSET D /\ Cardinality(t) <= n  BY <1>0, <2>2, <3>2
            <4>2. h[t] = SumStep(F, g, t)  BY <4>1
            <4>3. h[t] = g[t]  BY <2>1, <4>1, <4>2
            <4>4. h[s] = SumStep(F, g, s)  BY <2>2
            <4> HIDE DEF h
            <4> QED  BY <3>2, <4>3, <4>4 DEF SumStep
        <3> QED  BY <3>1, <3>2
    <2> HIDE DEF h
    <2>3. n + 1 \in Nat  OBVIOUS
    <2> QED  BY <2>2, <2>3
<1> HIDE DEF N
<1>3. N = Nat
    <2>1. N \in SUBSET Nat  BY DEF N
    <2> QED  BY <1>1, <1>2, <2>1, SizesInduct
<1>4. Cardinality(D) \in Nat
      /\ \A s \in SUBSET D : Cardinality(s) \in Nat /\ Cardinality(s) <= Cardinality(D)
    BY FS_Subset, FS_CardinalityType
<1>5. PICK g : \A s \in SUBSET D : Cardinality(s) <= Cardinality(D) => g[s] = SumStep(F, g, s)
    BY <1>3, <1>4 DEF N
<1> DEFINE h == [s \in SUBSET D |-> g[s]]
<1>6. ASSUME NEW s \in SUBSET D PROVE h[s] = SumStep(F, h, s)
    <2>1. h[s] = SumStep(F, g, s)  BY <1>4, <1>5
    <2>2. CASE s = {}  BY <2>1, <2>2 DEF SumStep
    <2>3. CASE s # {}
        <3>1. s \ {AnyOf(s)} \in SUBSET D  BY <1>0, <2>3
        <3>2. h[s \ {AnyOf(s)}] = g[s \ {AnyOf(s)}]  BY <3>1
        <3> HIDE DEF h
        <3> QED  BY <2>1, <2>3, <3>2 DEF SumStep
    <2> QED  BY <2>2, <2>3
<1>7. h = [s \in SUBSET D |-> SumStep(F, h, s)]
    <2>1. h = [s \in SUBSET D |-> h[s]]  OBVIOUS
    <2> HIDE DEF h
    <2> QED  BY <1>6, <2>1
<1> HIDE DEF h
<1> QED  BY <1>7

Folds(F, g, D) == g = [s \in SUBSET D |-> SumStep(F, g, s)]

LEMMA SumIsFold ==
    ASSUME NEW F, NEW D, IsFiniteSet(D)
    PROVE  \E g : SumOver(F, D) = g[D] /\ Folds(F, g, D)
<1>1. PICK h : h = [s \in SUBSET D |-> SumStep(F, h, s)]
    BY FoldExists
<1> DEFINE g == CHOOSE g : g = [s \in SUBSET D |-> SumStep(F, g, s)]
<1>2. g = [s \in SUBSET D |-> SumStep(F, g, s)]  BY <1>1
<1>3. SumOver(F, D) = g[D]
    BY DEF SumOver, MapThenSumSet, MapThenFoldSet, SumStep, AnyOf
<1> HIDE DEF g
<1> QED  BY <1>2, <1>3 DEF Folds

\* Two folds that agree on the members of a set agree on its sum.
Alike(F, G, f, g, D, T, U) ==
    /\ U \in SUBSET D /\ U \in SUBSET T /\ IsFiniteSet(U)
    /\ Folds(F, f, D) /\ Folds(G, g, T)
    /\ \A x \in U : F[x] = G[x]

LEMMA FoldsAgree ==
    ASSUME NEW F, NEW G, NEW f, NEW g, NEW D, NEW T, NEW U, Alike(F, G, f, g, D, T, U)
    PROVE  f[U] = g[U]
<1>u. /\ U \in SUBSET D /\ U \in SUBSET T /\ IsFiniteSet(U)
      /\ Folds(F, f, D) /\ Folds(G, g, T)
      /\ \A x \in U : F[x] = G[x]
    BY DEF Alike
<1> DEFINE N == {n \in Nat : \A s \in SUBSET U : Cardinality(s) = n => f[s] = g[s]}
<1>0. \A s \in SUBSET U : f[s] = SumStep(F, f, s) /\ g[s] = SumStep(G, g, s)
    BY <1>u DEF Folds
<1>1. 0 \in N
    <2> SUFFICES ASSUME NEW s \in SUBSET U, Cardinality(s) = 0 PROVE f[s] = g[s]
        OBVIOUS
    <2>1. s = {}  BY <1>u, FS_Subset, FS_EmptySet
    <2> QED  BY <1>0, <2>1 DEF SumStep
<1>2. ASSUME NEW n \in N PROVE n + 1 \in N
    <2> SUFFICES ASSUME NEW s \in SUBSET U, Cardinality(s) = n + 1 PROVE f[s] = g[s]
        OBVIOUS
    <2> DEFINE x == AnyOf(s)
    <2>1. n \in Nat /\ IsFiniteSet(s)  BY <1>u, FS_Subset
    <2>2. s # {}  BY <2>1, FS_EmptySet
    <2>3. x \in s  BY <2>2 DEF AnyOf
    <2>4. Cardinality(s \ {x}) = n /\ s \ {x} \in SUBSET U
        <3> HIDE DEF x, N
        <3> QED  BY <2>1, <2>3, OneLess
    <2>5. f[s \ {x}] = g[s \ {x}]  BY <2>4
    <2>6. f[s] = F[x] + f[s \ {x}] /\ g[s] = G[x] + g[s \ {x}]
        BY <1>0, <2>2 DEF SumStep
    <2>7. F[x] = G[x]  BY <1>u, <2>3
    <2> HIDE DEF x
    <2> QED  BY <2>5, <2>6, <2>7
<1> HIDE DEF N
<1>3. N = Nat
    <2>1. N \in SUBSET Nat  BY DEF N
    <2> QED  BY <1>1, <1>2, <2>1, SizesInduct
<1>4. Cardinality(U) \in N  BY <1>u, <1>3, FS_CardinalityType
<1> QED  BY <1>u, <1>4 DEF N

LEMMA FoldIsInt ==
    ASSUME NEW F, NEW f, NEW D, IsFiniteSet(D), Folds(F, f, D), \A x \in D : F[x] \in Int
    PROVE  \A s \in SUBSET D : f[s] \in Int
<1> DEFINE N == {n \in Nat : \A s \in SUBSET D : Cardinality(s) = n => f[s] \in Int}
<1>0. \A s \in SUBSET D : f[s] = SumStep(F, f, s)
    BY DEF Folds
<1>1. 0 \in N
    <2> SUFFICES ASSUME NEW s \in SUBSET D, Cardinality(s) = 0 PROVE f[s] \in Int
        OBVIOUS
    <2>1. s = {}  BY FS_Subset, FS_EmptySet
    <2>2. f[s] = 0  BY <1>0, <2>1 DEF SumStep
    <2> QED  BY <2>2
<1>2. ASSUME NEW n \in N PROVE n + 1 \in N
    <2> SUFFICES ASSUME NEW s \in SUBSET D, Cardinality(s) = n + 1 PROVE f[s] \in Int
        OBVIOUS
    <2> DEFINE a == AnyOf(s)
    <2>1. n \in Nat /\ IsFiniteSet(s)  BY FS_Subset
    <2>2. s # {}  BY <2>1, FS_EmptySet
    <2>3. a \in s  BY <2>2 DEF AnyOf
    <2>4. f[s] = F[a] + f[s \ {a}]
        BY <1>0, <2>2 DEF SumStep
    <2>5. \A t \in SUBSET D : Cardinality(t) = n => f[t] \in Int
        OBVIOUS
    <2> HIDE DEF a, N
    <2>6. f[s \ {a}] \in Int
        BY <2>1, <2>3, <2>5, OneLess
    <2> QED  BY <2>3, <2>4, <2>6
<1> HIDE DEF N
<1>3. N = Nat
    <2>1. N \in SUBSET Nat  BY DEF N
    <2> QED  BY <1>1, <1>2, <2>1, SizesInduct
<1> QED  BY <1>3, FS_Subset, FS_CardinalityType DEF N

\* Whichever member is taken first.
LEMMA FoldTakes ==
    ASSUME NEW F, NEW f, NEW D, IsFiniteSet(D), Folds(F, f, D), \A x \in D : F[x] \in Int
    PROVE  \A x \in D : f[D] = F[x] + f[D \ {x}]
<1> DEFINE Good(s) == \A x \in s : f[s] = F[x] + f[s \ {x}]
           N == {n \in Nat : \A s \in SUBSET D : Cardinality(s) = n => Good(s)}
<1>0. /\ \A s \in SUBSET D : f[s] = SumStep(F, f, s)
      /\ \A s \in SUBSET D : f[s] \in Int
    BY FoldIsInt DEF Folds
<1>1. 0 \in N
    <2> SUFFICES ASSUME NEW s \in SUBSET D, Cardinality(s) = 0 PROVE Good(s)
        OBVIOUS
    <2>1. s = {}  BY FS_Subset, FS_EmptySet
    <2> QED  BY <2>1
<1>2. ASSUME NEW n \in N PROVE n + 1 \in N
    <2> SUFFICES ASSUME NEW s \in SUBSET D, Cardinality(s) = n + 1 PROVE Good(s)
        OBVIOUS
    <2> DEFINE a == AnyOf(s)
    <2>1. n \in Nat /\ IsFiniteSet(s)  BY FS_Subset
    <2>2. s # {}  BY <2>1, FS_EmptySet
    <2>3. a \in s  BY <2>2 DEF AnyOf
    <2>4. f[s] = F[a] + f[s \ {a}]
        BY <1>0, <2>2 DEF SumStep
    <2> HIDE DEF a
    <2>5. \A t \in SUBSET D : Cardinality(t) = n => Good(t)
        OBVIOUS
    <2> HIDE DEF N
    <2>6. ASSUME NEW x \in s PROVE Good(s \ {x})
        <3>1. Cardinality(s \ {x}) = n  BY <2>1, OneLess
        <3> QED  BY <2>5, <3>1
    <2>7. ASSUME NEW x \in s, x # a PROVE f[s] = F[x] + f[s \ {x}]
        <3>1. f[s \ {a}] = F[x] + f[(s \ {a}) \ {x}]
            BY <2>3, <2>6, <2>7
        <3>2. f[s \ {x}] = F[a] + f[(s \ {x}) \ {a}]
            BY <2>3, <2>6, <2>7
        <3>3. (s \ {a}) \ {x} = (s \ {x}) \ {a}
            OBVIOUS
        <3> DEFINE b == f[(s \ {x}) \ {a}]
        <3>4. f[s] = F[a] + f[s \ {a}] /\ f[s \ {a}] = F[x] + b /\ f[s \ {x}] = F[a] + b
            BY <2>4, <3>1, <3>2, <3>3
        <3>5. b \in Int /\ F[x] \in Int /\ F[a] \in Int
            BY <1>0, <2>3
        <3> HIDE DEF b
        <3> QED  BY <3>4, <3>5
    <2> QED  BY <2>4, <2>7
<1> HIDE DEF N
<1>3. N = Nat
    <2>1. N \in SUBSET Nat  BY DEF N
    <2> QED  BY <1>1, <1>2, <2>1, SizesInduct
<1>4. Cardinality(D) \in N  BY <1>3, FS_CardinalityType
<1> QED  BY <1>4 DEF N

\* The sum of nothing.
LEMMA SumOfNone == ASSUME NEW F PROVE SumOver(F, {}) = 0
<1>1. PICK g : SumOver(F, {}) = g[{}] /\ Folds(F, g, {})
    BY SumIsFold, FS_EmptySet
<1> QED  BY <1>1 DEF Folds, SumStep

LEMMA SumIsInt ==
    ASSUME NEW F, NEW D, IsFiniteSet(D), \A x \in D : F[x] \in Int
    PROVE  SumOver(F, D) \in Int
<1>1. PICK f : SumOver(F, D) = f[D] /\ Folds(F, f, D)
    BY SumIsFold
<1> QED  BY <1>1, FoldIsInt

\* A sum depends on what is said of the members only.
LEMMA SumSame ==
    ASSUME NEW F, NEW G, NEW D, IsFiniteSet(D), \A x \in D : F[x] = G[x]
    PROVE  SumOver(F, D) = SumOver(G, D)
<1>1. PICK f : SumOver(F, D) = f[D] /\ Folds(F, f, D)
    BY SumIsFold
<1>2. PICK g : SumOver(G, D) = g[D] /\ Folds(G, g, D)
    BY SumIsFold
<1>3. Alike(F, G, f, g, D, D, D)
    BY <1>1, <1>2 DEF Alike
<1>4. f[D] = g[D]
    BY <1>3, FoldsAgree
<1> QED  BY <1>1, <1>2, <1>4

\* One member more adds what is said of it.
LEMMA SumGrows ==
    ASSUME NEW F, NEW D, IsFiniteSet(D), NEW x, x \notin D, \A y \in D \cup {x} : F[y] \in Int
    PROVE  SumOver(F, D \cup {x}) = SumOver(F, D) + F[x]
<1> DEFINE T == D \cup {x}
<1>0. IsFiniteSet(T) /\ T \ {x} = D
    BY FS_AddElement
<1>1. PICK f : SumOver(F, D) = f[D] /\ Folds(F, f, D)
    BY SumIsFold
<1>2. PICK g : SumOver(F, T) = g[T] /\ Folds(F, g, T)
    BY <1>0, SumIsFold
<1> HIDE DEF T
<1>3. f[D] = g[D]
    <2>1. D \in SUBSET D /\ D \in SUBSET T /\ \A y \in D : F[y] = F[y]
        BY DEF T
    <2>2. Alike(F, F, f, g, D, T, D)
        BY <1>1, <1>2, <2>1 DEF Alike
    <2> QED  BY <2>2, FoldsAgree
<1>4. g[T] = F[x] + g[T \ {x}]
    <2>1. x \in T /\ \A y \in T : F[y] \in Int  BY DEF T
    <2> QED  BY <1>0, <1>2, <2>1, FoldTakes
<1>5. f[D] \in Int
    BY <1>1, FoldIsInt
<1>6. SumOver(F, T) = SumOver(F, D) + F[x]
    <2>1. F[x] \in Int
        OBVIOUS
    <2>2. g[T] = F[x] + f[D]
        BY <1>0, <1>3, <1>4
    <2>3. g[T] = f[D] + F[x]
        BY <1>5, <2>1, <2>2
    <2> QED  BY <1>1, <1>2, <2>3
<1> QED  BY <1>6 DEF T

-----------------------------------------------------------------------------
(***************************************************************************)
(* The execution facts.  The projection of an order follows what was       *)
(* observed of it, and the fills follow the facts.                         *)
(***************************************************************************)
ReportStates == {"none", "submitted", "acknowledged", "partially_filled", "filled", "rejected",
                 "expired", "cancelled", "definitely_not_submitted"}
ProjRecs == [state : ReportStates, qty : Nat, version : Nat, venue : Venues \cup {ReportNone}]
FillRecs == [key : Nat, order : ReportOrders \cup {ReportNone}, qty : Nat]
OutcomeRecs == [key : Nat, action : {"accepted", "duplicate", "conflict", "invalid", "unresolved"},
                anomalies : SUBSET {"unknown_order", "order_binding_conflict", "missing_ancestry",
                   "overfill", "insufficient_projection_evidence", "confirmed_fill_without_trade",
                   "late_after_terminal", "terminal_state_conflict",
                   "projection_transition_conflict", "context_invalid"}]

\* What every variable holds.
FactShape ==
    /\ reportIssued \subseteq ReportOrders /\ known \in Seq(Bodies) /\ reportHalt \in BOOLEAN
    /\ venue \in [Venues -> reportIssued \cup {ReportNone}]
    /\ reportObserved \in [ReportOrders -> Nat] /\ proj \in [ReportOrders -> ProjRecs]
    /\ reportFills \in Seq(FillRecs) /\ reportOutcomes \in Seq(OutcomeRecs)
    /\ Len(known) <= Len(reportOutcomes) /\ Len(reportFills) <= Len(known)

\* A projection p of an order of which the quantity q was observed.
OrderOk(p, q) ==
    /\ SnapshotOk(p)
    /\ p.state \in {"none", "submitted", "acknowledged"} => q = 0 /\ p.qty = 0
    /\ p.state = "partially_filled" => p.qty = q /\ q \in 1..Quantity - 1

OrdersOk == \A o \in ReportOrders :
               \E p \in ProjRecs, q \in Nat : proj[o] = p /\ reportObserved[o] = q /\ OrderOk(p, q)

\* Every fill is that of a fact already known.
FillsAreKnown == \A n \in 1..Len(reportFills) : reportFills[n].key \in 1..Len(known)

FactInv == /\ FactShape /\ OrdersOk /\ FillsAreKnown /\ TradeIsFilledOnce /\ VenueIsOneToOne
           /\ BooksAgreeUntilHalt

-----------------------------------------------------------------------------
\* What a report of each kind says of an order.
LEMMA BodyFields ==
    ASSUME NEW f \in Bodies
    PROVE  /\ f.qty \in Nat /\ f.order \in ReportOrders \cup {ReportNone}
           /\ f.client \in ReportOrders \cup {ReportNone} /\ f.venue \in Venues \cup {ReportNone}
           /\ f.kind = "trade" <=> f.qty > 0
           /\ f.valid \in BOOLEAN /\ f.agrees \in BOOLEAN /\ f.corr \in BOOLEAN
BY FactsAssumption DEF Body

QuietTargets == {"none", "submitted", "acknowledged", "filled", "rejected", "expired", "cancelled",
                 "definitely_not_submitted"}

LEMMA TargetIs ==
    ASSUME NEW f \in Bodies, NEW o \in ReportOrders
    PROVE  \/ /\ f.kind = "trade" /\ f.qty > 0
              /\ TargetState(f, o) = IF reportObserved[o] + f.qty < Quantity THEN "partially_filled"
                                     ELSE "filled"
           \/ /\ f.kind # "trade" /\ f.qty = 0
              /\ \E t \in QuietTargets :
                    TargetState(f, o) = t /\ (t = "filled" => f.kind = "confirmed_filled")
<1>1. f \in Body /\ f.qty \in Nat /\ (f.kind = "trade" <=> f.qty > 0)
    BY FactsAssumption DEF Body
<1>d. /\ "trade" \notin DOMAIN ReportLifecycle /\ "trade" \notin DOMAIN Query
      /\ \A k \in DOMAIN ReportLifecycle : k \notin DOMAIN Query /\ ReportLifecycle[k] \in QuietTargets
      /\ \A k \in DOMAIN Query : Query[k] \in QuietTargets
      /\ \A k \in DOMAIN ReportLifecycle : ReportLifecycle[k] # "filled"
      /\ \A k \in DOMAIN Query : Query[k] = "filled" => k = "confirmed_filled"
    BY DEF ReportLifecycle, Query, QuietTargets
<1>2. CASE f.kind = "trade"
    <2>1. TargetState(f, o) = IF Observed(f, o) < Quantity THEN "partially_filled" ELSE "filled"
        BY <1>d, <1>2 DEF TargetState
    <2> QED  BY <1>1, <1>2, <2>1 DEF Observed
<1>3. CASE f.kind # "trade"
    <2>1. f.kind \in DOMAIN ReportLifecycle \/ f.kind \in DOMAIN Query
        BY <1>1, <1>3 DEF Body, Kinds
    <2>2. ASSUME f.kind \in DOMAIN ReportLifecycle
          PROVE  TargetState(f, o) = ReportLifecycle[f.kind]
        BY <1>d, <1>3, <2>2 DEF TargetState
    <2>3. ASSUME f.kind \in DOMAIN Query PROVE TargetState(f, o) = Query[f.kind]
        BY <1>d, <1>3, <2>3 DEF TargetState
    <2> QED  BY <1>d, <1>1, <1>3, <2>1, <2>2, <2>3
<1> QED  BY <1>2, <1>3

LEMMA OrderIs ==
    ASSUME FactInv, NEW o \in ReportOrders
    PROVE  \E p \in ProjRecs, q \in Nat : proj[o] = p /\ reportObserved[o] = q /\ OrderOk(p, q)
BY DEF FactInv, OrdersOk

\* The states that take a report, and what each takes.
LEMMA MovesFrom ==
    ASSUME NEW s \in ReportStates, s \notin Terminal, NEW t \in ReportStates
    PROVE  /\ s \in {"none", "submitted", "acknowledged", "partially_filled"}
           /\ (s \in {"none", t} \/ t \in Allowed[s]) <=>
                 \/ s = "none" \/ s = t
                 \/ s = "submitted" /\ t \in {"acknowledged", "rejected", "partially_filled", "filled",
                                              "expired", "cancelled"}
                 \/ /\ s \in {"acknowledged", "partially_filled"}
                    /\ t \in {"partially_filled", "filled", "expired", "cancelled"}
<1>1. s \in {"none", "submitted", "acknowledged", "partially_filled"}
    BY DEF ReportStates, Terminal
<1>2. CASE s = "none"
    BY <1>2
<1>3. CASE s = "submitted"
    <2>1. Allowed[s] = {"acknowledged", "rejected", "partially_filled", "filled", "expired",
                        "cancelled"}
        BY <1>3 DEF Allowed
    <2> QED  BY <1>3, <2>1
<1>4. CASE s \in {"acknowledged", "partially_filled"}
    <2>1. Allowed[s] = {"partially_filled", "filled", "expired", "cancelled"}
        BY <1>4 DEF Allowed
    <2> QED  BY <1>4, <2>1
<1> QED  BY <1>1, <1>2, <1>3, <1>4

\* The projection after a report fits what was observed, and shows exactly that unless the
\* report is an anomaly.
AfterOk(f, p, q, r) ==
    /\ OrderOk(r, q + f.qty)
    /\ p.state \in Terminal => r = p

AfterAgrees(f, p, q, r) ==
    p.qty = q /\ q <= Quantity /\ (p.state = "filled" <=> q = Quantity)
    => /\ r.qty = q + f.qty /\ q + f.qty <= Quantity
       /\ r.state = "filled" <=> q + f.qty = Quantity

LEMMA StaysOk ==
    ASSUME FactInv, NEW f \in Bodies, NEW o \in ReportOrders, NEW p \in ProjRecs, NEW q \in Nat,
           proj[o] = p, reportObserved[o] = q, OrderOk(p, q), ~Moves(f, o)
    PROVE  /\ After(f, o) = p /\ AfterOk(f, p, q, p)
           /\ ProjectionAnomalies(f, o) = {} => AfterAgrees(f, p, q, p)
<1>1. After(f, o) = p
    BY DEF After
<1>2. p.state \in ReportStates
    BY DEF ProjRecs
<1>3. CASE f.kind # "trade"
    <2>1. f.qty = 0  BY <1>3, TargetIs
    <2>2. q + f.qty = q  BY <2>1
    <2> QED  BY <1>1, <2>2 DEF AfterOk, AfterAgrees
<1>4. CASE f.kind = "trade"
    <2>1. PICK t \in {"partially_filled", "filled"} : TargetState(f, o) = t
        BY <1>4, TargetIs
    <2>2. p.state \in Terminal
        <3> SUFFICES ASSUME p.state \notin Terminal PROVE FALSE
            OBVIOUS
        <3>1. t \in ReportStates /\ t # "none"
            BY DEF ReportStates
        <3>2. p.state \in {"none", t} \/ t \in Allowed[p.state]
            BY <1>2, <3>1, MovesFrom
        <3> QED  BY <2>1, <3>1, <3>2 DEF Moves, Closed
    <2>3. "late_after_terminal" \in ProjectionAnomalies(f, o)
        BY <1>4, <2>2 DEF ProjectionAnomalies, Closed
    <2>4. p.state \notin {"none", "submitted", "acknowledged", "partially_filled"}
        BY <2>2 DEF Terminal
    <2> QED  BY <1>1, <2>3, <2>4 DEF AfterOk, OrderOk
<1> QED  BY <1>3, <1>4
\* What a report that moves the projection makes of it.
LEMMA MovedIs ==
    ASSUME NEW f \in Bodies, NEW o \in ReportOrders, NEW p \in ProjRecs, NEW q \in Nat,
           NEW t \in ReportStates, NEW m \in Nat, NEW v \in Venues \cup {ReportNone},
           proj[o] = p, TargetState(f, o) = t, TargetQuantity(f, o) = m,
           ProjectionVenue(f, o) = v, Moves(f, o)
    PROVE  \E r \in ProjRecs : /\ After(f, o) = r /\ r.state = t /\ r.qty = m /\ r.venue = v
<1> DEFINE e == [state |-> t, qty |-> m, version |-> p.version, venue |-> v]
<1>1. e \in ProjRecs /\ e.state = t /\ e.qty = m /\ e.venue = v /\ e.version \in Nat
    BY DEF ProjRecs
<1>2. After(f, o) = IF e = p THEN e ELSE [e EXCEPT !.version = @ + 1]
    BY DEF After
<1> HIDE DEF e
<1>3. PICK r : r = IF e = p THEN e ELSE [e EXCEPT !.version = @ + 1]
    OBVIOUS
<1>4. r \in ProjRecs /\ r.state = t /\ r.qty = m /\ r.venue = v
    BY <1>1, <1>3 DEF ProjRecs
<1> QED  BY <1>2, <1>3, <1>4

\* The arithmetic of one report: s and t are the states before and after, q what was
\* observed before, d what the report adds, m the quantity shown after.
Moved(s, t, q, d, m) ==
    /\ s \in {"none", "submitted", "acknowledged", "partially_filled"}
    /\ s \in {"none", "submitted", "acknowledged"} => q = 0
    /\ s = "partially_filled" => q \in 1..Quantity - 1
    /\ d > 0 => t = IF q + d < Quantity THEN "partially_filled" ELSE "filled"
    /\ d = 0 => t \in QuietTargets
    /\ \/ s = "none" \/ s = t
       \/ s = "submitted" /\ t \in {"acknowledged", "rejected", "partially_filled", "filled",
                                    "expired", "cancelled"}
       \/ /\ s \in {"acknowledged", "partially_filled"}
          /\ t \in {"partially_filled", "filled", "expired", "cancelled"}
    /\ m = IF t = "filled" THEN Quantity ELSE Least(q + d, Quantity)

LEMMA MovedFits ==
    ASSUME NEW s, NEW t \in ReportStates, t # "none", NEW q \in Nat, NEW d \in Nat, NEW m,
           Moved(s, t, q, d, m)
    PROVE  /\ m \in 0..Quantity
           /\ t = "filled" => m = Quantity
           /\ t # "filled" => m = q + d
           /\ t = "partially_filled" => m = q + d /\ q + d \in 1..Quantity - 1
           /\ t \in {"submitted", "acknowledged", "rejected", "definitely_not_submitted"}
                 => m = 0 /\ q + d = 0
           /\ t \in {"expired", "cancelled"} => m < Quantity
           /\ d > 0 /\ t = "filled" => q + d >= Quantity
           /\ d > 0 /\ t # "filled" => q + d < Quantity
           /\ d = 0 => q + d < Quantity
<1> USE DEF Moved
<1>1. Quantity \in Nat /\ Quantity >= 1
    BY FactsAssumption
<1>2. q < Quantity
    BY <1>1
<1>3. CASE d > 0
    BY <1>1, <1>2, <1>3 DEF Least
<1>4. CASE d = 0
    <2>1. t # "partially_filled"
        BY <1>4 DEF QuietTargets
    <2>2. t \in {"submitted", "acknowledged", "rejected", "definitely_not_submitted"} => q = 0
        OBVIOUS
    <2>3. Least(q + d, Quantity) = q /\ q + d = q
        BY <1>1, <1>2, <1>4 DEF Least
    <2> QED  BY <1>1, <1>2, <1>4, <2>1, <2>2, <2>3
<1> QED  BY <1>3, <1>4
LEMMA VenueIs ==
    ASSUME FactInv, NEW f \in Bodies, NEW o \in ReportOrders
    PROVE  /\ ProjectionVenue(f, o) \in Venues \cup {ReportNone}
           /\ \/ ProjectionVenue(f, o) = proj[o].venue
              \/ f.venue \in Venues /\ VenueOrder(f) = o /\ ProjectionVenue(f, o) = f.venue
<1>1. proj[o].venue \in Venues \cup {ReportNone}
    BY DEF FactInv, FactShape, ProjRecs
<1> QED  BY <1>1, BodyFields DEF ProjectionVenue

LEMMA MovesOk ==
    ASSUME FactInv, NEW f \in Bodies, NEW o \in ReportOrders, NEW p \in ProjRecs, NEW q \in Nat,
           proj[o] = p, reportObserved[o] = q, OrderOk(p, q), Moves(f, o)
    PROVE  \E r \in ProjRecs :
              /\ After(f, o) = r /\ AfterOk(f, p, q, r)
              /\ r.venue = ProjectionVenue(f, o)
              /\ ProjectionAnomalies(f, o) = {} => AfterAgrees(f, p, q, r)
<1>0. f.qty \in Nat /\ (f.kind = "trade" <=> f.qty > 0)
    BY BodyFields
<1>1. PICK s \in ReportStates : p.state = s
    BY DEF ProjRecs
<1>2. PICK t \in ReportStates : TargetState(f, o) = t
    BY TargetIs DEF ReportStates, QuietTargets
<1>3. s \notin Terminal /\ t # "none" /\ (s \in {"none", t} \/ t \in Allowed[s])
    BY <1>1, <1>2 DEF Moves, Closed
<1>4. /\ s \in {"none", "submitted", "acknowledged", "partially_filled"}
      /\ \/ s = "none" \/ s = t
         \/ s = "submitted" /\ t \in {"acknowledged", "rejected", "partially_filled", "filled",
                                      "expired", "cancelled"}
         \/ /\ s \in {"acknowledged", "partially_filled"}
            /\ t \in {"partially_filled", "filled", "expired", "cancelled"}
    BY <1>3, MovesFrom
<1>5. /\ s \in {"none", "submitted", "acknowledged"} => q = 0
      /\ s = "partially_filled" => q \in 1..Quantity - 1
    BY <1>1 DEF OrderOk
<1>6. /\ f.qty > 0 => t = IF q + f.qty < Quantity THEN "partially_filled" ELSE "filled"
      /\ f.qty = 0 => t \in QuietTargets /\ (t = "filled" => f.kind = "confirmed_filled")
    BY <1>0, <1>2, TargetIs
<1>7. PICK m : m = TargetQuantity(f, o)
    OBVIOUS
<1>8. m = IF t = "filled" THEN Quantity ELSE Least(q + f.qty, Quantity)
    BY <1>2, <1>7 DEF TargetQuantity, Observed
<1>9. /\ m \in 0..Quantity
      /\ t = "filled" => m = Quantity
      /\ t # "filled" => m = q + f.qty
      /\ t = "partially_filled" => m = q + f.qty /\ q + f.qty \in 1..Quantity - 1
      /\ t \in {"submitted", "acknowledged", "rejected", "definitely_not_submitted"}
            => m = 0 /\ q + f.qty = 0
      /\ t \in {"expired", "cancelled"} => m < Quantity
      /\ f.qty > 0 /\ t = "filled" => q + f.qty >= Quantity
      /\ f.qty > 0 /\ t # "filled" => q + f.qty < Quantity
      /\ f.qty = 0 => q + f.qty < Quantity
    <2>1. Moved(s, t, q, f.qty, m)
        BY <1>4, <1>5, <1>6, <1>8 DEF Moved
    <2> QED  BY <1>0, <1>3, <2>1, MovedFits
<1>10. m \in Nat
    BY <1>9, FactsAssumption
<1>11. PICK r \in ProjRecs : /\ After(f, o) = r /\ r.state = t /\ r.qty = m
                             /\ r.venue = ProjectionVenue(f, o)
    BY <1>2, <1>7, <1>10, VenueIs, MovedIs
<1>12. SnapshotOk(r)
    BY <1>9, <1>11 DEF SnapshotOk
<1>13. AfterOk(f, p, q, r)
    BY <1>1, <1>3, <1>9, <1>11, <1>12 DEF AfterOk, OrderOk
<1>14. ASSUME ProjectionAnomalies(f, o) = {}, q <= Quantity,
              s = "filled" <=> q = Quantity
       PROVE  /\ m = q + f.qty /\ q + f.qty <= Quantity
              /\ t = "filled" <=> q + f.qty = Quantity
    <2>1. Quantity \in Nat  BY FactsAssumption
    <2>2. CASE f.qty > 0
        <3>1. f.kind = "trade"  BY <1>0, <2>2
        <3>2. ~(q + f.qty > Quantity)
            BY <1>14, <3>1 DEF ProjectionAnomalies, EvidenceAnomalies, Observed
        <3> QED  BY <1>0, <1>9, <2>1, <2>2, <3>2
    <2>3. CASE f.qty = 0
        <3>1. t # "filled"
            <4> SUFFICES ASSUME t = "filled" PROVE FALSE
                OBVIOUS
            <4>1. f.kind = "confirmed_filled"  BY <1>6, <2>3
            <4>2. ~(q + f.qty < Quantity)
                BY <1>14, <4>1 DEF ProjectionAnomalies, EvidenceAnomalies, Observed
            <4> QED  BY <1>9, <2>3, <4>2
        <3> QED  BY <1>0, <1>9, <2>1, <2>3, <3>1
    <2> QED  BY <1>0, <2>2, <2>3
<1>15. ProjectionAnomalies(f, o) = {} => AfterAgrees(f, p, q, r)
    BY <1>1, <1>11, <1>14 DEF AfterAgrees
<1> QED  BY <1>11, <1>13, <1>15

\* Whatever the report, the snapshot after it is one the constructor accepts.
LEMMA ReportFits ==
    ASSUME FactInv, NEW f \in Bodies, NEW o \in ReportOrders
    PROVE  \E p \in ProjRecs, r \in ProjRecs, q \in Nat :
              /\ proj[o] = p /\ reportObserved[o] = q /\ OrderOk(p, q)
              /\ After(f, o) = r /\ AfterOk(f, p, q, r)
              /\ \/ r.venue = p.venue
                 \/ f.venue \in Venues /\ VenueOrder(f) = o /\ r.venue = f.venue
              /\ ProjectionAnomalies(f, o) = {} => AfterAgrees(f, p, q, r)
<1>1. PICK p \in ProjRecs, q \in Nat : proj[o] = p /\ reportObserved[o] = q /\ OrderOk(p, q)
    BY OrderIs
<1>2. CASE Moves(f, o)
    BY <1>1, <1>2, MovesOk, VenueIs
<1>3. CASE ~Moves(f, o)
    BY <1>1, <1>3, StaysOk
<1> QED  BY <1>2, <1>3
-----------------------------------------------------------------------------
\* The order a report is about.
LEMMA BaseIs ==
    ASSUME FactInv, NEW f \in Bodies
    PROVE  /\ BaseOrders(f) \subseteq reportIssued \cup {ReportNone}
           /\ BaseCoherent(f) => BaseOrder(f) \in BaseOrders(f) /\ BaseOrder(f) \in reportIssued
<1>1. BaseOrders(f) \subseteq reportIssued \cup {ReportNone}
    BY DEF BaseOrders, Found
<1>2. ASSUME BaseCoherent(f)
      PROVE  BaseOrder(f) \in BaseOrders(f) /\ BaseOrder(f) \in reportIssued
    <2>1. BaseOrders(f) # {} /\ ReportNone \notin BaseOrders(f)
        BY <1>2 DEF BaseCoherent, BaseOrders
    <2>2. BaseOrder(f) \in BaseOrders(f)
        BY <2>1 DEF BaseOrder
    <2> QED  BY <1>1, <2>1, <2>2
<1> QED  BY <1>1, <1>2

LEMMA ResolvedIs ==
    ASSUME FactInv, NEW f \in Bodies
    PROVE  /\ VenueOrder(f) \in reportIssued \cup {ReportNone}
           /\ Resolved(f) \subseteq reportIssued /\ IsFiniteSet(Resolved(f))
<1>1. VenueOrder(f) \in reportIssued \cup {ReportNone}
    <2>1. f.venue # ReportNone => venue[f.venue] \in reportIssued \cup {ReportNone}
        BY BodyFields DEF FactInv, FactShape
    <2>2. Staged(f) => BaseOrder(f) \in reportIssued
        BY BaseIs DEF Staged, VenueUnmapped
    <2> QED  BY <2>1, <2>2 DEF VenueOrder
<1>2. Resolved(f) \subseteq reportIssued
    BY <1>1, BaseIs DEF Resolved
<1>3. IsFiniteSet(Resolved(f))
    <2> DEFINE two == {Found(f.order)} \cup {Found(f.client)}
               three == two \cup {VenueOrder(f)}
    <2>1. IsFiniteSet({Found(f.order)})
        BY FS_Singleton
    <2>2. IsFiniteSet(two)
        BY <2>1, FS_AddElement
    <2>3. IsFiniteSet(three)
        <3> HIDE DEF two
        <3> QED  BY <2>2, FS_AddElement
    <2>4. Resolved(f) \subseteq three
        BY DEF Resolved, BaseOrders, BaseNames
    <2> HIDE DEF three
    <2> QED  BY <2>3, <2>4, FS_Subset
<1> QED  BY <1>1, <1>2, <1>3

LEMMA SelectedIs ==
    ASSUME FactInv, NEW f \in Bodies, Projects(f)
    PROVE  \E o \in reportIssued : /\ ReportSelected(f) = o /\ Resolved(f) = {o} /\ f.agrees
                                   /\ \A n \in BaseNames(f) : n = o
<1>1. Cardinality(Resolved(f)) = 1 /\ ReportSelected(f) = CHOOSE o \in Resolved(f) : TRUE
    BY DEF Projects, ReportSelected
<1>2. PICK o : Resolved(f) = {o}
    BY <1>1, ResolvedIs, FS_Singleton
<1>3. ReportSelected(f) = o /\ o \in reportIssued
    BY <1>1, <1>2, ResolvedIs
<1> QED  BY <1>2, <1>3 DEF Projects, BindingConflict, Contradicts

\* A trade whose order is not in doubt names it.
LEMMA CleanTradeIs ==
    ASSUME FactInv, NEW f \in Bodies, f.kind = "trade", ResolutionAnomalies(f) = {}
    PROVE  Projects(f) /\ ReportSelected(f) = f.order
<1>1. f.order # ReportNone /\ ~BindingConflict(f) /\ Resolved(f) # {}
    BY DEF ResolutionAnomalies
<1>2. Cardinality(Resolved(f)) \in Nat /\ ~(Cardinality(Resolved(f)) > 1)
    BY <1>1, ResolvedIs, FS_CardinalityType DEF BindingConflict
<1>3. Cardinality(Resolved(f)) # 0
    BY <1>1, ResolvedIs, FS_EmptySet
<1>4. Cardinality(Resolved(f)) = 1
    BY <1>2, <1>3
<1>5. ReportSelected(f) \in Resolved(f)
    BY <1>1, <1>4 DEF ReportSelected
<1>6. ReportSelected(f) # ReportNone
    BY <1>5, ResolvedIs, FactsAssumption DEF FactInv, FactShape
<1>7. Projects(f)
    BY <1>1, <1>6 DEF Projects
<1>8. f.order \in BaseNames(f)
    BY <1>1 DEF BaseNames
<1> QED  BY <1>7, <1>8, SelectedIs

\* A venue identity that is bound by a report was free, and so was the order.
LEMMA StagedIs ==
    ASSUME FactInv, NEW f \in Bodies, Staged(f), Projects(f)
    PROVE  /\ f.venue \in Venues /\ venue[f.venue] = ReportNone
           /\ \A v \in Venues : venue[v] # ReportSelected(f)
           /\ VenueOrder(f) = ReportSelected(f)
<1>1. f.venue \in Venues /\ venue[f.venue] = ReportNone /\ BaseCoherent(f)
    BY BodyFields DEF Staged, VenueUnmapped
<1>2. BaseOrder(f) \in BaseOrders(f) /\ BaseOrder(f) \in reportIssued
    BY <1>1, BaseIs
<1>3. BaseOrder(f) \in Resolved(f)
    BY <1>2, FactsAssumption DEF Resolved, FactInv, FactShape
<1>4. ReportSelected(f) = BaseOrder(f)
    BY <1>3, SelectedIs
<1>5. \A v \in Venues : venue[v] # BaseOrder(f)
    BY DEF Staged, VenueConflict
<1>6. VenueOrder(f) = BaseOrder(f)
    BY <1>1, FactsAssumption DEF VenueOrder
<1> QED  BY <1>1, <1>4, <1>5, <1>6
-----------------------------------------------------------------------------
\* What is filled of an order, as a sum over its fills.
QtyOf(fs) == [n \in 1..Len(fs) |-> fs[n].qty]
NumbersOf(fs, o) == {n \in 1..Len(fs) : fs[n].order = o}
FilledIn(fs, o) == SumOver(QtyOf(fs), NumbersOf(fs, o))

LEMMA NumbersAre ==
    ASSUME NEW fs \in Seq(FillRecs), NEW o
    PROVE  /\ IsFiniteSet(NumbersOf(fs, o)) /\ NumbersOf(fs, o) \subseteq 1..Len(fs)
           /\ \A n \in NumbersOf(fs, o) : QtyOf(fs)[n] \in Int
           /\ \A n \in 1..Len(fs) : fs[n] \in FillRecs /\ QtyOf(fs)[n] = fs[n].qty /\ fs[n].qty \in Int
<1>1. IsFiniteSet(1..Len(fs))
    BY FS_Interval
<1>2. NumbersOf(fs, o) \subseteq 1..Len(fs)
    BY DEF NumbersOf
<1>3. \A n \in 1..Len(fs) : fs[n] \in FillRecs
    OBVIOUS
<1>4. \A n \in 1..Len(fs) : fs[n].qty \in Int
    BY <1>3 DEF FillRecs
<1> QED  BY <1>1, <1>2, <1>3, <1>4, FS_Subset DEF QtyOf

LEMMA FillsSum ==
    ASSUME NEW fs \in Seq(FillRecs), NEW o
    PROVE  MapThenSumSet(LAMBDA n : fs[n].qty, NumbersOf(fs, o)) = FilledIn(fs, o)
<1> DEFINE D == NumbersOf(fs, o)
           F == QtyOf(fs)
<1>0. IsFiniteSet(D) /\ \A n \in D : F[n] = fs[n].qty
    BY NumbersAre
<1>1. \A s \in SUBSET D : s # {} => F[AnyOf(s)] = fs[AnyOf(s)].qty
    BY <1>0 DEF AnyOf
<1>2. PICK h : h = [s \in SUBSET D |-> SumStep(F, h, s)]
    BY <1>0, FoldExists
<1>3. h = [s \in SUBSET D |-> IF s = {} THEN 0 ELSE fs[AnyOf(s)].qty + h[s \ {AnyOf(s)}]]
    BY <1>1, <1>2 DEF SumStep
<1> DEFINE g == CHOOSE g : g = [s \in SUBSET D |-> IF s = {} THEN 0
                                    ELSE fs[AnyOf(s)].qty + g[s \ {AnyOf(s)}]]
<1>4. g = [s \in SUBSET D |-> IF s = {} THEN 0 ELSE fs[AnyOf(s)].qty + g[s \ {AnyOf(s)}]]
    BY <1>3
<1>5. MapThenSumSet(LAMBDA n : fs[n].qty, D) = g[D]
    BY DEF MapThenSumSet, MapThenFoldSet, AnyOf
<1> HIDE DEF g
<1>6. Folds(F, g, D)
    BY <1>1, <1>4 DEF Folds, SumStep
<1>7. PICK k : SumOver(F, D) = k[D] /\ Folds(F, k, D)
    BY <1>0, SumIsFold
<1>8. g[D] = k[D]
    <2>1. D \in SUBSET D /\ Folds(F, g, D) /\ Folds(F, k, D) /\ \A x \in D : F[x] = F[x]
        BY <1>6, <1>7
    <2> HIDE DEF D, F
    <2>2. Alike(F, F, g, k, D, D, D)
        BY <1>0, <2>1 DEF Alike
    <2> QED  BY <2>2, FoldsAgree
<1> QED  BY <1>5, <1>7, <1>8 DEF FilledIn

LEMMA FilledIsSum ==
    ASSUME NEW o, reportFills \in Seq(FillRecs)
    PROVE  Filled(o) = FilledIn(reportFills, o)
BY FillsSum DEF Filled, FillsOf, NumbersOf

LEMMA FilledWillBeSum ==
    \A o : reportFills' \in Seq(FillRecs) => Filled(o)' = FilledIn(reportFills', o)
<1>1. TAKE o
<1>2. reportFills \in Seq(FillRecs) => Filled(o) = FilledIn(reportFills, o)
    BY FilledIsSum
<1>3. (reportFills \in Seq(FillRecs) => Filled(o) = FilledIn(reportFills, o))'
    BY <1>2, PTL
<1> QED  BY <1>3

LEMMA FillAdds ==
    ASSUME NEW fs \in Seq(FillRecs), NEW r \in FillRecs, NEW o
    PROVE  /\ FilledIn(fs, o) \in Int
           /\ FilledIn(Append(fs, r), o) = FilledIn(fs, o) + (IF r.order = o THEN r.qty ELSE 0)
<1>g. PICK gs, k : gs = Append(fs, r) /\ k = Len(fs)
    OBVIOUS
<1>0. /\ gs \in Seq(FillRecs) /\ k \in Nat
      /\ gs = Append(fs, r) /\ Len(fs) = k /\ Len(gs) = k + 1 /\ gs[k + 1] = r
      /\ \A n \in 1..k : gs[n] = fs[n]
    BY <1>g
<1>1. FilledIn(fs, o) \in Int
    BY NumbersAre, SumIsInt DEF FilledIn
<1>2. FilledIn(fs, o) = SumOver(QtyOf(gs), NumbersOf(fs, o))
    <2>1. \A n \in NumbersOf(fs, o) : QtyOf(fs)[n] = QtyOf(gs)[n]
        BY <1>0 DEF NumbersOf, QtyOf
    <2> QED  BY <2>1, NumbersAre, SumSame DEF FilledIn
<1>3. CASE r.order = o
    <2>1. NumbersOf(gs, o) = NumbersOf(fs, o) \cup {k + 1} /\ k + 1 \notin NumbersOf(fs, o)
        BY <1>0, <1>3 DEF NumbersOf
    <2>2. \A n \in NumbersOf(fs, o) \cup {k + 1} : QtyOf(gs)[n] \in Int
        BY <1>0, <2>1, NumbersAre
    <2>3. IsFiniteSet(NumbersOf(fs, o))
        BY NumbersAre
    <2>4. SumOver(QtyOf(gs), NumbersOf(fs, o) \cup {k + 1})
          = SumOver(QtyOf(gs), NumbersOf(fs, o)) + QtyOf(gs)[k + 1]
        BY <2>1, <2>2, <2>3, SumGrows
    <2>5. QtyOf(gs)[k + 1] = r.qty
        BY <1>0 DEF QtyOf
    <2> QED  BY <1>0, <1>1, <1>2, <1>3, <2>1, <2>4, <2>5 DEF FilledIn
<1>4. CASE r.order # o
    <2>1. NumbersOf(gs, o) = NumbersOf(fs, o)
        BY <1>0, <1>4 DEF NumbersOf
    <2> QED  BY <1>0, <1>1, <1>2, <1>4, <2>1 DEF FilledIn
<1> QED  BY <1>3, <1>4
-----------------------------------------------------------------------------
\* The steps.
Anomaly == {"unknown_order", "order_binding_conflict", "missing_ancestry", "overfill",
            "insufficient_projection_evidence", "confirmed_fill_without_trade",
            "late_after_terminal", "terminal_state_conflict", "projection_transition_conflict",
            "context_invalid"}

LEMMA AppendIs ==
    ASSUME NEW D, NEW s \in Seq(D), NEW x \in D
    PROVE  /\ Append(s, x) \in Seq(D) /\ Len(s) \in Nat /\ Len(Append(s, x)) = Len(s) + 1
           /\ Append(s, x)[Len(s) + 1] = x /\ \A j \in 1..Len(s) : Append(s, x)[j] = s[j]
OBVIOUS

LEMMA PublishIs ==
    ASSUME FactInv, NEW k \in Nat, NEW a \in {"accepted", "duplicate", "conflict", "invalid", "unresolved"},
           NEW as \in SUBSET Anomaly, ReportPublish(ReportOutcome(k, a, as))
    PROVE  /\ reportOutcomes' \in Seq(OutcomeRecs)
           /\ Len(reportOutcomes') = Len(reportOutcomes) + 1
           /\ reportHalt' \in BOOLEAN
           /\ ~reportHalt' => ~reportHalt /\ a \in {"accepted", "duplicate"}
<1> PICK r : r = ReportOutcome(k, a, as)
    OBVIOUS
<1>1. r \in OutcomeRecs /\ r.action = a
    BY DEF ReportOutcome, OutcomeRecs, Anomaly
<1>2. reportOutcomes' = Append(reportOutcomes, r)
      /\ reportHalt' = (reportHalt \/ r.action \notin {"accepted", "duplicate"})
    BY DEF ReportPublish
<1>3. reportOutcomes \in Seq(OutcomeRecs) /\ reportHalt \in BOOLEAN
    BY DEF FactInv, FactShape
<1>4. reportOutcomes' \in Seq(OutcomeRecs) /\ Len(reportOutcomes') = Len(reportOutcomes) + 1
    BY <1>1, <1>2, <1>3, AppendIs
<1>5. r.action = a /\ reportHalt' = (reportHalt \/ r.action \notin {"accepted", "duplicate"})
    BY <1>1, <1>2
<1>6. reportHalt' \in BOOLEAN
    BY <1>5, Zenon
<1>7. ~reportHalt' => ~reportHalt /\ a \in {"accepted", "duplicate"}
    BY <1>5, Zenon
<1> QED  BY <1>4, <1>6, <1>7

\* A step that moves no order and books no fill.
LEMMA QuietKeeps ==
    ASSUME FactInv, UNCHANGED <<venue, proj, reportObserved, reportFills>>,
           reportIssued \subseteq reportIssued', reportIssued' \subseteq ReportOrders,
           reportHalt' \in BOOLEAN, ~reportHalt' => ~reportHalt,
           reportOutcomes' \in Seq(OutcomeRecs), Len(known') <= Len(reportOutcomes'),
           \/ known' = known
           \/ \E f \in Bodies : known' = Append(known, f) /\ ~f.valid
    PROVE  FactInv'
<1>1. /\ known' \in Seq(Bodies) /\ Len(known') >= Len(known)
      /\ \A k \in 1..Len(known) : known'[k] = known[k]
      /\ \A k \in 1..Len(known') : k \in 1..Len(known) \/ ~known'[k].valid
    <2>1. known \in Seq(Bodies)
        BY DEF FactInv, FactShape
    <2> QED  BY <2>1
<1>2. Len(reportFills) \in Nat /\ Len(known) \in Nat /\ Len(known') \in Nat
    BY <1>1 DEF FactInv, FactShape
<1>3. FactShape'
    BY <1>1, <1>2 DEF FactInv, FactShape
<1>4. OrdersOk'
    BY DEF FactInv, OrdersOk
<1>5. FillsAreKnown'
    BY <1>1, <1>2 DEF FactInv, FillsAreKnown
<1>6. TradeIsFilledOnce'
    BY <1>1, <1>2 DEF FactInv, FillsAreKnown, TradeIsFilledOnce
<1>7. VenueIsOneToOne'
    BY DEF FactInv, VenueIsOneToOne
<1>8. \A o \in ReportOrders : Filled(o)' = Filled(o)
    BY FilledIsSum, FilledWillBeSum DEF FactInv, FactShape
<1>9. BooksAgreeUntilHalt'
    BY <1>8 DEF FactInv, BooksAgreeUntilHalt
<1> QED  BY <1>3, <1>4, <1>5, <1>6, <1>7, <1>9 DEF FactInv

LEMMA IssueKeeps == ASSUME FactInv, NEW o \in ReportOrders, ReportIssue(o) PROVE FactInv'
<1>1. /\ UNCHANGED <<venue, proj, reportObserved, reportFills, known, reportOutcomes, reportHalt>>
      /\ reportIssued \subseteq reportIssued' /\ reportIssued' \subseteq ReportOrders
    BY DEF ReportIssue, FactInv, FactShape
<1>2. /\ reportHalt' \in BOOLEAN /\ reportOutcomes' \in Seq(OutcomeRecs)
      /\ Len(known') <= Len(reportOutcomes')
    BY <1>1 DEF FactInv, FactShape
<1> QED  BY <1>1, <1>2, QuietKeeps

LEMMA ShortKeeps ==
    ASSUME FactInv, NEW k \in Nat, NEW f \in Bodies, ShortCircuit(k, f)
    PROVE  FactInv'
<1>1. PICK a \in {"duplicate", "conflict"}, as \in SUBSET Anomaly :
          ReportPublish(ReportOutcome(k, a, as))
    BY DEF ShortCircuit
<1>2. /\ UNCHANGED <<reportIssued, known, venue, proj, reportObserved, reportFills>>
    BY DEF ShortCircuit
<1>3. /\ reportOutcomes' \in Seq(OutcomeRecs) /\ Len(reportOutcomes') = Len(reportOutcomes) + 1
      /\ reportHalt' \in BOOLEAN /\ (~reportHalt' => ~reportHalt)
    BY <1>1, PublishIs
<1>4. /\ reportIssued \subseteq reportIssued' /\ reportIssued' \subseteq ReportOrders
      /\ Len(known') <= Len(reportOutcomes')
    BY <1>2, <1>3 DEF FactInv, FactShape
<1> QED  BY <1>2, <1>3, <1>4, QuietKeeps

LEMMA InvalidKeeps ==
    ASSUME FactInv, NEW k \in Nat, NEW f \in Bodies, Invalid(k, f)
    PROVE  FactInv'
<1>1. PICK a \in {"invalid"}, as \in SUBSET Anomaly : ReportPublish(ReportOutcome(k, a, as))
    BY DEF Invalid, Anomaly
<1>2. /\ UNCHANGED <<reportIssued, venue, proj, reportObserved, reportFills>>
      /\ known' = Append(known, f) /\ ~f.valid
    BY DEF Invalid
<1>3. /\ reportOutcomes' \in Seq(OutcomeRecs) /\ Len(reportOutcomes') = Len(reportOutcomes) + 1
      /\ reportHalt' \in BOOLEAN /\ (~reportHalt' => ~reportHalt)
    BY <1>1, PublishIs
<1>4. /\ reportIssued \subseteq reportIssued' /\ reportIssued' \subseteq ReportOrders
      /\ Len(known') <= Len(reportOutcomes')
    BY <1>2, <1>3 DEF FactInv, FactShape
<1> QED  BY <1>2, <1>3, <1>4, QuietKeeps
\* No report is stuck: the snapshot it leads to is accepted.
LEMMA NoStuckHolds == ASSUME FactInv PROVE NoReportIsStuck
<1> SUFFICES ASSUME NEW f \in Bodies, f.valid, Len(reportFills) < MaxFill PROVE ~Raises(f)
    BY DEF NoReportIsStuck
<1>1. ~(Len(reportFills) >= MaxFill)
    BY FactsAssumption DEF FactInv, FactShape
<1>2. ASSUME Projects(f) PROVE SnapshotOk(After(f, ReportSelected(f)))
    <2>1. PICK o \in ReportOrders : ReportSelected(f) = o
        BY <1>2, SelectedIs DEF FactInv, FactShape
    <2>2. PICK r : After(f, o) = r /\ SnapshotOk(r)
        BY ReportFits DEF AfterOk, OrderOk
    <2> QED  BY <2>1, <2>2
<1> QED  BY <1>1, <1>2 DEF Raises

LEMMA AnomaliesAre == ASSUME NEW f \in Bodies PROVE Anomalies(f) \in SUBSET Anomaly
BY DEF Anomalies, Anomaly, ResolutionAnomalies, ProjectionAnomalies, EvidenceAnomalies

\* What a first fact does to the orders, if it moves one: o is its order, p and r the projection
\* before and after, q what was observed.
Projected(f, o, p, q, r) ==
    /\ proj[o] = p /\ reportObserved[o] = q /\ OrderOk(r, q + f.qty)
    /\ proj' = [proj EXCEPT ![o] = r]
    /\ reportObserved' = [reportObserved EXCEPT ![o] = q + f.qty]
    /\ \/ r.venue = p.venue
       \/ f.venue \in Venues /\ VenueOrder(f) = o /\ r.venue = f.venue
    /\ ProjectionAnomalies(f, o) = {} => AfterAgrees(f, p, q, r)
    /\ \/ /\ f.venue \in Venues /\ venue[f.venue] = ReportNone
          /\ \A v \in Venues : venue[v] # o
          /\ venue' = [venue EXCEPT ![f.venue] = o]
       \/ ~Staged(f) /\ venue' = venue

LEMMA FirstProjects ==
    ASSUME FactInv, NEW k \in Nat, NEW f \in Bodies, FirstFact(k, f), Projects(f)
    PROVE  \E o \in reportIssued, p \in ProjRecs, q \in Nat, r \in ProjRecs :
              ReportSelected(f) = o /\ Projected(f, o, p, q, r)
<1>1. PICK o \in reportIssued : ReportSelected(f) = o
    BY SelectedIs
<1>2. o \in ReportOrders
    BY DEF FactInv, FactShape
<1>3. PICK p \in ProjRecs, r \in ProjRecs, q \in Nat :
          /\ proj[o] = p /\ reportObserved[o] = q
          /\ After(f, o) = r /\ OrderOk(r, q + f.qty)
          /\ \/ r.venue = p.venue
             \/ f.venue \in Venues /\ VenueOrder(f) = o /\ r.venue = f.venue
          /\ ProjectionAnomalies(f, o) = {} => AfterAgrees(f, p, q, r)
    BY <1>2, ReportFits DEF AfterOk
<1>4. proj' = [proj EXCEPT ![o] = r] /\ reportObserved' = [reportObserved EXCEPT ![o] = q + f.qty]
    BY <1>1, <1>3 DEF FirstFact, Observed
<1>5. CASE Staged(f)
    <2>1. venue' = [venue EXCEPT ![f.venue] = o]
        BY <1>1, <1>5 DEF FirstFact
    <2>2. f.venue \in Venues /\ venue[f.venue] = ReportNone /\ \A v \in Venues : venue[v] # o
        BY <1>1, <1>5, StagedIs
    <2> QED  BY <1>1, <1>3, <1>4, <2>1, <2>2 DEF Projected
<1>6. CASE ~Staged(f)
    <2>1. venue' = venue
        BY <1>6 DEF FirstFact
    <2> QED  BY <1>1, <1>3, <1>4, <1>6, <2>1 DEF Projected
<1> QED  BY <1>5, <1>6

\* The orders stay coherent.
LEMMA OrdersFollow ==
    ASSUME FactInv, NEW f \in Bodies, NEW o \in reportIssued, NEW p \in ProjRecs, NEW q \in Nat,
           NEW r \in ProjRecs, Projected(f, o, p, q, r), UNCHANGED reportIssued
    PROVE  /\ venue' \in [Venues -> reportIssued' \cup {ReportNone}]
           /\ reportObserved' \in [ReportOrders -> Nat] /\ proj' \in [ReportOrders -> ProjRecs]
           /\ OrdersOk' /\ VenueIsOneToOne'
<1>1. /\ venue \in [Venues -> reportIssued \cup {ReportNone}] /\ o \in ReportOrders /\ f.qty \in Nat
      /\ reportObserved \in [ReportOrders -> Nat] /\ proj \in [ReportOrders -> ProjRecs]
    BY BodyFields DEF FactInv, FactShape
<1>2. /\ q + f.qty \in Nat /\ proj' = [proj EXCEPT ![o] = r]
      /\ reportObserved' = [reportObserved EXCEPT ![o] = q + f.qty] /\ OrderOk(r, q + f.qty)
    BY <1>1 DEF Projected
<1>3. reportObserved' \in [ReportOrders -> Nat] /\ proj' \in [ReportOrders -> ProjRecs]
    BY <1>1, <1>2
<1>4. venue' \in [Venues -> reportIssued' \cup {ReportNone}]
    BY <1>1 DEF Projected
<1>5. OrdersOk'
    <2> SUFFICES ASSUME NEW oo \in ReportOrders
        PROVE \E p2 \in ProjRecs, q2 \in Nat : proj'[oo] = p2 /\ reportObserved'[oo] = q2
                                              /\ OrderOk(p2, q2)
        BY DEF OrdersOk, OrderOk, SnapshotOk
    <2>1. CASE oo = o
        <3>1. proj'[oo] = r /\ reportObserved'[oo] = q + f.qty
            BY <1>1, <1>2, <2>1
        <3> QED  BY <1>2, <3>1
    <2>2. CASE oo # o
        <3>1. proj'[oo] = proj[oo] /\ reportObserved'[oo] = reportObserved[oo]
            BY <1>1, <1>2, <2>2
        <3> QED  BY <3>1, OrderIs
    <2> QED  BY <2>1, <2>2
<1>6. /\ \A v, u \in Venues : venue[v] = venue[u] /\ venue[v] # ReportNone => v = u
      /\ \A oo \in ReportOrders : proj[oo].venue # ReportNone => venue[proj[oo].venue] = oo
      /\ \A oo \in ReportOrders : proj[oo].venue \in Venues \cup {ReportNone}
    BY <1>1 DEF FactInv, VenueIsOneToOne, ProjRecs
<1>7. o # ReportNone /\ ReportNone \notin Venues
    BY <1>1, FactsAssumption
<1>8. \A v, u \in Venues : venue'[v] = venue'[u] /\ venue'[v] # ReportNone => v = u
    <2>1. CASE venue' = venue
        BY <1>6, <2>1
    <2>2. CASE /\ f.venue \in Venues /\ venue[f.venue] = ReportNone
               /\ \A v \in Venues : venue[v] # o
               /\ venue' = [venue EXCEPT ![f.venue] = o]
        BY <1>1, <1>6, <2>2
    <2> QED  BY <2>1, <2>2 DEF Projected
<1>9. \A oo \in ReportOrders : proj'[oo].venue # ReportNone => venue'[proj'[oo].venue] = oo
    <2> TAKE oo \in ReportOrders
    <2>1. \A v \in Venues : venue[v] # ReportNone => venue'[v] = venue[v]
        BY <1>1 DEF Projected
    <2>2. CASE oo # o
        <3>1. proj'[oo] = proj[oo]
            BY <1>1, <1>2, <2>2
        <3> QED  BY <1>6, <2>1, <3>1, FactsAssumption
    <2>3. CASE oo = o /\ r.venue = p.venue
        <3>1. proj'[oo].venue = proj[oo].venue
            BY <1>1, <1>2, <2>3 DEF Projected
        <3> QED  BY <1>6, <2>1, <3>1, FactsAssumption
    <2>4. CASE oo = o /\ f.venue \in Venues /\ VenueOrder(f) = o /\ r.venue = f.venue
        <3>1. proj'[oo].venue = f.venue
            BY <1>1, <1>2, <2>4
        <3>2. venue'[f.venue] = o
            <4>1. CASE venue' = [venue EXCEPT ![f.venue] = o]
                BY <1>1, <2>4, <4>1
            <4>2. CASE ~Staged(f) /\ venue' = venue
                BY <1>7, <2>4, <4>2 DEF VenueOrder
            <4> QED  BY <4>1, <4>2 DEF Projected
        <3> QED  BY <2>4, <3>1, <3>2
    <2> QED  BY <2>2, <2>3, <2>4 DEF Projected
<1>10. VenueIsOneToOne'
    BY <1>8, <1>9 DEF VenueIsOneToOne
<1> QED  BY <1>3, <1>4, <1>5, <1>10
\* The fills follow the facts: a trade has its fill, and whatever else is reported has none.
LEMMA FillsFollow ==
    ASSUME FactInv, NEW k \in Nat, NEW f \in Bodies, FirstFact(k, f)
    PROVE  /\ known' \in Seq(Bodies) /\ Len(known') = Len(known) + 1
           /\ reportFills' \in Seq(FillRecs) /\ Len(reportFills') <= Len(known')
           /\ FillsAreKnown' /\ TradeIsFilledOnce'
           /\ \A o \in ReportOrders : /\ Filled(o) \in Int
                                      /\ Filled(o)' = Filled(o) + (IF f.qty > 0 /\ f.order = o THEN f.qty ELSE 0)
           /\ \A n \in 1..Len(reportFills') : \/ n \in 1..Len(reportFills) /\ reportFills'[n] = reportFills[n]
                                              \/ f.qty > 0 /\ reportFills'[n].order = f.order
<1>1. PICK x : x = [key |-> k, order |-> f.order, qty |-> f.qty]
    OBVIOUS
<1>2. /\ f.qty \in Nat /\ f.order \in ReportOrders \cup {ReportNone}
      /\ (f.kind = "trade" <=> f.qty > 0)
    BY BodyFields
<1>3. x \in FillRecs /\ x.key = k /\ x.order = f.order /\ x.qty = f.qty
    BY <1>1, <1>2 DEF FillRecs
<1>4. PICK fs, gs, ks, ls, m, n :
          /\ fs = reportFills /\ gs = reportFills' /\ ks = known /\ ls = known'
          /\ m = Len(reportFills) /\ n = Len(known)
    OBVIOUS
<1>5. /\ fs \in Seq(FillRecs) /\ ks \in Seq(Bodies) /\ m \in Nat /\ n \in Nat /\ m <= n
      /\ Len(fs) = m /\ Len(ks) = n /\ k = n + 1 /\ ls = Append(ks, f) /\ f.valid
    BY <1>4 DEF FactInv, FactShape, FirstFact
<1>6. /\ ls \in Seq(Bodies) /\ Len(ls) = n + 1 /\ ls[n + 1] = f
      /\ \A j \in 1..n : ls[j] = ks[j]
    BY <1>5
<1>7. /\ f.qty > 0 => gs = Append(fs, x)
      /\ ~(f.qty > 0) => gs = fs
    BY <1>1, <1>2, <1>4 DEF FirstFact, FillsAfter
<1>8. /\ gs \in Seq(FillRecs)
      /\ f.qty > 0 => Len(gs) = m + 1 /\ gs[m + 1] = x
      /\ ~(f.qty > 0) => Len(gs) = m
      /\ \A j \in 1..m : gs[j] = fs[j]
    <2>1. CASE f.qty > 0
        <3>1. gs = Append(fs, x) /\ x \in FillRecs /\ fs \in Seq(FillRecs) /\ Len(fs) = m
            BY <1>3, <1>5, <1>7, <2>1
        <3> QED  BY <2>1, <3>1, AppendIs
    <2>2. CASE ~(f.qty > 0)
        BY <1>5, <1>7, <2>2
    <2> QED  BY <2>1, <2>2
<1>9. \A j \in 1..Len(gs) : j \in 1..m \/ (f.qty > 0 /\ j = m + 1)
    BY <1>5, <1>8
<1>10. \A j \in 1..m : fs[j].key \in 1..n /\ fs[j].qty = ks[fs[j].key].qty
    BY <1>4 DEF FactInv, FillsAreKnown, TradeIsFilledOnce
<1>11. \A j \in 1..Len(gs) : gs[j].key \in 1..n + 1 /\ gs[j].qty = ls[gs[j].key].qty
    <2> TAKE j \in 1..Len(gs)
    <2>1. CASE j \in 1..m
        <3>1. gs[j] = fs[j] /\ fs[j].key \in 1..n /\ fs[j].qty = ks[fs[j].key].qty
            BY <1>8, <1>10, <2>1
        <3> QED  BY <1>5, <1>6, <3>1
    <2>2. CASE f.qty > 0 /\ j = m + 1
        BY <1>3, <1>5, <1>6, <1>8, <2>2
    <2> QED  BY <1>9, <2>1, <2>2
<1>12. FillsAreKnown'
    BY <1>4, <1>6, <1>11 DEF FillsAreKnown
<1>13. \A i, j \in 1..Len(gs) : gs[i].key = gs[j].key => i = j
    <2>1. \A i, j \in 1..m : fs[i].key = fs[j].key => i = j
        BY <1>4 DEF FactInv, TradeIsFilledOnce
    <2>2. \A j \in 1..m : gs[j].key \in 1..n
        BY <1>8, <1>10
    <2>3. f.qty > 0 => gs[m + 1].key = n + 1
        BY <1>3, <1>5, <1>8
    <2> QED  BY <1>5, <1>8, <1>9, <2>1, <2>2, <2>3
<1>14. \A j \in 1..Len(ls) : ls[j].kind = "trade" /\ ls[j].valid =>
          \E i \in 1..Len(gs) : gs[i].key = j
    <2> TAKE j \in 1..Len(ls)
    <2> HAVE ls[j].kind = "trade" /\ ls[j].valid
    <2>1. CASE j \in 1..n
        <3>1. \A l \in 1..n : ks[l].kind = "trade" /\ ks[l].valid => \E i \in 1..m : fs[i].key = l
            BY <1>4 DEF FactInv, TradeIsFilledOnce
        <3>2. PICK i \in 1..m : fs[i].key = j
            BY <1>6, <2>1, <3>1
        <3>3. gs[i].key = j
            BY <1>8, <3>2
        <3>4. Len(gs) \in Nat /\ m <= Len(gs)
            BY <1>5, <1>8
        <3>5. i \in 1..Len(gs)
            BY <1>5, <3>4
        <3> QED  BY <3>3, <3>5
    <2>2. CASE j = n + 1
        <3>1. f.qty > 0
            BY <1>2, <1>6, <2>2
        <3>2. m + 1 \in 1..Len(gs) /\ gs[m + 1].key = j
            BY <1>3, <1>5, <1>8, <2>2, <3>1
        <3> QED  BY <3>2
    <2> QED  BY <1>5, <1>6, <2>1, <2>2
<1>15. TradeIsFilledOnce'
    BY <1>4, <1>11, <1>13, <1>14 DEF TradeIsFilledOnce
<1>16. ASSUME NEW o \in ReportOrders
       PROVE  /\ Filled(o) \in Int
              /\ Filled(o)' = Filled(o) + (IF f.qty > 0 /\ f.order = o THEN f.qty ELSE 0)
    <2>1. Filled(o) = FilledIn(fs, o) /\ Filled(o)' = FilledIn(gs, o)
        BY <1>4, <1>5, <1>8, FilledIsSum, FilledWillBeSum
    <2>2. FilledIn(fs, o) \in Int
          /\ FilledIn(Append(fs, x), o) = FilledIn(fs, o) + (IF x.order = o THEN x.qty ELSE 0)
        BY <1>3, <1>5, FillAdds
    <2>3. CASE f.qty > 0
        BY <1>2, <1>3, <1>7, <2>1, <2>2, <2>3
    <2>4. CASE ~(f.qty > 0)
        BY <1>7, <2>1, <2>2, <2>4
    <2> QED  BY <2>3, <2>4
<1>17. \A j \in 1..Len(gs) : \/ j \in 1..m /\ gs[j] = fs[j]
                             \/ f.qty > 0 /\ gs[j].order = f.order
    BY <1>3, <1>8, <1>9
<1> QED  BY <1>4, <1>5, <1>6, <1>8, <1>12, <1>15, <1>16, <1>17

\* A first fact that asks for no halt is in agreement with everything before it.
LEMMA BooksFollow ==
    ASSUME FactInv, NEW k \in Nat, NEW f \in Bodies, FirstFact(k, f), ~reportHalt'
    PROVE  BooksAgreeUntilHalt'
<1>1. ~reportHalt /\ Anomalies(f) = {}
    <2>1. PICK a, as : /\ ReportPublish(ReportOutcome(k, a, as)) /\ as = Anomalies(f)
                       /\ a = IF as = {} THEN "accepted" ELSE "unresolved"
        BY DEF FirstFact
    <2>2. a \in {"accepted", "duplicate", "conflict", "invalid", "unresolved"} /\ as \in SUBSET Anomaly
        BY <2>1, AnomaliesAre
    <2>3. ~reportHalt /\ a \in {"accepted", "duplicate"}
        BY <2>1, <2>2, PublishIs
    <2> QED  BY <2>1, <2>3
<1>2. /\ \A n \in 1..Len(reportFills) : reportFills[n].order \in reportIssued
      /\ \A o \in ReportOrders : /\ Filled(o) = reportObserved[o] /\ proj[o].qty = reportObserved[o]
                                 /\ reportObserved[o] <= Quantity
                                 /\ (proj[o].state = "filled") <=> (reportObserved[o] = Quantity)
    BY <1>1 DEF FactInv, BooksAgreeUntilHalt
<1>3. /\ reportObserved \in [ReportOrders -> Nat] /\ proj \in [ReportOrders -> ProjRecs]
      /\ reportIssued' = reportIssued /\ reportIssued \subseteq ReportOrders
      /\ f.qty \in Nat /\ (f.kind = "trade" <=> f.qty > 0)
    BY BodyFields DEF FirstFact, FactInv, FactShape
<1>4. ASSUME f.qty > 0
      PROVE  Projects(f) /\ ReportSelected(f) = f.order /\ f.order \in reportIssued
    BY <1>1, <1>3, <1>4, CleanTradeIs, SelectedIs DEF Anomalies
<1>5. \A n \in 1..Len(reportFills') : reportFills'[n].order \in reportIssued'
    BY <1>2, <1>3, <1>4, FillsFollow
<1>6. ASSUME NEW oo \in ReportOrders
      PROVE  /\ Filled(oo)' = reportObserved'[oo] /\ proj'[oo].qty = reportObserved'[oo]
             /\ reportObserved'[oo] <= Quantity
             /\ (proj'[oo].state = "filled") <=> (reportObserved'[oo] = Quantity)
    <2>0. Filled(oo)' = reportObserved[oo] + (IF f.qty > 0 /\ f.order = oo THEN f.qty ELSE 0)
        BY <1>2, FillsFollow
    <2>1. CASE Projects(f)
        <3>1. PICK o \in reportIssued, p \in ProjRecs, q \in Nat, r \in ProjRecs :
                  ReportSelected(f) = o /\ Projected(f, o, p, q, r)
            BY <2>1, FirstProjects
        <3>2. o \in ReportOrders /\ proj' = [proj EXCEPT ![o] = r]
              /\ reportObserved' = [reportObserved EXCEPT ![o] = q + f.qty]
              /\ proj[o] = p /\ reportObserved[o] = q
            BY <1>3, <3>1 DEF Projected
        <3>3. CASE oo = o
            <4>1. proj'[oo] = r /\ reportObserved'[oo] = q + f.qty
                BY <1>3, <3>2, <3>3
            <4>2. Filled(oo)' = q + f.qty
                <5>1. CASE f.qty > 0
                    BY <1>4, <2>0, <3>1, <3>2, <3>3, <5>1
                <5>2. CASE f.qty = 0
                    BY <2>0, <3>2, <3>3, <5>2
                <5> QED  BY <1>3, <5>1, <5>2
            <4>3. ProjectionAnomalies(f, o) = {}
                BY <1>1, <2>1, <3>1 DEF Anomalies
            <4>4. AfterAgrees(f, p, q, r)
                BY <3>1, <4>3 DEF Projected
            <4>5. p.qty = q /\ q <= Quantity /\ (p.state = "filled" <=> q = Quantity)
                BY <1>2, <3>2
            <4>6. r.qty = q + f.qty /\ q + f.qty <= Quantity /\ (r.state = "filled" <=> q + f.qty = Quantity)
                BY <4>4, <4>5 DEF AfterAgrees
            <4> QED  BY <4>1, <4>2, <4>6
        <3>4. CASE oo # o
            <4>1. proj'[oo] = proj[oo] /\ reportObserved'[oo] = reportObserved[oo]
                BY <1>3, <3>2, <3>4
            <4>2. ~(f.qty > 0 /\ f.order = oo)
                BY <1>4, <3>1, <3>4
            <4>3. Filled(oo)' = reportObserved[oo]
                BY <1>3, <2>0, <4>2
            <4> QED  BY <1>2, <4>1, <4>3
        <3> QED  BY <3>3, <3>4
    <2>2. CASE ~Projects(f)
        <3>1. proj' = proj /\ reportObserved' = reportObserved
            BY <2>2 DEF FirstFact
        <3>2. Filled(oo)' = reportObserved[oo]
            BY <1>3, <1>4, <2>0, <2>2
        <3> QED  BY <1>2, <3>1, <3>2
    <2> QED  BY <2>1, <2>2
<1> QED  BY <1>5, <1>6 DEF BooksAgreeUntilHalt

LEMMA FirstKeeps ==
    ASSUME FactInv, NEW k \in Nat, NEW f \in Bodies, FirstFact(k, f)
    PROVE  FactInv'
<1>1. PICK a \in {"accepted", "unresolved"}, as \in SUBSET Anomaly :
          ReportPublish(ReportOutcome(k, a, as))
    BY AnomaliesAre DEF FirstFact
<1>2. /\ reportOutcomes' \in Seq(OutcomeRecs) /\ Len(reportOutcomes') = Len(reportOutcomes) + 1
      /\ reportHalt' \in BOOLEAN
    BY <1>1, PublishIs
<1>3. /\ known' \in Seq(Bodies) /\ Len(known') = Len(known) + 1
      /\ reportFills' \in Seq(FillRecs) /\ Len(reportFills') <= Len(known')
      /\ FillsAreKnown' /\ TradeIsFilledOnce'
    BY FillsFollow
<1>4. UNCHANGED reportIssued
    BY DEF FirstFact
<1>5. /\ venue' \in [Venues -> reportIssued' \cup {ReportNone}]
      /\ reportObserved' \in [ReportOrders -> Nat] /\ proj' \in [ReportOrders -> ProjRecs]
      /\ OrdersOk' /\ VenueIsOneToOne'
    <2>1. CASE Projects(f)
        BY <1>4, <2>1, FirstProjects, OrdersFollow
    <2>2. CASE ~Projects(f)
        <3>1. UNCHANGED <<venue, proj, reportObserved>>
            BY <2>2 DEF FirstFact
        <3>2. OrdersOk'
            BY <3>1 DEF FactInv, OrdersOk
        <3>3. VenueIsOneToOne'
            BY <3>1 DEF FactInv, VenueIsOneToOne
        <3> QED  BY <1>4, <3>1, <3>2, <3>3 DEF FactInv, FactShape
    <2> QED  BY <2>1, <2>2
<1>6. Len(known) \in Nat /\ Len(reportOutcomes) \in Nat /\ Len(known) <= Len(reportOutcomes)
      /\ reportIssued \subseteq ReportOrders
    BY DEF FactInv, FactShape
<1>7. FactShape'
    BY <1>2, <1>3, <1>4, <1>5, <1>6 DEF FactShape
<1>8. BooksAgreeUntilHalt'
    <2>1. CASE reportHalt'
        BY <2>1 DEF BooksAgreeUntilHalt
    <2>2. CASE ~reportHalt'
        BY <2>2, BooksFollow
    <2> QED  BY <2>1, <2>2
<1> QED  BY <1>3, <1>5, <1>7, <1>8 DEF FactInv
\* Nothing is known of any order at the start.
LEMMA FactsInit == ASSUME ReportInit PROVE FactInv
<1> USE DEF ReportInit
<1>1. PICK p : p = NoProj
    OBVIOUS
<1>2. /\ p.state = "none" /\ p.qty = 0 /\ p.venue = ReportNone /\ p.version = 0
      /\ p = [state |-> "none", qty |-> 0, version |-> 0, venue |-> ReportNone]
    BY <1>1 DEF NoProj
<1>3. p \in ProjRecs
    BY <1>2 DEF ProjRecs, ReportStates
<1>4. FactShape
    <2>1. /\ reportIssued \subseteq ReportOrders /\ reportHalt \in BOOLEAN
          /\ venue \in [Venues -> reportIssued \cup {ReportNone}]
          /\ reportObserved \in [ReportOrders -> Nat]
        OBVIOUS
    <2>2. proj \in [ReportOrders -> ProjRecs]
        BY <1>1, <1>3
    <2>3. known \in Seq(Bodies) /\ reportFills \in Seq(FillRecs) /\ reportOutcomes \in Seq(OutcomeRecs)
        OBVIOUS
    <2>4. Len(known) = 0 /\ Len(reportFills) = 0 /\ Len(reportOutcomes) = 0
        OBVIOUS
    <2> QED  BY <2>1, <2>2, <2>3, <2>4 DEF FactShape
<1>5. SnapshotOk(p) /\ OrderOk(p, 0)
    BY <1>2, FactsAssumption DEF SnapshotOk, OrderOk
<1>6. OrdersOk
    BY <1>1, <1>3, <1>5 DEF OrdersOk
<1>7. FillsAreKnown /\ TradeIsFilledOnce
    BY DEF FillsAreKnown, TradeIsFilledOnce
<1>8. VenueIsOneToOne
    BY <1>1, <1>2 DEF VenueIsOneToOne
<1>9. \A o \in ReportOrders : Filled(o) = 0
    <2> TAKE o \in ReportOrders
    <2>1. reportFills \in Seq(FillRecs) /\ NumbersOf(reportFills, o) = {}
        BY DEF NumbersOf
    <2>2. Filled(o) = SumOver(QtyOf(reportFills), {})
        BY <2>1, FilledIsSum DEF FilledIn
    <2> QED  BY <2>2, SumOfNone
<1>10. BooksAgreeUntilHalt
    BY <1>1, <1>2, <1>9, FactsAssumption DEF BooksAgreeUntilHalt
<1> QED  BY <1>4, <1>6, <1>7, <1>8, <1>10 DEF FactInv

\* Every step keeps the books.
LEMMA FactsNext == ASSUME FactInv, [ReportNext]_reportVars PROVE FactInv'
<1>1. CASE ProcessIngress
    <2>1. PICK k \in 1..Len(known) + 1, f \in Bodies :
              ShortCircuit(k, f) \/ Invalid(k, f) \/ FirstFact(k, f)
        BY <1>1 DEF ProcessIngress
    <2>2. k \in Nat
        BY DEF FactInv, FactShape
    <2> QED  BY <2>1, <2>2, ShortKeeps, InvalidKeeps, FirstKeeps
<1>2. ASSUME NEW o \in ReportOrders, ReportIssue(o) PROVE FactInv'
    BY <1>2, IssueKeeps
<1>3. CASE UNCHANGED reportVars
    <2>1. UNCHANGED <<reportIssued, known, venue, proj, reportObserved, reportFills,
                      reportOutcomes, reportHalt>>
        BY <1>3 DEF reportVars
    <2>2. /\ reportIssued \subseteq reportIssued' /\ reportIssued' \subseteq ReportOrders
          /\ reportHalt' \in BOOLEAN /\ (~reportHalt' => ~reportHalt)
          /\ reportOutcomes' \in Seq(OutcomeRecs) /\ Len(known') <= Len(reportOutcomes')
        BY <2>1 DEF FactInv, FactShape
    <2> QED  BY <2>1, <2>2, QuietKeeps
<1> QED  BY <1>1, <1>2, <1>3 DEF ReportNext

LEMMA FactInvHolds == ReportSpec => []FactInv
<1>1. ReportInit => FactInv
    BY FactsInit
<1>2. FactInv /\ [ReportNext]_reportVars => FactInv'
    BY FactsNext
<1> QED  BY <1>1, <1>2, PTL DEF ReportSpec

LEMMA FactInvImplies == FactInv => FactSafe
<1> HAVE FactInv
<1>1. \A o \in ReportOrders : proj[o].state = "none" \/ SnapshotOk(proj[o])
    BY OrderIs DEF OrderOk
<1>2. venue \in [Venues -> ReportOrders \cup {ReportNone}]
    BY DEF FactInv, FactShape
<1>3. ReportTypeOK
    BY <1>1, <1>2 DEF ReportTypeOK, FactInv, FactShape
<1> QED  BY <1>3, NoStuckHolds DEF FactSafe, FactInv

\* In every history of facts, whatever the venues report, in whatever order and however often:
\* a trade has one fill, with the quantity first reported; venue identities and orders belong
\* together one to one; no report leads to a snapshot its constructor refuses; and until a halt
\* is asked for, what was filled, observed and projected of every order is the same quantity.
THEOREM FactsAreSafe == ReportSpec => []FactSafe
BY FactInvHolds, FactInvImplies, PTL

\* No report moves an order that is over.
LEMMA TerminalStep == FactInv /\ [ReportNext]_reportVars =>
                      \A o \in ReportOrders : Closed(o) => proj'[o] = proj[o]
<1> SUFFICES ASSUME FactInv, [ReportNext]_reportVars, NEW oo \in ReportOrders, Closed(oo)
             PROVE  proj'[oo] = proj[oo]
    OBVIOUS
<1>1. CASE proj' = proj
    BY <1>1
<1>2. ASSUME NEW k, NEW f \in Bodies, FirstFact(k, f), Projects(f) PROVE proj'[oo] = proj[oo]
    <2>1. PICK o \in ReportOrders : ReportSelected(f) = o
        BY <1>2, SelectedIs DEF FactInv, FactShape
    <2>2. proj' = [proj EXCEPT ![o] = After(f, o)]
        BY <1>2, <2>1 DEF FirstFact
    <2>3. oo = o => After(f, o) = proj[o]
        BY ReportFits DEF AfterOk, Closed
    <2> QED  BY <2>2, <2>3 DEF FactInv, FactShape
<1>3. CASE ProcessIngress
    BY <1>1, <1>2, <1>3 DEF ProcessIngress, ShortCircuit, Invalid, FirstFact
<1>4. CASE \E o \in ReportOrders : ReportIssue(o)
    BY <1>1, <1>4 DEF ReportIssue
<1>5. CASE UNCHANGED reportVars
    BY <1>1, <1>5 DEF reportVars
<1> QED  BY <1>3, <1>4, <1>5 DEF ReportNext

\* Another fact under a known key asks for a halt.
LEMMA ContradictionStep ==
    \A k \in 1..Len(known), f \in Bodies : ShortCircuit(k, f) /\ f # known[k] => reportHalt'
<1> SUFFICES ASSUME NEW k \in 1..Len(known), NEW f \in Bodies, ShortCircuit(k, f), f # known[k]
             PROVE  reportHalt'
    OBVIOUS
<1>1. PICK r : r = ReportOutcome(k, "conflict", {}) /\ ReportPublish(r)
    BY DEF ShortCircuit
<1>2. r.action = "conflict"
    BY <1>1 DEF ReportOutcome
<1>3. reportHalt' = (reportHalt \/ r.action \notin {"accepted", "duplicate"})
    BY <1>1 DEF ReportPublish
<1>4. r.action \notin {"accepted", "duplicate"}
    BY <1>2
<1> QED  BY <1>3, <1>4, Zenon

\* An order that is over stays as it is, whatever is reported of it: a late trade is an anomaly
\* and never projected.  And a contradiction is never passed over: it asks for a halt.
THEOREM FactStepsHold == ReportSpec => TerminalStays /\ ContradictionHalts
<1>1. FactInv /\ [ReportNext]_reportVars =>
         [\A o \in ReportOrders : Closed(o) => proj'[o] = proj[o]]_reportVars
    BY TerminalStep
<1>2. [\A k \in 1..Len(known), f \in Bodies :
          ShortCircuit(k, f) /\ f # known[k] => reportHalt']_reportVars
    BY ContradictionStep
<1> QED  BY <1>1, <1>2, FactInvHolds, PTL DEF ReportSpec, TerminalStays, ContradictionHalts

-----------------------------------------------------------------------------
(***************************************************************************)
(* The portfolio ledger.                                                   *)
(***************************************************************************)
\* Postings that have a sum.
Legs(ps) == IsFiniteSet(ps) /\ \A p \in ps : p.amount \in Int
AmountsOf(ps) == [p \in ps |-> p.amount]

LEMMA AmountsSum ==
    ASSUME NEW ps, IsFiniteSet(ps)
    PROVE  SumOf(ps) = SumOver(AmountsOf(ps), ps)
<1> DEFINE F == AmountsOf(ps)
<1>0. \A p \in ps : F[p] = p.amount
    BY DEF AmountsOf
<1>1. \A s \in SUBSET ps : s # {} => F[AnyOf(s)] = AnyOf(s).amount
    BY <1>0 DEF AnyOf
<1>2. PICK h : h = [s \in SUBSET ps |-> SumStep(F, h, s)]
    BY FoldExists
<1>3. h = [s \in SUBSET ps |-> IF s = {} THEN 0 ELSE AnyOf(s).amount + h[s \ {AnyOf(s)}]]
    BY <1>1, <1>2 DEF SumStep
<1> DEFINE g == CHOOSE g : g = [s \in SUBSET ps |-> IF s = {} THEN 0
                                    ELSE AnyOf(s).amount + g[s \ {AnyOf(s)}]]
<1>4. g = [s \in SUBSET ps |-> IF s = {} THEN 0 ELSE AnyOf(s).amount + g[s \ {AnyOf(s)}]]
    BY <1>3
<1>5. SumOf(ps) = g[ps]
    BY DEF SumOf, MapThenSumSet, MapThenFoldSet, AnyOf
<1> HIDE DEF g
<1>6. Folds(F, g, ps)
    BY <1>1, <1>4 DEF Folds, SumStep
<1>7. PICK k : SumOver(F, ps) = k[ps] /\ Folds(F, k, ps)
    BY SumIsFold
<1>8. g[ps] = k[ps]
    <2> HIDE DEF F
    <2>1. Alike(F, F, g, k, ps, ps, ps)
        BY <1>6, <1>7 DEF Alike
    <2> QED  BY <2>1, FoldsAgree
<1> QED  BY <1>5, <1>7, <1>8

LEMMA NoPostings == Legs({}) /\ SumOf({}) = 0
<1>1. IsFiniteSet({})
    BY FS_EmptySet
<1>2. SumOf({}) = SumOver(AmountsOf({}), {})
    BY <1>1, AmountsSum
<1> QED  BY <1>1, <1>2, SumOfNone DEF Legs

LEMMA LegsSum == ASSUME NEW ps, Legs(ps) PROVE SumOf(ps) \in Int
<1>1. IsFiniteSet(ps) /\ \A p \in ps : AmountsOf(ps)[p] \in Int
    BY DEF Legs, AmountsOf
<1> QED  BY <1>1, AmountsSum, SumIsInt

LEMMA LegsWithin == ASSUME NEW ps, Legs(ps), NEW qs \in SUBSET ps PROVE Legs(qs)
BY FS_Subset DEF Legs

LEMMA PostingAdds ==
    ASSUME NEW ps, Legs(ps), NEW p, p \notin ps, p.amount \in Int
    PROVE  Legs(ps \cup {p}) /\ SumOf(ps \cup {p}) = SumOf(ps) + p.amount
<1> DEFINE qs == ps \cup {p}
           F == AmountsOf(qs)
<1>1. IsFiniteSet(ps) /\ \A x \in ps : x.amount \in Int
    BY DEF Legs
<1>2. IsFiniteSet(qs)
    BY <1>1, FS_AddElement
<1>3. Legs(qs)
    BY <1>1, <1>2 DEF Legs
<1>4. \A x \in qs : F[x] = x.amount /\ F[x] \in Int
    BY <1>1 DEF AmountsOf
<1>5. \A x \in ps : AmountsOf(ps)[x] = F[x]
    BY DEF AmountsOf
<1>6. SumOf(ps) = SumOver(F, ps)
    <2> HIDE DEF F
    <2>1. SumOver(AmountsOf(ps), ps) = SumOver(F, ps)
        BY <1>1, <1>5, SumSame
    <2> QED  BY <1>1, <2>1, AmountsSum
<1>7. SumOf(qs) = SumOver(F, qs)
    BY <1>2, AmountsSum
<1>8. F[p] = p.amount
    BY <1>4
<1>9. SumOver(F, ps \cup {p}) = SumOver(F, ps) + F[p]
    <2> HIDE DEF F
    <2> QED  BY <1>1, <1>4, SumGrows
<1> QED  BY <1>3, <1>6, <1>7, <1>8, <1>9

\* A posting of nothing is left out.
Leg(p) == {x \in {p} : x.amount # 0}

LEMMA LegAdds ==
    ASSUME NEW ps, Legs(ps), NEW p, p \notin ps, p.amount \in Int
    PROVE  Legs(ps \cup Leg(p)) /\ SumOf(ps \cup Leg(p)) = SumOf(ps) + p.amount
<1>1. CASE p.amount = 0
    <2>1. ps \cup Leg(p) = ps
        BY <1>1 DEF Leg
    <2>2. PICK n \in Int : n = SumOf(ps)
        BY LegsSum
    <2>3. n = n + 0
        OBVIOUS
    <2> QED  BY <1>1, <2>1, <2>2, <2>3
<1>2. CASE p.amount # 0
    <2>1. ps \cup Leg(p) = ps \cup {p}
        BY <1>2 DEF Leg
    <2> QED  BY <2>1, PostingAdds
<1> QED  BY <1>1, <1>2

LEMMA LegAlone == ASSUME NEW p, p.amount \in Int PROVE Legs(Leg(p)) /\ SumOf(Leg(p)) = p.amount
<1>1. {} \cup Leg(p) = Leg(p)
    OBVIOUS
<1>2. Legs({} \cup Leg(p)) /\ SumOf({} \cup Leg(p)) = SumOf({}) + p.amount
    BY NoPostings, LegAdds
<1> QED  BY <1>1, <1>2, NoPostings

-----------------------------------------------------------------------------
\* The settlement is on the grid, and what it leaves is at most half of it.
LEMMA MultiplesAdd ==
    ASSUME NEW g \in Nat \ {0}, NEW a \in Int, NEW b \in Int, a % g = 0, b % g = 0
    PROVE  (a + b) % g = 0 /\ (-a) % g = 0
<1>1. PICK j \in Int, k \in Int : j = a \div g /\ k = b \div g
    OBVIOUS
<1>2. a = g * j /\ b = g * k
    BY <1>1
<1>3. a + b = g * (j + k) /\ -a = g * (-j)
    BY <1>2
<1>4. ASSUME NEW n \in Int PROVE (g * n) % g = 0
    OBVIOUS
<1>5. (g * (j + k)) % g = 0 /\ (g * (-j)) % g = 0
    BY <1>4
<1> QED  BY <1>3, <1>5

LEMMA SettledIs ==
    ASSUME NEW x \in Int
    PROVE  /\ SettledAmount(x) \in Int /\ SettledAmount(x) % LedgerQuantum = 0
           /\ Residual(x) \in Int /\ 2 * Residual(x) \in (-LedgerQuantum)..LedgerQuantum
<1>1. PICK g \in Nat \ {0} : g = LedgerQuantum
    BY LedgerConstants
<1>2. PICK u \in Int, l \in Int : u = x \div g /\ l = x % g
    BY <1>1
<1>3. x = g * u + l /\ l \in 0..g - 1
    BY <1>1, <1>2
<1>4. PICK k \in Int : /\ SettledAmount(x) = g * k
                       /\ \/ k = u /\ 2 * l <= g
                          \/ k = u + 1 /\ 2 * l >= g
    BY <1>1, <1>2, <1>3 DEF SettledAmount
<1>5. g * k \in Int /\ (g * k) % g = 0
    OBVIOUS
<1>6. g * (u + 1) = g * u + g
    BY <1>2
<1>7. Residual(x) = x - g * k
    BY <1>4 DEF Residual
<1>8. /\ k = u => Residual(x) = l
      /\ k = u + 1 => Residual(x) = l - g
    BY <1>3, <1>6, <1>7
<1> QED  BY <1>1, <1>3, <1>4, <1>5, <1>8
-----------------------------------------------------------------------------
\* The postings of a fill, leg by leg.
LegsAre(f, a, b, c, d, e, g) ==
    /\ a.account = "position" /\ a.commodity = f.instrument
    /\ a.amount = f.side * f.quantity
    /\ b.account = "external_inventory" /\ b.commodity = f.instrument
    /\ b.amount = -(f.side * f.quantity)
    /\ c.account = "cash" /\ c.commodity = Currency /\ c.amount = CashDelta(f)
    /\ d.account = "external_settlement" /\ d.commodity = Currency
    /\ d.amount = f.side * f.notional
    /\ e.account = "rounding" /\ e.commodity = Currency
    /\ e.amount = -(f.side * Residual(f.notional))
    /\ g.account = "commission" /\ g.commodity = Currency /\ g.amount = f.fee
    /\ FillPostings(f) = {p \in {a, b, c, d, e, g} : p.amount # 0}

LEMMA FillLegs ==
    ASSUME NEW f \in Fills
    PROVE  \E a, b, c, d, e, g : LegsAre(f, a, b, c, d, e, g)
<1>1. PICK a, b, c, d, e, g :
          /\ a = Post("position", f.instrument, f.side * f.quantity)
          /\ b = Post("external_inventory", f.instrument, -(f.side * f.quantity))
          /\ c = Post("cash", Currency, CashDelta(f))
          /\ d = Post("external_settlement", Currency, f.side * f.notional)
          /\ e = Post("rounding", Currency, -(f.side * Residual(f.notional)))
          /\ g = Post("commission", Currency, f.fee)
    OBVIOUS
<1>2. FillPostings(f) = {p \in {a, b, c, d, e, g} : p.amount # 0}
    BY <1>1, Zenon DEF FillPostings
<1>3. LegsAre(f, a, b, c, d, e, g)
    BY <1>1, <1>2 DEF Post, LegsAre
<1> QED  BY <1>3

\* The amounts of a fill.
LEMMA FillAmounts ==
    ASSUME NEW f \in Fills
    PROVE  /\ f.side * f.quantity \in Int /\ f.side * f.quantity # 0
           /\ -(f.side * f.quantity) \in Int
           /\ CashDelta(f) \in Int /\ CashDelta(f) % LedgerQuantum = 0
           /\ f.side * f.notional \in Int /\ -(f.side * Residual(f.notional)) \in Int
           /\ 2 * (-(f.side * Residual(f.notional))) \in (-LedgerQuantum)..LedgerQuantum
           /\ f.fee \in Int /\ f.instrument \in Instruments /\ f.instrument # Currency
           /\ CashDelta(f) + f.side * f.notional + (-(f.side * Residual(f.notional))) + f.fee = 0
<1>1. /\ f.side \in {1, -1} /\ f.quantity \in Nat \ {0} /\ f.notional \in Int /\ f.fee \in Int
      /\ f.fee % LedgerQuantum = 0 /\ LedgerQuantum \in Nat \ {0}
      /\ f.instrument \in Instruments /\ f.instrument # Currency
    BY LedgerConstants, CurrencyIsNoInstrument
<1>2. PICK m, r, x, q, y, g : /\ m = SettledAmount(f.notional) /\ r = Residual(f.notional)
                              /\ x = f.notional /\ q = f.quantity /\ y = f.fee /\ g = LedgerQuantum
    OBVIOUS
<1>3. /\ m \in Int /\ m % g = 0 /\ r \in Int /\ 2 * r \in (-g)..g /\ r = x - m
      /\ x \in Int /\ q \in Nat \ {0} /\ y \in Int /\ y % g = 0 /\ g \in Nat \ {0}
    BY <1>1, <1>2, SettledIs DEF Residual
<1>4. CashDelta(f) = -(f.side * m) - y
    BY <1>2 DEF CashDelta
<1>7. (-m + (-y)) % g = 0 /\ (m + (-y)) % g = 0
    <2>1. (-m) % g = 0 /\ (-y) % g = 0
        BY <1>3, MultiplesAdd
    <2>2. PICK n \in Int, z \in Int : n = -m /\ z = -y
        BY <1>3
    <2>3. (n + z) % g = 0 /\ (m + z) % g = 0
        BY <1>3, <2>1, <2>2, MultiplesAdd
    <2> QED  BY <2>2, <2>3
<1>5. CASE f.side = 1
    <2>1. f.side * q = q /\ f.side * m = m /\ f.side * x = x /\ f.side * r = r
        BY <1>3, <1>5
    <2>2. CashDelta(f) = (-m) + (-y)
        BY <1>3, <1>4, <2>1
    <2>3. CashDelta(f) % g = 0
        BY <1>3, <1>7, <2>2
    <2>4. f.side * f.quantity = q /\ f.side * f.notional = x /\ f.side * Residual(f.notional) = r
        BY <1>2, <2>1
    <2>5. CashDelta(f) = -m - y /\ -(f.side * f.quantity) = -q /\ -(f.side * Residual(f.notional)) = -r
        BY <1>3, <2>2, <2>4
    <2>6. 2 * (-r) \in (-g)..g /\ -m - y + x + (-r) + y = 0 /\ -m - y \in Int
        BY <1>3
    <2> QED  BY <1>1, <1>2, <1>3, <2>3, <2>4, <2>5, <2>6
<1>6. CASE f.side = -1
    <2>1. f.side * q = -q /\ f.side * m = -m /\ f.side * x = -x /\ f.side * r = -r
        BY <1>3, <1>6
    <2>2. CashDelta(f) = m + (-y)
        BY <1>3, <1>4, <2>1
    <2>3. CashDelta(f) % g = 0
        BY <1>3, <1>7, <2>2
    <2>4. f.side * f.quantity = -q /\ f.side * f.notional = -x /\ f.side * Residual(f.notional) = -r
        BY <1>2, <2>1
    <2>5. CashDelta(f) = m - y /\ -(f.side * f.quantity) = q /\ -(f.side * Residual(f.notional)) = r
        BY <1>3, <2>2, <2>4
    <2>6. m - y + (-x) + r + y = 0 /\ m - y \in Int /\ -q # 0 /\ -q \in Int /\ -x \in Int
        BY <1>3
    <2> QED  BY <1>1, <1>2, <1>3, <2>3, <2>4, <2>5, <2>6
<1> QED  BY <1>1, <1>5, <1>6

\* What a set of postings moves on an account.
MovedOn(ps, account, commodity) ==
    SumOf({p \in ps : p.account = account /\ p.commodity = commodity})

\* A set with at most n elements.
AtMost(s, n) == IsFiniteSet(s) /\ n \in Nat /\ Cardinality(s) <= n

LEMMA OneMore == ASSUME NEW s, NEW n, AtMost(s, n), NEW x PROVE AtMost(s \cup {x}, n + 1)
<1>1. /\ IsFiniteSet(s \cup {x}) /\ Cardinality(s) \in Nat
      /\ \/ Cardinality(s \cup {x}) = Cardinality(s)
         \/ Cardinality(s \cup {x}) = Cardinality(s) + 1
    BY FS_AddElement, FS_CardinalityType DEF AtMost
<1> QED  BY <1>1 DEF AtMost

LEMMA Few ==
    ASSUME NEW s, NEW n, AtMost(s, n), NEW r, r \subseteq s
    PROVE  Cardinality(r) <= n /\ Cardinality(r) \in Nat
<1>1. IsFiniteSet(r) /\ Cardinality(r) <= Cardinality(s)
    BY FS_Subset DEF AtMost
<1>2. Cardinality(r) \in Nat /\ Cardinality(s) \in Nat
    BY <1>1, FS_CardinalityType DEF AtMost
<1> QED  BY <1>1, <1>2 DEF AtMost

LEMMA FillSums ==
    ASSUME NEW f \in Fills
    PROVE  /\ Legs(FillPostings(f)) /\ PostingsBalance(FillPostings(f))
           /\ MovedOn(FillPostings(f), "cash", Currency) = CashDelta(f)
           /\ MovedOn(FillPostings(f), "rounding", Currency) = -(f.side * Residual(f.notional))
           /\ \A i \in Instruments :
                 MovedOn(FillPostings(f), "position", i)
                 = IF i = f.instrument THEN f.side * f.quantity ELSE 0
           /\ \A p \in FillPostings(f) : p.account = "rounding" =>
                 2 * p.amount \in (-LedgerQuantum)..LedgerQuantum
           /\ FillPostingsValid(f, FillPostings(f))
<1>0. PICK a, b, c, d, e, g : LegsAre(f, a, b, c, d, e, g)
    BY FillLegs
<1>1. /\ a.account = "position" /\ a.commodity = f.instrument
      /\ a.amount = f.side * f.quantity
      /\ b.account = "external_inventory" /\ b.commodity = f.instrument
      /\ b.amount = -(f.side * f.quantity)
      /\ c.account = "cash" /\ c.commodity = Currency /\ c.amount = CashDelta(f)
      /\ d.account = "external_settlement" /\ d.commodity = Currency
      /\ d.amount = f.side * f.notional
      /\ e.account = "rounding" /\ e.commodity = Currency
      /\ e.amount = -(f.side * Residual(f.notional))
      /\ g.account = "commission" /\ g.commodity = Currency /\ g.amount = f.fee
      /\ FillPostings(f) = {p \in {a, b, c, d, e, g} : p.amount # 0}
    BY <1>0 DEF LegsAre
<1> DEFINE ps == FillPostings(f)
<1>2. /\ a.amount \in Int /\ a.amount # 0 /\ b.amount \in Int /\ b.amount = -a.amount
      /\ b.amount # 0 /\ c.amount \in Int /\ d.amount \in Int /\ e.amount \in Int
      /\ g.amount \in Int /\ f.instrument \in Instruments /\ f.instrument # Currency
      /\ c.amount + d.amount + e.amount + g.amount = 0
      /\ 2 * e.amount \in (-LedgerQuantum)..LedgerQuantum
    <2>1. PICK q, x, r : /\ q = f.side * f.quantity /\ x = f.side * f.notional
                         /\ r = -(f.side * Residual(f.notional))
        OBVIOUS
    <2>2. -(f.side * f.quantity) = -q
        BY <2>1
    <2>3. /\ q \in Int /\ q # 0 /\ CashDelta(f) \in Int /\ x \in Int /\ r \in Int
          /\ 2 * r \in (-LedgerQuantum)..LedgerQuantum
          /\ f.fee \in Int /\ f.instrument \in Instruments /\ f.instrument # Currency
          /\ CashDelta(f) + x + r + f.fee = 0
        <3>1. /\ f.side * f.quantity \in Int /\ f.side * f.quantity # 0 /\ CashDelta(f) \in Int
              /\ f.side * f.notional \in Int /\ -(f.side * Residual(f.notional)) \in Int
              /\ 2 * (-(f.side * Residual(f.notional))) \in (-LedgerQuantum)..LedgerQuantum
              /\ f.fee \in Int /\ f.instrument \in Instruments /\ f.instrument # Currency
              /\ CashDelta(f) + f.side * f.notional + (-(f.side * Residual(f.notional))) + f.fee = 0
            BY FillAmounts, Zenon
        <3> QED  BY <2>1, <3>1, Zenon
    <2>4. /\ a.amount = q /\ b.amount = -q /\ c.amount = CashDelta(f) /\ d.amount = x
          /\ e.amount = r /\ g.amount = f.fee
        BY <1>1, <2>1, <2>2, Zenon
    <2> QED  BY <2>3, <2>4
<1>3. ps = (((((Leg(a) \cup Leg(b)) \cup Leg(c)) \cup Leg(d)) \cup Leg(e)) \cup Leg(g))
    BY <1>1 DEF Leg
<1>4. /\ a # b /\ c # d /\ c # e /\ c # g /\ d # e /\ d # g /\ e # g
      /\ a # c /\ a # d /\ a # e /\ a # g /\ b # c /\ b # d /\ b # e /\ b # g
    BY <1>1
<1>5. /\ \A p \in Leg(a) : p = a
      /\ \A p \in Leg(b) : p = b
      /\ \A p \in Leg(c) : p = c
      /\ \A p \in Leg(d) : p = d
      /\ \A p \in Leg(e) : p = e
      /\ \A p \in Leg(g) : p = g
    BY DEF Leg
<1>6. {p \in ps : p.commodity = f.instrument} = Leg(a) \cup Leg(b)
    BY <1>1, <1>2 DEF Leg
<1>7. {p \in ps : p.commodity = Currency} = ((Leg(c) \cup Leg(d)) \cup Leg(e)) \cup Leg(g)
    BY <1>1, <1>2 DEF Leg
<1>8. SumOf(Leg(a) \cup Leg(b)) = 0
    <2>1. b \notin Leg(a)
        BY <1>4, <1>5
    <2>2. Legs(Leg(a)) /\ SumOf(Leg(a)) = a.amount
        BY <1>2, LegAlone
    <2>3. SumOf(Leg(a) \cup Leg(b)) = a.amount + b.amount
        BY <1>2, <2>1, <2>2, LegAdds
    <2> QED  BY <1>2, <2>3
<1>9. SumOf(((Leg(c) \cup Leg(d)) \cup Leg(e)) \cup Leg(g)) = 0
    <2>1. d \notin Leg(c) /\ e \notin Leg(c) \cup Leg(d) /\ g \notin (Leg(c) \cup Leg(d)) \cup Leg(e)
        BY <1>4, <1>5
    <2>2. Legs(Leg(c)) /\ SumOf(Leg(c)) = c.amount
        BY <1>2, LegAlone
    <2>3. Legs(Leg(c) \cup Leg(d)) /\ SumOf(Leg(c) \cup Leg(d)) = c.amount + d.amount
        BY <1>2, <2>1, <2>2, LegAdds
    <2>4. /\ Legs((Leg(c) \cup Leg(d)) \cup Leg(e))
          /\ SumOf((Leg(c) \cup Leg(d)) \cup Leg(e)) = c.amount + d.amount + e.amount
        BY <1>2, <2>1, <2>3, LegAdds
    <2>5. SumOf(((Leg(c) \cup Leg(d)) \cup Leg(e)) \cup Leg(g))
          = c.amount + d.amount + e.amount + g.amount
        BY <1>2, <2>1, <2>4, LegAdds
    <2> QED  BY <1>2, <2>5
<1>10. PostingsBalance(ps)
    <2> SUFFICES ASSUME NEW k \in Commodities PROVE SumOf({p \in ps : p.commodity = k}) = 0
        BY DEF PostingsBalance
    <2>1. CASE k = f.instrument
        BY <1>6, <1>8, <2>1
    <2>2. CASE k = Currency
        BY <1>7, <1>9, <2>2
    <2>3. CASE k # f.instrument /\ k # Currency
        <3>1. {p \in ps : p.commodity = k} = {}
            BY <1>1, <2>3
        <3> QED  BY <3>1, NoPostings
    <2> QED  BY <2>1, <2>2, <2>3
<1>11. Legs(ps)
    <2>1. /\ b \notin Leg(a) /\ c \notin Leg(a) \cup Leg(b)
          /\ d \notin (Leg(a) \cup Leg(b)) \cup Leg(c)
          /\ e \notin ((Leg(a) \cup Leg(b)) \cup Leg(c)) \cup Leg(d)
          /\ g \notin (((Leg(a) \cup Leg(b)) \cup Leg(c)) \cup Leg(d)) \cup Leg(e)
        BY <1>4, <1>5
    <2>2. Legs(Leg(a))
        BY <1>2, LegAlone
    <2>3. Legs(Leg(a) \cup Leg(b))
        BY <1>2, <2>1, <2>2, LegAdds
    <2>4. Legs((Leg(a) \cup Leg(b)) \cup Leg(c))
        BY <1>2, <2>1, <2>3, LegAdds
    <2>5. Legs(((Leg(a) \cup Leg(b)) \cup Leg(c)) \cup Leg(d))
        BY <1>2, <2>1, <2>4, LegAdds
    <2>6. Legs((((Leg(a) \cup Leg(b)) \cup Leg(c)) \cup Leg(d)) \cup Leg(e))
        BY <1>2, <2>1, <2>5, LegAdds
    <2> QED  BY <1>2, <1>3, <2>1, <2>6, LegAdds
<1>12. MovedOn(ps, "cash", Currency) = c.amount
    <2>1. {p \in ps : p.account = "cash" /\ p.commodity = Currency} = Leg(c)
        BY <1>1 DEF Leg
    <2> QED  BY <1>2, <2>1, LegAlone DEF MovedOn
<1>13. MovedOn(ps, "rounding", Currency) = e.amount
    <2>1. {p \in ps : p.account = "rounding" /\ p.commodity = Currency} = Leg(e)
        BY <1>1 DEF Leg
    <2> QED  BY <1>2, <2>1, LegAlone DEF MovedOn
<1>14. ASSUME NEW i \in Instruments
       PROVE  MovedOn(ps, "position", i) = IF i = f.instrument THEN a.amount ELSE 0
    <2>1. CASE i = f.instrument
        <3>1. {p \in ps : p.account = "position" /\ p.commodity = i} = Leg(a)
            BY <1>1, <2>1 DEF Leg
        <3> QED  BY <1>2, <2>1, <3>1, LegAlone DEF MovedOn
    <2>2. CASE i # f.instrument
        <3>1. {p \in ps : p.account = "position" /\ p.commodity = i} = {}
            BY <1>1, <2>2
        <3> QED  BY <2>2, <3>1, NoPostings DEF MovedOn
    <2> QED  BY <2>1, <2>2
<1>15. \A p \in ps : p.account = "rounding" => 2 * p.amount \in (-LedgerQuantum)..LedgerQuantum
    BY <1>1, <1>2
<1>16. /\ \A p, q \in ps : p.account = q.account => p = q
       /\ {"position", "external_inventory"} \subseteq {p.account : p \in ps}
       /\ {p.commodity : p \in ps} \subseteq {f.instrument, Currency}
    <2>1. \A p, q \in ps : p.account = q.account => p = q
        BY <1>1
    <2>2. a \in ps /\ b \in ps
        BY <1>1, <1>2
    <2>3. {"position", "external_inventory"} \subseteq {p.account : p \in ps}
        BY <1>1, <2>2
    <2>4. {p.commodity : p \in ps} \subseteq {f.instrument, Currency}
        BY <1>1
    <2> QED  BY <2>1, <2>3, <2>4
<1>17. Cardinality(ps) \in 2..6
    <2>1. IsFiniteSet(ps)
        BY <1>11 DEF Legs
    <2>2. /\ IsFiniteSet({a, b}) /\ Cardinality({a, b}) = 2
          /\ {a, b} \subseteq ps
        <3>1. IsFiniteSet({a}) /\ Cardinality({a}) = 1
            BY FS_Singleton
        <3>2. {a, b} = {a} \cup {b} /\ b \notin {a}
            BY <1>4
        <3>3. IsFiniteSet({a} \cup {b}) /\ Cardinality({a} \cup {b}) = Cardinality({a}) + 1
            BY <3>1, <3>2, FS_AddElement
        <3> QED  BY <1>1, <1>2, <3>1, <3>2, <3>3
    <2>3. Cardinality({a, b}) <= Cardinality(ps)
        BY <2>1, <2>2, FS_Subset
    <2>4. AtMost({a, b}, 2)
        BY <2>2 DEF AtMost
    <2>5. AtMost({a, b} \cup {c}, 3)
        BY <2>4, OneMore
    <2>6. AtMost(({a, b} \cup {c}) \cup {d}, 4)
        <3>1. AtMost(({a, b} \cup {c}) \cup {d}, 3 + 1)
            BY <2>5, OneMore, Zenon
        <3> QED  BY <3>1
    <2>7. AtMost((({a, b} \cup {c}) \cup {d}) \cup {e}, 5)
        <3>1. AtMost((({a, b} \cup {c}) \cup {d}) \cup {e}, 4 + 1)
            BY <2>6, OneMore, Zenon
        <3> QED  BY <3>1
    <2>8. AtMost(((({a, b} \cup {c}) \cup {d}) \cup {e}) \cup {g}, 6)
        <3>1. AtMost(((({a, b} \cup {c}) \cup {d}) \cup {e}) \cup {g}, 5 + 1)
            BY <2>7, OneMore, Zenon
        <3> QED  BY <3>1
    <2>9. ps \subseteq ((({a, b} \cup {c}) \cup {d}) \cup {e}) \cup {g}
        BY <1>1
    <2>10. Cardinality(ps) <= 6 /\ Cardinality(ps) \in Nat
        BY <2>8, <2>9, Few
    <2> QED  BY <2>2, <2>3, <2>10
<1>18. FillPostingsValid(f, ps)
    BY <1>10, <1>16, <1>17 DEF FillPostingsValid
<1> QED  BY <1>1, <1>10, <1>11, <1>12, <1>13, <1>14, <1>15, <1>18
-----------------------------------------------------------------------------
\* The balance of an account as a sum over the entries of a log.
MovesOf(ts, account, commodity) == [k \in 1..Len(ts) |-> MovedOn(ts[k].postings, account, commodity)]
BalanceIn(ts, n, account, commodity) == SumOver(MovesOf(ts, account, commodity), 1..n)

\* A log whose entries have sums.
IsLog(ts) == Len(ts) \in Nat /\ \A k \in 1..Len(ts) : Legs(ts[k].postings)

LEMMA MovesAre ==
    ASSUME NEW ts, IsLog(ts), NEW account, NEW commodity
    PROVE  \A k \in 1..Len(ts) :
              /\ MovesOf(ts, account, commodity)[k] = MovedOn(ts[k].postings, account, commodity)
              /\ MovesOf(ts, account, commodity)[k] \in Int
<1> SUFFICES ASSUME NEW k \in 1..Len(ts)
             PROVE  MovedOn(ts[k].postings, account, commodity) \in Int
    BY DEF MovesOf
<1>1. Legs({p \in ts[k].postings : p.account = account /\ p.commodity = commodity})
    BY LegsWithin DEF IsLog
<1> QED  BY <1>1, LegsSum DEF MovedOn

LEMMA BalancesSum ==
    ASSUME NEW ts, IsLog(ts), NEW n \in 0..Len(ts), NEW account, NEW commodity
    PROVE  MapThenSumSet(
              LAMBDA k : SumOf({p \in ts[k].postings : p.account = account /\ p.commodity = commodity}),
              1..n) = BalanceIn(ts, n, account, commodity)
<1> DEFINE F == MovesOf(ts, account, commodity)
           M(k) == SumOf({p \in ts[k].postings : p.account = account /\ p.commodity = commodity})
           D == 1..n
<1>0. IsFiniteSet(D) /\ \A k \in D : F[k] = M(k)
    <2>1. n \in Nat /\ \A k \in D : k \in 1..Len(ts)
        BY DEF IsLog
    <2>2. \A k \in 1..Len(ts) : F[k] = MovedOn(ts[k].postings, account, commodity)
        <3> HIDE DEF F
        <3> QED  BY MovesAre DEF F
    <2>3. IsFiniteSet(D)
        BY <2>1, FS_Interval
    <2> QED  BY <2>1, <2>2, <2>3 DEF MovedOn
<1>1. \A s \in SUBSET D : s # {} => F[AnyOf(s)] = M(AnyOf(s))
    BY <1>0 DEF AnyOf
<1>2. PICK h : h = [s \in SUBSET D |-> SumStep(F, h, s)]
    <2> HIDE DEF F, D
    <2> QED  BY <1>0, FoldExists
<1>3. h = [s \in SUBSET D |-> IF s = {} THEN 0 ELSE M(AnyOf(s)) + h[s \ {AnyOf(s)}]]
    <2> HIDE DEF F, D, M
    <2> QED  BY <1>1, <1>2 DEF SumStep
<1> DEFINE g == CHOOSE g : g = [s \in SUBSET D |-> IF s = {} THEN 0
                                    ELSE M(AnyOf(s)) + g[s \ {AnyOf(s)}]]
<1>4. g = [s \in SUBSET D |-> IF s = {} THEN 0 ELSE M(AnyOf(s)) + g[s \ {AnyOf(s)}]]
    <2> HIDE DEF D, M
    <2> QED  BY <1>3
<1>5. MapThenSumSet(LAMBDA k : SumOf({p \in ts[k].postings :
                                         p.account = account /\ p.commodity = commodity}), 1..n) = g[D]
    BY DEF MapThenSumSet, MapThenFoldSet, AnyOf
<1> HIDE DEF g
<1>6. Folds(F, g, D)
    <2> HIDE DEF F, D, M
    <2> QED  BY <1>1, <1>4 DEF Folds, SumStep
<1>7. PICK k : SumOver(F, D) = k[D] /\ Folds(F, k, D)
    <2> HIDE DEF F, D
    <2> QED  BY <1>0, SumIsFold
<1>8. g[D] = k[D]
    <2> HIDE DEF F, D
    <2>1. Alike(F, F, g, k, D, D, D)
        BY <1>0, <1>6, <1>7 DEF Alike
    <2> QED  BY <2>1, FoldsAgree
<1> QED  BY <1>5, <1>7, <1>8 DEF BalanceIn

LEMMA BalanceIsSum ==
    \A n, account, commodity : IsLog(transactions) /\ n \in 0..Version =>
        BalanceAfter(n, account, commodity) = BalanceIn(transactions, n, account, commodity)
BY BalancesSum DEF BalanceAfter, Version

LEMMA BalanceWillBeSum ==
    \A n, account, commodity : IsLog(transactions') /\ n \in 0..Version' =>
        BalanceAfter(n, account, commodity)' = BalanceIn(transactions', n, account, commodity)
<1>1. TAKE n, account, commodity
<1>2. IsLog(transactions) /\ n \in 0..Version =>
          BalanceAfter(n, account, commodity) = BalanceIn(transactions, n, account, commodity)
    BY BalanceIsSum
<1>3. (IsLog(transactions) /\ n \in 0..Version =>
          BalanceAfter(n, account, commodity) = BalanceIn(transactions, n, account, commodity))'
    BY <1>2, PTL
<1> QED  BY <1>3

\* One more entry.
Extends(us, ts, e) ==
    /\ Len(us) = Len(ts) + 1 /\ us[Len(ts) + 1] = e
    /\ \A k \in 1..Len(ts) : us[k] = ts[k]

LEMMA BalanceAdds ==
    ASSUME NEW ts, IsLog(ts), NEW us, NEW e, Extends(us, ts, e), Legs(e.postings),
           NEW account, NEW commodity
    PROVE  /\ IsLog(us)
           /\ \A n \in 0..Len(ts) : BalanceIn(us, n, account, commodity) = BalanceIn(ts, n, account, commodity)
           /\ BalanceIn(us, Len(ts) + 1, account, commodity)
              = BalanceIn(ts, Len(ts), account, commodity) + MovedOn(e.postings, account, commodity)
<1>1. PICK l \in Nat : l = Len(ts)
    BY DEF IsLog
<1>2. IsLog(us) /\ Len(us) = l + 1
    BY <1>1 DEF IsLog, Extends
<1>3. PICK F, G : F = MovesOf(ts, account, commodity) /\ G = MovesOf(us, account, commodity)
    OBVIOUS
<1>4. /\ \A k \in 1..l : F[k] = MovedOn(ts[k].postings, account, commodity)
      /\ \A k \in 1..l + 1 : /\ G[k] = MovedOn(us[k].postings, account, commodity)
                             /\ G[k] \in Int
    <2>1. \A k \in 1..Len(ts) : F[k] = MovedOn(ts[k].postings, account, commodity)
        BY <1>3, MovesAre
    <2>2. \A k \in 1..Len(us) : /\ G[k] = MovedOn(us[k].postings, account, commodity)
                                /\ G[k] \in Int
        BY <1>2, <1>3, MovesAre
    <2> QED  BY <1>1, <1>2, <2>1, <2>2
<1>5. \A k \in 1..l : F[k] = G[k]
    BY <1>1, <1>4 DEF Extends
<1>6. ASSUME NEW n \in 0..l PROVE SumOver(G, 1..n) = SumOver(F, 1..n)
    <2>1. IsFiniteSet(1..n) /\ \A k \in 1..n : G[k] = F[k]
        BY <1>5, FS_Interval
    <2> QED  BY <2>1, SumSame
<1>7. SumOver(G, 1..l + 1) = SumOver(G, 1..l) + G[l + 1]
    <2>1. IsFiniteSet(1..l) /\ l + 1 \notin 1..l /\ 1..l + 1 = (1..l) \cup {l + 1}
        BY FS_Interval
    <2>2. \A k \in (1..l) \cup {l + 1} : G[k] \in Int
        BY <1>4
    <2>3. PICK D, x : D = 1..l /\ x = l + 1
        OBVIOUS
    <2>4. IsFiniteSet(D) /\ x \notin D /\ \A y \in D \cup {x} : G[y] \in Int
        BY <2>1, <2>2, <2>3
    <2>5. SumOver(G, D \cup {x}) = SumOver(G, D) + G[x]
        BY <2>4, SumGrows
    <2> QED  BY <2>1, <2>3, <2>5
<1>8. G[l + 1] = MovedOn(e.postings, account, commodity)
    BY <1>1, <1>4 DEF Extends
<1>9. l \in 0..l
    OBVIOUS
<1> QED  BY <1>1, <1>2, <1>3, <1>6, <1>7, <1>8, <1>9 DEF BalanceIn

-----------------------------------------------------------------------------
LedgerPostings == [account : {"position", "external_inventory", "cash", "external_settlement",
                              "rounding", "commission"},
                   commodity : Commodities, amount : Int]
FundingPostings(m) == {Post("cash", Currency, m), Post("external_settlement", Currency, -m)}
LedgerEntries == [kind : {"funding", "fill"}, subject : Fundings \cup Fills,
                  postings : SUBSET LedgerPostings, via : SUBSET Handoffs, requires : BOOLEAN]

\* What an entry t is when it is the n-th.
EntryFits(n, t) ==
    /\ t.kind = "funding" => /\ n = 1 /\ t.via = {} /\ t.subject \in Fundings
                             /\ t.subject % LedgerQuantum = 0
                             /\ t.postings = FundingPostings(t.subject)
    /\ t.kind = "fill" => /\ t.subject \in Fills /\ t.postings = FillPostings(t.subject)
                          /\ ~t.subject.ancestry => t.requires

\* The log, with the balances that are its sums.
LogOk ==
    /\ transactions \in Seq(LedgerEntries)
    /\ \A n \in 1..Len(transactions) :
          \E t \in LedgerEntries : transactions[n] = t /\ EntryFits(n, t)

BalancesOk ==
    /\ cash \in Int /\ rounding \in Int /\ positions \in [Instruments -> Int]
    /\ cash = BalanceIn(transactions, Len(transactions), "cash", Currency)
    /\ rounding = BalanceIn(transactions, Len(transactions), "rounding", Currency)
    /\ \A i \in Instruments :
          positions[i] = BalanceIn(transactions, Len(transactions), "position", i)
    /\ cash % LedgerQuantum = 0
    /\ Len(transactions) > 0 /\ transactions[1].kind = "funding" =>
          \A n \in 1..Len(transactions) : transactions[n].kind = "fill" =>
             BalanceIn(transactions, n, "cash", Currency) >= 0

\* Each index holds the number of the one entry of each of its keys.
FillIndexOk ==
    /\ \A k \in DOMAIN fillIndex :
          /\ fillIndex[k] \in 1..Len(transactions) /\ transactions[fillIndex[k]].kind = "fill"
          /\ transactions[fillIndex[k]].subject.id = k
    /\ \A n \in 1..Len(transactions) : transactions[n].kind = "fill" =>
          /\ transactions[n].subject.id \in DOMAIN fillIndex
          /\ fillIndex[transactions[n].subject.id] = n

FactIndexOk ==
    /\ \A k \in DOMAIN factIndex :
          /\ factIndex[k] \in 1..Len(transactions) /\ transactions[factIndex[k]].kind = "fill"
          /\ transactions[factIndex[k]].subject.fact = k
    /\ \A n \in 1..Len(transactions) : transactions[n].kind = "fill" =>
          /\ transactions[n].subject.fact \in DOMAIN factIndex
          /\ factIndex[transactions[n].subject.fact] = n

\* What is open is of a booked fill, and what was booked for reconciliation is open.
RefsOk ==
    /\ unresolved \subseteq DOMAIN fillIndex /\ DOMAIN openRefs \subseteq DOMAIN fillIndex
    /\ \A k \in DOMAIN openRefs : transactions[fillIndex[k]].subject = openRefs[k].fill
    /\ \A n \in 1..Len(transactions) : transactions[n].via # {} /\ transactions[n].requires =>
          transactions[n].subject.id \in DOMAIN openRefs
    /\ \A k \in DOMAIN handoffIndex : handoffIndex[k] \in 1..Len(transactions)
    /\ Len(transactions) = 0 => /\ cash = 0 /\ rounding = 0 /\ unresolved = {} /\ openRefs = <<>>
                                /\ \A i \in Instruments : positions[i] = 0

BooksInv == LogOk /\ BalancesOk /\ FillIndexOk /\ FactIndexOk /\ RefsOk

\* The outcome o of a handoff h, as told by the log ts.
OutcomeFits(ts, h, o) ==
    /\ o.handoff = h /\ (o.requires => o.halt)
    /\ \/ /\ o.action = "not_applicable" /\ h.fill = NoFill
          /\ o.before = o.after /\ o.failure = "none"
       \/ /\ o.action = "effect_committed" /\ h.fill # NoFill /\ o.failure = "none"
          /\ o.before \in Nat /\ o.after = o.before + 1 /\ o.after \in 1..Len(ts)
          /\ ts[o.after].subject = h.fill /\ ts[o.after].via = {h}
       \/ /\ o.action = "failed" /\ o.before = o.after /\ o.failure # "none" /\ o.halt

OutcomesOk ==
    /\ DOMAIN retained \subseteq Handoffs
    /\ \A h \in DOMAIN retained : OutcomeFits(transactions, h, retained[h])
    /\ \A n \in 1..Len(transactions) : \A h \in transactions[n].via :
          h \in DOMAIN retained /\ retained[h].action = "effect_committed" /\ retained[h].after = n

\* A published refresh gives leave only for a snapshot in which nothing is open.
RefreshFits(d, r) ==
    r.dispatch = d /\ (r.permitted => ~r.halted /\ DOMAIN r.snapshot.open = {})

RefreshesOk ==
    /\ \E Z : refreshes \in Seq(Z)
    /\ \A d \in 1..Len(refreshes) : RefreshFits(d, refreshes[d])

AnswerOk ==
    /\ ReplayIsRecognised /\ PermissionIsCurrent
    /\ ledgerAnswer.op \in {"none", "funding", "fill", "handoff", "refresh", "adjust"}

LedgerInv == BooksInv /\ OutcomesOk /\ RefreshesOk /\ AnswerOk

-----------------------------------------------------------------------------
LEMMA FundingSums ==
    ASSUME NEW m \in Fundings
    PROVE  /\ m \in Nat \ {0} /\ FundingPostings(m) \in SUBSET LedgerPostings
           /\ Legs(FundingPostings(m)) /\ PostingsBalance(FundingPostings(m))
           /\ MovedOn(FundingPostings(m), "cash", Currency) = m
           /\ MovedOn(FundingPostings(m), "rounding", Currency) = 0
           /\ \A i \in Instruments : MovedOn(FundingPostings(m), "position", i) = 0
           /\ \A p \in FundingPostings(m) : p.account # "rounding"
<1>1. m \in Nat \ {0}
    BY LedgerConstants
<1>2. PICK a, b : a = Post("cash", Currency, m) /\ b = Post("external_settlement", Currency, -m)
    OBVIOUS
<1>3. /\ a.account = "cash" /\ a.commodity = Currency /\ a.amount = m
      /\ b.account = "external_settlement" /\ b.commodity = Currency /\ b.amount = -m
      /\ a \in LedgerPostings /\ b \in LedgerPostings
    BY <1>1, <1>2 DEF Post, LedgerPostings, Commodities
<1>4. FundingPostings(m) = {a, b}
    BY <1>2 DEF FundingPostings
<1>5. a # b /\ {a, b} = Leg(a) \cup {b} /\ b \notin Leg(a)
    BY <1>1, <1>3 DEF Leg
<1>6. Legs(Leg(a)) /\ SumOf(Leg(a)) = m
    BY <1>1, <1>3, LegAlone
<1>7. Legs({a, b}) /\ SumOf({a, b}) = 0
    BY <1>1, <1>3, <1>5, <1>6, PostingAdds
<1>8. ASSUME NEW k \in Commodities PROVE SumOf({p \in {a, b} : p.commodity = k}) = 0
    <2>1. CASE k = Currency
        <3>1. {p \in {a, b} : p.commodity = k} = {a, b}
            BY <1>3, <2>1
        <3> QED  BY <1>7, <3>1
    <2>2. CASE k # Currency
        <3>1. {p \in {a, b} : p.commodity = k} = {}
            BY <1>3, <2>2
        <3> QED  BY <3>1, NoPostings
    <2> QED  BY <2>1, <2>2
<1>9. MovedOn({a, b}, "cash", Currency) = m
    <2>1. {p \in {a, b} : p.account = "cash" /\ p.commodity = Currency} = Leg(a)
        BY <1>1, <1>3 DEF Leg
    <2> QED  BY <1>6, <2>1 DEF MovedOn
<1>10. MovedOn({a, b}, "rounding", Currency) = 0
    <2>1. {p \in {a, b} : p.account = "rounding" /\ p.commodity = Currency} = {}
        BY <1>3
    <2> QED  BY <2>1, NoPostings DEF MovedOn
<1>11. ASSUME NEW i PROVE MovedOn({a, b}, "position", i) = 0
    <2>1. {p \in {a, b} : p.account = "position" /\ p.commodity = i} = {}
        BY <1>3
    <2> QED  BY <2>1, NoPostings DEF MovedOn
<1> QED  BY <1>1, <1>3, <1>4, <1>7, <1>8, <1>9, <1>10, <1>11 DEF PostingsBalance

LEMMA FillTyped == ASSUME NEW f \in Fills PROVE FillPostings(f) \in SUBSET LedgerPostings
<1>1. /\ f.side * f.quantity \in Int /\ -(f.side * f.quantity) \in Int /\ CashDelta(f) \in Int
      /\ f.side * f.notional \in Int /\ -(f.side * Residual(f.notional)) \in Int
      /\ f.fee \in Int /\ f.instrument \in Commodities /\ Currency \in Commodities
    BY FillAmounts DEF Commodities
<1>2. ASSUME NEW x \in {"position", "external_inventory", "cash", "external_settlement",
                        "rounding", "commission"}, NEW y \in Commodities, NEW z \in Int
      PROVE  Post(x, y, z) \in LedgerPostings
    BY DEF Post, LedgerPostings
<1>3. /\ Post("position", f.instrument, f.side * f.quantity) \in LedgerPostings
      /\ Post("external_inventory", f.instrument, -(f.side * f.quantity)) \in LedgerPostings
      /\ Post("cash", Currency, CashDelta(f)) \in LedgerPostings
      /\ Post("external_settlement", Currency, f.side * f.notional) \in LedgerPostings
      /\ Post("rounding", Currency, -(f.side * Residual(f.notional))) \in LedgerPostings
      /\ Post("commission", Currency, f.fee) \in LedgerPostings
    BY <1>1, <1>2
<1> QED  BY <1>3 DEF FillPostings

\* What the log says of its entries.
LEMMA EntriesAre ==
    ASSUME LogOk
    PROVE  /\ IsLog(transactions) /\ Len(transactions) \in Nat
           /\ \A n \in 1..Len(transactions) :
                 /\ transactions[n] \in LedgerEntries /\ EntryFits(n, transactions[n])
                 /\ PostingsBalance(transactions[n].postings) /\ TransactionValid(n)
                 /\ \A p \in transactions[n].postings : p.account = "rounding" =>
                       2 * p.amount \in (-LedgerQuantum)..LedgerQuantum
<1>1. Len(transactions) \in Nat
    BY DEF LogOk
<1>2. ASSUME NEW n \in 1..Len(transactions)
      PROVE  /\ transactions[n] \in LedgerEntries /\ EntryFits(n, transactions[n])
             /\ Legs(transactions[n].postings)
             /\ PostingsBalance(transactions[n].postings) /\ TransactionValid(n)
             /\ \A p \in transactions[n].postings : p.account = "rounding" =>
                   2 * p.amount \in (-LedgerQuantum)..LedgerQuantum
    <2>1. PICK t \in LedgerEntries : transactions[n] = t /\ EntryFits(n, t)
        BY DEF LogOk
    <2>2. t.kind \in {"funding", "fill"}
        BY DEF LedgerEntries
    <2>3. CASE t.kind = "funding"
        <3>1. t.subject \in Fundings /\ t.postings = FundingPostings(t.subject)
            BY <2>1, <2>3 DEF EntryFits
        <3>2. TransactionValid(n)
            BY <2>1, <2>3 DEF TransactionValid, IsFill
        <3> QED  BY <2>1, <3>1, <3>2, FundingSums
    <2>4. CASE t.kind = "fill"
        <3>1. /\ t.subject \in Fills /\ t.postings = FillPostings(t.subject)
              /\ (~t.subject.ancestry => t.requires)
            BY <2>1, <2>4 DEF EntryFits
        <3>2. TransactionValid(n)
            BY <2>1, <3>1, FillSums DEF TransactionValid
        <3> QED  BY <2>1, <3>1, <3>2, FillSums
    <2> QED  BY <2>2, <2>3, <2>4
<1> QED  BY <1>1, <1>2 DEF IsLog

-----------------------------------------------------------------------------
\* An entry is appended to the log.
LEMMA LogGrows ==
    ASSUME LogOk, NEW t \in LedgerEntries, EntryFits(Len(transactions) + 1, t),
           transactions' = Append(transactions, t)
    PROVE  /\ LogOk' /\ Extends(transactions', transactions, t) /\ IsLog(transactions)
           /\ Len(transactions) \in Nat
<1>1. IsLog(transactions) /\ Len(transactions) \in Nat /\ transactions \in Seq(LedgerEntries)
    BY EntriesAre DEF LogOk
<1>2. /\ Len(transactions') = Len(transactions) + 1
      /\ transactions'[Len(transactions) + 1] = t
      /\ \A n \in 1..Len(transactions) : transactions'[n] = transactions[n]
      /\ transactions' \in Seq(LedgerEntries)
    BY <1>1, AppendIs
<1>3. ASSUME NEW n \in 1..Len(transactions')
      PROVE  \E x \in LedgerEntries : transactions'[n] = x /\ EntryFits(n, x)
    <2>1. CASE n \in 1..Len(transactions)
        <3>1. PICK x \in LedgerEntries : transactions[n] = x /\ EntryFits(n, x)
            BY <2>1 DEF LogOk
        <3> QED  BY <1>2, <2>1, <3>1
    <2>2. CASE n = Len(transactions) + 1
        BY <1>2, <2>2
    <2> QED  BY <1>1, <1>2, <2>1, <2>2
<1> QED  BY <1>1, <1>2, <1>3 DEF LogOk, Extends

\* What BookFill does to the balances.
LEMMA BalancesGrow ==
    ASSUME LogOk, BalancesOk, NEW f \in Fills, NEW t \in LedgerEntries,
           t.kind = "fill", t.postings = FillPostings(f),
           Extends(transactions', transactions, t), MoveBalances(f),
           Funded => cash + CashDelta(f) >= 0
    PROVE  BalancesOk'
<1>1. PICK l \in Nat : l = Len(transactions)
    BY EntriesAre
<1>2. IsLog(transactions) /\ Legs(t.postings) /\ Len(transactions') = l + 1
    BY <1>1, EntriesAre, FillSums DEF Extends
<1>3. PICK c \in Int, r \in Int, x \in Int, y \in Int :
          /\ c = cash /\ r = rounding /\ x = CashDelta(f) /\ y = -(f.side * Residual(f.notional))
          /\ c % LedgerQuantum = 0 /\ x % LedgerQuantum = 0
    BY FillAmounts DEF BalancesOk
<1>4. cash' = c + x
    BY <1>3 DEF MoveBalances
<1>5. rounding' = r + y
    BY <1>3, FillAmounts DEF MoveBalances
<1>6. cash' % LedgerQuantum = 0
    BY <1>3, <1>4, MultiplesAdd, LedgerConstants
<1>7. ASSUME NEW account, NEW commodity
      PROVE  /\ \A n \in 0..l : BalanceIn(transactions', n, account, commodity)
                                = BalanceIn(transactions, n, account, commodity)
             /\ BalanceIn(transactions', l + 1, account, commodity)
                = BalanceIn(transactions, l, account, commodity) + MovedOn(t.postings, account, commodity)
    BY <1>1, <1>2, BalanceAdds
<1>8. cash' = BalanceIn(transactions', l + 1, "cash", Currency)
    <2>1. MovedOn(t.postings, "cash", Currency) = x
        BY <1>3, FillSums
    <2>2. c = BalanceIn(transactions, l, "cash", Currency)
        BY <1>1, <1>3 DEF BalancesOk
    <2> QED  BY <1>4, <1>7, <2>1, <2>2
<1>9. rounding' = BalanceIn(transactions', l + 1, "rounding", Currency)
    <2>1. MovedOn(t.postings, "rounding", Currency) = y
        BY <1>3, FillSums
    <2>2. r = BalanceIn(transactions, l, "rounding", Currency)
        BY <1>1, <1>3 DEF BalancesOk
    <2> QED  BY <1>5, <1>7, <2>1, <2>2
<1>10. positions' \in [Instruments -> Int]
       /\ \A i \in Instruments : positions'[i] = BalanceIn(transactions', l + 1, "position", i)
    <2>1. PICK q \in Int : q = f.side * f.quantity
        BY FillAmounts
    <2>2. positions \in [Instruments -> Int] /\ f.instrument \in Instruments
        BY FillAmounts DEF BalancesOk
    <2>3. positions' = [positions EXCEPT ![f.instrument] = @ + q]
        BY <2>1 DEF MoveBalances
    <2>4. positions' \in [Instruments -> Int]
        BY <2>2, <2>3
    <2>5. ASSUME NEW i \in Instruments
          PROVE  positions'[i] = BalanceIn(transactions', l + 1, "position", i)
        <3>1. PICK z \in Int : z = positions[i]
            BY <2>2
        <3>2. MovedOn(t.postings, "position", i) = IF i = f.instrument THEN q ELSE 0
            BY <2>1, FillSums
        <3>3. z = BalanceIn(transactions, l, "position", i)
            BY <1>1, <3>1 DEF BalancesOk
        <3>4. positions'[i] = z + (IF i = f.instrument THEN q ELSE 0)
            BY <2>2, <2>3, <3>1
        <3> QED  BY <1>7, <3>2, <3>3, <3>4
    <2> QED  BY <2>4, <2>5
<1>11. ASSUME transactions'[1].kind = "funding", NEW n \in 1..l + 1, transactions'[n].kind = "fill"
       PROVE  BalanceIn(transactions', n, "cash", Currency) >= 0
    <2>1. l > 0
        <3>1. l = 0 => transactions'[1] = t
            BY <1>1 DEF Extends
        <3> QED  BY <1>11, <3>1
    <2>2. transactions[1].kind = "funding"
        BY <1>1, <1>11, <2>1 DEF Extends
    <2>3. CASE n \in 1..l
        <3>1. transactions[n].kind = "fill"
            BY <1>1, <1>11, <2>3 DEF Extends
        <3>2. BalanceIn(transactions, n, "cash", Currency) >= 0
            BY <1>1, <2>1, <2>2, <2>3, <3>1 DEF BalancesOk
        <3>3. n \in 0..l
            BY <2>3
        <3> QED  BY <1>7, <3>2, <3>3
    <2>4. CASE n = l + 1
        <3>1. Funded
            BY <1>1, <2>1, <2>2 DEF Funded, Version
        <3> QED  BY <1>3, <1>4, <1>8, <2>4, <3>1
    <2> QED  BY <2>3, <2>4
<1>12. cash' \in Int /\ rounding' \in Int
    BY <1>3, <1>4, <1>5
<1>13. Len(transactions') = l + 1
    BY <1>2
<1>14. Len(transactions') > 0 /\ transactions'[1].kind = "funding" =>
          \A n \in 1..Len(transactions') : transactions'[n].kind = "fill" =>
             BalanceIn(transactions', n, "cash", Currency) >= 0
    BY <1>11, <1>13
<1> QED  BY <1>6, <1>8, <1>9, <1>10, <1>12, <1>13, <1>14 DEF BalancesOk
\* The one commit of a fill keeps the books, when the indexes do not know
\* the fill and nothing refuses it.
MayBook(f, requires, via) ==
    /\ f \in Fills /\ requires \in BOOLEAN /\ via \in SUBSET Handoffs
    /\ f.id \notin DOMAIN fillIndex /\ f.fact \notin DOMAIN factIndex
    /\ FillFailure(f) = "none" /\ (~f.ancestry => requires)
    /\ BookFill(f, requires, via)

LEMMA BookKeeps ==
    ASSUME BooksInv, NEW f, NEW requires, NEW via, MayBook(f, requires, via)
    PROVE  /\ BooksInv' /\ Len(transactions) \in Nat
           /\ \E t : /\ Extends(transactions', transactions, t) /\ t.kind = "fill"
                     /\ t.subject = f /\ t.via = via
<1>0. /\ f \in Fills /\ requires \in BOOLEAN /\ via \in SUBSET Handoffs
      /\ f.id \notin DOMAIN fillIndex /\ f.fact \notin DOMAIN factIndex
      /\ FillFailure(f) = "none" /\ (~f.ancestry => requires)
      /\ BookFill(f, requires, via)
    BY DEF MayBook
<1> USE <1>0
<1>1. PICK t : t = Entry("fill", f, FillPostings(f), via, requires)
    OBVIOUS
<1>2. /\ t.kind = "fill" /\ t.subject = f /\ t.postings = FillPostings(f) /\ t.via = via
      /\ t.requires = requires
    BY <1>1 DEF Entry
<1>3. t \in LedgerEntries
    <2>1. FillPostings(f) \in SUBSET LedgerPostings
        BY FillTyped
    <2> QED  BY <1>1, <2>1 DEF Entry, LedgerEntries
<1>4. EntryFits(Len(transactions) + 1, t)
    BY <1>2 DEF EntryFits
<1>5. transactions' = Append(transactions, t)
    BY <1>1 DEF BookFill
<1>6. LogOk /\ BalancesOk /\ FillIndexOk /\ FactIndexOk /\ RefsOk
    BY DEF BooksInv
<1>7. /\ LogOk' /\ Extends(transactions', transactions, t) /\ Len(transactions) \in Nat
    BY <1>3, <1>4, <1>5, <1>6, LogGrows
<1>8. PICK l \in Nat : l = Len(transactions)
    BY <1>7
<1>9. /\ Len(transactions') = l + 1 /\ transactions'[l + 1] = t
      /\ \A n \in 1..l : transactions'[n] = transactions[n]
    BY <1>7, <1>8 DEF Extends
<1>10. BalancesOk'
    <2>1. MoveBalances(f)
        BY DEF BookFill
    <2>2. Funded => cash + CashDelta(f) >= 0
        <3>1. ~(Funded /\ cash + CashDelta(f) < 0)
            BY DEF FillFailure
        <3>2. cash \in Int /\ CashDelta(f) \in Int
            BY <1>6, FillAmounts DEF BalancesOk
        <3> QED  BY <3>1, <3>2
    <2> QED  BY <1>2, <1>3, <1>6, <1>7, <2>1, <2>2, BalancesGrow
<1>11. /\ DOMAIN fillIndex' = DOMAIN fillIndex \cup {f.id} /\ fillIndex'[f.id] = l + 1
       /\ \A k \in DOMAIN fillIndex : fillIndex'[k] = fillIndex[k]
    <2>1. fillIndex' = Indexed(fillIndex, {f.id}, l + 1)
        BY <1>8 DEF BookFill, NextEntry, Version
    <2> QED  BY <2>1 DEF Indexed
<1>12. /\ DOMAIN factIndex' = DOMAIN factIndex \cup {f.fact} /\ factIndex'[f.fact] = l + 1
       /\ \A k \in DOMAIN factIndex : factIndex'[k] = factIndex[k]
    <2>1. factIndex' = Indexed(factIndex, {f.fact}, l + 1)
        BY <1>8 DEF BookFill, NextEntry, Version
    <2> QED  BY <2>1 DEF Indexed
<1>13. FillIndexOk'
    <2>1. ASSUME NEW k \in DOMAIN fillIndex'
          PROVE  /\ fillIndex'[k] \in 1..l + 1 /\ transactions'[fillIndex'[k]].kind = "fill"
                 /\ transactions'[fillIndex'[k]].subject.id = k
        <3>1. CASE k \in DOMAIN fillIndex
            <4>1. /\ fillIndex[k] \in 1..l /\ transactions[fillIndex[k]].kind = "fill"
                  /\ transactions[fillIndex[k]].subject.id = k
                BY <1>6, <1>8, <3>1 DEF FillIndexOk
            <4> QED  BY <1>9, <1>11, <3>1, <4>1
        <3>2. CASE k = f.id
            BY <1>2, <1>9, <1>11, <3>2
        <3> QED  BY <1>11, <2>1, <3>1, <3>2
    <2>2. ASSUME NEW n \in 1..l + 1, transactions'[n].kind = "fill"
          PROVE  /\ transactions'[n].subject.id \in DOMAIN fillIndex'
                 /\ fillIndex'[transactions'[n].subject.id] = n
        <3>1. CASE n \in 1..l
            <4>1. transactions'[n] = transactions[n]
                BY <1>9, <3>1
            <4>2. /\ transactions[n].subject.id \in DOMAIN fillIndex
                  /\ fillIndex[transactions[n].subject.id] = n
                BY <1>6, <1>8, <2>2, <3>1, <4>1 DEF FillIndexOk
            <4> QED  BY <1>11, <4>1, <4>2
        <3>2. CASE n = l + 1
            BY <1>2, <1>9, <1>11, <3>2
        <3> QED  BY <2>2, <3>1, <3>2
    <2> QED  BY <1>9, <2>1, <2>2 DEF FillIndexOk
<1>14. FactIndexOk'
    <2>1. ASSUME NEW k \in DOMAIN factIndex'
          PROVE  /\ factIndex'[k] \in 1..l + 1 /\ transactions'[factIndex'[k]].kind = "fill"
                 /\ transactions'[factIndex'[k]].subject.fact = k
        <3>1. CASE k \in DOMAIN factIndex
            <4>1. /\ factIndex[k] \in 1..l /\ transactions[factIndex[k]].kind = "fill"
                  /\ transactions[factIndex[k]].subject.fact = k
                BY <1>6, <1>8, <3>1 DEF FactIndexOk
            <4> QED  BY <1>9, <1>12, <3>1, <4>1
        <3>2. CASE k = f.fact
            BY <1>2, <1>9, <1>12, <3>2
        <3> QED  BY <1>12, <2>1, <3>1, <3>2
    <2>2. ASSUME NEW n \in 1..l + 1, transactions'[n].kind = "fill"
          PROVE  /\ transactions'[n].subject.fact \in DOMAIN factIndex'
                 /\ factIndex'[transactions'[n].subject.fact] = n
        <3>1. CASE n \in 1..l
            <4>1. transactions'[n] = transactions[n]
                BY <1>9, <3>1
            <4>2. /\ transactions[n].subject.fact \in DOMAIN factIndex
                  /\ factIndex[transactions[n].subject.fact] = n
                BY <1>6, <1>8, <2>2, <3>1, <4>1 DEF FactIndexOk
            <4> QED  BY <1>12, <4>1, <4>2
        <3>2. CASE n = l + 1
            BY <1>2, <1>9, <1>12, <3>2
        <3> QED  BY <2>2, <3>1, <3>2
    <2> QED  BY <1>9, <2>1, <2>2 DEF FactIndexOk
<1>15. RefsOk'
    <2>1. unresolved \subseteq DOMAIN fillIndex /\ DOMAIN openRefs \subseteq DOMAIN fillIndex
        BY <1>6 DEF RefsOk
    <2>2. unresolved' \subseteq DOMAIN fillIndex'
        <3>1. unresolved' \subseteq unresolved \cup {f.id}
            BY DEF BookFill
        <3> QED  BY <1>11, <2>1, <3>1
    <2>3. f.id \notin DOMAIN openRefs
        BY <2>1
    <2>4. \/ openRefs' = openRefs /\ ~OpensReference(f, requires, via)
          \/ /\ DOMAIN openRefs' = DOMAIN openRefs \cup {f.id} /\ openRefs'[f.id].fill = f
             /\ \A k \in DOMAIN openRefs : openRefs'[k] = openRefs[k]
        <3>1. CASE OpensReference(f, requires, via)
            <4>1. PICK z : z = [fill |-> f, via |-> via]
                OBVIOUS
            <4>2. openRefs' = Indexed(openRefs, {f.id}, z)
                BY <3>1, <4>1 DEF BookFill
            <4>3. z.fill = f
                BY <4>1
            <4>4. /\ DOMAIN openRefs' = DOMAIN openRefs \cup {f.id} /\ openRefs'[f.id] = z
                  /\ \A k \in DOMAIN openRefs : openRefs'[k] = openRefs[k]
                BY <2>3, <4>2 DEF Indexed
            <4> QED  BY <4>3, <4>4
        <3>2. CASE ~OpensReference(f, requires, via)
            BY <3>2 DEF BookFill
        <3> QED  BY <3>1, <3>2
    <2>5. DOMAIN openRefs' \subseteq DOMAIN fillIndex'
        BY <1>11, <2>1, <2>4
    <2>6. ASSUME NEW k \in DOMAIN openRefs'
          PROVE  transactions'[fillIndex'[k]].subject = openRefs'[k].fill
        <3>1. CASE k \in DOMAIN openRefs
            <4>1. k \in DOMAIN fillIndex /\ transactions[fillIndex[k]].subject = openRefs[k].fill
                BY <1>6, <2>1, <3>1 DEF RefsOk
            <4>2. fillIndex[k] \in 1..l
                BY <1>6, <1>8, <4>1 DEF FillIndexOk
            <4> QED  BY <1>9, <1>11, <2>4, <3>1, <4>1, <4>2
        <3>2. CASE k \notin DOMAIN openRefs
            <4>1. k = f.id /\ openRefs'[k].fill = f
                BY <2>4, <2>6, <3>2
            <4> QED  BY <1>2, <1>9, <1>11, <4>1
        <3> QED  BY <3>1, <3>2
    <2>7. ASSUME NEW n \in 1..l + 1, transactions'[n].via # {}, transactions'[n].requires
          PROVE  transactions'[n].subject.id \in DOMAIN openRefs'
        <3>1. CASE n \in 1..l
            <4>1. transactions'[n] = transactions[n]
                BY <1>9, <3>1
            <4>2. transactions[n].subject.id \in DOMAIN openRefs
                BY <1>6, <1>8, <2>7, <3>1, <4>1 DEF RefsOk
            <4> QED  BY <2>4, <4>1, <4>2
        <3>2. CASE n = l + 1
            <4>1. OpensReference(f, requires, via)
                BY <1>2, <1>9, <2>7, <3>2 DEF OpensReference
            <4> QED  BY <1>2, <1>9, <2>4, <3>2, <4>1
        <3> QED  BY <2>7, <3>1, <3>2
    <2>8. \A k \in DOMAIN handoffIndex' : handoffIndex'[k] \in 1..l + 1
        <3>1. handoffIndex' = Indexed(handoffIndex, via, l + 1)
            BY <1>8 DEF BookFill, NextEntry, Version
        <3>2. \A k \in DOMAIN handoffIndex : handoffIndex[k] \in 1..l
            BY <1>6, <1>8 DEF RefsOk
        <3>3. /\ DOMAIN handoffIndex' = DOMAIN handoffIndex \cup via
              /\ \A k \in via : handoffIndex'[k] = l + 1
              /\ \A k \in DOMAIN handoffIndex \ via : handoffIndex'[k] = handoffIndex[k]
            BY <3>1 DEF Indexed
        <3> QED  BY <3>2, <3>3
    <2>9. Len(transactions') # 0
        BY <1>9
    <2> QED  BY <1>9, <2>2, <2>5, <2>6, <2>7, <2>8, <2>9 DEF RefsOk
<1> QED  BY <1>2, <1>7, <1>10, <1>13, <1>14, <1>15 DEF BooksInv
\* Funding writes the first entry.
LEMMA FundKeeps ==
    ASSUME BooksInv, NEW m \in Fundings, m % LedgerQuantum = 0, Version = 0,
           transactions' = <<Entry("funding", m,
                                   {Post("cash", Currency, m),
                                    Post("external_settlement", Currency, -m)}, {}, FALSE)>>,
           cash' = m,
           UNCHANGED <<positions, rounding, unresolved, openRefs, fillIndex, factIndex, handoffIndex>>
    PROVE  /\ BooksInv' /\ Len(transactions) = 0 /\ Len(transactions') = 1
           /\ transactions'[1].kind = "funding" /\ transactions'[1].via = {}
<1>1. PICK t : t = Entry("funding", m, FundingPostings(m), {}, FALSE)
    OBVIOUS
<1>2. /\ t.kind = "funding" /\ t.subject = m /\ t.postings = FundingPostings(m) /\ t.via = {}
      /\ t.requires = FALSE
    BY <1>1 DEF Entry
<1>3. t \in LedgerEntries
    <2>1. FundingPostings(m) \in SUBSET LedgerPostings
        BY FundingSums
    <2> QED  BY <1>1, <2>1 DEF Entry, LedgerEntries
<1>4. LogOk /\ BalancesOk /\ FillIndexOk /\ FactIndexOk /\ RefsOk
    BY DEF BooksInv
<1>5. Len(transactions) = 0 /\ transactions \in Seq(LedgerEntries)
    BY <1>4 DEF Version, LogOk
<1>6. transactions' = <<t>>
    BY <1>1 DEF FundingPostings
<1>7. transactions' = Append(transactions, t)
    <2>1. transactions = <<>>
        BY <1>5
    <2>2. Append(<<>>, t) = <<t>>
        OBVIOUS
    <2> QED  BY <1>6, <2>1, <2>2
<1>8. EntryFits(Len(transactions) + 1, t)
    BY <1>2, <1>5 DEF EntryFits
<1>9. LogOk' /\ Extends(transactions', transactions, t) /\ IsLog(transactions)
    BY <1>3, <1>4, <1>7, <1>8, LogGrows
<1>10. Len(transactions') = 1 /\ transactions'[1] = t
    BY <1>5, <1>9 DEF Extends
<1>19. \A n \in 1..Len(transactions') : n = 1 /\ transactions'[n] = t
    <2>1. 1..Len(transactions') = {1}
        BY <1>10
    <2> QED  BY <1>10, <2>1
<1>11. PICK l \in Nat : l = Len(transactions) /\ l = 0
    BY <1>5
<1>12. /\ cash = 0 /\ rounding = 0 /\ unresolved = {} /\ openRefs = <<>>
       /\ \A i \in Instruments : positions[i] = 0
    BY <1>4, <1>5 DEF RefsOk
<1>13. DOMAIN fillIndex = {} /\ DOMAIN factIndex = {} /\ DOMAIN handoffIndex = {}
    <2>1. \A x : x \notin 1..Len(transactions)
        BY <1>5
    <2>2. DOMAIN fillIndex = {}
        BY <1>4, <2>1 DEF FillIndexOk
    <2>3. DOMAIN factIndex = {}
        BY <1>4, <2>1 DEF FactIndexOk
    <2>4. DOMAIN handoffIndex = {}
        BY <1>4, <2>1 DEF RefsOk
    <2> QED  BY <2>2, <2>3, <2>4
<1>14. ASSUME NEW account, NEW commodity
       PROVE  BalanceIn(transactions', l + 1, account, commodity)
              = BalanceIn(transactions, l, account, commodity)
                + MovedOn(FundingPostings(m), account, commodity)
    <2>1. Legs(t.postings)
        BY <1>2, FundingSums
    <2>2. BalanceIn(transactions', Len(transactions) + 1, account, commodity)
          = BalanceIn(transactions, Len(transactions), account, commodity)
            + MovedOn(t.postings, account, commodity)
        BY <1>9, <2>1, BalanceAdds
    <2> QED  BY <1>2, <1>11, <2>2
<1>15. BalancesOk'
    <2>1. BalanceIn(transactions', 1, "cash", Currency) = m
        <3>1. BalanceIn(transactions, l, "cash", Currency) = 0
            BY <1>4, <1>11, <1>12 DEF BalancesOk
        <3>2. MovedOn(FundingPostings(m), "cash", Currency) = m /\ m \in Nat
            BY FundingSums
        <3>3. BalanceIn(transactions', l + 1, "cash", Currency)
              = BalanceIn(transactions, l, "cash", Currency)
                + MovedOn(FundingPostings(m), "cash", Currency)
            BY <1>14
        <3>4. l + 1 = 1 /\ 0 + m = m
            BY <1>11, <3>2
        <3> QED  BY <3>1, <3>2, <3>3, <3>4
    <2>2. BalanceIn(transactions', 1, "rounding", Currency) = 0
        <3>1. BalanceIn(transactions, l, "rounding", Currency) = 0
            BY <1>4, <1>11, <1>12 DEF BalancesOk
        <3>2. MovedOn(FundingPostings(m), "rounding", Currency) = 0
            BY FundingSums
        <3>3. BalanceIn(transactions', l + 1, "rounding", Currency)
              = BalanceIn(transactions, l, "rounding", Currency)
                + MovedOn(FundingPostings(m), "rounding", Currency)
            BY <1>14
        <3>4. l + 1 = 1
            BY <1>11
        <3> QED  BY <3>1, <3>2, <3>3, <3>4
    <2>3. ASSUME NEW i \in Instruments PROVE BalanceIn(transactions', 1, "position", i) = 0
        <3>1. BalanceIn(transactions, l, "position", i) = 0
            BY <1>4, <1>11, <1>12 DEF BalancesOk
        <3>2. MovedOn(FundingPostings(m), "position", i) = 0
            BY FundingSums
        <3>3. BalanceIn(transactions', l + 1, "position", i)
              = BalanceIn(transactions, l, "position", i)
                + MovedOn(FundingPostings(m), "position", i)
            BY <1>14
        <3>4. l + 1 = 1
            BY <1>11
        <3> QED  BY <3>1, <3>2, <3>3, <3>4
    <2>4. m \in Int /\ rounding' = 0 /\ positions' = positions
        BY <1>12, FundingSums
    <2>5. positions \in [Instruments -> Int]
        BY <1>4 DEF BalancesOk
    <2>6. \A n \in 1..Len(transactions') : transactions'[n].kind # "fill"
        BY <1>2, <1>19
    <2>7. transactions'[1].kind = "funding" /\ m % LedgerQuantum = 0 /\ cash' = m
        BY <1>2, <1>10
    <2>8. \A n \in 1..1 : transactions'[n].kind # "fill"
        BY <1>10, <2>6
    <2>9. \A i \in Instruments : positions'[i] = BalanceIn(transactions', Len(transactions'), "position", i)
        BY <1>10, <1>12, <2>3, <2>4
    <2>10. positions' \in [Instruments -> Int] /\ rounding' \in Int /\ cash' \in Int
        BY <2>4, <2>5, <2>7
    <2>11. /\ cash' = BalanceIn(transactions', Len(transactions'), "cash", Currency)
           /\ rounding' = BalanceIn(transactions', Len(transactions'), "rounding", Currency)
        BY <1>10, <2>1, <2>2, <2>4, <2>7
    <2>12. cash' % LedgerQuantum = 0
        BY <2>7
    <2> QED  BY <2>6, <2>9, <2>10, <2>11, <2>12 DEF BalancesOk
<1>16. FillIndexOk'
    BY <1>2, <1>13, <1>19 DEF FillIndexOk
<1>17. FactIndexOk'
    BY <1>2, <1>13, <1>19 DEF FactIndexOk
<1>18. RefsOk'
    <2>1. DOMAIN openRefs = {}
        BY <1>4, <1>13 DEF RefsOk
    <2>2. /\ unresolved' = {} /\ DOMAIN openRefs' = {} /\ DOMAIN fillIndex' = {}
          /\ DOMAIN handoffIndex' = {}
        BY <1>12, <1>13, <2>1
    <2>3. \A n \in 1..Len(transactions') : ~(transactions'[n].via # {} /\ transactions'[n].requires)
        BY <1>2, <1>19
    <2>4. Len(transactions') # 0
        BY <1>10
    <2> QED  BY <2>2, <2>3, <2>4 DEF RefsOk
<1> QED  BY <1>2, <1>5, <1>9, <1>10, <1>15, <1>16, <1>17, <1>18 DEF BooksInv

LEMMA BooksStand == ASSUME BooksInv, UNCHANGED ledgerVars PROVE BooksInv'
<1>0. /\ transactions' = transactions /\ cash' = cash /\ positions' = positions
      /\ rounding' = rounding /\ unresolved' = unresolved /\ openRefs' = openRefs
      /\ fillIndex' = fillIndex /\ factIndex' = factIndex /\ handoffIndex' = handoffIndex
    BY DEF ledgerVars
<1>1. LogOk'
    BY <1>0 DEF BooksInv, LogOk
<1>2. BalancesOk'
    BY <1>0 DEF BooksInv, BalancesOk
<1>3. FillIndexOk'
    BY <1>0 DEF BooksInv, FillIndexOk
<1>4. FactIndexOk'
    BY <1>0 DEF BooksInv, FactIndexOk
<1>5. RefsOk'
    BY <1>0 DEF BooksInv, RefsOk
<1> QED  BY <1>1, <1>2, <1>3, <1>4, <1>5 DEF BooksInv

\* Outcomes stand while the log only grows by entries that no handoff brought.
LEMMA TalesStand ==
    ASSUME OutcomesOk, retained' = retained, Len(transactions) \in Nat,
           \/ transactions' = transactions
           \/ \E t : Extends(transactions', transactions, t) /\ t.via = {}
    PROVE  OutcomesOk'
<1>1. PICK l \in Nat : l = Len(transactions)
    OBVIOUS
<1>2. /\ Len(transactions') \in l..l + 1
      /\ \A n \in 1..l : transactions'[n] = transactions[n]
      /\ \A n \in 1..Len(transactions') : n \notin 1..l => transactions'[n].via = {}
    BY <1>1 DEF Extends
<1>3. ASSUME NEW h \in DOMAIN retained PROVE OutcomeFits(transactions', h, retained[h])
    <2>1. OutcomeFits(transactions, h, retained[h])
        BY DEF OutcomesOk
    <2> QED  BY <1>1, <1>2, <2>1 DEF OutcomeFits
<1>4. ASSUME NEW n \in 1..Len(transactions'), NEW h \in transactions'[n].via
      PROVE  h \in DOMAIN retained /\ retained[h].action = "effect_committed" /\ retained[h].after = n
    <2>1. n \in 1..l /\ transactions'[n] = transactions[n]
        BY <1>2
    <2> QED  BY <1>1, <2>1 DEF OutcomesOk
<1> QED  BY <1>3, <1>4 DEF OutcomesOk
\* A handoff that had no outcome gets one.
LEMMA RetainKeeps ==
    ASSUME OutcomesOk, Len(transactions) \in Nat, NEW h \in Handoffs, h \notin DOMAIN retained,
           NEW o, Retain(h, o), OutcomeFits(transactions', h, o),
           \/ transactions' = transactions
           \/ /\ \E t : Extends(transactions', transactions, t) /\ t.via = {h}
              /\ o.action = "effect_committed" /\ o.after = Len(transactions) + 1
    PROVE  OutcomesOk'
<1>1. PICK l \in Nat : l = Len(transactions)
    OBVIOUS
<1>2. /\ Len(transactions') \in l..l + 1
      /\ \A n \in 1..l : transactions'[n] = transactions[n]
      /\ \A n \in 1..Len(transactions') : n \notin 1..l =>
            n = l + 1 /\ transactions'[n].via = {h} /\ o.action = "effect_committed" /\ o.after = n
    BY <1>1 DEF Extends
<1>3. /\ DOMAIN retained' = DOMAIN retained \cup {h} /\ retained'[h] = o
      /\ \A k \in DOMAIN retained : retained'[k] = retained[k]
    <2>1. retained' = Indexed(retained, {h}, o)
        BY DEF Retain
    <2> QED  BY <2>1 DEF Indexed
<1>4. ASSUME NEW k \in DOMAIN retained' PROVE OutcomeFits(transactions', k, retained'[k])
    <2>1. CASE k \in DOMAIN retained
        <3>1. OutcomeFits(transactions, k, retained[k]) /\ retained'[k] = retained[k]
            BY <1>3, <2>1 DEF OutcomesOk
        <3> QED  BY <1>1, <1>2, <3>1 DEF OutcomeFits
    <2>2. CASE k = h
        BY <1>3, <2>2
    <2> QED  BY <1>3, <1>4, <2>1, <2>2
<1>5. ASSUME NEW n \in 1..Len(transactions'), NEW k \in transactions'[n].via
      PROVE  k \in DOMAIN retained' /\ retained'[k].action = "effect_committed" /\ retained'[k].after = n
    <2>1. CASE n \in 1..l
        <3>1. k \in transactions[n].via
            BY <1>2, <1>5, <2>1
        <3>2. k \in DOMAIN retained /\ retained[k].action = "effect_committed" /\ retained[k].after = n
            BY <1>1, <2>1, <3>1 DEF OutcomesOk
        <3> QED  BY <1>3, <3>2
    <2>2. CASE n \notin 1..l
        <3>1. k = h /\ o.action = "effect_committed" /\ o.after = n
            BY <1>2, <1>5, <2>2
        <3> QED  BY <1>3, <3>1
    <2> QED  BY <2>1, <2>2
<1>6. DOMAIN retained' \subseteq Handoffs
    BY <1>3 DEF OutcomesOk
<1> QED  BY <1>4, <1>5, <1>6 DEF OutcomesOk

LEMMA RefreshesStand == ASSUME RefreshesOk, UNCHANGED refreshes PROVE RefreshesOk'
BY DEF RefreshesOk

LEMMA AnswersOther ==
    ASSUME ledgerAnswer'.op \in {"none", "funding", "handoff"} PROVE AnswerOk'
BY DEF AnswerOk, ReplayIsRecognised, PermissionIsCurrent

\* What the indexes say of a fill is what the log says of it.
LEMMA ReplayIs ==
    ASSUME BooksInv, NEW f \in Fills
    PROVE  /\ ClassifyReplay(f) \notin {"index_inconsistent", "applied"}
           /\ ClassifyReplay(f) = "new" =>
                 f.id \notin DOMAIN fillIndex /\ f.fact \notin DOMAIN factIndex
           /\ ClassifyReplay(f) = "duplicate" =>
                 \E n \in 1..Len(transactions) :
                    transactions[n].kind = "fill" /\ transactions[n].subject = f
           /\ ClassifyReplay(f) # "duplicate" =>
                 \A n \in 1..Len(transactions) :
                    transactions[n].kind = "fill" => transactions[n].subject # f
<1>1. FillIndexOk /\ FactIndexOk
    BY DEF BooksInv
<1>2. ASSUME NEW n \in 1..Len(transactions), transactions[n].kind = "fill", transactions[n].subject = f
      PROVE  /\ f.id \in DOMAIN fillIndex /\ fillIndex[f.id] = n
             /\ f.fact \in DOMAIN factIndex /\ factIndex[f.fact] = n
    BY <1>1, <1>2 DEF FillIndexOk, FactIndexOk
<1>3. /\ f.id \in DOMAIN fillIndex => /\ fillIndex[f.id] \in 1..Len(transactions)
                                      /\ transactions[fillIndex[f.id]].kind = "fill"
      /\ f.fact \in DOMAIN factIndex => /\ factIndex[f.fact] \in 1..Len(transactions)
                                        /\ transactions[factIndex[f.fact]].kind = "fill"
    BY <1>1 DEF FillIndexOk, FactIndexOk
<1>4. CASE f.id \notin DOMAIN fillIndex /\ f.fact \notin DOMAIN factIndex
    BY <1>2, <1>4 DEF ClassifyReplay
<1>5. CASE f.id \in DOMAIN fillIndex /\ f.fact \notin DOMAIN factIndex
    BY <1>2, <1>3, <1>5 DEF ClassifyReplay
<1>6. CASE f.id \notin DOMAIN fillIndex /\ f.fact \in DOMAIN factIndex
    BY <1>2, <1>3, <1>6 DEF ClassifyReplay
<1>7. CASE f.id \in DOMAIN fillIndex /\ f.fact \in DOMAIN factIndex
    BY <1>2, <1>3, <1>7 DEF ClassifyReplay
<1> QED  BY <1>4, <1>5, <1>6, <1>7

LEMMA FundingStep ==
    ASSUME LedgerInv, NEW m \in Fundings, ApplyInitialFunding(m) PROVE LedgerInv'
<1>1. BooksInv /\ OutcomesOk /\ RefreshesOk /\ Len(transactions) \in Nat
    BY EntriesAre DEF LedgerInv, BooksInv
<1>2. retained' = retained /\ refreshes' = refreshes /\ ledgerAnswer'.op = "funding"
    <2>1. UNCHANGED <<retained, refreshes>>
        BY Zenon DEF ApplyInitialFunding
    <2>2. \/ ledgerAnswer' = [op |-> "funding", code |-> "applied", version |-> 1]
          \/ ledgerAnswer' = IF Funded /\ transactions[1].subject = m
                              THEN [op |-> "funding", code |-> "applied", version |-> 1]
                              ELSE [op |-> "funding", code |-> "conflict", version |-> Version]
        BY Zenon DEF ApplyInitialFunding
    <2> QED  BY <2>1, <2>2
<1>3. RefreshesOk' /\ AnswerOk'
    BY <1>1, <1>2, RefreshesStand, AnswersOther
<1>4. CASE Version = 0
    <2>1. /\ m % LedgerQuantum = 0 /\ cash' = m
          /\ transactions' = <<Entry("funding", m,
                                   {Post("cash", Currency, m),
                                    Post("external_settlement", Currency, -m)}, {}, FALSE)>>
          /\ UNCHANGED <<positions, rounding, unresolved, openRefs, fillIndex, factIndex, handoffIndex>>
        <3>1. ~(Version > 0)
            BY <1>4
        <3> QED  BY <3>1, Zenon DEF ApplyInitialFunding
    <2>2. /\ BooksInv' /\ Len(transactions) = 0 /\ Len(transactions') = 1
          /\ transactions'[1].kind = "funding" /\ transactions'[1].via = {}
        BY <1>1, <1>4, <2>1, FundKeeps
    <2>3. Extends(transactions', transactions, transactions'[1])
        BY <2>2 DEF Extends
    <2>4. OutcomesOk'
        BY <1>1, <1>2, <2>2, <2>3, TalesStand
    <2> QED  BY <1>3, <2>2, <2>4 DEF LedgerInv
<1>5. CASE Version # 0
    <2>1. UNCHANGED ledgerVars
        BY <1>5 DEF ApplyInitialFunding
    <2>2. BooksInv' /\ transactions' = transactions
        BY <1>1, <2>1, BooksStand DEF ledgerVars
    <2>3. OutcomesOk'
        BY <1>1, <1>2, <2>2, TalesStand
    <2> QED  BY <1>3, <2>2, <2>3 DEF LedgerInv
<1> QED  BY <1>4, <1>5

LEMMA FillStep ==
    ASSUME LedgerInv, NEW f \in Fills, ApplyFill(f) PROVE LedgerInv'
<1>1. BooksInv /\ OutcomesOk /\ RefreshesOk /\ Len(transactions) \in Nat
    BY EntriesAre DEF LedgerInv, BooksInv
<1>2. retained' = retained /\ refreshes' = refreshes
    BY DEF ApplyFill
<1>3. RefreshesOk'
    BY <1>1, <1>2, RefreshesStand
<1>4. PICK kind : kind = ClassifyReplay(f)
    OBVIOUS
<1>5. PICK failure : failure = FillFailure(f)
    OBVIOUS
<1>6. failure \notin {"index_inconsistent", "duplicate", "applied"}
    BY <1>5 DEF FillFailure
<1>7. ASSUME NEW code, ledgerAnswer' = FillAnswer(f, code), UNCHANGED ledgerVars,
             code # "index_inconsistent", code # "applied",
             code = "duplicate" <=> kind = "duplicate"
      PROVE  LedgerInv'
    <2>1. BooksInv' /\ transactions' = transactions
        BY <1>1, <1>7, BooksStand DEF ledgerVars
    <2>2. OutcomesOk'
        BY <1>1, <1>2, <2>1, TalesStand
    <2>3. ledgerAnswer'.op = "fill" /\ ledgerAnswer'.fill = f /\ ledgerAnswer'.code = code
        BY <1>7 DEF FillAnswer
    <2>4. /\ code = "duplicate" =>
                \E n \in 1..Len(transactions) :
                   transactions[n].kind = "fill" /\ transactions[n].subject = f
          /\ code # "duplicate" =>
                \A n \in 1..Len(transactions) :
                   transactions[n].kind = "fill" => transactions[n].subject # f
        BY <1>1, <1>4, <1>7, ReplayIs
    <2>5. ReplayIsRecognised'
        BY <1>7, <2>1, <2>3, <2>4 DEF ReplayIsRecognised, IsFill, Version
    <2>6. AnswerOk'
        BY <2>3, <2>5 DEF AnswerOk, PermissionIsCurrent
    <2> QED  BY <1>3, <2>1, <2>2, <2>6 DEF LedgerInv
<1>8. CASE kind # "new"
    <2>1. ledgerAnswer' = FillAnswer(f, kind) /\ UNCHANGED ledgerVars
        BY <1>4, <1>8 DEF ApplyFill
    <2>2. kind # "index_inconsistent" /\ kind # "applied"
        BY <1>1, <1>4, ReplayIs
    <2> QED  BY <1>7, <2>1, <2>2
<1>9. CASE kind = "new" /\ failure # "none"
    <2>1. ledgerAnswer' = FillAnswer(f, failure) /\ UNCHANGED ledgerVars
        BY <1>4, <1>5, <1>9 DEF ApplyFill
    <2>2. failure # "duplicate" /\ kind # "duplicate"
        BY <1>6, <1>9
    <2> QED  BY <1>6, <1>7, <2>1, <2>2
<1>10. CASE kind = "new" /\ failure = "none"
    <2>1. BookFill(f, ~f.ancestry, {}) /\ ledgerAnswer' = FillAnswer(f, "applied")
        BY <1>4, <1>5, <1>10 DEF ApplyFill
    <2>2. f.id \notin DOMAIN fillIndex /\ f.fact \notin DOMAIN factIndex
        BY <1>1, <1>4, <1>10, ReplayIs
    <2>3. PICK requires \in BOOLEAN, via \in SUBSET Handoffs : requires = (~f.ancestry) /\ via = {}
        OBVIOUS
    <2>4. /\ BooksInv'
          /\ \E t : /\ Extends(transactions', transactions, t) /\ t.kind = "fill"
                    /\ t.subject = f /\ t.via = via
        <3>1. BookFill(f, requires, via)
            BY <2>1, <2>3, Zenon
        <3>2. FillFailure(f) = "none" /\ (~f.ancestry => requires)
            BY <1>5, <1>10, <2>3, Zenon
        <3>3. MayBook(f, requires, via)
            BY <2>2, <2>3, <3>1, <3>2 DEF MayBook
        <3> QED  BY <1>1, <3>3, BookKeeps
    <2>5. OutcomesOk'
        BY <1>1, <1>2, <2>3, <2>4, TalesStand
    <2>6. ledgerAnswer'.op = "fill" /\ ledgerAnswer'.code = "applied"
        BY <2>1 DEF FillAnswer
    <2>7. AnswerOk'
        BY <2>6 DEF AnswerOk, ReplayIsRecognised, PermissionIsCurrent
    <2> QED  BY <1>3, <2>4, <2>5, <2>7 DEF LedgerInv
<1> QED  BY <1>8, <1>9, <1>10
\* A handoff whose outcome is kept without an entry.
LEMMA NothingBooked ==
    ASSUME LedgerInv, NEW h \in Handoffs, h \notin DOMAIN retained, NEW o, Retain(h, o),
           OutcomeFits(transactions, h, o), UNCHANGED ledgerVars, refreshes' = refreshes
    PROVE  LedgerInv'
<1>1. BooksInv /\ OutcomesOk /\ RefreshesOk /\ Len(transactions) \in Nat
    BY EntriesAre DEF LedgerInv, BooksInv
<1>2. BooksInv' /\ transactions' = transactions
    BY <1>1, BooksStand DEF ledgerVars
<1>3. OutcomesOk'
    BY <1>1, <1>2, RetainKeeps
<1>4. RefreshesOk'
    BY <1>1, RefreshesStand
<1>5. ledgerAnswer'.op = "handoff"
    BY DEF Retain
<1>6. AnswerOk'
    BY <1>5, AnswersOther
<1> QED  BY <1>2, <1>3, <1>4, <1>6 DEF LedgerInv

LEMMA HandoffStep ==
    ASSUME LedgerInv, NEW h \in Handoffs, ApplyHandoff(h) PROVE LedgerInv'
<1>1. BooksInv /\ OutcomesOk /\ RefreshesOk /\ Len(transactions) \in Nat
    BY EntriesAre DEF LedgerInv, BooksInv
<1>2. refreshes' = refreshes
    BY DEF ApplyHandoff
<1>3. h.fill \in Fills \cup {NoFill} /\ h.requires \in BOOLEAN /\ h.halt \in BOOLEAN
      /\ (h.requires => h.halt)
    BY LedgerConstants
<1>4. CASE h \in DOMAIN retained
    <2>1. /\ ledgerAnswer' = [op |-> "handoff", outcome |-> retained[h]]
          /\ UNCHANGED ledgerVars /\ retained' = retained
        BY <1>4, Zenon DEF ApplyHandoff
    <2>2. BooksInv' /\ transactions' = transactions
        BY <1>1, <2>1, BooksStand DEF ledgerVars
    <2>3. OutcomesOk'
        BY <1>1, <2>1, <2>2, TalesStand
    <2>4. RefreshesOk'
        BY <1>1, <1>2, RefreshesStand
    <2>5. AnswerOk'
        BY <2>1, AnswersOther
    <2> QED  BY <2>2, <2>3, <2>4, <2>5 DEF LedgerInv
<1>5. CASE h \notin DOMAIN retained /\ h.fill = NoFill
    <2>1. PICK o : o = HandoffOutcome(h, "not_applicable", "none", Version, h.requires, h.halt)
        OBVIOUS
    <2>2. Retain(h, o) /\ UNCHANGED ledgerVars
        BY <1>5, <2>1, Zenon DEF ApplyHandoff
    <2>3. OutcomeFits(transactions, h, o)
        BY <1>3, <1>5, <2>1 DEF HandoffOutcome, OutcomeFits
    <2> QED  BY <1>2, <1>5, <2>2, <2>3, NothingBooked
<1>6. CASE h \notin DOMAIN retained /\ h.fill # NoFill /\ h.action \notin {"accepted", "unresolved"}
    <2>1. PICK o : o = HandoffOutcome(h, "failed", "evidence_mismatch", Version, FALSE, TRUE)
        OBVIOUS
    <2>2. Retain(h, o) /\ UNCHANGED ledgerVars
        BY <1>6, <2>1, Zenon DEF ApplyHandoff
    <2>3. OutcomeFits(transactions, h, o)
        BY <2>1 DEF HandoffOutcome, OutcomeFits
    <2> QED  BY <1>2, <1>6, <2>2, <2>3, NothingBooked
<1>7. CASE h \notin DOMAIN retained /\ h.fill # NoFill /\ h.action \in {"accepted", "unresolved"}
    <2>1. PICK f, requires, failure, via :
              f = h.fill /\ requires = RequiresOf(h) /\ failure = CommandFailure(h.fill) /\ via = {h}
        OBVIOUS
    <2>2. f \in Fills /\ requires \in BOOLEAN /\ via \in SUBSET Handoffs
        BY <1>3, <1>7, <2>1 DEF RequiresOf
    <2>3. IF failure = "none"
            THEN /\ BookFill(f, requires, via)
                 /\ Retain(h, HandoffOutcome(h, "effect_committed", "none", Version + 1, requires, requires))
            ELSE /\ Retain(h, HandoffOutcome(h, "failed", HandoffFailure(failure), Version, requires, TRUE))
                 /\ UNCHANGED ledgerVars
        BY <1>7, <2>1, Zenon DEF ApplyHandoff
    <2>4. CASE failure # "none"
        <3>1. PICK code : code = HandoffFailure(failure)
            OBVIOUS
        <3>2. code # "none"
            BY <3>1 DEF HandoffFailure
        <3>3. PICK o : o = HandoffOutcome(h, "failed", code, Version, requires, TRUE)
            OBVIOUS
        <3>4. OutcomeFits(transactions, h, o)
            BY <3>2, <3>3 DEF HandoffOutcome, OutcomeFits
        <3>5. Retain(h, o) /\ UNCHANGED ledgerVars
            BY <2>3, <2>4, <3>1, <3>3, Zenon
        <3> QED  BY <1>2, <1>7, <3>4, <3>5, NothingBooked
    <2>5. CASE failure = "none"
        <3>1. PICK o : o = HandoffOutcome(h, "effect_committed", "none", Version + 1, requires, requires)
            OBVIOUS
        <3>2. BookFill(f, requires, via) /\ Retain(h, o)
            BY <2>3, <2>5, <3>1, Zenon
        <3>3. f.id \notin DOMAIN fillIndex /\ f.fact \notin DOMAIN factIndex /\ FillFailure(f) = "none"
            BY <2>1, <2>5 DEF CommandFailure
        <3>4. ~f.ancestry => requires
            BY <2>1 DEF RequiresOf
        <3>5. MayBook(f, requires, via)
            BY <2>2, <3>2, <3>3, <3>4 DEF MayBook
        <3>6. /\ BooksInv'
              /\ \E t : /\ Extends(transactions', transactions, t) /\ t.kind = "fill"
                        /\ t.subject = f /\ t.via = via
            BY <1>1, <3>5, BookKeeps
        <3>7. PICK t : /\ Extends(transactions', transactions, t) /\ t.kind = "fill"
                       /\ t.subject = f /\ t.via = {h}
            BY <2>1, <3>6
        <3>8. PICK l \in Nat : l = Len(transactions)
            BY <1>1
        <3>9. /\ o.handoff = h /\ o.action = "effect_committed" /\ o.failure = "none"
              /\ o.before = l /\ o.after = l + 1 /\ o.requires = requires /\ o.halt = requires
            BY <3>1, <3>8 DEF HandoffOutcome, Version
        <3>10. Len(transactions') = l + 1 /\ transactions'[l + 1] = t
            BY <3>7, <3>8 DEF Extends
        <3>11. OutcomeFits(transactions', h, o)
            BY <1>7, <2>1, <3>7, <3>9, <3>10 DEF OutcomeFits
        <3>12. OutcomesOk'
            BY <1>1, <1>7, <3>2, <3>7, <3>8, <3>9, <3>11, RetainKeeps
        <3>13. RefreshesOk'
            BY <1>1, <1>2, RefreshesStand
        <3>14. ledgerAnswer'.op = "handoff"
            BY <3>2 DEF Retain
        <3>15. AnswerOk'
            BY <3>14, AnswersOther
        <3> QED  BY <3>6, <3>12, <3>13, <3>15 DEF LedgerInv
    <2> QED  BY <2>4, <2>5
<1> QED  BY <1>4, <1>5, <1>6, <1>7

LEMMA RefreshStep ==
    ASSUME LedgerInv, NEW d \in 1..MaxRefreshes, NEW frontier, NEW halted \in BOOLEAN,
           NEW clear \in BOOLEAN, CreateRefresh(d, frontier, halted, clear)
    PROVE  LedgerInv'
<1>1. BooksInv /\ OutcomesOk /\ RefreshesOk /\ Len(transactions) \in Nat
    BY EntriesAre DEF LedgerInv, BooksInv
<1>2. UNCHANGED ledgerVars /\ retained' = retained
    BY DEF CreateRefresh
<1>3. BooksInv' /\ transactions' = transactions /\ Snapshot' = Snapshot
    BY <1>1, <1>2, BooksStand DEF ledgerVars, Snapshot, Version
<1>4. OutcomesOk'
    BY <1>1, <1>2, <1>3, TalesStand
<1>5. PICK r : r = RefreshAnswer(d, frontier, halted, clear)
    OBVIOUS
<1>6. /\ refreshes' = IF r.dispatch = Len(refreshes) + 1 THEN Append(refreshes, r) ELSE refreshes
      /\ ledgerAnswer' = [op |-> "refresh", refresh |-> r]
    BY <1>5, Zenon DEF CreateRefresh
<1>7. PICK Z : refreshes \in Seq(Z)
    BY <1>1 DEF RefreshesOk
<1>8. PICK k \in Nat : k = Len(refreshes) /\ DOMAIN refreshes = 1..k
    BY <1>7
<1>9. d \in Nat \ {0}
    BY LedgerConstants
<1>10. PICK made : made = [dispatch |-> d, frontier |-> frontier, snapshot |-> Snapshot,
                           halted |-> halted, permitted |-> Permitted(halted, clear)]
    OBVIOUS
<1>11. Snapshot.open = openRefs
    BY DEF Snapshot
<1>12. \/ r.dispatch = 0 /\ r.permitted = FALSE
       \/ d \in 1..k /\ r = refreshes[d] /\ r.snapshot = Snapshot
       \/ d = k + 1 /\ r = made
    <2>1. PICK error : error = [made EXCEPT !.dispatch = 0, !.permitted = FALSE]
        OBVIOUS
    <2>2. error.dispatch = 0 /\ error.permitted = FALSE
        BY <1>10, <2>1
    <2>3. r = IF d \in DOMAIN refreshes /\ refreshes[d].frontier = frontier
              THEN IF refreshes[d].snapshot = Snapshot /\ refreshes[d].halted = halted
                     THEN refreshes[d] ELSE error
              ELSE IF d # Len(refreshes) + 1 THEN error
              ELSE made
        BY <1>5, <1>10, <2>1, Zenon DEF RefreshAnswer
    <2>4. r = error \/ (d \in 1..k /\ r = refreshes[d] /\ r.snapshot = Snapshot) \/ (d = k + 1 /\ r = made)
        BY <1>8, <2>3
    <2> QED  BY <2>2, <2>4
<1>13. RefreshFits(d, made) /\ made.dispatch = d /\ made.snapshot = Snapshot
    BY <1>10, <1>11 DEF RefreshFits, Permitted
<1>14. \A x \in 1..k : RefreshFits(x, refreshes[x])
    BY <1>1, <1>8 DEF RefreshesOk
<1>15. \/ refreshes' = refreshes
       \/ d = k + 1 /\ r = made /\ refreshes' = Append(refreshes, made)
    <2>1. CASE r.dispatch = 0
        BY <1>6, <1>8, <2>1
    <2>2. CASE d \in 1..k /\ r = refreshes[d]
        <3>1. r.dispatch = d
            BY <1>14, <2>2 DEF RefreshFits
        <3> QED  BY <1>6, <1>8, <2>2, <3>1
    <2>3. CASE d = k + 1 /\ r = made
        BY <1>6, <1>8, <1>13, <2>3
    <2> QED  BY <1>12, <2>1, <2>2, <2>3
<1>16. RefreshesOk'
    <2>1. CASE refreshes' = refreshes
        BY <1>1, <2>1, RefreshesStand
    <2>2. CASE d = k + 1 /\ refreshes' = Append(refreshes, made)
        <3>1. PICK ZZ : ZZ = Z \cup {made}
            OBVIOUS
        <3>2. refreshes \in Seq(ZZ) /\ made \in ZZ
            BY <1>7, <3>1
        <3>3. /\ refreshes' \in Seq(ZZ) /\ Len(refreshes') = k + 1 /\ refreshes'[k + 1] = made
              /\ \A x \in 1..k : refreshes'[x] = refreshes[x]
            BY <1>8, <2>2, <3>2, AppendIs
        <3>4. ASSUME NEW x \in 1..k + 1 PROVE RefreshFits(x, refreshes'[x])
            <4>1. CASE x \in 1..k
                BY <1>14, <3>3, <4>1
            <4>2. CASE x = k + 1
                BY <1>13, <2>2, <3>3, <4>2
            <4> QED  BY <3>4, <4>1, <4>2
        <3> QED  BY <3>3, <3>4 DEF RefreshesOk
    <2> QED  BY <1>15, <2>1, <2>2
<1>17. ASSUME r.permitted
       PROVE  /\ r.snapshot = Snapshot
              /\ \A n \in 1..Len(transactions) :
                    transactions[n].via # {} => ~transactions[n].requires
    <2>1. r.snapshot = Snapshot /\ DOMAIN r.snapshot.open = {}
        <3>1. ~(r.permitted = FALSE)
            BY <1>17
        <3> QED  BY <1>12, <1>13, <1>14, <1>17, <3>1 DEF RefreshFits
    <2>2. DOMAIN openRefs = {}
        BY <1>11, <2>1
    <2> QED  BY <1>1, <2>1, <2>2 DEF BooksInv, RefsOk
<1>18. ledgerAnswer'.op = "refresh" /\ ledgerAnswer'.refresh = r
    BY <1>6
<1>19. PermissionIsCurrent'
    BY <1>3, <1>17, <1>18 DEF PermissionIsCurrent, Version
<1>20. AnswerOk'
    BY <1>18, <1>19 DEF AnswerOk, ReplayIsRecognised
<1> QED  BY <1>3, <1>4, <1>16, <1>20 DEF LedgerInv
LEMMA LedgerStands == ASSUME LedgerInv, UNCHANGED bookVars PROVE LedgerInv'
<1>1. BooksInv /\ OutcomesOk /\ RefreshesOk /\ AnswerOk /\ Len(transactions) \in Nat
    BY EntriesAre DEF LedgerInv, BooksInv
<1>2. /\ UNCHANGED ledgerVars /\ retained' = retained /\ refreshes' = refreshes
      /\ ledgerAnswer' = ledgerAnswer
    BY DEF bookVars
<1>3. BooksInv' /\ transactions' = transactions /\ Snapshot' = Snapshot
    BY <1>1, <1>2, BooksStand DEF ledgerVars, Snapshot, Version
<1>4. OutcomesOk'
    BY <1>1, <1>2, <1>3, TalesStand
<1>5. RefreshesOk'
    BY <1>1, <1>2, RefreshesStand
<1>6. AnswerOk'
    <2>1. ReplayIsRecognised'
        BY <1>1, <1>2, <1>3 DEF AnswerOk, ReplayIsRecognised, Version, IsFill
    <2>2. PermissionIsCurrent'
        BY <1>1, <1>2, <1>3 DEF AnswerOk, PermissionIsCurrent, Version
    <2> QED  BY <1>1, <1>2, <2>1, <2>2 DEF AnswerOk
<1> QED  BY <1>3, <1>4, <1>5, <1>6 DEF LedgerInv

LEMMA LedgerStep == ASSUME LedgerInv, LedgerNext PROVE LedgerInv'
<1>1. ASSUME NEW m \in Fundings, ApplyInitialFunding(m) PROVE LedgerInv'
    BY <1>1, FundingStep
<1>2. ASSUME NEW f \in Fills, ApplyFill(f) PROVE LedgerInv'
    BY <1>2, FillStep
<1>3. ASSUME NEW h \in Handoffs, ApplyHandoff(h) PROVE LedgerInv'
    BY <1>3, HandoffStep
<1>4. ASSUME NEW d \in 1..MaxRefreshes, NEW frontier \in Frontiers, NEW halted \in BOOLEAN,
             NEW clear \in BOOLEAN, CreateRefresh(d, frontier, halted, clear)
      PROVE  LedgerInv'
    BY <1>4, RefreshStep
<1> QED  BY <1>1, <1>2, <1>3, <1>4 DEF LedgerNext

LEMMA LedgerStarts == ASSUME LedgerInit PROVE LedgerInv
<1>1. /\ transactions = <<>> /\ cash = 0 /\ positions = [i \in Instruments |-> 0] /\ rounding = 0
      /\ unresolved = {} /\ openRefs = <<>> /\ fillIndex = <<>> /\ factIndex = <<>>
      /\ handoffIndex = <<>> /\ retained = <<>> /\ refreshes = <<>> /\ ledgerAnswer = [op |-> "none"]
    BY DEF LedgerInit
<1>2. Len(transactions) = 0 /\ \A n : n \notin 1..Len(transactions)
    BY <1>1
<1>3. LogOk
    BY <1>1, <1>2 DEF LogOk
<1>4. \A account, commodity : BalanceIn(transactions, 0, account, commodity) = 0
    <2>1. 1..0 = {}
        OBVIOUS
    <2> QED  BY <2>1, SumOfNone DEF BalanceIn
<1>5. BalancesOk
    <2>1. 0 % LedgerQuantum = 0
        BY LedgerConstants
    <2> QED  BY <1>1, <1>2, <1>4, <2>1 DEF BalancesOk
<1>6. DOMAIN fillIndex = {} /\ DOMAIN factIndex = {} /\ DOMAIN handoffIndex = {}
      /\ DOMAIN openRefs = {} /\ DOMAIN retained = {} /\ Len(refreshes) = 0
    BY <1>1
<1>7. FillIndexOk /\ FactIndexOk
    BY <1>2, <1>6 DEF FillIndexOk, FactIndexOk
<1>8. RefsOk
    BY <1>1, <1>2, <1>6 DEF RefsOk
<1>9. OutcomesOk
    BY <1>2, <1>6 DEF OutcomesOk
<1>10. RefreshesOk
    BY <1>1, <1>6 DEF RefreshesOk
<1>11. AnswerOk
    BY <1>1 DEF AnswerOk, ReplayIsRecognised, PermissionIsCurrent
<1> QED  BY <1>3, <1>5, <1>7, <1>8, <1>9, <1>10, <1>11 DEF LedgerInv, BooksInv

\* What the invariant says of the ledger.
LEMMA LedgerInvIsSafe == LedgerInv => LedgerSafe
<1> SUFFICES ASSUME LedgerInv PROVE LedgerSafe
    OBVIOUS
<1>1. LogOk /\ BalancesOk /\ FillIndexOk /\ FactIndexOk /\ RefsOk /\ OutcomesOk /\ RefreshesOk /\ AnswerOk
    BY DEF LedgerInv, BooksInv
<1>2. /\ IsLog(transactions) /\ Version = Len(transactions) /\ Len(transactions) \in Nat
      /\ \A n \in 1..Len(transactions) :
            /\ transactions[n] \in LedgerEntries /\ EntryFits(n, transactions[n])
            /\ PostingsBalance(transactions[n].postings) /\ TransactionValid(n)
            /\ \A p \in transactions[n].postings : p.account = "rounding" =>
                  2 * p.amount \in (-LedgerQuantum)..LedgerQuantum
    BY <1>1, EntriesAre DEF Version
<1>3. \A n, account, commodity : n \in 0..Len(transactions) =>
          BalanceAfter(n, account, commodity) = BalanceIn(transactions, n, account, commodity)
    BY <1>2, BalanceIsSum
<1>4. LedgerTypeOK
    <2>1. /\ \A k \in DOMAIN fillIndex : fillIndex[k] \in 1..Version
          /\ \A k \in DOMAIN factIndex : factIndex[k] \in 1..Version
          /\ \A k \in DOMAIN handoffIndex : handoffIndex[k] \in 1..Version
        BY <1>1, <1>2 DEF FillIndexOk, FactIndexOk, RefsOk
    <2>2. Range(fillIndex) \cup Range(factIndex) \cup Range(handoffIndex) \subseteq 1..Version
        BY <2>1 DEF Range
    <2>3. cash \in Int /\ rounding \in Int /\ positions \in [Instruments -> Int]
        BY <1>1 DEF BalancesOk
    <2>4. DOMAIN openRefs \subseteq DOMAIN fillIndex /\ unresolved \subseteq DOMAIN fillIndex
        BY <1>1 DEF RefsOk
    <2>5. DOMAIN retained \subseteq Handoffs
        BY <1>1 DEF OutcomesOk
    <2>6. ledgerAnswer.op \in {"none", "funding", "fill", "handoff", "refresh", "adjust"}
        BY <1>1 DEF AnswerOk
    <2> QED  BY <2>2, <2>3, <2>4, <2>5, <2>6 DEF LedgerTypeOK
<1>5. BooksAreTheLog
    <2>1. Len(transactions) \in 0..Len(transactions)
        BY <1>2
    <2>2. cash = BalanceAfter(Version, "cash", Currency)
        BY <1>1, <1>2, <1>3, <2>1 DEF BalancesOk
    <2>3. rounding = BalanceAfter(Version, "rounding", Currency)
        BY <1>1, <1>2, <1>3, <2>1 DEF BalancesOk
    <2>4. \A i \in Instruments : positions[i] = BalanceAfter(Version, "position", i)
        BY <1>1, <1>2, <1>3, <2>1 DEF BalancesOk
    <2>5. \A n \in 1..Version : PostingsBalance(transactions[n].postings)
        BY <1>2
    <2> QED  BY <2>2, <2>3, <2>4, <2>5 DEF BooksAreTheLog
<1>6. EvidenceIsValid
    <2>1. SnapshotValid
        <3>1. ASSUME NEW k \in DOMAIN openRefs
              PROVE  /\ k \in DOMAIN fillIndex /\ fillIndex[k] \in 1..Version
                     /\ transactions[fillIndex[k]].subject = openRefs[k].fill
                     /\ transactions[fillIndex[k]].subject.id = k
            BY <1>1, <1>2 DEF RefsOk, FillIndexOk
        <3>2. \A i, j \in DOMAIN openRefs : fillIndex[i] = fillIndex[j] => i = j
            BY <3>1
        <3>3. Version = 0 => /\ cash = 0 /\ rounding = 0 /\ unresolved = {}
                             /\ openRefs = <<>> /\ \A i \in Instruments : positions[i] = 0
            BY <1>1, <1>2 DEF RefsOk
        <3> QED  BY <3>1, <3>2, <3>3 DEF SnapshotValid
    <2>2. \A n \in 1..Version : TransactionValid(n)
        BY <1>2
    <2>3. ASSUME NEW h \in DOMAIN retained PROVE HandoffOutcomeValid(retained[h])
        <3>1. OutcomeFits(transactions, h, retained[h])
            BY <1>1 DEF OutcomesOk
        <3> QED  BY <3>1 DEF OutcomeFits, HandoffOutcomeValid
    <2>4. ASSUME NEW d \in DOMAIN refreshes PROVE RefreshValid(d)
        <3>1. RefreshFits(d, refreshes[d])
            BY <1>1 DEF RefreshesOk
        <3> QED  BY <3>1 DEF RefreshFits, RefreshValid
    <2> QED  BY <2>1, <2>2, <2>3, <2>4 DEF EvidenceIsValid
<1>7. ResidualIsHalfAGrid
    <2>1. cash % LedgerQuantum = 0
        BY <1>1 DEF BalancesOk
    <2> QED  BY <1>2, <2>1 DEF ResidualIsHalfAGrid
<1>8. BookedOnce
    <2> SUFFICES ASSUME NEW m \in 1..Version, NEW n \in 1..Version, IsFill(m), IsFill(n), m # n
                 PROVE  /\ transactions[m].subject.id # transactions[n].subject.id
                        /\ transactions[m].subject.fact # transactions[n].subject.fact
        BY DEF BookedOnce
    <2>1. /\ fillIndex[transactions[m].subject.id] = m /\ fillIndex[transactions[n].subject.id] = n
          /\ factIndex[transactions[m].subject.fact] = m /\ factIndex[transactions[n].subject.fact] = n
        BY <1>1, <1>2 DEF FillIndexOk, FactIndexOk, IsFill
    <2> QED  BY <2>1
<1>9. FillsAreCovered
    <2> SUFFICES ASSUME Funded, NEW n \in 1..Version, IsFill(n)
                 PROVE  BalanceAfter(n, "cash", Currency) >= 0
        BY DEF FillsAreCovered
    <2>1. BalanceIn(transactions, n, "cash", Currency) >= 0
        BY <1>1, <1>2 DEF BalancesOk, Funded, IsFill
    <2>2. n \in 0..Len(transactions)
        BY <1>2
    <2> QED  BY <1>3, <2>1, <2>2
<1>10. ReplayIsRecognised /\ PermissionIsCurrent
    BY <1>1 DEF AnswerOk
<1>11. OutcomesAreTheLog
    <2> SUFFICES ASSUME NEW h \in Handoffs
                 PROVE  IF h \in DOMAIN retained /\ retained[h].action = "effect_committed"
                        THEN /\ {n \in 1..Version : h \in transactions[n].via} = {retained[h].after}
                             /\ retained[h].before + 1 = retained[h].after
                        ELSE {n \in 1..Version : h \in transactions[n].via} = {}
        BY DEF OutcomesAreTheLog
    <2>1. \A n \in 1..Version : h \in transactions[n].via =>
             h \in DOMAIN retained /\ retained[h].action = "effect_committed" /\ retained[h].after = n
        BY <1>1, <1>2 DEF OutcomesOk
    <2>2. CASE h \in DOMAIN retained /\ retained[h].action = "effect_committed"
        <3>1. OutcomeFits(transactions, h, retained[h])
            BY <1>1, <2>2 DEF OutcomesOk
        <3>2. /\ retained[h].before + 1 = retained[h].after /\ retained[h].after \in 1..Version
              /\ transactions[retained[h].after].via = {h}
            BY <1>2, <2>2, <3>1 DEF OutcomeFits
        <3>3. {n \in 1..Version : h \in transactions[n].via} = {retained[h].after}
            BY <2>1, <3>2
        <3> QED  BY <2>2, <3>2, <3>3
    <2>3. CASE ~(h \in DOMAIN retained /\ retained[h].action = "effect_committed")
        BY <2>1, <2>3
    <2> QED  BY <2>2, <2>3
<1> QED  BY <1>4, <1>5, <1>6, <1>7, <1>8, <1>9, <1>10, <1>11 DEF LedgerSafe

\* The double-entry ledger, with the authority that hands facts to it and the
\* one that publishes refreshes (portfolio/ledger.py, ledger_authority.py,
\* risk_refresh_authority.py): whatever fills, handoffs and fundings are
\* presented in whatever order, the balances are the sums of the postings of
\* the log, every entry balances and passes its factory, a residual is at most
\* half of the settlement grid, a fill and a fact are booked once, no fill
\* overdraws a funded run, a replay is recognised by both indexes alike, the
\* outcome of a handoff tells the truth about the log and leave to submit is
\* of the ledger as it is.
THEOREM LedgerIsSafe == LedgerSpec => []LedgerSafe
<1>1. LedgerInit => LedgerInv
    BY LedgerStarts
<1>2. LedgerInv /\ [LedgerNext]_bookVars => LedgerInv'
    BY LedgerStep, LedgerStands
<1> QED  BY <1>1, <1>2, LedgerInvIsSafe, PTL DEF LedgerSpec
\* What a step keeps of the log, the outcomes and the refreshes.
StepKeeps ==
    /\ \A n \in 1..Version : transactions'[n] = transactions[n]
    /\ \A h \in DOMAIN retained : retained'[h] = retained[h]
    /\ \A d \in DOMAIN refreshes : refreshes'[d] = refreshes[d]
    /\ Len(transactions') - Version \in {0, 1}

LEMMA SeqGrows ==
    ASSUME NEW Z, NEW q \in Seq(Z), NEW x
    PROVE  /\ Len(Append(q, x)) = Len(q) + 1 /\ Len(q) \in Nat /\ DOMAIN q = 1..Len(q)
           /\ \A k \in 1..Len(q) : Append(q, x)[k] = q[k]
<1>1. PICK Y : Y = Z \cup {x}
    OBVIOUS
<1>2. q \in Seq(Y) /\ x \in Y
    BY <1>1
<1>3. Len(q) \in Nat /\ DOMAIN q = 1..Len(q)
    OBVIOUS
<1> QED  BY <1>2, <1>3, AppendIs

LEMMA LedgerKeeps == ASSUME LedgerInv, LedgerNext PROVE StepKeeps
<1>1. PICK l \in Nat : l = Version /\ l = Len(transactions)
    BY EntriesAre DEF LedgerInv, BooksInv, Version
<1>2. transactions \in Seq(LedgerEntries)
    BY DEF LedgerInv, BooksInv, LogOk
<1>3. PICK Z : refreshes \in Seq(Z)
    BY DEF LedgerInv, RefreshesOk
<1>4. ASSUME \/ transactions' = transactions
             \/ \E x : transactions' = Append(transactions, x)
             \/ l = 0 /\ Len(transactions') = 1
      PROVE  /\ \A n \in 1..l : transactions'[n] = transactions[n]
             /\ Len(transactions') - l \in {0, 1}
    <2>1. CASE transactions' = transactions
        BY <1>1, <2>1
    <2>2. ASSUME NEW x, transactions' = Append(transactions, x)
          PROVE  /\ \A n \in 1..l : transactions'[n] = transactions[n]
                 /\ Len(transactions') - l \in {0, 1}
        BY <1>1, <1>2, <2>2, SeqGrows
    <2>3. CASE l = 0 /\ Len(transactions') = 1
        BY <2>3
    <2> QED  BY <1>4, <2>1, <2>2, <2>3
<1>5. ASSUME NEW m \in Fundings, ApplyInitialFunding(m) PROVE StepKeeps
    <2>1. retained' = retained /\ refreshes' = refreshes
        BY <1>5, Zenon DEF ApplyInitialFunding
    <2>2. transactions' = transactions \/ (l = 0 /\ Len(transactions') = 1)
        <3>1. PICK t : t = Entry("funding", m, {Post("cash", Currency, m),
                                                 Post("external_settlement", Currency, -m)}, {}, FALSE)
            OBVIOUS
        <3>2. (Version = 0 /\ transactions' = <<t>>) \/ UNCHANGED ledgerVars
            BY <1>5, <3>1, Zenon DEF ApplyInitialFunding
        <3>3. transactions' = <<t>> => Len(transactions') = 1
            OBVIOUS
        <3> QED  BY <1>1, <3>2, <3>3 DEF ledgerVars
    <2> QED  BY <1>1, <1>4, <2>1, <2>2 DEF StepKeeps
<1>6. ASSUME NEW f \in Fills, ApplyFill(f) PROVE StepKeeps
    <2>1. retained' = retained /\ refreshes' = refreshes
        BY <1>6, Zenon DEF ApplyFill
    <2>2. BookFill(f, ~f.ancestry, {}) \/ UNCHANGED ledgerVars
        BY <1>6, Zenon DEF ApplyFill
    <2>3. transactions' = transactions \/ \E x : transactions' = Append(transactions, x)
        BY <2>2, Zenon DEF BookFill, ledgerVars
    <2> QED  BY <1>1, <1>4, <2>1, <2>3 DEF StepKeeps
<1>7. ASSUME NEW h \in Handoffs, ApplyHandoff(h) PROVE StepKeeps
    <2>1. refreshes' = refreshes
        BY <1>7 DEF ApplyHandoff
    <2>2. retained' = retained \/ (h \notin DOMAIN retained /\ \E o : Retain(h, o))
        BY <1>7, Zenon DEF ApplyHandoff
    <2>3. \A k \in DOMAIN retained : retained'[k] = retained[k]
        BY <2>2 DEF Retain, Indexed
    <2>4. BookFill(h.fill, RequiresOf(h), {h}) \/ UNCHANGED ledgerVars
        BY <1>7, Zenon DEF ApplyHandoff
    <2>5. transactions' = transactions \/ \E x : transactions' = Append(transactions, x)
        BY <2>4, Zenon DEF BookFill, ledgerVars
    <2> QED  BY <1>1, <1>4, <2>1, <2>3, <2>5 DEF StepKeeps
<1>8. ASSUME NEW d \in 1..MaxRefreshes, NEW frontier \in Frontiers, NEW halted \in BOOLEAN,
             NEW clear \in BOOLEAN, CreateRefresh(d, frontier, halted, clear)
      PROVE  StepKeeps
    <2>1. transactions' = transactions /\ retained' = retained
        BY <1>8 DEF CreateRefresh, ledgerVars
    <2>2. refreshes' = refreshes \/ \E x : refreshes' = Append(refreshes, x)
        BY <1>8, Zenon DEF CreateRefresh
    <2>3. \A k \in DOMAIN refreshes : refreshes'[k] = refreshes[k]
        BY <1>3, <2>2, SeqGrows
    <2> QED  BY <1>1, <1>4, <2>1, <2>3 DEF StepKeeps
<1> QED  BY <1>5, <1>6, <1>7, <1>8 DEF LedgerNext

\* The log is only appended to, one entry at a time, and neither a retained
\* outcome nor a published refresh is ever rewritten (portfolio/ledger.py
\* _apply_new_fill, ledger_authority.py, risk_refresh_authority.py).
THEOREM HistoryStands == LedgerSpec => HistoryIsKept
<1>1. LedgerInit => LedgerInv
    BY LedgerStarts
<1>2. LedgerInv /\ [LedgerNext]_bookVars => LedgerInv'
    BY LedgerStep, LedgerStands
<1>3. LedgerInv /\ [LedgerNext]_bookVars => [StepKeeps]_bookVars
    BY LedgerKeeps
<1>4. StepKeeps => /\ \A n \in 1..Version : transactions'[n] = transactions[n]
                   /\ \A h \in DOMAIN retained : retained'[h] = retained[h]
                   /\ \A d \in DOMAIN refreshes : refreshes'[d] = refreshes[d]
                   /\ Len(transactions') - Version \in {0, 1}
    BY DEF StepKeeps
<1> QED  BY <1>1, <1>2, <1>3, <1>4, PTL DEF LedgerSpec, HistoryIsKept

-----------------------------------------------------------------------------
(***************************************************************************)
(* The trading components side by side.                                    *)
(***************************************************************************)
\* A step of the composition is a step of one component.
LEMMA TradingComponentsRun == TradingSpec => AuthSpec /\ RiskSpec /\ ReportSpec
  <1>1. TradingInit => AuthInit /\ RiskInit /\ ReportInit
    BY DEF TradingInit
  <1>2. [TradingNext]_tradingVars => [AuthNext]_authVars /\ [RiskNext]_riskVars
                                     /\ [ReportNext]_reportVars
    <2>1. CASE UNCHANGED tradingVars
      BY <2>1 DEF tradingVars
    <2>2. CASE TradingNext
      BY <2>2 DEF TradingNext, LifecycleMoves, CrashMoves, AuthMoves, MessageMoves,
                  ReportMoves,
                  MatcherMoves, RiskMoves, PlanMoves, LedgerMoves, ReconMoves, QueueMoves,
                  RuntimeMoves, tradingVars
    <2> QED BY <2>1, <2>2
  <1> QED BY <1>1, <1>2, PTL DEF TradingSpec, AuthSpec, RiskSpec, ReportSpec

\* The composition keeps the state properties of its components: what is authorized is
\* what was recorded, what is approved keeps the limits, and the books of the execution
\* facts agree.
THEOREM TradingIsSafe == TradingSpec => [](AuthorizationSafe /\ RiskSafe /\ FactSafe)
  BY TradingComponentsRun, AuthorizationIsSafe, RiskIsSafe, FactsAreSafe, PTL
\* What the composition keeps of the ledger: only the reconciliation authority writes
\* to it from outside.
LedgerPart == part # "recon" => LedgerInv

LEMMA LedgerPartStarts == TradingInit => LedgerPart
  BY LedgerStarts DEF TradingInit, ReconInit, LedgerPart

LEMMA LedgerPartRuns == LedgerPart /\ [TradingNext]_tradingVars => LedgerPart'
  <1>1. ASSUME LedgerPart, UNCHANGED tradingVars PROVE LedgerPart'
    BY <1>1, LedgerStands DEF LedgerPart, tradingVars
  <1>2. ASSUME LedgerPart, TradingNext PROVE LedgerPart'
    <2>1. part' = part /\ (part # "recon" => LedgerNext \/ UNCHANGED bookVars)
      BY <1>2 DEF TradingNext, LifecycleMoves, CrashMoves, AuthMoves, MessageMoves,
                  ReportMoves,
                  MatcherMoves, RiskMoves, PlanMoves, LedgerMoves, ReconMoves, QueueMoves,
                  RuntimeMoves
    <2> QED BY <1>2, <2>1, LedgerStep, LedgerStands DEF LedgerPart
  <1> QED BY <1>1, <1>2

\* Beside the other components, and while no reconciliation adjusts it, the ledger keeps
\* all of its safety.
THEOREM LedgerIsSafeThere == TradingSpec => [](part # "recon" => LedgerSafe)
  <1>1. LedgerPart => (part # "recon" => LedgerSafe)
    BY LedgerInvIsSafe DEF LedgerPart
  <1> QED BY <1>1, LedgerPartStarts, LedgerPartRuns, PTL DEF TradingSpec
=============================================================================
