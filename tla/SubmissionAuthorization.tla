---------------------- MODULE SubmissionAuthorization ----------------------
(***************************************************************************)
(* The pre-effect authorization of an order (runtime/authorization.py).    *)
(* An order is approved against versions of the portfolio, the risk state, *)
(* the global halt, the instrument gate and the coordinator.  One durable  *)
(* record binds the order to all of them; the matcher's verifier compares  *)
(* them once more when the order is submitted.  The world may move between *)
(* any two steps, the append may be refused or reach the journal and still *)
(* raise, its settlement may raise, and the process may be restarted.      *)
(***************************************************************************)
EXTENDS Naturals, FiniteSets

CONSTANTS AuthOrders,    \* order identities, one execution request each
          MaxDrift,      \* changes of the world
          AuthMaxFaults  \* raised appends and settlements, raising ports and crashes

ASSUME AuthorizationAssumption ==
    IsFiniteSet(AuthOrders) /\ MaxDrift \in Nat /\ AuthMaxFaults \in Nat

VARIABLES w,         \* what the freshness ports and the coordinator report
          approved,  \* the world each order was issued against
          auth,      \* the authority object
          authCall,  \* prepare_attempt in progress
          records,   \* durable authorization records
          status,    \* last outcome reported for an order
          receipts,  \* the world at the submission of each submitted order
          budget

authVars == <<w, approved, auth, authCall, records, status, receipts, budget>>

AuthNone == [none |-> TRUE]
NoOrder == "none"
World0 == [root |-> 1, pv |-> 0, rv |-> 0, rh |-> FALSE, ge |-> 0, gh |-> FALSE,
           gv |-> 0, held |-> NoOrder, sv |-> 0, run |-> TRUE]

-----------------------------------------------------------------------------
(* The world outside the authority *)

Drift(new) == budget.drift < MaxDrift /\ w' = new /\ budget' = [budget EXCEPT !.drift = @ + 1]
              /\ UNCHANGED <<approved, auth, authCall, records, status, receipts>>
WorldMoves ==
    \/ \E o \in AuthOrders \cup {NoOrder} : w.held # o /\ Drift([w EXCEPT !.held = o, !.gv = @ + 1])
    \/ Drift([w EXCEPT !.pv = @ + 1])
    \/ Drift([w EXCEPT !.rv = @ + 1, !.rh = ~@])
    \/ Drift([w EXCEPT !.ge = @ + 1, !.gh = ~@])
    \/ w.run /\ Drift([w EXCEPT !.sv = @ + 1, !.run = FALSE])

\* The dispatch is completed and the next root leased.
NextRoot == w.root = 1 /\ authCall = AuthNone /\ Drift([w EXCEPT !.root = 2, !.sv = @ + 2])

\* The risk authority issues an order and the gate is held for it.
IssueOrder(o) ==
    /\ approved[o] = AuthNone /\ authCall = AuthNone
    /\ w' = [w EXCEPT !.held = o, !.gv = @ + 1]
    /\ approved' = [approved EXCEPT ![o] = w]
    /\ UNCHANGED <<auth, authCall, records, status, receipts, budget>>

AuthFault == budget.fault < AuthMaxFaults /\ budget' = [budget EXCEPT !.fault = @ + 1]

-----------------------------------------------------------------------------
(* The authority *)

Dormant(attempts) == [state |-> "dormant", attempts |-> attempts,
                      unresolved |-> [o \in AuthOrders |-> AuthNone]]
NoAttempts == [o \in AuthOrders |-> AuthNone]

\* _freshness
Fresh(o) ==
    /\ w.root = approved[o].root /\ w.pv = approved[o].pv /\ w.rv = approved[o].rv
    /\ ~w.rh /\ ~w.gh /\ w.held = o /\ w.run

\* _payload: every version the authorization depends on.
Payload(o) == [order |-> o, root |-> w.root, pv |-> w.pv, rv |-> w.rv, ge |-> w.ge,
               gv |-> w.gv, sv |-> w.sv]

\* Freshness as a call reads it: the port answers, or it raises and counts as stale.
Reads(o, pay, fresh) ==
    \/ budget' = budget /\ fresh = (Fresh(o) /\ Payload(o) = pay)
    \/ AuthFault /\ fresh = FALSE

Attempt(pay, burned) == [pay |-> pay, burned |-> burned]
AuthIdle == auth.state = "active" /\ authCall = AuthNone
Report(o, s) == status' = [status EXCEPT ![o] = s]

\* prepare_attempt and _capture_append_context, up to the append.
PrepareAttempt(o) ==
    /\ AuthIdle /\ approved[o] # AuthNone
    /\ UNCHANGED <<w, approved, auth, records, receipts>>
    /\ LET kept == auth.attempts[o]
       IN \/ /\ auth.unresolved[o] # AuthNone
             /\ authCall' = [o |-> o, pay |-> auth.unresolved[o], at |-> "settle"]
             /\ UNCHANGED <<status, budget>>
          \/ /\ auth.unresolved[o] = AuthNone
             /\ \E fresh \in BOOLEAN :
                   /\ Reads(o, Payload(o), fresh)
                   /\ IF ~fresh THEN Report(o, "denied") /\ authCall' = AuthNone
                      ELSE IF kept = AuthNone
                      THEN authCall' = [o |-> o, pay |-> Payload(o), at |-> "append"] /\ UNCHANGED status
                      ELSE Report(o, IF kept.burned THEN "burned" ELSE "authorized") /\ authCall' = AuthNone

\* The append of _prepare_captured: durable and acknowledged, refused, or durable and raised.
AppendRecord ==
    /\ authCall # AuthNone /\ authCall.at = "append"
    /\ UNCHANGED <<w, approved, auth, status, receipts>>
    /\ \/ /\ records' = records \cup {authCall.pay} /\ authCall' = [authCall EXCEPT !.at = "after"]
          /\ UNCHANGED budget
       \/ /\ AuthFault /\ records' \in {records, records \cup {authCall.pay}}
          /\ authCall' = [authCall EXCEPT !.at = "settle"]

\* The second reading of the world, which decides whether the attempt is burned.
PostAppend ==
    /\ authCall # AuthNone /\ authCall.at = "after"
    /\ UNCHANGED <<w, approved, records, receipts>>
    /\ \E fresh \in BOOLEAN :
          /\ Reads(authCall.o, authCall.pay, fresh)
          /\ auth' = [auth EXCEPT !.attempts[authCall.o] = Attempt(authCall.pay, ~fresh)]
          /\ Report(authCall.o, IF fresh THEN "authorized" ELSE "burned")
    /\ authCall' = AuthNone

\* _settle_uncertain_attempt: unresolved while the journal does not answer, failed when the
\* record is absent, otherwise authorized or burned by what the world says now.
SettleUncertainAttempt ==
    /\ authCall # AuthNone /\ authCall.at = "settle"
    /\ UNCHANGED <<w, approved, records, receipts>>
    /\ authCall' = AuthNone
    /\ \/ /\ AuthFault
          /\ auth' = [auth EXCEPT !.unresolved[authCall.o] = authCall.pay]
          /\ Report(authCall.o, "unresolved")
       \/ /\ authCall.pay \notin records /\ UNCHANGED budget
          /\ auth' = [auth EXCEPT !.unresolved[authCall.o] = AuthNone]
          /\ Report(authCall.o, "failed")
       \/ /\ authCall.pay \in records
          /\ \E fresh \in BOOLEAN :
                /\ Reads(authCall.o, authCall.pay, fresh)
                /\ auth' = [auth EXCEPT !.unresolved[authCall.o] = AuthNone,
                                        !.attempts[authCall.o] = Attempt(authCall.pay, ~fresh)]
                /\ Report(authCall.o, IF fresh THEN "authorized" ELSE "burned")

\* Mutant of Usable: a burned attempt whose payload still agrees is used.
UsableAgain(o) == auth.attempts[o] # AuthNone
Usable(o) == auth.attempts[o] # AuthNone /\ ~auth.attempts[o].burned

\* Mutant of Agrees: the verifier compares what the order was approved against only.
AgreesWithApproval(o) == Fresh(o)
Agrees(o) == Fresh(o) /\ Payload(o) = auth.attempts[o].pay

\* verify_authorized_historical_submission, called by the matcher's submit: the world that
\* moved burns the attempt, a port that raises or reports a stale order leaves it.
VerifyAuthorizedHistoricalSubmission(o) ==
    /\ AuthIdle /\ receipts[o] = AuthNone /\ Usable(o)
    /\ UNCHANGED <<w, approved, authCall, records, status, budget>>
    /\ \/ Agrees(o) /\ receipts' = [receipts EXCEPT ![o] = w] /\ UNCHANGED auth
       \/ /\ Fresh(o) /\ ~Agrees(o)
          /\ auth' = [auth EXCEPT !.attempts[o].burned = TRUE] /\ UNCHANGED receipts

-----------------------------------------------------------------------------
(* Restart *)

AuthCrash ==
    /\ auth.state # "down" /\ AuthFault
    /\ auth' = [Dormant(NoAttempts) EXCEPT !.state = "down"] /\ authCall' = AuthNone
    /\ status' = [o \in AuthOrders |-> "none"]
    /\ UNCHANGED <<w, approved, records, receipts>>

\* recover_attempts: one attempt per record, burned until the activation; an order with two
\* records is refused.
RecordsOf(o) == {r \in records : r.order = o}
RecoverAttempts ==
    /\ auth.state = "down"
    /\ \A o \in AuthOrders : Cardinality(RecordsOf(o)) <= 1
    /\ auth' = Dormant([o \in AuthOrders |-> IF RecordsOf(o) = {} THEN AuthNone
                                             ELSE Attempt(CHOOSE r \in RecordsOf(o) : TRUE, TRUE)])
    /\ UNCHANGED <<w, approved, authCall, records, status, receipts, budget>>

\* activate: a recovered attempt is usable again exactly when the world still is the one
\* its record binds.
AuthActivate ==
    /\ auth.state = "dormant"
    /\ auth' = [auth EXCEPT !.state = "active",
                   !.attempts = [o \in AuthOrders |->
                       IF @[o] = AuthNone THEN AuthNone
                       ELSE Attempt(@[o].pay, ~(Fresh(o) /\ Payload(o) = @[o].pay))]]
    /\ UNCHANGED <<w, approved, authCall, records, status, receipts, budget>>

AuthInit ==
    /\ w = World0 /\ approved = NoAttempts /\ auth = Dormant(NoAttempts) /\ authCall = AuthNone
    /\ records = {} /\ status = [o \in AuthOrders |-> "none"] /\ receipts = NoAttempts
    /\ budget = [drift |-> 0, fault |-> 0]

AuthorityStep ==
    \/ \E o \in AuthOrders : PrepareAttempt(o) \/ VerifyAuthorizedHistoricalSubmission(o)
    \/ AppendRecord \/ PostAppend \/ SettleUncertainAttempt \/ RecoverAttempts \/ AuthActivate

AuthNext == WorldMoves \/ NextRoot \/ (\E o \in AuthOrders : IssueOrder(o)) \/ AuthorityStep \/ AuthCrash

AuthSpec == AuthInit /\ [][AuthNext]_authVars

-----------------------------------------------------------------------------
(* Properties *)

\* States of the authority, outcomes of an attempt and the order each attempt is for.
AuthTypeOK ==
    /\ auth.state \in {"down", "dormant", "active"}
    /\ status \in [AuthOrders -> {"none", "denied", "authorized", "burned", "failed", "unresolved"}]
    /\ \A o \in AuthOrders : auth.attempts[o] # AuthNone => auth.attempts[o].pay.order = o

\* An order reached the matcher only while every version of the world was the one its
\* durable record binds, nothing was halted, and the gate was held for it.
SubmittedUnderItsRecord ==
    \A o \in AuthOrders : receipts[o] # AuthNone =>
        /\ ~receipts[o].rh /\ ~receipts[o].gh /\ receipts[o].held = o /\ receipts[o].run
        /\ \E r \in RecordsOf(o) : \A f \in {"root", "pv", "rv", "ge", "gv", "sv"} :
                                      r[f] = receipts[o][f]

\* An order has one authorization record for the life of the run, whatever was refused,
\* settled late or recovered; the recovery depends on it.
OneRecordPerOrder == \A o \in AuthOrders : Cardinality(RecordsOf(o)) <= 1

\* No exception hides a durable record and none is invented: the reported outcome agrees
\* with the journal (prepare_attempt's "closed outcome").
OutcomeIsHonest ==
    \A o \in AuthOrders :
        /\ status[o] \in {"authorized", "burned"} => RecordsOf(o) # {}
        /\ (status[o] = "failed" /\ authCall = AuthNone) => RecordsOf(o) = {}

\* An attempt burned in this process never becomes an effect in it.
BurnedHasNoEffect ==
    [][\A o \in AuthOrders : (auth.attempts[o] # AuthNone /\ auth.attempts[o].burned
                              /\ receipts[o] = AuthNone) => receipts'[o] = AuthNone]_authVars

\* Authorization: an order is submitted under its own durable record, has at
\* most one, and the outcome reported is the one that happened.
AuthorizationSafe ==
    /\ AuthTypeOK /\ SubmittedUnderItsRecord /\ OneRecordPerOrder
    /\ OutcomeIsHonest
=============================================================================
