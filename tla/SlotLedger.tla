----------------------------- MODULE SlotLedger -----------------------------
(***************************************************************************)
(* What the confirmed-experiment core promises its clients: one slot, one  *)
(* verdict for each admitted experiment, given exactly when the slot is    *)
(* freed, and an accepted cancellation that no result can overtake.        *)
(* QuineStore and QuineCore implement it.                                  *)
(***************************************************************************)
CONSTANTS Keys, None

VARIABLES
    holder,     \* the experiment that holds the slot, or None
    verdict,    \* how each experiment ended, or None
    cancelled   \* experiments whose cancellation was accepted

vars == <<holder, verdict, cancelled>>

Verdicts == {"succeeded", "failed", "cancelled", "released"}

Init ==
    /\ holder = None
    /\ verdict = [k \in Keys |-> None]
    /\ cancelled = {}

\* The slot is taken by an experiment that never ended and was not cancelled.
Admissible(k) == holder = None /\ verdict[k] = None /\ k \notin cancelled

Admit(k) ==
    /\ Admissible(k)
    /\ holder' = k
    /\ UNCHANGED <<verdict, cancelled>>

\* A run that cannot even start is admitted and fails at once.
AdmitFailed(k) ==
    /\ Admissible(k)
    /\ verdict' = [verdict EXCEPT ![k] = "failed"]
    /\ UNCHANGED <<holder, cancelled>>

\* A cancellation is accepted; the slot is freed with it or kept until later.
Cancel(k) ==
    /\ verdict[k] \in {None, "cancelled"}
    /\ cancelled' = cancelled \cup {k}
    /\ \/ UNCHANGED <<holder, verdict>>
       \/ /\ holder = k /\ k \notin cancelled
          /\ holder' = None
          /\ verdict' = [verdict EXCEPT ![k] = "cancelled"]

\* The holder ends.  A result needs that no cancellation was accepted.
Settle(k, v) ==
    /\ holder = k
    /\ v \in {"succeeded", "failed"} => k \notin cancelled
    /\ v = "cancelled" => k \in cancelled
    /\ holder' = None
    /\ verdict' = [verdict EXCEPT ![k] = v]
    /\ UNCHANGED cancelled

Next == \E k \in Keys :
    \/ Admit(k) \/ AdmitFailed(k) \/ Cancel(k)
    \/ \E v \in Verdicts : Settle(k, v)

Spec == Init /\ [][Next]_vars
=============================================================================
