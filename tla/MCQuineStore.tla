---------------------------- MODULE MCQuineStore ----------------------------
(* A small instance of QuineStore: two experiments, the second of which may *)
(* name the first as the source of a holdout.                               *)
EXTENDS QuineStore, TLC

CONSTANTS k1, k2, b1, b2, r1, r2

\* b2 is a holdout frozen on k1's success with input b1 and result r1.
MCHoldoutOf ==
    (b1 :> None) @@ (b2 :> [source |-> k1, frozen |-> b1, result |-> r1])

\* Preparation ids and machines are interchangeable.
MCSymmetry == Permutations(PrepIds) \cup Permutations(Machines)
=============================================================================
