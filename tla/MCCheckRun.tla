----------------------------- MODULE MCCheckRun -----------------------------
(* Small instances of CheckRun for TLC. *)
EXTENDS CheckRun, TLC

CONSTANTS v1, r1, r2, w1, w2, q1, q2

OneReview == [r \in Run |-> v1]
Symmetry == Permutations({r1, r2}) \cup Permutations({w1, w2})
            \cup Permutations({q1, q2})
=============================================================================
