-------------------------- MODULE MCRevisionStore --------------------------
(* RevisionStore for TLC: two clients, and one revision more than fit. *)
EXTENDS RevisionStore, TLC
CONSTANTS c1, c2, r1, r2, r3, v1, v2

Symmetry == Permutations({c1, c2}) \cup Permutations({r1, r2, r3}) \cup Permutations({v1, v2})
=============================================================================
