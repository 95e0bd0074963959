------------------------- MODULE MCCandidateJournal -------------------------
(* CandidateJournal for TLC: two applications competing for one domain. *)
EXTENDS CandidateJournal, TLC

CONSTANTS a1, a2, r1, r2, r3, d1, p1, p2, g1

MCAppOf == (r1 :> a1) @@ (r2 :> a1) @@ (r3 :> a2)
MCConfigs ==
    { [domain |-> d1, port |-> p1, hosting |-> TRUE],
      [domain |-> NoDomain, port |-> p2, hosting |-> TRUE],
      [domain |-> d1, port |-> p1, hosting |-> FALSE] }
MCIntents == {[requested |-> c] : c \in {x \in MCConfigs : x.hosting}}

\* r1 and r2 belong to the same application and are interchangeable.
Symmetry == Permutations({r1, r2})
=============================================================================
