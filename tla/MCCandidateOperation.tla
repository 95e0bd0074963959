------------------------ MODULE MCCandidateOperation ------------------------
(* CandidateOperation for TLC: the requests of one application. *)
EXTENDS CandidateOperation, TLC

CONSTANTS a1, r1, r2, d1, d2, p1

MCAppOf == [r \in Requests |-> a1]
MCConfigs == {[domain |-> d, port |-> p1, hosting |-> TRUE] : d \in {d1, d2}}
MCGates == GateRecords
MCIntents == IntentRecords

Symmetry == {p @@ q : p \in Permutations(Requests), q \in Permutations({d1, d2})}
=============================================================================
