--------------------- MODULE MCCandidateRecoveryLiveness ---------------------
(* CandidateRecoveryLiveness for TLC: the requests of one application. *)
EXTENDS CandidateRecoveryLiveness, TLC

CONSTANTS a1, r1, r2, d1, p1

MCAppOf == [r \in Requests |-> a1]
MCConfigs == {[domain |-> d1, port |-> p1, hosting |-> TRUE]}
MCGates == GateRecords
MCIntents == IntentRecords
=============================================================================
