--------------------- MODULE MCCandidateDeletionLiveness ---------------------
(* CandidateDeletionLiveness for TLC: one application, one configuration. *)
EXTENDS CandidateDeletionLiveness

CONSTANTS a1, d1, p1

MCAppOf == [r \in Requests |-> a1]
MCConfigs == {[domain |-> d1, port |-> p1, hosting |-> TRUE]}
MCGates == GateRecords
MCIntents == IntentRecords
=============================================================================
