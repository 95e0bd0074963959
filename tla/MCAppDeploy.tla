---------------------------- MODULE MCAppDeploy ----------------------------
(* A small instance of AppDeploy: a configuration with a domain and a secret, *)
(* and one with the hosting profile and neither.                              *)
EXTENDS AppDeploy
CONSTANTS a1, r1, d1

Keyed == [domain |-> d1, hosting |-> FALSE, secret |-> TRUE]
Hosted == [domain |-> NoDomain, hosting |-> TRUE, secret |-> FALSE]

MCConfigs == {Keyed, Hosted}
MCAppOf == [r \in {r1} |-> a1]
=============================================================================
