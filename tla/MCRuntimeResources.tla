------------------------- MODULE MCRuntimeResources -------------------------
(***************************************************************************)
(* RuntimeResources with every combination of what a config may ask for.   *)
(***************************************************************************)
EXTENDS RuntimeResources, TLC

CONSTANTS d1, d2

AllConfigs == [hosted : BOOLEAN, database : {NoDatabase, d1, d2}, domain : BOOLEAN,
               retries : BOOLEAN, resilient : BOOLEAN]
\* Retries say nothing without a domain, and the disruption budget follows one bit.
MCConfigs == {c \in AllConfigs : c.retries => c.domain}
Symmetry == Permutations({d1, d2})
=============================================================================
