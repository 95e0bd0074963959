-------------------------- MODULE MCAppMutationLock --------------------------
(* AppMutationLock for TLC. *)
EXTENDS AppMutationLock
==============================================================================
