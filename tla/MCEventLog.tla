----------------------------- MODULE MCEventLog -----------------------------
(* EventLog for TLC.  The identifiers are given in no order of recording. *)
EXTENDS EventLog
=============================================================================
