--------------------------- MODULE MCHostPrograms ----------------------------
(***************************************************************************)
(* HostPrograms for TLC.                                                   *)
(***************************************************************************)
EXTENDS HostPrograms
=============================================================================
