--------------------------- MODULE MCStatusBacklog ---------------------------
(***************************************************************************)
(* The status messages of one working thread, instantiated for TLC.        *)
(***************************************************************************)
EXTENDS StatusBacklog
=============================================================================
