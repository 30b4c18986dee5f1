---------------------------- MODULE MCConMachine ----------------------------
(***************************************************************************)
(* One connection of either type, with and without SSL, for TLC.           *)
(***************************************************************************)
EXTENDS ConMachine
=============================================================================
