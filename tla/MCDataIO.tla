------------------------------ MODULE MCDataIO ------------------------------
(***************************************************************************)
(* One file on a data connection, instantiated for TLC: every combination  *)
(* of sizes and positions up to MaxSize, and buffers smaller than the file.*)
(***************************************************************************)
EXTENDS DataIO
=============================================================================
