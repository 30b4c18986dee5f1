--------------------------- MODULE MCServerAccept ---------------------------
(***************************************************************************)
(* One data server and its transfers, instantiated for TLC.                *)
(***************************************************************************)
EXTENDS ServerAccept
=============================================================================
