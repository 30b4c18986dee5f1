-------------------------- MODULE MCTransferViews --------------------------
(***************************************************************************)
(* One transfer in each direction and the windows that show them, for TLC. *)
(***************************************************************************)
EXTENDS TransferViews
=============================================================================
