--------------------------- MODULE MCNegotiation ---------------------------
(***************************************************************************)
(* Negotiation between two programs, instantiated for TLC.  The configs    *)
(* differ in who suggests files, how many, and what may go wrong.          *)
(***************************************************************************)
EXTENDS Negotiation

MCBoth == {"A", "B"}
MCOne == {"A"}
=============================================================================
