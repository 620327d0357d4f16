--------------------------- MODULE MCActionAgent ---------------------------
(***************************************************************************)
(* An instance of ActionAgent for TLC.                                     *)
(***************************************************************************)
EXTENDS ActionAgent

ThreeTickets == 1 .. 3
=============================================================================
