--------------------------- MODULE MCControlSync ---------------------------
(* Two networks, and a peer in one of them. *)
EXTENDS ControlSync, TLC
CONSTANTS a, n1, n2
MCHome == a :> n1
=============================================================================
