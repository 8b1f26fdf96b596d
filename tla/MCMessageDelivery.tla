------------------------- MODULE MCMessageDelivery -------------------------
(* Small instances of MessageDelivery: two users, the first message is for  *)
(* the first one.                                                            *)
EXTENDS MessageDelivery

CONSTANTS u1, u2

MCOwner == [m \in Messages |-> u1]
=============================================================================
