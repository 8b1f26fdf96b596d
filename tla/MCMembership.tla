---------------------------- MODULE MCMembership ----------------------------
(* Two users; the devices are those of the first one. *)
EXTENDS Membership, TLC
CONSTANTS u1, u2, g1, g2

MCUserOf == [d \in Devices |-> u1]
\* The sign-up of u1 stopped before a network was created.
MCFirstOwner == [g \in Networks |-> IF g = g2 THEN u2 ELSE Nil]
MCSymmetry == Permutations(Requests)
=============================================================================
