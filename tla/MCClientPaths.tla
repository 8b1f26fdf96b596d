--------------------------- MODULE MCClientPaths ---------------------------
(* Two peers, a cluster of two nodes with one link and one with both nodes,  *)
(* of which the second is preferred.                                         *)
EXTENDS ClientPaths, TLC
CONSTANTS n1, n2
MCPriority == (n1 :> 2) @@ (n2 :> 1)
MCClusters == {[nodes |-> <<n1, n2>>, fanout |-> 0], [nodes |-> <<n1, n2>>, fanout |-> 3]}
=============================================================================
