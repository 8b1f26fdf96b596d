-------------------------- MODULE MCControlChannel --------------------------
EXTENDS ControlChannel, TLC
CONSTANTS n1, n2, g1, g2, t1, t2, t3, c1, c2, c3
Symmetric == Permutations(Conns) \cup Permutations(Tokens) \cup Permutations(Networks)
               \cup Permutations(Nodes)
=============================================================================
