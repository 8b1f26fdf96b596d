--------------------------- MODULE MCAddressLease ---------------------------
EXTENDS AddressLease, TLC
CONSTANTS d1, d2, d3

\* The ranges of two /29 networks, and that of an additional subnet with the
\* gateway 2 and two addresses.
MCDefaultPools == {[base |-> 0, start |-> 2, end |-> 6], [base |-> 8, start |-> 10, end |-> 14]}
MCPools == MCDefaultPools \cup {[base |-> 0, start |-> 3, end |-> 4]}

\* An address of the first range, with blanks and without, and one of the other.
MCWishes == {Plain(3), [addr |-> 3, padded |-> TRUE], Plain(9)}

MCSymmetry == Permutations(Requests) \cup Permutations(Devices \ Owners)
=============================================================================
