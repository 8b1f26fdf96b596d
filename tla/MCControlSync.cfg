SPECIFICATION FairSpec
CONSTANTS
    a = a
    n1 = n1
    n2 = n2
    Networks = {n1, n2}
    Peers = {a}
    Home <- MCHome
    Self = Self
    Hosts = {"facade", "cli"}
    Kinds = {"p2p"}
    MaxDrain = 2
    MaxChanges = 2
    MaxFaults = 1
    Nil = Nil
INVARIANTS TypeOK OwnAddressLearnt
PROPERTIES RevisionGrows MapConverges
