SPECIFICATION Spec
CONSTANTS
    a = a
    n1 = n1
    n2 = n2
    Networks = {n1, n2}
    Peers = {a}
    Home <- MCHome
    Self = Self
    Hosts = {"facade", "cli"}
    Kinds = {"p2p"}
    MaxDrain = 2
    MaxChanges = 3
    MaxFaults = 0
    Nil = Nil
INVARIANTS TunnelFollowsPeer
