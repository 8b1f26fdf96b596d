SPECIFICATION Spec
CONSTANTS
    a1 = a1
    a2 = a2
    ka = ka
    me = me
    Ips = {a1, a2}
    Keys = {ka}
    Locals = {me, a1}
    Secrets = {s1, s2}
    Nodes = {n1, n2}
    Procs = {p1, p2}
    Main = p1
    MaxFaults = 1
    Overlaps = FALSE
    Nil = Nil
    Configs <- MCConfigs
    Hosts <- MCHosts
SYMMETRY Symmetric
INVARIANTS TypeOK SavedTunnelIsUp NoResidue ShownIsPlanned OneSecret
