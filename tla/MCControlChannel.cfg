SPECIFICATION Spec
CONSTANTS
    n1 = n1
    n2 = n2
    g1 = g1
    g2 = g2
    t1 = t1
    t2 = t2
    t3 = t3
    c1 = c1
    c2 = c2
    c3 = c3
    Nodes = {n1}
    Networks = {g1, g2}
    Tokens = {t1, t2}
    Conns = {c1, c2}
    MaxFailures = 1
    Nil = Nil
SYMMETRY Symmetric
INVARIANTS TypeOK HubEntryIsLive LastCloseClears
