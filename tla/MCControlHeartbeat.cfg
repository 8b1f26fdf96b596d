SPECIFICATION FairSpec
CONSTANTS
    n1 = n1
    n2 = n2
    g1 = g1
    g2 = g2
    t1 = t1
    t2 = t2
    t3 = t3
    c1 = c1
    c2 = c2
    c3 = c3
    Nodes = {n1}
    Networks = {g1}
    Tokens = {t1, t2}
    Conns = {c1, c2}
    MaxFailures = 0
    Nil = Nil
PROPERTY HeartbeatKeepsFresh
