CONSTANTS
    u1 = u1
    u2 = u2
    g1 = g1
    g2 = g2
    Users = {u1, u2}
    Networks = {g1, g2}
    Keys = {k1}
    Requests = {r1, r2}
    Devices = {1, 2}
    FirstOwner <- MCFirstOwner
    UserOf <- MCUserOf
    MaxRequests = 4
    MaxFailures = 0
    Nil = Nil
SPECIFICATION Spec
SYMMETRY MCSymmetry
CHECK_DEADLOCK FALSE
INVARIANT SingleNetworkPerDevice
