CONSTANTS
    d1 = d1
    d2 = d2
    d3 = d3
    Devices = {d1, d2, d3}
    Owners = {d1}
    Ids = {1, 2, 3}
    Pools <- MCPools
    DefaultPools <- MCDefaultPools
    Wishes <- MCWishes
    Requests = {r1, r2}
    MaxFailures = 1
    Nil = Nil
SPECIFICATION Spec
SYMMETRY MCSymmetry
CHECK_DEADLOCK FALSE
INVARIANTS
    TypeOK
    MovesAreAccepted
    LeasesInRange
