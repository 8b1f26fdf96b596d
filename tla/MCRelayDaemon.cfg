CONSTANTS
    n1 = n1
    n2 = n2
    n3 = n3
    s1 = s1
    s2 = s2
    net1 = net1
    net2 = net2
    Nodes = {n1, n2, n3}
    Sids = {s1, s2}
    Networks = {net1, net2}
    Addrs = {a1, a2}
    Payloads = {b1}
    Empty = Empty
    Garbled = Garbled
    NoPact = NoPact
    NoAddr = NoAddr
    MaxNow = 1
    Tickets <- MCTickets
SPECIFICATION Spec
INVARIANTS
    TypeOK
    StoreMatchesEndpoints
    ExchangeWithinTicket
PROPERTY ImplementsService
