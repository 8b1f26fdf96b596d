SPECIFICATION FairSpec
CONSTANTS
    n1 = n1
    n2 = n2
    Peers = {a, b}
    Nodes = {n1, n2}
    Priority <- MCPriority
    Clusters <- MCClusters
    Sizes = {0, 1, 2}
    MaxSends = 2
    MaxPackets = 1
    MaxConnects = 2
    Nil = Nil
INVARIANTS TypeOK LinksCarryTicket PathNamesTransport ConnectReachesPeer ConfirmedWasForwarded
PROPERTIES CallsReturn
