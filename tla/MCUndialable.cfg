SPECIFICATION Spec
CONSTANTS
    n1 = n1
    n2 = n2
    None = None
    Nodes = {n1, n2}
    Regions = {east}
    RegionOf <- MCRegionOf
    Seeds <- MCSeeds
    Peers <- MCPeers
    GossipFanout = 1
    ProbeTimeout = 0
    SuspectTimeout = 0
    MaxCopies = 1
INVARIANT
    AddressIsProvided
