SPECIFICATION FairSpec
CONSTANTS
    f1 = f1  f2 = f2
    c1 = c1  c2 = c2  c3 = c3  c4 = c4
    Flows = {f1, f2}
    Clients = {c1, c2, c3, c4}
    ClientsOf <- TwoTransports
    Cleaners = {cleanup}
    Ports = {p1}
    Peers = {peer1, peer2}
    Channels = {ch1}
    MaxAllocations = 1
    MaxAttempts = 1
    UdpFirst = FALSE
    MaxGen = 2
    None = None
INVARIANTS
    PortBitHasOneOwner
    ArcKeepsSocket
    BindingsDieWithAllocation
PROPERTIES
    HandlersFinish
    ExpiredGetsRemoved
    RemovedSocketCloses
