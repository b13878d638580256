SPECIFICATION FairSpec
CONSTANTS
    f1 = f1  f2 = f2
    c1 = c1  c2 = c2  c3 = c3  c4 = c4
    Flows = {f1, f2}
    Clients = {c1, c2, c3, c4}
    ClientsOf <- TwoClients
    Cleaners = {cleanup}
    Ports = {p1}
    Peers = {}
    Channels = {}
    MaxAllocations = 1
    MaxAttempts = 1
    UdpFirst = TRUE
    MaxGen = 2
    None = None
PROPERTIES
    AllocateRemovesOwn
