SPECIFICATION Spec
CONSTANTS
    f1 = f1  f2 = f2
    c1 = c1  c2 = c2  c3 = c3  c4 = c4
    Flows = {f1, f2}
    Clients = {c1, c2, c3, c4}
    ClientsOf <- FourClients
    Cleaners = {cleanup}
    Ports = {p1, p2}
    Peers = {}
    Channels = {}
    MaxAllocations = 2
    MaxAttempts = 2
    UdpFirst = TRUE
    MaxGen = 2
    None = None
SYMMETRY WorkerSymmetry
INVARIANTS
    PortBitHasOneOwner
    ActiveIsTableSize
    QuotaOvershootBounded
    OneAllocationPerClient
    NoAllocationAfterDeleted
