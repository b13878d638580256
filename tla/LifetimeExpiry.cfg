SPECIFICATION LifetimeSpec
CONSTANTS
    Lifetimes = {0, 1, 3, 5}
    MaxDuration = 4
    AllocationInterval = 2
    Channels = {n1, n2}
    Peers = {p1, p2}
    BindingLifetime = 3
    ChannelInterval = 3
    MaxNow = 12
    None = None
SYMMETRY TableSymmetry
INVARIANTS
    NeverOutlivesGrant
    BindingsExpire
