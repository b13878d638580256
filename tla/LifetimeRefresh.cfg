SPECIFICATION LifetimeSpec
CONSTANTS
    Lifetimes = {0, 1, 3, 5}
    MaxDuration = 5
    AllocationInterval = 2
    Channels = {n1}
    Peers = {p1}
    BindingLifetime = 3
    ChannelInterval = 3
    MaxNow = 12
    None = None
PROPERTIES
    GrantHonoured
