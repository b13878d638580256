SPECIFICATION BandwidthSpec
CONSTANTS
    Callers = {t1, t2}
    Addrs = {a1}
    GlobalLimit = 2
    Limits = {1, Unlimited}
    Sizes = {1, 2}
    TicksPerSec = 2
    BurstSecs = 2
    MaxWord = 3
    MaxTime = 2
    MaxTotal = 3
    Global = Global
    Unlimited = Unlimited
    None = None
SYMMETRY CallerSymmetry
INVARIANTS
    TracksExactBucket
    OveradmissionBounded
    RelayedWasPaid
