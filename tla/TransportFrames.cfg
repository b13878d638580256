SPECIFICATION TransportFairSpec
CONSTANTS
    Conns = {k1, k2}
    Relays = {r1}
    MaxFrames = 1
    None = None
INVARIANTS
    FramesExclusive
    LockedOnlyWhileWriting
PROPERTIES
    ResponsesWritten
    RegistrationsFinish
