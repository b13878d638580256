SPECIFICATION FairSpec
CONSTANTS
    Callers = {t1, t2}
    PortCount = 3
    WordBits = 2
INVARIANTS
    OneOwnerPerPort
    CountDrift
    NoneMeansExhausted
PROPERTIES
    ImplementsPortPool
    LockFree
