SPECIFICATION Spec
CONSTANTS
    MaxVersion = 3
    MaxStarts = 2
    Unparsable <- MCUnparsable
    Rsa <- MCRsa
    Domains = {d1, d2}
    None = None
    Empty = Empty
    Broken = Broken
    Whole = Whole
    SelfSigned = SelfSigned
INVARIANTS
    PairsStayTogether
    AckedIsInUse
    AckedSurvivesRestart
    ReadyIsAnswered
PROPERTIES
    NeverOlder
    IssuedOncePerPeriod
    TlsFollowsControlPlane
CHECK_DEADLOCK FALSE
