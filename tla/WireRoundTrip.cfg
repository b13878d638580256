SPECIFICATION Spec
CONSTANTS
    Items <- AllItems
    MaxItems = 2
    None = None
CHECK_DEADLOCK FALSE
INVARIANTS
    DecodedIsSent
    NothingHeldBack
