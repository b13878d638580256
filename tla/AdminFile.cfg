SPECIFICATION Spec
CONSTANTS
    Handlers = {h1, h2}
    Names = {u1, u2}
    Accounts = {a1}
    ApiKeyUsers = {u2}
    ApiAccount = a1
    Ranges = {r1}
    DefaultRange = r1
    Priorities = {0, 1}
    MaxRules = 2
    None = None
SYMMETRY HandlerSymmetry
INVARIANTS
    FileFollowsMemory
    AclOrdered
