SPECIFICATION Spec
CONSTANTS
    c1 = c1
    c2 = c2
    p1 = p1
    p2 = p2
    Clients = {c1, c2}
    w1 = w1
    w2 = w2
    Workers = {w1, w2}
    Capacity = 2
    Passwords = {p1, p2}
    Password <- MCPassword
    Accounts <- MCAccounts
    Setups <- MCSetups
    Managed = {c1}
    Rules <- MCRules
    FirstRule <- MCFirstRule
    NonceExpiry = 1
    CleanupInterval = 2
    MaxTime = 3
    MaxDatagrams = 3
    MaxChanges = 1
    Never = Never
    None = None
INVARIANTS
    InOrderPerClient
    KnownUserIsServed
PROPERTIES
    NonceLifetime
    QueuesDrain
CHECK_DEADLOCK FALSE
