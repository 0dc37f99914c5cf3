SPECIFICATION Spec
CONSTANTS
    c1 = c1
    c2 = c2
    c3 = c3
    c4 = c4
    Clients = {c1, c2, c3, c4}
    Delta <- MCDelta
    InitialBalance = 4
    MaxRetries = 2
INVARIANTS
    IInv
    NoExhaustion
PROPERTIES
    ImplementsAtomic
CHECK_DEADLOCK FALSE
