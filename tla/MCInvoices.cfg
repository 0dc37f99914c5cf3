SPECIFICATION FairSpec
CONSTANTS
    alice = alice
    bob = bob
    i1 = i1
    i2 = i2
    other = other
    w1 = w1
    w2 = w2
    Instances = {w1, w2}
    Users = {alice}
    Invoices = {i1, i2, other}
    Foreign = {other}
    Owner <- MCOneOwner
    PaidAmounts = {1}
    InitialBalance <- MCInitialBalance
    OtherDeltas <- MCOtherDeltas
    MaxIndex = 2
    MaxOthers = 1
    MaxFaults = 2
INVARIANTS
    IInv
    CreditsAreExact
    NoSilentLoss
PROPERTIES
    DueIsCredited
    ImplementsLedger
CHECK_DEADLOCK FALSE
