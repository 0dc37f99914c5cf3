SPECIFICATION Spec
CONSTANTS
    alice = alice
    bob = bob
    i1 = i1
    i2 = i2
    other = other
    w1 = w1
    w2 = w2
    Instances = {w1}
    Users = {alice, bob}
    Invoices = {i1, i2, other}
    Foreign = {other}
    Owner <- MCOwner
    PaidAmounts = {1, 2}
    InitialBalance <- MCInitialBalance
    OtherDeltas <- MCOtherDeltas
    MaxIndex = 3
    MaxOthers = 1
    MaxFaults = 0
PROPERTIES
    CompleteCredits
CHECK_DEADLOCK FALSE
