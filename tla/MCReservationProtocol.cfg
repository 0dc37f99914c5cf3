SPECIFICATION Spec
CONSTANTS
    alice = alice
    bob = bob
    r1 = r1
    r2 = r2
    r3 = r3
    Users = {alice, bob}
    Ids = {r1, r2, r3}
    Owner <- MCOwner
    HoldAmounts = {1, 2}
    CreditAmounts = {1}
    InitialBalance <- MCInitialBalance
    MaxCredited = 1
INVARIANTS
    TypeOK
    FundsConserved
    OperationsCovered
PROPERTIES
    Finality
CHECK_DEADLOCK FALSE
