SPECIFICATION FairSpec
CONSTANTS
    alice = alice
    x = x
    y = y
    x1 = x1
    x2 = x2
    y1 = y1
    w1 = w1
    w2 = w2
    Users = {alice}
    Ids = {x}
    Owner <- MCOwner
    Amounts = {0, 1}
    Fees = {0, 2}
    InitialBalance <- MCInitialBalance
    CreditAmounts = {1}
    MaxCredited = 1
    MaxRetries = 2
    Instances = {w1, w2}
    Txs = {x1, x2}
    Label <- MCLabel
    NoTx = NoTx
    MaxMonth = 2
    MaxFaults = 1
INVARIANTS
    IInv
    OneInMempool
    PassedIsConfirmed
PROPERTIES
    WithdrawalIsSent
    ImplementsProtocol
CHECK_DEADLOCK FALSE
