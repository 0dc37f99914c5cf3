SPECIFICATION FairSpec
CONSTANTS
    alice = alice
    d1 = d1
    d2 = d2
    sent = sent
    w1 = w1
    w2 = w2
    Instances = {w1, w2}
    Outputs = {d1}
    NoOutput = NoOutput
    StartHeight = 1
    NumBlocks = 2
    MaxHeight = 2
    MaxFaults = 1
    Users = {alice}
    PaysTo <- MCPaysTo
    Stranger = Stranger
    Withdrawn = {d1}
    Amount <- MCAmount
    InitialBalance <- MCInitialBalance
    OtherDeltas <- MCOtherDeltas
    MaxOthers = 2
    MaxRetries = 2
INVARIANTS
    IInv
    CreditsAreExact
PROPERTIES
    DepositIsConfirmed
    ImplementsLedger
CHECK_DEADLOCK FALSE
