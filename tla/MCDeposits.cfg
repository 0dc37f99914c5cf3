SPECIFICATION FairSpec
CONSTANTS
    alice = alice
    d1 = d1
    d2 = d2
    sent = sent
    w1 = w1
    w2 = w2
    Instances = {w1}
    Outputs = {d1, d2, sent}
    NoOutput = NoOutput
    StartHeight = 1
    NumBlocks = 2
    MaxHeight = 2
    MaxFaults = 1
    Users = {alice}
    PaysTo <- MCPaysTo
    Stranger = Stranger
    Withdrawn = {d2}
    Amount <- MCAmount
    InitialBalance <- MCInitialBalance
    OtherDeltas <- MCOtherDeltas
    MaxOthers = 0
    MaxRetries = 2
INVARIANTS
    IInv
    CreditsAreExact
PROPERTIES
    DepositIsConfirmed
CHECK_DEADLOCK FALSE
