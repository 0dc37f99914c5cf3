SPECIFICATION FairSpec
CONSTANTS
    alice = alice
    p1 = p1
    p2 = p2
    fixed = fixed
    open = open
    Users = {alice}
    PaymentIds = {p1, p2}
    Owner <- MCOneOwner
    Invoices = {fixed, open}
    InvoiceAmount <- MCInvoiceAmount
    ExplicitAmounts <- MCExplicitAmounts
    Fees = {0, 1}
    MinPay = 1
    MaxPay = 2
    DailyMax = 2
    Int4Max = 1
    InitialBalance <- MCInitialBalance
    CreditAmounts = {1}
    MaxCredited = 2
    MaxFaults = 1
INVARIANTS
    IInv
    FundsConserved
    FundsFollowTheNode
    RowsMatchReservations
    NothingLeftPending
    DebitedOncePerInvoice
    OverLimitOnlyByRaces
PROPERTIES
    ImplementsProtocol
    RequestsEnd
CHECK_DEADLOCK FALSE
