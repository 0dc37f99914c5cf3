SPECIFICATION Spec
CONSTANTS
    alice = alice
    p1 = p1
    p2 = p2
    fixed = fixed
    open = open
    Users = {alice}
    PaymentIds = {p1, p2}
    Owner <- MCOneOwner
    Invoices = {fixed, open}
    InvoiceAmount <- MCInvoiceAmount
    ExplicitAmounts <- MCExplicitAmounts
    Fees = {0, 1}
    MinPay = 1
    MaxPay = 2
    DailyMax = 3
    Int4Max = 2
    InitialBalance <- MCInitialBalance
    CreditAmounts = {1}
    MaxCredited = 2
    MaxFaults = 0
INVARIANTS
    FailedSendIsRefunded
CHECK_DEADLOCK FALSE
