------------------------------ MODULE MCPayments ------------------------------
(***************************************************************************)
(* Instances of Payments for TLC.                                          *)
(***************************************************************************)
EXTENDS Payments, TLC

CONSTANTS alice, p1, p2, fixed, open

\* Two requests of one user.
MCOneOwner == [p \in PaymentIds |-> alice]

\* One invoice that carries an amount, one that does not.
MCInvoiceAmount == fixed :> 2 @@ open :> NoAmount

MCExplicitAmounts == {NoAmount, 1}

MCInitialBalance == [u \in Users |-> 5]
===============================================================================
