------------------------------ MODULE MCInvoices ------------------------------
(***************************************************************************)
(* Instances of Invoices for TLC.                                          *)
(***************************************************************************)
EXTENDS Invoices, TLC

CONSTANTS alice, bob, i1, i2, other, w1, w2

\* An invoice of each user, and one of somebody else who uses the same node.
MCOwner == i1 :> alice @@ i2 :> bob @@ other :> bob

\* Invoices of one user, to be settled by two processes.
MCOneOwner == [i \in Invoices |-> alice]

MCInitialBalance == [u \in Users |-> 1]

\* A debit and a credit, which may cancel each other.
MCOtherDeltas == {-1, 1}
===============================================================================
