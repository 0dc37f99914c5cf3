------------------------------ MODULE MCDeposits ------------------------------
(***************************************************************************)
(* Instances of Deposits for TLC.                                          *)
(***************************************************************************)
EXTENDS Deposits

CONSTANTS alice, d1, d2, sent, w1, w2

\* Deposits of one user, and an output that is none.
MCPaysTo == [o \in Outputs |-> IF o = sent THEN Stranger ELSE alice]

MCAmount == [o \in Outputs |-> 1]

MCInitialBalance == [u \in Users |-> 1]

\* A debit that undoes a deposit, and a credit.
MCOtherDeltas == {-1, 1}
===============================================================================
