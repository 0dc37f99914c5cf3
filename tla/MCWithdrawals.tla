----------------------------- MODULE MCWithdrawals -----------------------------
(***************************************************************************)
(* Instances of Withdrawals for TLC.                                       *)
(***************************************************************************)
EXTENDS Withdrawals

CONSTANTS alice, x, y, x1, x2, y1, w1, w2

\* Withdrawals of one user, who can afford one and no fee.
MCOwner == [id \in Ids |-> alice]

MCLabel == [t \in Txs |-> IF t = y1 THEN y ELSE x]

MCInitialBalance == [u \in Users |-> 1]
===============================================================================
