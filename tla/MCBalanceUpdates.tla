--------------------------- MODULE MCBalanceUpdates ---------------------------
(***************************************************************************)
(* Instances of BalanceUpdates for TLC.  The clients differ in what they   *)
(* do to the balance, so there is no symmetry to use.                      *)
(***************************************************************************)
EXTENDS BalanceUpdates, TLC

CONSTANTS c1, c2, c3, c4

\* Two deposits and two withdrawals; the withdrawals together exceed the
\* initial balance, and one deposit undoes one withdrawal.
MCDelta == c1 :> 1 @@ c2 :> 2 @@ c3 :> -2 @@ c4 :> -3
===============================================================================
