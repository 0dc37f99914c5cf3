-------------------------------- MODULE Sums --------------------------------
(***************************************************************************)
(* Sums of amounts: the SELECT SUM(...) of app/src/payment/mod.rs:153, and *)
(* the totals the accounting properties compare.  The terms are a          *)
(* function, so that one lemma can speak of every sum.                     *)
(***************************************************************************)
EXTENDS FiniteSetsExt

\* The sum of f[i] over the elements i of the finite set S.
SumOf(f, S) == MapThenSumSet(LAMBDA i : f[i], S)
=============================================================================
