----------------------------- MODULE AtomicBalance -----------------------------
(***************************************************************************)
(* What balance::get, the Balance methods and balance::update promise when *)
(* a transaction uses them together (app/src/balance/entities.rs:28-33):   *)
(* each update takes effect as one atomic addition or subtraction, or not  *)
(* at all.  No snapshots, no conflicts, no retries.                        *)
(***************************************************************************)
EXTENDS Integers

CONSTANTS
    Clients,         \* transactions on one user's balance, one update each
    Delta,           \* what a client adds to the balance, negative to reserve
    InitialBalance

VARIABLES balance, applied

vars == <<balance, applied>>

Init == balance = InitialBalance /\ applied = {}

Apply(c) ==
    /\ c \notin applied
    /\ balance + Delta[c] >= 0
    /\ balance' = balance + Delta[c]
    /\ applied' = applied \cup {c}

Next == \E c \in Clients : Apply(c)

Spec == Init /\ [][Next]_vars
===============================================================================
