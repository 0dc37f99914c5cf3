-------------------------------- MODULE Ledger --------------------------------
(***************************************************************************)
(* What the service promises of incoming funds, a settled invoice          *)
(* (app/src/invoice/entities.rs:1-4) or a confirmed deposit                *)
(* (app/src/deposit/entities.rs:1-8): each is credited to its user once,   *)
(* with its amount, in the same instant that its row says so; everything   *)
(* else that happens to the balance is an update of another module, and    *)
(* takes effect.  No snapshots, conflicts, listeners or processes.         *)
(***************************************************************************)
EXTENDS Integers

CONSTANTS
    Users,
    Items,           \* invoices, or transaction outputs
    Owner,           \* the user an item is credited to
    Worths,          \* what an item may turn out to be worth
    InitialBalance,
    OtherDeltas      \* what other modules add to a balance at once

VARIABLES
    balance,
    worth,           \* the msats of an item
    credited,        \* items whose rows are settled or confirmed
    contested,       \* items two processes have been crediting at once
    others           \* what other modules have added to each balance

vars == <<balance, worth, credited, contested, others>>

Init ==
    /\ balance = InitialBalance
    /\ worth \in [Items -> Nat]
    /\ credited = {}
    /\ contested = {}
    /\ others = [u \in Users |-> 0]

\* An item is paid.  What has been credited is worth the same for ever.
Value(i) ==
    /\ i \notin credited
    /\ \E n \in Worths : worth' = [worth EXCEPT ![i] = n]
    /\ UNCHANGED <<balance, credited, contested, others>>

Pays(i) ==
    /\ Owner[i] \in Users
    /\ balance' = [balance EXCEPT ![Owner[i]] = @ + worth[i]]

\* Row and balance change together, once.
CreditItem(i) ==
    /\ i \notin credited
    /\ Pays(i)
    /\ credited' = credited \cup {i}
    /\ contested' \in {contested, contested \cup {i}}
    /\ UNCHANGED <<worth, others>>

\* What the code leaves open: of two processes that have both read an item as
\* not credited the second credits it as well, if it finds the balance the
\* amount it has loaded.
CreditAgain(i) ==
    /\ i \in credited \cap contested
    /\ Pays(i)
    /\ UNCHANGED <<worth, credited, contested, others>>

UpdateByOthers(u) ==
    /\ \E d \in OtherDeltas :
         /\ balance[u] + d >= 0
         /\ balance' = [balance EXCEPT ![u] = @ + d]
         /\ others' = [others EXCEPT ![u] = @ + d]
    /\ UNCHANGED <<worth, credited, contested>>

Next ==
    \/ \E i \in Items : Value(i) \/ CreditItem(i) \/ CreditAgain(i)
    \/ \E u \in Users : UpdateByOthers(u)

Spec == Init /\ [][Next]_vars
===============================================================================
