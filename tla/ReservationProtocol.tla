------------------------- MODULE ReservationProtocol -------------------------
(***************************************************************************)
(* What the reservation protocol promises, as the module documentation of  *)
(* app/src/balance/entities.rs:5-15 lays it out and the methods of that    *)
(* file enforce it: funds are reserved, the irrevocable operation starts   *)
(* only once the reservation is committed, a reservation is debited only   *)
(* when the operation took effect and refunded only when it never will,    *)
(* and every one of these moves is atomic.  Retry loops, snapshots, row    *)
(* statuses and crashes are the business of the modules that implement it. *)
(***************************************************************************)
EXTENDS BalanceOps, Sums

CONSTANTS
    Users,            \* the users that own balances
    Ids,              \* one reservation per irrevocable operation
    Owner,            \* the user an operation belongs to
    HoldAmounts,      \* the amounts an operation may reserve
    CreditAmounts,    \* the amounts other modules may credit
    InitialBalance,   \* the balances to start with
    MaxCredited       \* bound on what is credited to one user

\* A ReservationId is a UUID (balance/entities.rs:102): there are finitely many.
ASSUME ProtocolAssumption ==
    /\ IsFiniteSet(Ids)
    /\ Owner \in [Ids -> Users]
    /\ HoldAmounts \subseteq Nat
    /\ CreditAmounts \subseteq Nat
    /\ InitialBalance \in [Users -> Nat]
    /\ MaxCredited \in Nat

VARIABLES
    balance,      \* users.balance_msats
    reservation,  \* the committed balance_reservations rows
    operation,    \* the irrevocable operation behind each reservation
    credited      \* what each user has been credited so far

vars == <<balance, reservation, operation, credited>>

OperationStatus == {"none", "inflight", "settled", "failed"}

TypeOK ==
    /\ balance \in [Users -> Nat]
    /\ reservation \in [Ids -> Reservations]
    /\ operation \in [Ids -> OperationStatus]
    /\ credited \in [Users -> Nat]

Init ==
    /\ balance = InitialBalance
    /\ reservation = [id \in Ids |-> NoReservation]
    /\ operation = [id \in Ids |-> "none"]
    /\ credited = [u \in Users |-> 0]

\* Another module credits a settled invoice or a confirmed deposit.
CreditUser(u) ==
    /\ \E a \in CreditAmounts :
         /\ credited[u] + a <= MaxCredited
         /\ balance' = [balance EXCEPT ![u] = @ + a]
         /\ credited' = [credited EXCEPT ![u] = @ + a]
    /\ UNCHANGED <<reservation, operation>>

ReserveUncovered(id) ==
    /\ reservation[id].status = "None"
    /\ \E a \in HoldAmounts :
         /\ balance' = [balance EXCEPT ![Owner[id]] = @ - a]
         /\ reservation' = [reservation EXCEPT ![id] = PendingReservation(a)]
    /\ UNCHANGED <<operation, credited>>

ReserveFunds(id) ==
    /\ reservation[id].status = "None"
    /\ \E a \in HoldAmounts :
         /\ a <= balance[Owner[id]]
         /\ balance' = [balance EXCEPT ![Owner[id]] = @ - a]
         /\ reservation' = [reservation EXCEPT ![id] = PendingReservation(a)]
    /\ UNCHANGED <<operation, credited>>

BeginBeforeReserving(id) ==
    /\ reservation[id].status \in {"None", "Pending"}
    /\ operation[id] = "none"
    /\ operation' = [operation EXCEPT ![id] = "inflight"]
    /\ UNCHANGED <<balance, reservation, credited>>

\* The irrevocable operation starts, its reservation committed.
Begin(id) ==
    /\ CanFinish(reservation[id])
    /\ operation[id] = "none"
    /\ operation' = [operation EXCEPT ![id] = "inflight"]
    /\ UNCHANGED <<balance, reservation, credited>>

\* The outside world decides the operation.
Decide(id) ==
    /\ operation[id] = "inflight"
    /\ \E o \in {"settled", "failed"} :
         operation' = [operation EXCEPT ![id] = o]
    /\ UNCHANGED <<balance, reservation, credited>>

\* A debit needs an operation that took effect.
DebitFunds(id) ==
    /\ CanFinish(reservation[id])
    /\ operation[id] = "settled"
    /\ reservation' = [reservation EXCEPT ![id] = Debit(@)]
    /\ UNCHANGED <<balance, operation, credited>>

RefundAgain(id) ==
    /\ reservation[id].status # "None"
    /\ balance' = [balance EXCEPT ![Owner[id]] = @ + reservation[id].amount]
    /\ reservation' = [reservation EXCEPT ![id] = Refund(@)]
    /\ UNCHANGED <<operation, credited>>

\* A refund needs an operation that never started or is known to have failed.
RefundFunds(id) ==
    /\ CanFinish(reservation[id])
    /\ operation[id] \in {"none", "failed"}
    /\ balance' = [balance EXCEPT ![Owner[id]] = @ + reservation[id].amount]
    /\ reservation' = [reservation EXCEPT ![id] = Refund(@)]
    /\ UNCHANGED <<operation, credited>>

Next ==
    \/ \E u \in Users : CreditUser(u)
    \/ \E id \in Ids :
         \/ ReserveFunds(id)
         \/ Begin(id)
         \/ Decide(id)
         \/ DebitFunds(id)
         \/ RefundFunds(id)

Spec == Init /\ [][Next]_vars

-------------------------------------------------------------------------------

\* What of a user's money is reserved or irrevocably spent.
CommittedAmount(id) ==
    IF reservation[id].status \in {"Pending", "Debited"} THEN reservation[id].amount ELSE 0

OwnedBy(u) == {id \in Ids : Owner[id] = u}

Committed(u) == SumOf([id \in Ids |-> CommittedAmount(id)], OwnedBy(u))

\* No sequence of reservations, debits, refunds and credits creates or loses
\* money: what a user was given is on the balance, reserved, or spent
\* (entities.rs:4 "precautions must be taken", Reservation::refund, ::debit).
FundsConserved ==
    \A u \in Users :
        balance[u] + Committed(u) = InitialBalance[u] + credited[u]

\* An operation in flight or settled is always covered by a committed
\* reservation that has not been given back, and a debited reservation stands
\* for an operation that took effect (entities.rs:6-15).
OperationCovered(id) ==
    /\ operation[id] \in {"inflight", "settled"}
         => reservation[id].status \in {"Pending", "Debited"}
    /\ reservation[id].status = "Debited" => operation[id] = "settled"

OperationsCovered == \A id \in Ids : OperationCovered(id)

\* "Both of these operations are final": no step takes a debited reservation
\* back, refunds twice or changes what was reserved (entities.rs:86-91).
FinalStep(id) ==
    /\ reservation[id].status \in {"Debited", "Refunded"}
         => reservation'[id] = reservation[id]
    /\ reservation[id].status # "None"
         => reservation'[id].amount = reservation[id].amount

Finality == [][\A id \in Ids : FinalStep(id)]_vars
===============================================================================
