------------------------------ MODULE BalanceOps ------------------------------
(***************************************************************************)
(* The entities of app/src/balance/entities.rs, shared by every module     *)
(* that moves user funds.  A Balance is a snapshot of one users row: the   *)
(* amount it was loaded with and the amount the task wants to store.       *)
(* Operators only: the state they are applied to belongs to the modules    *)
(* that extend this one.                                                   *)
(***************************************************************************)
EXTENDS Integers

\* The in-memory Balance of one task.
BalanceSnapshot == [original : Nat, amount : Nat]

\* The states of a balance_reservations row; "None" is a row not written yet.
ReservationStatus == {"None", "Pending", "Debited", "Refunded"}

Reservations == [status : ReservationStatus, amount : Nat]

NoReservation == [status |-> "None", amount |-> 0]

\* Balance::new: what loading a row gives.
BalanceNew(amount) == [original |-> amount, amount |-> amount]

Changed(bal) == bal.original # bal.amount

Credit(bal, amount) == [bal EXCEPT !.amount = @ + amount]

CanReserveUnchecked(bal, amount) == TRUE

\* Balance::reserve refuses what the snapshot does not cover, ...
CanReserve(bal, amount) == amount <= bal.amount

\* ... debits the snapshot ...
ReserveFrom(bal, amount) == [bal EXCEPT !.amount = @ - amount]

\* ... and returns a pending reservation of that amount.
PendingReservation(amount) == [status |-> "Pending", amount |-> amount]

\* Reservation::debit and Reservation::refund panic on anything but a pending
\* reservation.
CanFinish(res) == res.status = "Pending"

Debit(res) == [res EXCEPT !.status = "Debited"]

Refund(res) == [res EXCEPT !.status = "Refunded"]

RefundCredit(bal, res) == Credit(bal, res.amount)

LastWriteWins(stored, bal) == TRUE

\* balance::update: the UPDATE matches the row only while the row still holds
\* the amount the snapshot was loaded with.  No query runs for an unchanged one.
CanUpdate(stored, bal) == Changed(bal) => stored = bal.original

\* The stored amount after a successful balance::update.
Updated(stored, bal) == IF Changed(bal) THEN bal.amount ELSE stored
===============================================================================
