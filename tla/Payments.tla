------------------------------- MODULE Payments -------------------------------
(***************************************************************************)
(* Outgoing Lightning payments: app/src/payment/mod.rs (the send handler   *)
(* and its queries), app/src/payment/entities.rs (the Payment entity) and  *)
(* the calls they make to the balance module and to the Lightning node.    *)
(*                                                                         *)
(* Every payment is one request task that runs between database commits:   *)
(* it reads a balance, talks to the node, and tries to commit what it      *)
(* computed with the compare-and-set of balance::update.  Tasks of the     *)
(* same user, and credits by other modules, interleave at every read and   *)
(* commit.  A conflict rolls the transaction back but not the Payment the  *)
(* closure of retry_loop holds, and that is where the code gets hard.      *)
(***************************************************************************)
EXTENDS BalanceOps, Sums

CONSTANTS
    Users,            \* the users that own balances
    PaymentIds,       \* one per request; also names its reservation
    Owner,            \* the grant a request is made with: its user
    Invoices,         \* invoices, told apart by their payment hash
    InvoiceAmount,    \* the amount an invoice carries, or NoAmount
    ExplicitAmounts,  \* what requests give as explicit amount, NoAmount for none
    Fees,             \* routing fees a probe may find
    MinPay, MaxPay, DailyMax,  \* the payment CashLimits
    Int4Max,          \* the largest value CAST(amount_msats AS INTEGER) takes
    InitialBalance,   \* the balances to start with
    CreditAmounts,    \* amounts other modules credit
    MaxCredited,      \* bound on what is credited to one user
    MaxFaults         \* bound on tasks lost to a crash or a failed call

NoAmount == -1

\* A payment's Id is a UUID (payment/entities.rs:38): there are finitely many.
ASSUME PaymentsAssumption ==
    /\ IsFiniteSet(PaymentIds)
    /\ Owner \in [PaymentIds -> Users]
    /\ InvoiceAmount \in [Invoices -> Nat \cup {NoAmount}]
    /\ ExplicitAmounts \subseteq Nat \cup {NoAmount}
    /\ Fees \subseteq Nat
    /\ CreditAmounts \subseteq Nat
    /\ DailyMax \in Nat
    /\ InitialBalance \in [Users -> Nat]
    /\ MaxCredited \in Nat
    /\ MaxFaults \in Nat

VARIABLES
    balance,      \* users.balance_msats
    reservation,  \* balance_reservations, by the payment that owns the row
    row,          \* payments: the status code and the amount stored
    htlc,         \* what the node did for this payment (external)
    pc,           \* where the request task is
    payment,      \* the Payment entity in the task's memory
    snapshot,     \* the Balance entity in the task's memory
    dailyTotal,   \* the daily total the task read
    seen,         \* history: the payments that were stored then
    credited,     \* what each user has been credited so far
    faults        \* tasks lost so far

vars == <<balance, reservation, row, htlc, pc, payment, snapshot, dailyTotal, seen,
          credited, faults>>

total == <<dailyTotal, seen>>
task == <<payment, snapshot, total>>
env == <<credited, faults>>

PaymentStatus == {"None", "New", "Ready", "Succeeded", "Failed"}

Payment == [status : PaymentStatus, invoice : Invoices \cup {NoAmount},
            amount : Nat, fee : Nat]

NoPayment == [status |-> "None", invoice |-> NoAmount, amount |-> 0, fee |-> 0]

\* A code of -1 stands for a row that is not there.
NoRow == [code |-> -1, amount |-> 0]

Running == {"checked", "prepare", "probing", "send", "paying", "awaiting"}

\* How a request ends: rejected before anything is stored, paid, failed (to
\* probe, to cover or to pay), of unknown outcome, or panicked.
Ended == {"rejected", "paid", "failed", "unknown", "panicked"}

-------------------------------------------------------------------------------
(* Entities and queries *)

StatusToI32(status) ==
    CASE status \in {"New", "Ready"} -> 0
      [] status = "Succeeded" -> 2
      [] status = "Failed" -> 3

RowOf(pay) == [code |-> StatusToI32(pay.status), amount |-> pay.amount]

RowsOf(u) == {p \in PaymentIds : Owner[p] = u /\ row[p] # NoRow}

\* queries::daily_total sums every row of the day, whatever its status.
RowAmounts == [p \in PaymentIds |-> row[p].amount]

DailyTotalOfSucceeded(u) == SumOf(RowAmounts, {p \in RowsOf(u) : row[p].code = 2})

DailyTotal(u) == SumOf(RowAmounts, RowsOf(u))

\* ... but casts each amount to a 4-byte integer first.
DailyTotalCasts(u) == \A p \in RowsOf(u) : row[p].amount <= Int4Max

\* Payment::create takes the amount from exactly one of invoice and request.
AmountGivenOnce(i, a) == (InvoiceAmount[i] = NoAmount) # (a = NoAmount)

AmountOf(i, a) == IF a = NoAmount THEN InvoiceAmount[i] ELSE a

WithinLimits(amount, sum) ==
    MinPay <= amount /\ amount <= MaxPay /\ sum + amount <= DailyMax

NewPayment(i, a) ==
    [status |-> "New", invoice |-> i, amount |-> AmountOf(i, a), fee |-> 0]

Readied(pay, fee) ==
    [status |-> "Ready", invoice |-> pay.invoice, amount |-> pay.amount, fee |-> fee]

SucceededPayment(pay) == [pay EXCEPT !.status = "Succeeded"]

FailedPayment(pay) == [pay EXCEPT !.status = "Failed"]

\* What Payment::prepare reserves and Payment::send may spend.
Cost(pay) == pay.amount + pay.fee

Init ==
    /\ balance = InitialBalance
    /\ reservation = [p \in PaymentIds |-> NoReservation]
    /\ row = [p \in PaymentIds |-> NoRow]
    /\ htlc = [p \in PaymentIds |-> "none"]
    /\ pc = [p \in PaymentIds |-> "idle"]
    /\ payment = [p \in PaymentIds |-> NoPayment]
    /\ snapshot = [p \in PaymentIds |-> BalanceNew(0)]
    /\ dailyTotal = [p \in PaymentIds |-> 0]
    /\ seen = [p \in PaymentIds |-> {}]
    /\ credited = [u \in Users |-> 0]
    /\ faults = 0

-------------------------------------------------------------------------------
(* The steps of a request task *)

Goto(p, where) == pc' = [pc EXCEPT ![p] = where]

\* The closure of retry_loop ends: its Balance is dropped.
Leave(p, where) ==
    /\ Goto(p, where)
    /\ snapshot' = [snapshot EXCEPT ![p] = BalanceNew(0)]

\* The closure of retry_loop begins: transaction, balance::get.
ReadBalance(p) == snapshot' = [snapshot EXCEPT ![p] = BalanceNew(balance[Owner[p]])]

Remember(p, pay) == payment' = [payment EXCEPT ![p] = pay]

UpsertRow(p, pay) == row' = [row EXCEPT ![p] = RowOf(pay)]

UpsertReservation(p, res) == reservation' = [reservation EXCEPT ![p] = res]

\* The last query of the transaction and its commit, or the conflict.
UpdateBalance(p, bal) ==
    /\ CanUpdate(balance[Owner[p]], bal)
    /\ balance' = [balance EXCEPT ![Owner[p]] = Updated(@, bal)]

Conflicts(p, bal) == ~CanUpdate(balance[Owner[p]], bal)

\* send: the daily total is read before anything is stored.
ReadDailyTotal(p) ==
    /\ pc[p] = "idle"
    /\ DailyTotalCasts(Owner[p])
    /\ dailyTotal' = [dailyTotal EXCEPT ![p] = DailyTotal(Owner[p])]
    /\ seen' = [seen EXCEPT ![p] = RowsOf(Owner[p])]
    /\ Goto(p, "checked")
    /\ UNCHANGED <<balance, reservation, row, htlc, payment, snapshot, env>>

\* An amount beyond 4 bytes makes the query fail and its unwrap panic.
DailyTotalPanics(p) ==
    /\ pc[p] = "idle"
    /\ ~DailyTotalCasts(Owner[p])
    /\ Goto(p, "panicked")
    /\ UNCHANGED <<balance, reservation, row, htlc, task, env>>

\* Payment::create and the commit that stores the new payment.
Create(p) ==
    /\ pc[p] = "checked"
    /\ \E i \in Invoices, a \in ExplicitAmounts :
         /\ AmountGivenOnce(i, a)
         /\ WithinLimits(AmountOf(i, a), dailyTotal[p])
         /\ Remember(p, NewPayment(i, a))
         /\ UpsertRow(p, NewPayment(i, a))
    /\ Goto(p, "prepare")
    /\ UNCHANGED <<balance, reservation, htlc, snapshot, total, env>>

Reject(p) ==
    /\ pc[p] = "checked"
    /\ \E i \in Invoices, a \in ExplicitAmounts :
         ~(AmountGivenOnce(i, a) /\ WithinLimits(AmountOf(i, a), dailyTotal[p]))
    /\ Goto(p, "rejected")
    /\ UNCHANGED <<balance, reservation, row, htlc, task, env>>

\* First retry_loop, up to the probe.
PrepareBegins(p) ==
    /\ pc[p] = "prepare"
    /\ ReadBalance(p)
    /\ Goto(p, "probing")
    /\ UNCHANGED <<balance, reservation, row, htlc, payment, total, env>>

\* Payment::prepare panics on a payment that is not new.
IsNew(pay) == pay.status = "New"

PreparePanics(p) ==
    /\ pc[p] = "probing"
    /\ ~IsNew(payment[p])
    /\ Leave(p, "panicked")
    /\ UNCHANGED <<balance, reservation, row, htlc, payment, total, env>>

Probed(p) == pc[p] = "probing" /\ IsNew(payment[p])

\* The probe found a fee the balance covers, and nobody moved the balance.
PrepareCommits(p) ==
    /\ Probed(p)
    /\ \E fee \in Fees :
         LET pay == Readied(payment[p], fee) IN
         /\ CanReserve(snapshot[p], Cost(pay))
         /\ Remember(p, pay)
         /\ UpsertReservation(p, PendingReservation(Cost(pay)))
         /\ UpsertRow(p, pay)
         /\ UpdateBalance(p, ReserveFrom(snapshot[p], Cost(pay)))
    /\ Leave(p, "send")
    /\ UNCHANGED <<htlc, total, env>>

\* Somebody did: the rows roll back, the Payment in memory stays ready.
PrepareConflicts(p) ==
    /\ Probed(p)
    /\ \E fee \in Fees :
         LET pay == Readied(payment[p], fee) IN
         /\ CanReserve(snapshot[p], Cost(pay))
         /\ Conflicts(p, ReserveFrom(snapshot[p], Cost(pay)))
         /\ Remember(p, pay)
    /\ Leave(p, "prepare")
    /\ UNCHANGED <<balance, reservation, row, htlc, total, env>>

\* InsufficientBalance is returned with the payment still new.
PrepareInsufficient(p) ==
    /\ Probed(p)
    /\ \E fee \in Fees : ~CanReserve(snapshot[p], payment[p].amount + fee)
    /\ UpsertRow(p, payment[p])
    /\ Leave(p, "failed")
    /\ UNCHANGED <<balance, reservation, htlc, payment, total, env>>

\* The probe returned a PaymentError.
PrepareFails(p) ==
    /\ Probed(p)
    /\ Remember(p, FailedPayment(payment[p]))
    /\ UpsertRow(p, FailedPayment(payment[p]))
    /\ Leave(p, "failed")
    /\ UNCHANGED <<balance, reservation, htlc, total, env>>

\* Second retry_loop, up to pay_invoice.
SendBegins(p) ==
    /\ pc[p] = "send"
    /\ ReadBalance(p)
    /\ Goto(p, "paying")
    /\ UNCHANGED <<balance, reservation, row, htlc, payment, total, env>>

CanSendAgain(p) == CanFinish(reservation[p])

\* Payment::send panics unless the payment is ready, its reservation pending.
CanSend(p) == payment[p].status = "Ready" /\ CanFinish(reservation[p])

SendPanics(p) ==
    /\ pc[p] = "paying"
    /\ ~CanSend(p)
    /\ Leave(p, "panicked")
    /\ UNCHANGED <<balance, reservation, row, htlc, payment, total, env>>

\* The node keeps one payment per payment hash: it starts a payment only when
\* none of that hash is in flight or settled (external).
NodeHolds(p, outcome) ==
    \E q \in PaymentIds :
        payment[q].invoice = payment[p].invoice /\ htlc[q] = outcome

NodeAccepts(p) ==
    /\ pc[p] = "paying"
    /\ CanSend(p)
    /\ ~NodeHolds(p, "inflight") /\ ~NodeHolds(p, "settled")
    /\ htlc' = [htlc EXCEPT ![p] = "inflight"]
    /\ Goto(p, "awaiting")
    /\ UNCHANGED <<balance, reservation, row, task, env>>

AlreadyPaidIsSuccess(p) ==
    /\ \/ pc[p] = "awaiting" /\ htlc[p] = "settled"
       \/ pc[p] = "paying" /\ CanSend(p) /\ NodeHolds(p, "settled")
    /\ Remember(p, SucceededPayment(payment[p]))
    /\ UpsertReservation(p, Debit(reservation[p]))
    /\ UpsertRow(p, SucceededPayment(payment[p]))
    /\ UpdateBalance(p, snapshot[p])
    /\ Leave(p, "paid")
    /\ UNCHANGED <<htlc, total, env>>

\* pay_invoice returned Ok: debit, store, commit.
SendSucceeds(p) ==
    /\ pc[p] = "awaiting"
    /\ htlc[p] = "settled"
    /\ Remember(p, SucceededPayment(payment[p]))
    /\ UpsertReservation(p, Debit(reservation[p]))
    /\ UpsertRow(p, SucceededPayment(payment[p]))
    /\ UpdateBalance(p, snapshot[p])
    /\ Leave(p, "paid")
    /\ UNCHANGED <<htlc, total, env>>

\* PaymentError::Unknown may come back whatever became of the payment.
SendUnknown(p) ==
    /\ pc[p] = "awaiting"
    /\ UpsertReservation(p, reservation[p])
    /\ UpsertRow(p, payment[p])
    /\ UpdateBalance(p, snapshot[p])
    /\ Leave(p, "unknown")
    /\ UNCHANGED <<htlc, payment, total, env>>

UnknownIsFailure(p) ==
    \/ pc[p] = "paying" /\ CanSend(p)
    \/ pc[p] = "awaiting"

\* Every other PaymentError: the node refused the payment at once (invoice
\* expired, invoice already paid), or gave it up.
SendFailed(p) ==
    \/ pc[p] = "paying" /\ CanSend(p)
    \/ pc[p] = "awaiting" /\ htlc[p] = "failed"

\* Refund, store, commit ...
RefundCommits(p) ==
    /\ SendFailed(p)
    /\ Remember(p, FailedPayment(payment[p]))
    /\ UpsertReservation(p, Refund(reservation[p]))
    /\ UpsertRow(p, FailedPayment(payment[p]))
    /\ UpdateBalance(p, RefundCredit(snapshot[p], reservation[p]))
    /\ Leave(p, "failed")
    /\ UNCHANGED <<htlc, total, env>>

ConflictKeepsRow(p) ==
    /\ SendFailed(p)
    /\ Conflicts(p, RefundCredit(snapshot[p], reservation[p]))
    /\ Remember(p, FailedPayment(payment[p]))
    /\ UpsertRow(p, FailedPayment(payment[p]))
    /\ Leave(p, "send")
    /\ UNCHANGED <<balance, reservation, htlc, total, env>>

ConflictIsReturned(p) ==
    /\ SendFailed(p)
    /\ Conflicts(p, RefundCredit(snapshot[p], reservation[p]))
    /\ Remember(p, FailedPayment(payment[p]))
    /\ Leave(p, "failed")
    /\ UNCHANGED <<balance, reservation, row, htlc, total, env>>

\* ... or a conflict, which rolls back the refund and not the Payment.
RefundConflicts(p) ==
    /\ SendFailed(p)
    /\ Conflicts(p, RefundCredit(snapshot[p], reservation[p]))
    /\ Remember(p, FailedPayment(payment[p]))
    /\ Leave(p, "send")
    /\ UNCHANGED <<balance, reservation, row, htlc, total, env>>

WaitsForever(p) == Probed(p) \/ (pc[p] = "paying" /\ CanSend(p))

\* Every call to the node carries a timeout, the stream of answers included.
Waits(p) == Probed(p) \/ (pc[p] = "paying" /\ CanSend(p)) \/ pc[p] = "awaiting"

\* It expires, or the node answers with an error handle_payment_error does not
\* know, such as "payment is in transition": the task panics.
CallPanics(p) ==
    /\ Waits(p)
    /\ Leave(p, "panicked")
    /\ UNCHANGED <<balance, reservation, row, htlc, payment, total, env>>

\* The task is lost between two awaits: the process dies, a query, a commit or
\* a call to the node fails or times out, and the unwrap panics.  Nothing ever
\* resumes it.
TaskLost(p) ==
    /\ pc[p] \in Running
    /\ faults < MaxFaults
    /\ faults' = faults + 1
    /\ Leave(p, "panicked")
    /\ UNCHANGED <<balance, reservation, row, htlc, payment, total, credited>>

-------------------------------------------------------------------------------
(* The rest of the system *)

\* The node settles or gives up a payment in flight, also when no task waits
\* for it any more (external).
NodeDecides(p) ==
    /\ htlc[p] = "inflight"
    /\ \E outcome \in {"settled", "failed"} : htlc' = [htlc EXCEPT ![p] = outcome]
    /\ UNCHANGED <<balance, reservation, row, pc, task, env>>

\* Another module commits a credit: a settled invoice, a confirmed deposit.
CreditUser(u) ==
    /\ \E a \in CreditAmounts :
         /\ credited[u] + a <= MaxCredited
         /\ balance' = [balance EXCEPT ![u] = @ + a]
         /\ credited' = [credited EXCEPT ![u] = @ + a]
    /\ UNCHANGED <<reservation, row, htlc, pc, task, faults>>

\* What a request task does on its own, timeouts included ...
Advance(p) ==
    \/ Create(p) \/ Reject(p)
    \/ PrepareBegins(p) \/ PreparePanics(p)
    \/ SendBegins(p) \/ SendPanics(p)
    \/ CallPanics(p)

\* ... and what it does with an answer of the node.
Answered(p) ==
    \/ PrepareCommits(p) \/ PrepareConflicts(p)
    \/ PrepareInsufficient(p) \/ PrepareFails(p)
    \/ NodeAccepts(p)
    \/ SendSucceeds(p) \/ SendUnknown(p)
    \/ RefundCommits(p) \/ RefundConflicts(p)

Next ==
    \/ \E p \in PaymentIds :
         \/ ReadDailyTotal(p) \/ DailyTotalPanics(p)
         \/ Advance(p)
         \/ Answered(p)
         \/ TaskLost(p)
         \/ NodeDecides(p)
    \/ \E u \in Users : CreditUser(u)

Spec == Init /\ [][Next]_vars

\* The runtime keeps polling a request task until it ends.  Nothing obliges a
\* client to make a request, or the node to answer or to decide a payment.
FairSpec == Spec /\ \A p \in PaymentIds : WF_vars(Advance(p))

-------------------------------------------------------------------------------
(* Properties *)

TypeOK ==
    /\ balance \in [Users -> Nat]
    /\ reservation \in [PaymentIds -> Reservations]
    /\ row \in [PaymentIds -> [code : {-1, 0, 2, 3}, amount : Nat]]
    /\ htlc \in [PaymentIds -> {"none", "inflight", "settled", "failed"}]
    /\ pc \in [PaymentIds -> {"idle"} \cup Running \cup Ended]
    /\ payment \in [PaymentIds -> Payment]
    /\ snapshot \in [PaymentIds -> BalanceSnapshot]
    /\ dailyTotal \in [PaymentIds -> Nat]
    /\ seen \in [PaymentIds -> SUBSET PaymentIds]
    /\ credited \in [Users -> Nat]
    /\ faults \in Nat

CommittedAmount(p) ==
    IF reservation[p].status \in {"Pending", "Debited"} THEN reservation[p].amount ELSE 0

OwnedBy(u) == {p \in PaymentIds : Owner[p] = u}

Committed(u) == SumOf([p \in PaymentIds |-> CommittedAmount(p)], OwnedBy(u))

\* Whatever the interleaving of requests, conflicts, credits and lost tasks,
\* the money a user was given is on the balance, held by a pending reservation,
\* or spent: the commits of payment/mod.rs:35-40 and 56-59 neither lose nor
\* invent any.
FundsConserved ==
    \A u \in Users :
        balance[u] + Committed(u) = InitialBalance[u] + credited[u]

\* A payment the node may still settle, or has settled, is covered in full by
\* a committed reservation that was not given back; only a settled payment is
\* debited (entities.rs:184-204, balance/entities.rs:5-15).
FundsFollowNode(p) ==
    /\ htlc[p] \in {"inflight", "settled"}
         => /\ reservation[p].status \in {"Pending", "Debited"}
            /\ reservation[p].amount = payment[p].amount + payment[p].fee
    /\ reservation[p].status = "Debited" => htlc[p] = "settled"

FundsFollowTheNode == \A p \in PaymentIds : FundsFollowNode(p)

\* One transaction carries the payment row and its reservation, so what a
\* client reads never contradicts the funds: a row says succeeded exactly when
\* the reservation is debited, and failed never with funds still held
\* (payment/mod.rs:35-40, 56-59).
RowMatches(p) ==
    /\ row[p].code = 2 <=> reservation[p].status = "Debited"
    /\ reservation[p].status = "Refunded" => row[p].code = 3
    /\ row[p].code = 3 => reservation[p].status \in {"None", "Refunded"}
    /\ reservation[p].status # "None" => row[p].amount = payment[p].amount

RowsMatchReservations == \A p \in PaymentIds : RowMatches(p)

\* Funds stay reserved for good only where the code says manual intervention
\* may be needed or the task died: every other way a request ends has debited
\* or refunded them (entities.rs:192-198).
NothingLeftPending ==
    \A p \in PaymentIds :
        pc[p] \in {"rejected", "paid", "failed"} => reservation[p].status # "Pending"

\* Requests that race to pay the same invoice are debited for it once: the
\* others are refunded, or left to manual intervention.
DebitedOncePerInvoice ==
    \A p, q \in PaymentIds :
        /\ p # q
        /\ payment[p].invoice = payment[q].invoice
        /\ reservation[p].status = "Debited"
        => reservation[q].status # "Debited"

\* The payments of a user pass the daily limit only by a race: two of them were
\* each checked before the other was stored.  Requests made one after the other
\* keep within the limit together, whatever becomes of them: a payment that
\* failed, or whose task was lost, still counts (payment/mod.rs:18-22, 153).
OverLimitOnlyByRaces ==
    \A u \in Users :
        SumOf(RowAmounts, RowsOf(u)) > DailyMax
            => \E p, q \in RowsOf(u) : p # q /\ p \notin seen[q] /\ q \notin seen[p]

\* Every request that starts also ends, however often it conflicts and
\* whatever the node does: no retry loop goes on and no answer is waited for
\* forever (payment/mod.rs:27-62, ln/node.rs:474-490).
RequestsEnd == \A p \in PaymentIds : pc[p] = "checked" ~> pc[p] \in Ended

\* Every amount a payment may be created with, and what it may then cost.
Amounts == ({InvoiceAmount[i] : i \in Invoices} \cup ExplicitAmounts) \ {NoAmount}

Costs == {a + fee : a \in Amounts, fee \in Fees}

\* Payments keep the promise of the reservation protocol: every step of every
\* task is one atomic move of the protocol, or none.
Protocol == INSTANCE ReservationProtocol WITH
    Ids <- PaymentIds,
    operation <- htlc,
    HoldAmounts <- Costs

ImplementsProtocol == Protocol!Spec

-------------------------------------------------------------------------------
(* The inductive invariant *)

\* Before the first commit there is nothing of a request in the database.
Unstored(p) ==
    /\ payment[p].status = "None"
    /\ row[p].code = -1
    /\ reservation[p].status = "None"
    /\ htlc[p] = "none"

Preparing(p) ==
    /\ payment[p].status \in {"New", "Ready"}
    /\ row[p].code = 0
    /\ reservation[p].status = "None"
    /\ htlc[p] = "none"

\* A payment that failed in memory comes back here after a conflict.
Sending(p) ==
    /\ payment[p].status \in {"Ready", "Failed"}
    /\ row[p].code = 0
    /\ reservation[p].status = "Pending"
    /\ htlc[p] \in {"none", "failed"}
    /\ payment[p].status = "Ready" => htlc[p] = "none"

InNodesHands(p) ==
    /\ payment[p].status = "Ready"
    /\ row[p].code = 0
    /\ reservation[p].status = "Pending"
    /\ htlc[p] # "none"

Paid(p) ==
    /\ row[p].code = 2
    /\ reservation[p].status = "Debited"
    /\ htlc[p] = "settled"

Failed(p) ==
    \/ /\ row[p].code \in {0, 3}
       /\ reservation[p].status = "None"
       /\ htlc[p] = "none"
    \/ /\ row[p].code = 3
       /\ reservation[p].status = "Refunded"
       /\ htlc[p] \in {"none", "failed"}

Panicked(p) ==
    /\ row[p].code \in {-1, 0}
    /\ reservation[p].status \in {"None", "Pending"}
    /\ reservation[p].status = "None" => htlc[p] = "none"

PhaseOK(p) ==
    /\ pc[p] \in {"idle", "checked", "rejected"} => Unstored(p)
    /\ pc[p] \in {"prepare", "probing"} => Preparing(p)
    /\ pc[p] \in {"send", "paying"} => Sending(p)
    /\ pc[p] \in {"awaiting", "unknown"} => InNodesHands(p)
    /\ pc[p] = "paid" => Paid(p)
    /\ pc[p] = "failed" => Failed(p)
    /\ pc[p] = "panicked" => Panicked(p)

\* What is stored is what the task remembers, and between two steps its
\* balance is as it was loaded.
MemoryOK(p) ==
    /\ row[p].amount = payment[p].amount
    /\ payment[p].status # "None" => payment[p].amount \in Amounts
    /\ reservation[p].status # "None" => reservation[p].amount = Cost(payment[p])
    /\ Changed(snapshot[p]) = FALSE

\* A row keeps the amount that was within the limit when its total was read; the
\* total is that of the payments seen then, with all that those had seen.
TotalOK(p) ==
    /\ row[p].code = -1 => row[p] = NoRow
    /\ row[p] # NoRow => dailyTotal[p] + row[p].amount <= DailyMax
    /\ dailyTotal[p] = SumOf(RowAmounts, seen[p])
    /\ seen[p] \subseteq RowsOf(Owner[p]) \ {p}
    /\ \A q \in seen[p] : seen[q] \subseteq seen[p]

\* Of the payments of one invoice the node holds one in flight or settled.
HeldByNode(p) == htlc[p] \in {"inflight", "settled"}

NodeExclusive ==
    \A p, q \in PaymentIds :
        p # q /\ payment[p].invoice = payment[q].invoice
            => ~(HeldByNode(p) /\ HeldByNode(q))

\* Why the properties above are invariant: each place a request can be at
\* pins down its rows, its reservation and what the node did with it, so that
\* no conflict, retry or lost task of payment/mod.rs:25-62 leaves a mixture.
FundsInv ==
    /\ TypeOK
    /\ \A p \in PaymentIds : PhaseOK(p)
    /\ \A p \in PaymentIds : MemoryOK(p)
    /\ NodeExclusive

\* The inductive invariant: the limits rest on what is known of the funds.
IInv == FundsInv /\ \A p \in PaymentIds : TotalOK(p)

-------------------------------------------------------------------------------
(* What the documentation says and the code does not do *)

\* "If sending fails, the payment is advanced into Failed and the balance
\* reservation is refunded to the user" (payment/entities.rs:136-139): a request
\* that ended knowing its payment failed has given its reservation back.
FailedSendIsRefunded ==
    \A p \in PaymentIds :
        pc[p] \in Ended /\ payment[p].status = "Failed"
            => reservation[p].status \in {"None", "Refunded"}
===============================================================================
