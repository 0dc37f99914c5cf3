# Verification of laas-api

laas-api is a "Lightning as a service" API: users hold a balance in Postgres,
pay and receive over one LND node, deposit and withdraw on chain. This
directory holds TLA+ specifications of its core (`app/src`), TLC
configurations that check them on small instances, and TLAPS proofs.

    tlc -workers 2 -config MCPayments.cfg MCPayments      # one run
    tlapm PaymentsProofs.tla                              # one proof module

Paths below are relative to the repository's root, `app/src` unless they say
otherwise.

## 1. Inventory

| component | state | operations | hard parts |
|---|---|---|---|
| Reservation protocol `balance/entities.rs` | in-memory `Balance` (original and current amount), `Reservation` | `credit`, `reserve`, `debit`, `refund` | debit and refund are final; an irrevocable operation must be covered |
| Balance storage `balance/mod.rs` | `users.balance_msats`, `balance_reservations` | `get`, `update` (compare-and-set), `upsert_reservation`, `get_reservation` | lost updates, stale snapshots, equal amounts |
| Retry loop `concurrency.rs` | number of the run | `retry_loop` | conflicts, state kept by the closure over its runs, exhaustion |
| Payments `payment/` | `payments` rows, a `Payment` per request | `send` (create, prepare, send), `get`, `list` | two transactions with the node between them, unknown outcomes, conflicts, crashes, daily limit |
| Cash limits `cash_limits.rs` | none | `check` | stale totals |
| Invoices `invoice/` | `invoices` rows, the listener's stream | `create`, `start_worker`, `InvoiceListener::run`, `complete` | settlements before, during and after a restart; conflicts; cursor |
| Withdrawals `withdrawal/` | `withdrawals` rows | `start`, `WithdrawalSender::run`, `Listener::process` | broadcast and commit are not atomic; `get_tx` must find an earlier broadcast |
| Deposits `deposit/` | `deposits`, `tx_outs`, `addresses` rows | `create_address`, `Listener::process` | redelivery, unique violations, conflicts, confirmation once |
| Chain listener `chain.rs` | `chain_tip` per worker | `run` | batches delivered again, tip shared through `MAX(block_height)` |
| Workers `worker.rs` | none | `start` | panics restart `run` after a timeout |
| Node client `ln/node.rs` | none | payments, probes, streams, on-chain calls | timeouts, errors that say little, streams that end |
| Rate limit `api/src/rate_limit.rs` | a counter per user, decrements to come | `limit`, `decrement_later` | the first request of a burst is not counted |
| API `api/src/routes`, `access.rs` | none | conversions around one call each | ranges, guards |
| Authentication, users `auth/`, `user/` | tokens, users | read-only lookups | none |
| Database `database/` | connection pool | `begin`, migrations, seeder | handlers that hold one connection and wait for another |

Components meet in the database, where every transaction is a series of
queries and one commit, and at the node. Users' tasks, the settlement listener
and the two chain workers run concurrently and share the `users` row of a user;
`balance::update` is what keeps them apart: it matches the row only while it
holds the amount the transaction loaded. When it does not, the transaction is
dropped, which rolls it back, and `retry_loop` runs the closure again. What a
closure captured from outside is *not* rolled back. That is the source of most
of what is hard here: `payment::send` and `invoice::complete` keep their entity
outside the closure, `withdrawal::start` and the deposit listener rebuild
theirs in every run.

Two processes may also run at once, as during a deployment. The withdrawal
sender's row lock and the deposit's unique index are there for them; settlements
of invoices have nothing of the kind. `Invoices`, `Deposits` and `Withdrawals` model
several instances; in `Payments` and `BalanceUpdates` a request or a task may run in
any process, as they share nothing but the database. `Api` is one process: pool and
counts are its memory.

What makes each component correct:

- Funds: what a user was given is on the balance, reserved, or spent; no
  update is lost and no balance goes below zero.
- Payments: a payment the node may still settle is covered; rows do not
  contradict reservations; an invoice is paid from one reservation; funds stay
  reserved only where an outcome is unknown or a task died; requests end.
- Invoices: each settlement is credited exactly once, with its row (by one
  process; of several, more than once only what they race for); what the
  service has heard of is credited eventually.
- Deposits: a confirmed output is credited once, with its amount, however often
  the listener delivers it; the listener passes no mined deposit by; a mined
  deposit is credited eventually.
- Withdrawals: coins are sent only for reserved funds and debited only when they
  are gone; a withdrawal is not sent again while it is in the mempool, but by a call
  that was given up and that the node obeys late; what the
  listener's tip has passed is confirmed; a stored withdrawal is sent eventually.
- Rate limit: a bounded number of requests per span, and nobody is refused for
  ever.
- Pool: no connection leaks, handlers wait for one another's connections only
  where they must, and every request is answered.

`PROJECT.json` lists the hazards at their lines, each with the properties that
cover it, or the reason no property does.

## 2. Modules

| module | models | kind |
|---|---|---|
| `BalanceOps` | methods of `Balance` and `Reservation`, the comparison of `balance::update` | operators shared by all |
| `Sums` | sums over a set: the `SUM` of the daily total, and the totals of the accounting properties | operator |
| `Ledger` | the promise of `invoice/entities.rs:1-4` and `deposit/entities.rs:1-8`: each settlement or deposit is credited once, with its amount and its row | abstract specification |
| `ReservationProtocol` | the promise of `balance/entities.rs:1-15`: reserve, run the irrevocable operation, debit or refund | abstract specification |
| `Payments` | `payment::send` with its two retry loops, queries, the node and lost tasks | specification; refines `ReservationProtocol` |
| `AtomicBalance` | one atomic addition or subtraction per transaction | abstract specification |
| `BalanceUpdates` | `retry_loop` around load, mutate, compare-and-set | specification; refines `AtomicBalance` |
| `Invoices` | `invoice/`: creation, scan, listener, `complete`, restarts, the node's stream | specification; refines `Ledger` |
| `ChainListener` | `Worker::run` of `chain.rs`, `Node::get_tx_outs`, `worker::start`, the wallet | part, extended by `Deposits` |
| `Deposits` | `deposit/`: addresses, `process` with its retries, on top of the listener | specification; refines `Ledger` |
| `Withdrawals` | `withdrawal/`: `start`, the sender, the confirmation; `get_tx`, `send_onchain` | specification; refines `ReservationProtocol` |
| `RateLimit` | `api/src/rate_limit.rs` | specification, extended by `Api` |
| `Api` | guards, handlers as users of connections, the pool, workers | specification; every step is one of `RateLimit` or leaves its counts alone |
| `*Proofs` | theorems of the module they extend; `SumsProofs` has the lemmas about sums | TLAPS |
| `MC*` | instances for TLC | |

### Payments

A request of `send` is a process; `pc` names the await it is at: `idle`,
`checked` (the daily total is read), `prepare`/`probing` (first retry loop,
before and after `balance::get`), `send`/`paying`/`awaiting` (second loop: before
`balance::get`, before the node has accepted, after), then an end. The steps
between two awaits that only touch memory are one action with the database
step that follows them. `row` and `reservation` are the two tables, `payment`
and `snapshot` the task's entities; `PrepareConflicts` and `RefundConflicts`
change only those, as a rollback does. Writing rows and committing them is one
step: other transactions see nothing of it before the commit, and the
comparison of `balance::update` is made under the row lock the commit releases
(Postgres at READ COMMITTED evaluates the `WHERE` again after waiting for a
lock). `upsert_reservation` comes with the other writes of its commit.

The node is external: `htlc` is what it made of a request. It takes a payment
only if none of the same hash is in flight or settled, decides payments in
flight at any time, also when nobody waits any more, and answers a caller with
the outcome, with an unknown error, or not at all. `TaskLost` (at most
`MaxFaults`) ends a task between any two awaits: process crash, failed query.
`CallPanics` is the timeout of `req_timeout`, or an error that
`handle_payment_error` does not know. Other modules only credit, up to
`MaxCredited`; debits by others can only make `CanReserve` fail earlier and
conflict, which credits do as well.

The window of one day of `daily_total` is the whole behaviour. `OverLimitOnlyByRaces`
says what the check of `cash_limits.rs` is worth, being made on a total read
before the row is stored: `seen` remembers the rows that were there when a
request read its total, and a user is over the limit only with two payments
neither of which saw the other. A total that leaves anything out, as one of
succeeded payments would, breaks it with requests that follow each other. Amounts are
integers; `Int4Max` stands for the bound of `CAST(... AS INTEGER)`, and an
amount above it makes the query and so the request panic.

### BalanceUpdates

All clients are on one user's row. `attempt` counts the runs of the closure; the
loop of `concurrency.rs:16` makes `MAX_RETRIES - 1` runs and `concurrency.rs:27` one more, so
`MaxRetries` in all. `Refuse` is the error that is no conflict. The sleeps
between runs are left out: they only delay.

### Invoices

`phase[w]` is the process `w` of `Instances`: `down`, `scan` (`start_worker`),
`serve`. The scan ends before the listener starts and the API is registered
(`src/main.rs`), so one handler, `complete`, runs at a time in a process; `step`,
`current` and `snapshot` are its state, `current` being the entity outside the
closure. Processes share the database and the node: each subscriber hears of each
settlement, and what one has read as unsettled (`HasOpen`) another may settle.
`complete` does not read the row again and its upsert asks nothing of what is
stored (`SettleRow`), so the first to commit does not stop the second; `raced`
is the history of the invoices this happened to, and `alone` of the process that no
other one has run beside since it started. `stored` holds the row's
settle index, `nodeIndex` the node's. The stream is the set of settlements it
has still to deliver, taken in the order of their index; a subscription at
index 0 replays nothing, one at a higher index replays all that is later
(`app/proto`, comment of `InvoiceSubscription`). `Foreign` invoices are the
node's own: the stream brings them and the listener skips them. `missed` is a
history variable: settlements that a conflict, a fault or the lack of a
subscription took from the tasks of every process.

Faults (at most `MaxFaults`): the process crashes, the stream breaks (`run`
panics and is restarted), the stream ends (`run` polls its end forever), a
query of the handler fails. `UpdateByOthers` is every other module's commit to
the balance.

`create` rejects bad amounts, memos, expiries and limits before it changes
anything; that part is left out.

### ChainListener and Deposits

`phase[w]` is the loop of `chain.rs` in instance `w`: `ask` for the range of
`NumBlocks` from `tip`, `askAll` for everything later and unconfirmed when the
range had nothing in its last block, `batch` while `process` runs for the
outputs of the answer (`todo`, `current`). `get_tx_outs` is two queries, and
blocks arrive between them. A panic runs `run` again with the same tip; only a
new process reads the tip from `MAX(block_height)` of `tx_outs`, a table that
withdrawals share with deposits. `StoreWithdrawal` is what the sender and the
listener of withdrawals write to it, for the outputs in `Withdrawn`; these may pay
a deposit address, since `withdrawal::start` does not ask whose the address is, and
the row is then the deposit's own. The wallet is external: outputs are broadcast, replaced and mined
into higher and higher blocks.

`step[w]` is `process`: `begin` before `queries::get`, `loaded` after it,
`credit` when the balance is loaded and the deposit confirmed in memory.
`entity[w]` is the `Deposit` of this run of the closure; `started` means that
its rows are inserted and not committed, which locks the `tx_outs` row for
others (`Locked`). An insert that meets a committed row and a balance that moved
are both a `ConflictError` and run the closure again (`ConflictRetries`); the
last conflict is unwrapped (`ConflictPanics`), and the batch comes again.
`raced` and `skipped` are history variables that name the two exceptions to the
properties: a deposit one instance confirmed while another had read it as
unconfirmed, and deposits below the tip an instance started at.

### Withdrawals

`request` is `start` as `Payments` has it for its first transaction: load,
check, commit, or conflict and run again with a new snapshot. `sender[w]` is
`WithdrawalSender::run` in instance `w`: `list` the unsent, `pick` and lock one
(`FOR UPDATE`), ask `get_tx` for the `mined` and the `unconfirmed`, `send`, `find`
the output of what was sent, `store`. What was listed is not read again under
the lock, so a second sender finds the transaction with `get_tx` and stores a
row over the first one's.

`get_tx` (`ln/node.rs:102-151`) goes through blocks in ranges of a month; a
transaction is therefore either unconfirmed or in a month counted from
`first_block`. The loop breaks at the first month without a labelled
transaction, so it never gets past the first: that is what `LookMined` says,
and `withdrawals_sent_twice` shows what follows. `late` counts the calls to
`send_coins` that were given up and that the node may still obey (`GivesUp`):
the call timed out, or the process died and its row lock with it. `obeyed`
remembers the transactions that came of them. A transaction found in the
wallet with the right label is taken to have the output: the node paid it for
this label.

The listener is reduced to what its tip has `passed`; `ChainListener` has the
rest. `early` (passed before the sender stored the row) and `overwritten` (a
confirmed row that a sender stored over) name the exceptions to
`PassedIsConfirmed`. A reservation that is debited already makes the
confirmation panic (`ConfirmPanics`), each time it is delivered.

### RateLimit and Api

`count` is the map of `rate_limit.rs`, with `Vacant` for no entry. Time is kept
as the order in which admissions leave the span: `uncounted` (the one that
inserted the entry, with no task), `counted` (a task sleeps for it), `due` (its
task has woken and has still to decrement). Since all spans are equally long,
the oldest leaves first; tasks that are due run in any order.

A handler of `Api` is the sequence of what it does with connections: a `query`
on the pool, a transaction (`tx`), one in `retry_loop` (`retried`), one that takes
a second connection before it ends (`nested`, `nestedOnce`): to read a
reservation through the pool, or, in the start-up scan, to settle an invoice
with the stream of unsettled invoices open. The scan runs beside the workers of
withdrawals and deposits, and before requests and the listener of settlements; of
a kind there is one worker.
`stage` is the guard or the handler; the guard takes a connection for the token
and counts the request only when the token grants it. A token row is any row.
A handler may end after any await with an error or a panic (`Fail`); what it holds
goes back with it. Workers use the same pool and are run again after any end.
The pool's size and timeout are sqlx's defaults, which the code keeps, and
external.

## 3. Runs

| run | instance | shows |
|---|---|---|
| `reservation_protocol` | 2 users, 3 operations, amounts 1 and 2 | the protocol conserves funds, covers operations, is final |
| `payments` | 2 requests of one user, 2 invoices, fees 0 and 1, a daily limit of 2, one lost task, credits up to 2 | `IInv` and the properties below; the daily limit; refinement of the protocol; every request ends |
| `payments_lost_refund` | the same, no lost task | **violated**: a conflict on the refund's commit strands the reservation |
| `balance_updates` | 4 tasks of one user (+1, +2, -2, -3 on a balance of 4), 2 runs each | each conflict is another task's success; refinement of `AtomicBalance`, also where updates cancel out and a stale snapshot passes the comparison |
| `invoices` | 2 instances, 1 user with 2 invoices, a foreign invoice, 1 update by others, 2 faults | credits exact but for `raced`, no silent loss, also between two processes; settlements handled eventually; refinement of the ledger |
| `invoices_conflict` | 1 instance, 1 update by others, no fault | **violated**: `complete` returns without crediting |
| `deposits` | 1 instance, 2 deposits of which a withdrawal pays one, an output of strangers, 2 blocks, ranges of 2, 1 fault | nothing mined is passed by but what the listener started past; exact credits; deposits are confirmed |
| `deposits_instances` | 2 instances, 1 deposit that a withdrawal pays, 2 updates by others (+1, -1), 1 fault | locks, unique index and conflicts credit once, but for `raced`; refinement of the ledger |
| `deposits_restart` | 1 instance, a deposit and a withdrawal, 1 fault | **violated**: the tip after a restart is past an uncredited deposit |
| `withdrawals` | 2 instances, 1 withdrawal, 2 transactions, 2 months, fees 0 and 2, 1 fault, credits up to 1 | one transaction in the mempool but for calls given up; debited only when mined; refinement of the protocol; sent eventually |
| `withdrawals_sent_twice` | 1 instance, 2 withdrawals, no fault | **violated**: a withdrawal is sent a second time |
| `api` | 2 requests and 2 workers, 1 user, limit 2, a pool of 2, 2 runs | no leak, bounded bursts, who can be stuck, refusals lift, requests and workers' runs end |

The properties of the passing runs:

- `FundsConserved`, `OperationsCovered`, `Finality` (protocol);
- `FundsConserved`, `OverLimitOnlyByRaces`, `FundsFollowTheNode`,
  `RowsMatchReservations`, `NothingLeftPending`, `DebitedOncePerInvoice`, `RequestsEnd`,
  `ImplementsProtocol` (payments);
- `NoExhaustion`, `ImplementsAtomic` (balance updates);
- `CreditsAreExact`, `NoSilentLoss`, `DueIsCredited`, `ImplementsLedger` (invoices);
- `CreditsAreExact`, `DepositIsConfirmed`, `ImplementsLedger`, and `NothingPassedBy` as part of
  `IInv` (deposits);
- `OneInMempool`, `PassedIsConfirmed`, `WithdrawalIsSent`, `ImplementsProtocol`
  (withdrawals);
- `DecrementFindsEntry`, `BurstIsBounded`, `StuckOnlyByNesting`, `LimitLifts`,
  `TasksEnd` (API).

`IInv` of each specification is the type invariant together with the conjuncts
that make it inductive.

Bounds.

- Payments: two requests are enough for every pairwise race at each read and
  commit of `send`; a third only repeats the conflict of the second, since what a
  conflict does depends on *that* the balance moved. The two invoices (one with
  an amount) let both pay the same one, or different ones; the fees and the
  balance of 5 reach insufficient balances, `Int4Max = 1` in the passing run
  reaches the failing cast, `DailyMax = 2` a request that is refused and two that
  exceed the limit together.
- Balance updates: four tasks with two runs make retries run out and updates
  cancel out.
- Invoices: every scan, stream and handler of one process meets each of the other
  on the same row or on the same balance; three processes race for a row in pairs.
  Two invoices and settle indexes up to 2 give both orders of settlements around a
  stored index, with a foreign invoice in place of either; two faults are a crash
  of each process, or a restart during the recovery from another fault; the update
  by others gives a conflict, as the other process does, and with it updates that
  cancel out.
- Deposits: two blocks with ranges of two reach both answers of `get_tx_outs`, an
  output in the last block of a range and none there, and a block that arrives
  between the two queries; two deposits and an output that pays nobody give
  batches of which some are handled, and the withdrawal's write to one of them
  makes its block, or one above a deposit's, the tip of a later start. The second run
  trades outputs for a second instance and updates that cancel each other; with
  two runs of the closure both a retry and the last conflict's panic happen.
- Withdrawals: the second transaction is the one that must not be sent; two
  months are the one `get_tx` reaches and one it does not; two instances give a
  sender that listed a withdrawal another one has stored or confirmed since. A
  balance of one with a credit of one covers the amount of one without a fee and
  never with a fee of two, and the credit is the conflict. One fault is what it
  takes for a call to be obeyed after it was given up.
- API: two payments and a pool of two are all waiting for each other; a worker
  is then the third that waits. Two workers are the fewest of which one can wait
  for the other during the scan. `Routes` and `Works` are a subset with every kind of
  unit; the others are sequences of the same. A limit of two has the
  vacant entry, a count below and one at the limit.

Deadlock is checked in `api`: something always goes on. It is not checked in
the others, which may stop when requests, payers, blocks and bounded faults are
used up.

Every property has a mutant of the code that breaks it, among them: an unchecked
reservation, an update without comparison, an unknown outcome taken for a
failure, a kept row on conflict, a retry with the old snapshot, a row stored
without its credit, an API started before the scan is through, a scan of
all rows instead of the unsettled ones, a daily total of succeeded payments only, a tip
moved past blocks that are not mined, a deposit confirmed on every delivery, a
conflict that returns without crediting, a missing row lock, a `get_tx` without
its second query, a tip moved before the row is written, a decrement that removes
the entry early, an admission without its task, a pool without timeout.

Fairness. `Payments`: weak fairness of `Advance(p)`, what a task does without
anybody's answer; the runtime polls a ready task, and every call to the node
has a timeout (`ln/node.rs:474-490`). Nothing is assumed of clients, the node, commits or
conflicts. `Invoices`: weak fairness of `Proceed(w)`, the scan, the handler and
the delivery of what a live stream holds. Nothing is assumed of payers, the
node's streams, resubscription or whoever restarts a process. `Deposits`, `Withdrawals`: weak
fairness of `Work(w)` and `Send(w)`, what a listener and a sender do; `worker::start`
runs them again after every return and every panic (`worker.rs`). Nothing is
assumed of users, the chain, the mempool or whoever restarts a process. `Api`:
the pool gives out a free connection or times out, the database and the node
answer or fail, time passes, spawned tasks run. Nothing is assumed of clients.

## 4. Findings

Shown by runs:

1. *Lost refund* (`payment/mod.rs:58`). The node refuses a payment, the refund's
   commit conflicts; the rollback keeps the reservation pending, the payment in
   memory is failed, and the second run of the closure panics.
2. *Lost settlement* (`invoice/mod.rs:98`). The credit conflicts; the invoice in memory is
   settled, the second run does nothing and `complete` returns `Ok`. The credit
   comes with the next restart's scan.
3. *Deposit passed by* (`chain.rs:75`). Both listeners take their tip from the
   highest block in `tx_outs`, whoever stored it. When a withdrawal in a higher
   block is stored before a deposit is credited and the process restarts, the
   deposit listener starts past the deposit.
4. *Sent twice* (`ln/node.rs:124-146`). `get_tx` stops at the first month without a labelled
   transaction. When `send_onchain` does not find its output among the
   unconfirmed ones because it has been mined, it panics, the row stays unsent,
   and the next run looks in the first month only and sends again.

Observed while modelling, with no run of their own:

- `invoice/mod.rs:70-103`: a settlement credited twice. Two processes overlap: the
  start-up scan of one has read an unsettled row, the listener of the other settles
  it. The first one's `complete` does not read the row again, takes a fresh
  balance, writes the row without a condition and commits a second credit.
  `CreditsAreExact` and `ImplementsLedger` say that only such a race (`raced`) credits
  more than once.
- `withdrawal/mod.rs:97`: a transaction is mined and delivered before the sender has
  committed it to its row. `get_by_tx_out` finds nothing, the tip moves on, and the
  running listener never confirms the withdrawal (`early` in `Withdrawals`).
- `withdrawal/mod.rs:61-73`: the sender locks a withdrawal it has listed before and does
  not read it again: of two senders the second finds the transaction and stores its
  unconfirmed copy over the row the listener has confirmed meanwhile (`overwritten`).
  The reservation being debited, each later delivery panics.
- `payment/mod.rs:39`: the shape of the first finding one transaction earlier; a conflict
  on the reservation's commit makes the second run panic. No funds are held.
- `payment/mod.rs:18`, `invoice/mod.rs:26`: the daily total is read before the row is stored, so
  two requests may pass the check together; `OverLimitOnlyByRaces` says of
  payments that without such a race nobody exceeds the limit.
- `concurrency.rs:27`: the documentation says the loop panics when retries run out;
  it returns the last result.
- `invoice/mod.rs:66`: until an invoice is settled the cursor is 0 and nothing is replayed;
  a settlement between scan and subscription waits for a restart.
- `balance/entities.rs:31-33` says an update succeeds only if nobody updated the
  balance in between; since amounts are compared, updates that cancel out pass.
  `ImplementsAtomic` holds all the same: this is harmless for an update that has
  nothing else to protect. For a deposit that two instances confirm it is not
  (`CreditsAreExact` of `Deposits`, `raced`).
- `rate_limit.rs:36-40`: the first request of a user is not counted; `BurstIsBounded` has the
  bound that follows.

## 5. Proofs

The theorems hold for every value of the constants that meets the named
assumptions of the modules. Where a sum is taken its index set is finite:
operations and payments (UUIDs), invoices (payment hashes), outputs
(outpoints), and the clients of `BalanceUpdates`. The requests and workers of
`Api` may be any number: that those who hold a connection are finitely many is
part of its invariant.

Sums. `SumOf` is the community modules' fold. What a recursive function computes
cannot be had by the library's induction theorems here, whose parameter is an
operator; `SumsProofs` uses its theorems about minimal elements of sets
of natural numbers instead. `AddsUp` relates a set to a sum by the existence of a
function that adds it up; it exists (`AddsUpExists`), it is unique (`AddsUpAgree`)
and the fold is one (`SumIsAddsUp`). From there on only `SumTakeOut`,
`SumOfOneChange` and `SumOfOneMore` are needed: what an element, a changed
term or a new element does to a sum.

- `ReservationProtocolProofs`: `TypeCorrect` (no balance below zero),
  `OperationsCoveredAlways`, `FinalityAlways`, `FundsConservedAlways`. The last is
  inductive with the types alone: each step changes the balance and one term of the
  sum by the same amount.
- `PaymentsProofs!Invariance`: `Spec => []IInv`, in two parts. `FundsInv` says, for
  each place a request can be at (`PhaseOK`), what its row, its reservation and
  the node hold; that memory and rows agree on the amount and that no snapshot
  is changed between two steps (`MemoryOK`); and that of the payments of one
  invoice the node holds one (`NodeExclusive`). The properties alone are not
  inductive: that a refund cannot follow a settlement depends on where the
  request is, and that a second run panics on the status in memory. Each
  action has a lemma with one step per conjunct it can disturb; `MovedRequest`
  reduces a step to the request that moved. `TotalOK` is about the daily limit: a
  stored payment was within it together with the rows its request saw, these are
  still there, and no amount changes; a request never sees its own row.
- `FundsFollowTheNodeAlways`, `RowsMatchAlways`, `NothingLeftPendingAlways`,
  `DebitedOncePerInvoiceAlways` follow from `FundsInv`, and
  `OverLimitOnlyByRacesAlways` from `TotalOK`: of any two of a user's rows one saw
  the other, unless they raced; so without a race one row saw all the others
  (`LastOne`, by an induction on finite sets), and its own check bounds the sum.
- `PaymentsProofs!Refinement`: each step is a step of `ReservationProtocol` or
  none. `CommittedReserve` and `CommittedRefund` turn a successful comparison
  into an exact debit or credit of the stored balance. `Proved` instantiates the
  protocol's *theorems* under the same mapping; so what is proved of the
  protocol holds of payments: `FundsConservedAlways`, `FinalityAlways`.
- `BalanceUpdatesProofs!Invariance`: a client's run number is at most one more
  than the number of others that succeeded (`ConflictsArePaidFor`), and a stale
  snapshot has been paid for already (`StaleIsPaidFor`). Hence
  `NoExhaustionAlways`, `NobodyIsTurnedAway`; `Refinement` shows the updates
  atomic.
- `InvoicesProofs!Invariance` and `NoSilentLossAlways`, proved together, for any number
  of instances. A step moves one instance, and `MovedInstance` reduces most of them
  to what holds of it. `OpenOrRaced` says what a process knows: a row it has read
  as unsettled is, or another one settled it since and `raced` has it. More
  can be said of a process that no other one has run beside since it started
  (`CursorBehindStream`): its rows are open, and what its stream holds
  lies above every index stored, also above the one being handled, so a delivered
  settlement is never credited already. That rests on the node's indexes being
  distinct and growing (`RowsAreTheNodes`), and that the handler alone writes them
  on `TasksOK`.
- `DepositsProofs!Invariance`, for any number of instances, outputs and blocks.
  `NothingPassedBy` rests on two facts about a batch: it holds every output
  between the tip and its highest block, also if blocks came between the queries
  (`BatchComplete`), and what of it has been gone through is credited
  (`BatchCredited`); the tip then moves past the highest block of the batch, or
  past a range whose last block is in it. `RowsOK` says that the block of an unconfirmed
  deposit counts for the tip only when a withdrawal has stored it, `HandlerOK` what
  a handler knows between
  two awaits when other instances work on the same row. `MovedInstance` reduces a
  step to the instance that moved. `NothingPassedByAlways` follows.
- `DepositsProofs!Refinement`, `InvoicesProofs!Refinement`: each step is a step of
  `Ledger` or none. It rests on `OpenOrRaced` for invoices and for deposits on the
  conjunct of `HandlerOK` that a deposit read as unconfirmed still is, or has been
  raced for. Only then does `Ledger!CreditAgain` happen; with one instance it does
  not.
- `CreditsAreExactAlways` of both modules: the balance as a sum over the rows. A
  step of `Ledger` that credits adds the one term of its row; the exception is
  inductive because a second credit happens only to an item that is in
  `raced` already, and nothing leaves that set. `ExactWithoutRaces`: with one instance
  `raced` stays empty, and a balance is exactly what the settled invoices say.
- `WithdrawalsProofs!Invariance`. That a withdrawal is not in the mempool twice
  rests on `SenderOK` (one sender holds it) and `Unsent` (a sender about to
  send found nothing, and what is in the mempool since then the node has made for a
  call given up before). `late` is why the exception is needed and `obeyed` what
  makes it inductive: a crash frees the lock while the call is still on its way.
  `OneInMempoolAlways`,
  `PassedIsConfirmedAlways` follow; `Refinement`: each step is a step of
  `ReservationProtocol` or none, with the wallet's transactions as the operation.
  `FundsConservedAlways`, `OperationsCoveredAlways` and `FinalityAlways` are the
  protocol's theorems under this mapping; no run states them of withdrawals.
- `ApiProofs`: each step of `Api` is a step of `RateLimit` or leaves its counts
  alone (`UsesRateLimit`), so the invariant that a count is what its tasks will
  undo (`CountIsUndone`) holds in `Api`; `DecrementFindsEntryAlways`,
  `BurstIsBoundedAlways` follow, for every limit.
- `ApiProofs!Invariance`: `NothingLeaks`, the pool's accounting. Every step moves one
  task (`Moves`), and what the pool gets is what the task gave up; `HeldMoves` turns that
  into the cardinalities of the sets of those who hold one and two connections.
  Beside the sum, the sets must be finite (`PoolOK`) and a running task must be at
  a unit of its handler (`HandlersOK`). `StuckOnlyByNestingAlways`: when
  nobody who holds a connection can go on, each holds exactly one and is at a
  nested unit, so there are as many of them as connections.

Only model-checked: `RequestsEnd`, `TasksEnd`, `DueIsCredited`,
`DepositIsConfirmed`, `WithdrawalIsSent`, `LimitLifts`: liveness under fairness is
out of the prover's reach. Every safety invariant and action property of a passing
run is a theorem.

## 6. Not modelled

- Routes: the conversion of requests, answers and errors; in `Api` a request that
  cannot be used ends early. Of the reading operations (`get`, `list`) only the
  connection they take is there.
- Rate-limit counts over a restart of the process: they are gone, like the
  requests.
- Node client: connecting, certificates, `generate_address`, `create_invoice`:
  they change no state of this program. Probes and estimates are a fee or a
  failure.
- Value types (newtypes over `i64`), configuration, migrations and the seeder
  (run once, before everything else), build and deployment.
- A second process in `Api` and `RateLimit`: each has its own pool and counts.
- Chain reorganisations, which the code does not handle.
- A commit whose acknowledgement is lost is a lost task, panic or crash before
  or after the commit: the task ends in both cases.

## 7. Plan

1. Both listeners composed over the shared `tx_outs`, in place of
   `StoreWithdrawal` and `passed`.
2. The daily limit of invoices, as payments have it.
