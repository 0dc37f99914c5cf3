------------------------------- MODULE Invoices -------------------------------
(***************************************************************************)
(* Incoming Lightning payments: app/src/invoice/mod.rs (create, the scan   *)
(* of start_worker, the InvoiceListener worker, complete) and the Invoice  *)
(* entity of app/src/invoice/entities.rs, with the node's stream of        *)
(* settled invoices (app/src/ln/node.rs:365-426) and restarts.             *)
(*                                                                         *)
(* start_worker scans the unsettled rows before the listener and the API   *)
(* start, so one task of a process handles settlements at a time; it races *)
(* the balance updates of other modules, the node, crashes, and the same   *)
(* task of another instance of the service on the same database and node.  *)
(***************************************************************************)
EXTENDS BalanceOps, Sums

CONSTANTS
    Users,
    Invoices,
    Foreign,         \* invoices of the node that are no user's
    Owner,           \* the grant an invoice is created with: its user
    Instances,       \* processes of the service on one database and one node
    PaidAmounts,     \* what payers may pay for an invoice
    InitialBalance,
    OtherDeltas,     \* what other modules add to a balance at once
    MaxIndex,        \* bound on the node's settle index
    MaxOthers,       \* bound on updates by other modules
    MaxFaults        \* bound on crashes, lost streams and panics

\* An invoice is the node's payment hash, of 32 bytes: there are finitely many.
ASSUME InvoicesAssumption ==
    /\ IsFiniteSet(Invoices)
    /\ Foreign \subseteq Invoices
    /\ Owner \in [Invoices -> Users]
    /\ PaidAmounts \subseteq Nat \ {0}
    /\ InitialBalance \in [Users -> Nat]
    /\ OtherDeltas \subseteq Int
    /\ MaxIndex \in Nat
    /\ MaxOthers \in Nat
    /\ MaxFaults \in Nat

Absent == -1
Open == 0

VARIABLES
    balance,     \* users.balance_msats
    stored,      \* the invoices row: Absent, Open, or its settle_index
    nodeIndex,   \* the node's invoice: Absent, Open, or its settle_index (external)
    paid,        \* what the payer paid (external)
    creating,    \* per instance, invoices between the node and the row in create()
    phase,       \* per instance: "down", "scan" (start_worker) or "serve"
    scan,        \* rows its start-up scan read unsettled and has still to look at
    listener,    \* its InvoiceListener: "waits", has a "stream", or it has "ended"
    stream,      \* settled invoices the stream has still to deliver
    step,        \* its complete(): "none", "begin" or "loaded"
    current,     \* the Invoice of complete(), kept over the runs of its closure
    snapshot,    \* the Balance of this run of the closure
    others,      \* what other modules have added to each balance
    updates,     \* how often they did
    faults,      \* crashes, lost streams and panics so far
    missed,      \* history: settlements a task dropped or nobody was told of
    raced,       \* history: invoices one instance settled while another had
                 \* read the row as unsettled
    alone        \* history: the instance that no other one has run beside

vars == <<balance, stored, nodeIndex, paid, creating, phase, scan, listener, stream,
          step, current, snapshot, others, updates, faults, missed, raced, alone>>

node == <<nodeIndex, paid>>
rows == <<stored, creating>>
bounds == <<others, updates, faults>>
handling == <<step, current, snapshot>>
listening == <<phase, scan, listener, stream>>
history == <<missed, raced, alone>>

\* No invoice is in the hands of complete().
Nobody == [invoice |-> Absent, settled |-> FALSE]

Settled(i) == nodeIndex[i] > Open

\* Indexes the node may give the next invoice it settles: it counts upwards
\* (external).
NextIndexes == {n \in 1 .. MaxIndex : \A i \in Invoices : nodeIndex[i] < n}

\* get_max_settle_index and what the node replays to a subscriber: everything
\* settled after the highest index stored, and nothing when none is
\* (external, lightning.proto:3475-3481).
Replayed ==
    {i \in Invoices :
        /\ \E j \in Invoices : stored[j] > Open
        /\ Settled(i)
        /\ \A j \in Invoices : stored[j] < nodeIndex[i]}

Init ==
    /\ balance = InitialBalance
    /\ stored = [i \in Invoices |-> Absent]
    /\ nodeIndex = [i \in Invoices |-> IF i \in Foreign THEN Open ELSE Absent]
    /\ paid = [i \in Invoices |-> 0]
    /\ creating = [w \in Instances |-> {}]
    /\ phase = [w \in Instances |-> "down"]
    /\ scan = [w \in Instances |-> {}]
    /\ listener = [w \in Instances |-> "waits"]
    /\ stream = [w \in Instances |-> {}]
    /\ step = [w \in Instances |-> "none"]
    /\ current = [w \in Instances |-> Nobody]
    /\ snapshot = [w \in Instances |-> BalanceNew(0)]
    /\ others = [u \in Users |-> 0]
    /\ updates = 0
    /\ faults = 0
    /\ missed = {}
    /\ raced = {}
    /\ alone = {}

-------------------------------------------------------------------------------
(* The API *)

\* create: the node makes the invoice first, ...
CreateAtNode(w, i) ==
    /\ phase[w] = "serve"
    /\ nodeIndex[i] = Absent
    /\ nodeIndex' = [nodeIndex EXCEPT ![i] = Open]
    /\ creating' = [creating EXCEPT ![w] = @ \cup {i}]
    /\ UNCHANGED <<balance, stored, paid, listening, handling, bounds, history>>

\* ... then the row is committed and the client gets the payment request.  A
\* crash in between leaves an invoice only the node knows.
Store(w, i) ==
    /\ i \in creating[w]
    /\ creating' = [creating EXCEPT ![w] = @ \ {i}]
    /\ stored' = [stored EXCEPT ![i] = Open]
    /\ UNCHANGED <<balance, node, listening, handling, bounds, history>>

-------------------------------------------------------------------------------
(* complete(): a settled invoice is stored and credited *)

\* complete is entered with an entity that was loaded outside its transaction.
Complete(w, i, settled) ==
    /\ step' = [step EXCEPT ![w] = "begin"]
    /\ current' = [current EXCEPT ![w] = [invoice |-> i, settled |-> settled]]
    /\ UNCHANGED snapshot

Returns(w) ==
    /\ step' = [step EXCEPT ![w] = "none"]
    /\ current' = [current EXCEPT ![w] = Nobody]
    /\ snapshot' = [snapshot EXCEPT ![w] = BalanceNew(0)]

\* A closure that finds its invoice settled has nothing to do.
SkipSettled(w) ==
    /\ step[w] = "begin"
    /\ current[w].settled
    /\ Returns(w)
    /\ UNCHANGED <<balance, rows, node, listening, bounds, history>>

\* The user whose balance this closure moves.
Payee(w) == Owner[current[w].invoice]

\* balance::get and Invoice::settle: the invoice in memory is settled now.
Settle(w) ==
    /\ step[w] = "begin"
    /\ ~current[w].settled
    /\ current' = [current EXCEPT ![w].settled = TRUE]
    /\ snapshot' = [snapshot EXCEPT
         ![w] = Credit(BalanceNew(balance[Payee(w)]), paid[current[w].invoice])]
    /\ step' = [step EXCEPT ![w] = "loaded"]
    /\ UNCHANGED <<balance, rows, node, listening, bounds, history>>

\* Instance v goes by the unsettled row of i it has read, or will.
HasOpen(v, i) ==
    \/ i \in scan[v]
    \/ /\ current[v].invoice = i
       /\ step[v] = "loaded" \/ (step[v] = "begin" /\ ~current[v].settled)

\* The upsert of the row asks nothing of what is stored there.
SettleRow(w) ==
    LET i == current[w].invoice IN
    /\ stored' = [stored EXCEPT ![i] = nodeIndex[i]]
    /\ missed' = missed \ {i}
    /\ raced' = IF \E v \in Instances \ {w} : HasOpen(v, i) THEN raced \cup {i} ELSE raced
    /\ UNCHANGED alone

Conflicts(w) == ~CanUpdate(balance[Payee(w)], snapshot[w])

CommitRowOnly(w) ==
    /\ step[w] = "loaded"
    /\ SettleRow(w)
    /\ balance' = IF Conflicts(w) THEN balance
                  ELSE [balance EXCEPT ![Payee(w)] = Updated(@, snapshot[w])]
    /\ Returns(w)
    /\ UNCHANGED <<creating, node, listening, bounds>>

\* Invoice row and balance commit together ...
CommitCredit(w) ==
    /\ step[w] = "loaded"
    /\ ~Conflicts(w)
    /\ balance' = [balance EXCEPT ![Payee(w)] = Updated(@, snapshot[w])]
    /\ SettleRow(w)
    /\ Returns(w)
    /\ UNCHANGED <<creating, node, listening, bounds>>

ConflictRetriesStale(w) ==
    /\ step[w] = "loaded"
    /\ Conflicts(w)
    /\ UNCHANGED vars

\* ... or roll back together; the next run of the closure finds the invoice in
\* memory settled, and the settlement is dropped.
ConflictDropsCredit(w) ==
    /\ step[w] = "loaded"
    /\ Conflicts(w)
    /\ step' = [step EXCEPT ![w] = "begin"]
    /\ missed' = missed \cup {current[w].invoice}
    /\ UNCHANGED <<balance, rows, node, listening, current, snapshot, bounds, raced, alone>>

-------------------------------------------------------------------------------
(* start_worker and the listener *)

ScanAllRows(w) ==
    /\ phase[w] = "down"
    /\ phase' = [phase EXCEPT ![w] = "scan"]
    /\ scan' = [scan EXCEPT ![w] = {i \in Invoices : stored[i] # Absent}]
    /\ UNCHANGED <<balance, rows, node, listener, stream, handling, bounds, history>>

\* A process starts; its scan reads the unsettled rows.
Start(w) ==
    /\ phase[w] = "down"
    /\ phase' = [phase EXCEPT ![w] = "scan"]
    /\ scan' = [scan EXCEPT ![w] = {i \in Invoices : stored[i] = Open}]
    /\ missed' = {i \in missed : stored[i] # Open}
    /\ alone' = {v \in {w} : \A x \in Instances \ {w} : phase[x] = "down"}
    /\ UNCHANGED <<balance, rows, node, listener, stream, handling, bounds, raced>>

\* get_invoice_status of the next row, in whatever order the rows come; the
\* entity is as the scan's query found it.
Look(w, i) ==
    /\ phase[w] = "scan" /\ step[w] = "none"
    /\ i \in scan[w]
    /\ scan' = [scan EXCEPT ![w] = @ \ {i}]
    /\ IF Settled(i) THEN Complete(w, i, FALSE) ELSE UNCHANGED handling
    /\ UNCHANGED <<balance, rows, node, phase, listener, stream, bounds, history>>

ServeEarly(w) ==
    /\ phase[w] = "scan" /\ step[w] = "none"
    /\ phase' = [phase EXCEPT ![w] = "serve"]
    /\ scan' = [scan EXCEPT ![w] = {}]
    /\ UNCHANGED <<balance, rows, node, listener, stream, handling, bounds, history>>

\* The listener is spawned and the API registered.
Serve(w) ==
    /\ phase[w] = "scan" /\ step[w] = "none" /\ scan[w] = {}
    /\ phase' = [phase EXCEPT ![w] = "serve"]
    /\ UNCHANGED <<balance, rows, node, scan, listener, stream, handling, bounds, history>>

\* InvoiceListener::run opens the stream at the highest index stored.
Subscribe(w) ==
    /\ phase[w] = "serve" /\ listener[w] = "waits"
    /\ listener' = [listener EXCEPT ![w] = "stream"]
    /\ stream' = [stream EXCEPT ![w] = Replayed]
    /\ missed' = missed \ Replayed
    /\ UNCHANGED <<balance, rows, node, phase, scan, handling, bounds, raced, alone>>

\* The stream delivers in settle order; get_by_invoice loads the row, and an
\* invoice without one is skipped.
Deliver(w, i) ==
    /\ listener[w] = "stream" /\ step[w] = "none"
    /\ i \in stream[w]
    /\ \A j \in stream[w] : nodeIndex[i] <= nodeIndex[j]
    /\ stream' = [stream EXCEPT ![w] = @ \ {i}]
    /\ IF stored[i] = Absent THEN UNCHANGED handling
       ELSE Complete(w, i, stored[i] > Open)
    /\ UNCHANGED <<balance, rows, node, phase, scan, listener, bounds, history>>

-------------------------------------------------------------------------------
(* Faults *)

\* Settled at the node, not in our row.
Uncredited == {i \in Invoices : Settled(i) /\ stored[i] = Open}

Fault ==
    /\ faults < MaxFaults
    /\ faults' = faults + 1
    /\ UNCHANGED <<others, updates, raced, alone>>

\* The stream breaks; run panics and is started again after its timeout.
LoseStream(w) ==
    /\ listener[w] = "stream" /\ step[w] = "none"
    /\ Fault
    /\ listener' = [listener EXCEPT ![w] = "waits"]
    /\ stream' = [stream EXCEPT ![w] = {}]
    /\ missed' = missed \cup stream[w]
    /\ UNCHANGED <<balance, rows, node, phase, scan, handling>>

\* The node closes the stream; unfold polls its end for ever, and run never
\* returns (ln/node.rs:411-424).
EndStream(w) ==
    /\ listener[w] = "stream" /\ step[w] = "none" /\ stream[w] = {}
    /\ Fault
    /\ listener' = [listener EXCEPT ![w] = "ended"]
    /\ UNCHANGED <<balance, rows, node, phase, scan, stream, handling, missed>>

\* A query of complete fails: the listener goes on with the next invoice.
HandlerPanics(w) ==
    /\ phase[w] = "serve" /\ step[w] # "none"
    /\ step[w] = "begin" => ~current[w].settled
    /\ Fault
    /\ Returns(w)
    /\ missed' = missed \cup {current[w].invoice}
    /\ UNCHANGED <<balance, rows, node, listening>>

\* Settlements in the hands of this process.
Held(w) == scan[w] \cup stream[w] \cup {current[w].invoice}

\* The process dies, during the scan also when complete panics.
Crash(w) ==
    /\ phase[w] # "down"
    /\ Fault
    /\ phase' = [phase EXCEPT ![w] = "down"]
    /\ creating' = [creating EXCEPT ![w] = {}]
    /\ scan' = [scan EXCEPT ![w] = {}]
    /\ listener' = [listener EXCEPT ![w] = "waits"]
    /\ stream' = [stream EXCEPT ![w] = {}]
    /\ Returns(w)
    /\ missed' = missed \cup (Held(w) \cap Uncredited)
    /\ UNCHANGED <<balance, stored, node>>

-------------------------------------------------------------------------------
(* The rest of the system *)

\* Somebody pays an invoice its client has got.  Every subscriber hears of it;
\* a start-up scan does if it has not looked yet (external).
Pay(i) ==
    /\ nodeIndex[i] = Open
    /\ stored[i] = Open \/ i \in Foreign
    /\ \E n \in NextIndexes : nodeIndex' = [nodeIndex EXCEPT ![i] = n]
    /\ \E amount \in PaidAmounts : paid' = [paid EXCEPT ![i] = amount]
    /\ stream' = [w \in Instances |->
         IF listener[w] = "stream" THEN stream[w] \cup {i} ELSE stream[w]]
    /\ missed' = IF \E w \in Instances : listener[w] = "stream" \/ i \in scan[w]
                 THEN missed ELSE missed \cup {i}
    /\ UNCHANGED <<balance, rows, phase, scan, listener, handling, bounds, raced, alone>>

\* A deposit, a payment or a withdrawal commits to the balance.
UpdateByOthers(u) ==
    /\ \E w \in Instances : phase[w] # "down"
    /\ updates < MaxOthers
    /\ updates' = updates + 1
    /\ \E d \in OtherDeltas :
         /\ balance[u] + d >= 0
         /\ balance' = [balance EXCEPT ![u] = @ + d]
         /\ others' = [others EXCEPT ![u] = @ + d]
    /\ UNCHANGED <<rows, node, listening, handling, faults, history>>

\* What a process does on its own.
Proceed(w) ==
    \/ SkipSettled(w) \/ Settle(w) \/ CommitCredit(w) \/ ConflictDropsCredit(w)
    \/ Serve(w)
    \/ \E i \in Invoices : Look(w, i) \/ Deliver(w, i)

Next ==
    \/ \E w \in Instances :
         \/ Proceed(w)
         \/ Start(w) \/ Subscribe(w)
         \/ \E i \in Invoices : CreateAtNode(w, i) \/ Store(w, i)
         \/ LoseStream(w) \/ EndStream(w) \/ HandlerPanics(w) \/ Crash(w)
    \/ \E i \in Invoices : Pay(i)
    \/ \E u \in Users : UpdateByOthers(u)

Spec == Init /\ [][Next]_vars

\* The runtime keeps polling start_worker and the listener; nothing is assumed
\* of clients, payers, the node's stream or whoever restarts a process.
FairSpec == Spec /\ \A w \in Instances : WF_vars(Proceed(w))

-------------------------------------------------------------------------------
(* Properties *)

TypeOK ==
    /\ balance \in [Users -> Nat]
    /\ stored \in [Invoices -> Int]
    /\ nodeIndex \in [Invoices -> {Absent} \cup Nat]
    /\ paid \in [Invoices -> Nat]
    /\ creating \in [Instances -> SUBSET Invoices]
    /\ phase \in [Instances -> {"down", "scan", "serve"}]
    /\ scan \in [Instances -> SUBSET Invoices]
    /\ listener \in [Instances -> {"waits", "stream", "ended"}]
    /\ stream \in [Instances -> SUBSET Invoices]
    /\ step \in [Instances -> {"none", "begin", "loaded"}]
    /\ current \in [Instances -> [invoice : Invoices \cup {Absent}, settled : BOOLEAN]]
    /\ snapshot \in [Instances -> BalanceSnapshot]
    /\ others \in [Users -> Int]
    /\ updates \in 0 .. MaxOthers
    /\ faults \in 0 .. MaxFaults
    /\ missed \subseteq Invoices
    /\ raced \subseteq Invoices
    /\ alone \subseteq Instances

\* A row holds the node's settle index or none, and indexes identify invoices.
RowsAreTheNodes ==
    /\ \A i \in Invoices :
         /\ stored[i] \in {Absent, Open, nodeIndex[i]}
         /\ stored[i] # Absent => nodeIndex[i] # Absent
         /\ i \in Foreign => stored[i] = Absent /\ nodeIndex[i] # Absent
         /\ i \in raced => stored[i] > Open
    /\ \A i, j \in Invoices : Settled(i) /\ nodeIndex[i] = nodeIndex[j] => i = j

\* An invoice is stored by the one process that made it at the node.
CreatingOK ==
    \A w \in Instances, i \in Invoices :
        i \in creating[w] =>
            /\ stored[i] = Absent /\ nodeIndex[i] = Open /\ i \notin Foreign
            /\ \A v \in Instances : i \in creating[v] => v = w

\* Which task of a process holds what: one phase and one handler at a time.
TasksOK(w) ==
    /\ phase[w] = "down" => step[w] = "none" /\ creating[w] = {}
    /\ phase[w] # "scan" => scan[w] = {}
    /\ phase[w] # "serve" => listener[w] = "waits"
    /\ listener[w] # "stream" =>
         stream[w] = {} /\ (phase[w] = "serve" => step[w] = "none")
    /\ \A i \in scan[w] : stored[i] # Absent
    /\ \A i \in stream[w] : Settled(i)

\* The closure of complete() works on a settled invoice, and its snapshot
\* carries the credit of that invoice.
HandlerOK(w) ==
    step[w] # "none" =>
        /\ current[w].invoice \in Invoices \ scan[w]
        /\ Settled(current[w].invoice) /\ stored[current[w].invoice] # Absent
        /\ step[w] = "loaded" =>
             /\ current[w].settled
             /\ snapshot[w].amount = snapshot[w].original + paid[current[w].invoice]

\* What a process has read as unsettled is, or another one settled it since.
OpenOrRaced(w) ==
    \A i \in Invoices : HasOpen(w, i) => stored[i] = Open \/ i \in raced

\* No other process runs beside the one that is alone.
AloneOK == \A w \in alone : \A v \in Instances \ {w} : phase[v] = "down"

\* A process that no other one has run beside since it started works on open
\* rows only: what it finds settled is what its own earlier run settled in
\* memory.  The index a later subscription starts from never passes a settlement
\* its stream has still to deliver (invoice/mod.rs:66), so what breaks the stream
\* cannot make the cursor skip what was queued behind it.
CursorBehindStream(w) ==
    w \in alone =>
        /\ step[w] # "none" => stored[current[w].invoice] = Open
        /\ \A i \in scan[w] : stored[i] = Open
        /\ \A i \in stream[w] :
             /\ \A j \in Invoices : stored[j] < nodeIndex[i]
             /\ step[w] # "none" => nodeIndex[current[w].invoice] < nodeIndex[i]

\* The inductive invariant of this module, its type invariant included.
IInv ==
    /\ TypeOK
    /\ RowsAreTheNodes
    /\ CreatingOK
    /\ AloneOK
    /\ \A w \in Instances :
         TasksOK(w) /\ HandlerOK(w) /\ OpenOrRaced(w) /\ CursorBehindStream(w)
    /\ raced # {} => \E v, w \in Instances : v # w

SettledOf(u) == {i \in Invoices : Owner[i] = u /\ stored[i] > Open}

Owed(u) == InitialBalance[u] + others[u] + SumOf(paid, SettledOf(u))

\* Row and balance agree: a user has been credited exactly what was paid for
\* the invoices stored as settled, whatever the other modules did to the balance
\* in between, and whatever conflicts, replays, rescans and crashes there were;
\* and more only for an invoice that one process settled while another had
\* already read its row as unsettled, which nothing but the comparison of the
\* balance keeps from crediting it again (invoice/mod.rs:70-71, 88-103).
CreditsAreExact ==
    \A u \in Users :
        /\ balance[u] >= Owed(u)
        /\ balance[u] > Owed(u) => \E i \in raced : Owner[i] = u

Credits == INSTANCE Ledger WITH
    Items <- Invoices,
    Worths <- PaidAmounts,
    worth <- paid,
    credited <- {i \in Invoices : stored[i] > Open},
    contested <- raced

\* Every step is one of the ledger, or none: a settlement is credited in one
\* instant, with its row, no update of another module is lost, and what
\* processes credit again they have raced for (invoice/mod.rs:88-103).
ImplementsLedger == Credits!Spec

\* A task will still come to this settlement.
Due(w, i) == i \in stream[w] \/ HasOpen(w, i)

\* Nothing falls between the scan, the listener and complete(): a settlement
\* that is not credited is due, or a conflict, a fault or the lack of a
\* subscription is on record for it (invoice/mod.rs:47-86).
NoSilentLoss ==
    \A i \in Uncredited : (\E w \in Instances : Due(w, i)) \/ i \in missed

\* A settlement a task will come to is credited, unless a conflict or a fault
\* takes it from the task (invoice/mod.rs:47-103).
DueIsCredited ==
    \A i \in Invoices :
        i \in Uncredited /\ (\E w \in Instances : Due(w, i))
            ~> stored[i] > Open \/ i \in missed

-------------------------------------------------------------------------------
(* What the documentation says and the code does not do *)

\* "... settle the invoice via Invoice::settle, which will update the user
\* balance" (invoice/entities.rs:3-4): without a panic or a crash, complete()
\* returns with the invoice stored and credited.
CompleteCredits ==
    [][\A w \in Instances :
         faults = faults' /\ step[w] # "none" /\ step'[w] = "none"
             => stored'[current[w].invoice] > Open]_vars
===============================================================================
