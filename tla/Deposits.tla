------------------------------- MODULE Deposits -------------------------------
(***************************************************************************)
(* On-chain deposits: create_address and Listener::process of              *)
(* app/src/deposit/mod.rs with the Deposit entity of deposit/entities.rs,  *)
(* as the TxListener of ChainListener.  Two instances of the process may   *)
(* run at once, as during a deployment: it takes two for an insert to meet *)
(* the unique index the code turns into a ConflictError.                   *)
(***************************************************************************)
EXTENDS ChainListener, BalanceOps, Sums

CONSTANTS
    Users,
    PaysTo,           \* the user whose address an output pays, or Stranger
    Stranger,         \* whoever has no deposit address of ours
    Withdrawn,        \* outputs that withdrawals pay, to a Stranger or to a user
    Amount,           \* msats of an output
    InitialBalance,
    OtherDeltas,      \* what other modules add to a balance at once
    MaxOthers,        \* bound on updates by other modules
    MaxRetries        \* MAX_RETRIES

\* An output is a transaction hash and a 4-byte index: there are finitely many.
ASSUME DepositsAssumption ==
    /\ IsFiniteSet(Outputs)
    /\ Stranger \notin Users
    /\ PaysTo \in [Outputs -> Users \cup {Stranger}]
    /\ Withdrawn \subseteq Outputs
    /\ Amount \in [Outputs -> Nat \ {0}]
    /\ InitialBalance \in [Users -> Nat]
    /\ OtherDeltas \subseteq Int
    /\ MaxOthers \in Nat
    /\ MaxRetries \in Nat \ {0}

VARIABLES
    balance,     \* users.balance_msats
    addresses,   \* users with a deposit_addresses row
    deposit,     \* the deposits row of an output: none, unconfirmed, confirmed
    step,        \* process(): "none", "begin", "loaded" or "credit"
    attempt,     \* which run of the closure this is
    entity,      \* the Deposit of this run: as in deposit, or started here
    snapshot,    \* the Balance of this run
    others,      \* what other modules have added to each balance
    updates,     \* how often they did
    raced,       \* history: confirmed while another instance had it unconfirmed
    skipped      \* history: not credited and below the tip a listener started at

rows == <<addresses, deposit>>
handling == <<step, attempt, entity, snapshot>>
history == <<raced, skipped>>
vars == <<chainVars, balance, rows, handling, others, updates, history>>

Ours(o) == PaysTo[o] \in Users

Init ==
    /\ ChainInit
    /\ balance = InitialBalance
    /\ addresses = {}
    /\ deposit = [o \in Outputs |-> "none"]
    /\ step = [w \in Instances |-> "none"]
    /\ attempt = [w \in Instances |-> 1]
    /\ entity = [w \in Instances |-> "none"]
    /\ snapshot = [w \in Instances |-> BalanceNew(0)]
    /\ others = [u \in Users |-> 0]
    /\ updates = 0
    /\ raced = {}
    /\ skipped = [w \in Instances |-> {}]

\* create_address: the address is committed before its user hears of it.
CreateAddress(u) ==
    /\ u \notin addresses
    /\ \E w \in Instances : phase[w] # "down"
    /\ addresses' = addresses \cup {u}
    /\ UNCHANGED <<chainVars, balance, deposit, handling, others, updates, history>>

-------------------------------------------------------------------------------
(* process() *)

Goto(w, where) == step' = [step EXCEPT ![w] = where]

Forget(w) ==
    /\ entity' = [entity EXCEPT ![w] = "none"]
    /\ snapshot' = [snapshot EXCEPT ![w] = BalanceNew(0)]

Leave(w) ==
    /\ Goto(w, "none")
    /\ attempt' = [attempt EXCEPT ![w] = 1]
    /\ Forget(w)

Process(w, o) ==
    /\ Deliver(w, o)
    /\ Goto(w, "begin")
    /\ UNCHANGED <<balance, rows, attempt, entity, snapshot, others, updates, history>>

\* queries::get; an address nobody of ours has ends the matter.
Load(w) ==
    /\ step[w] = "begin"
    /\ Goto(w, "loaded")
    /\ entity' = [entity EXCEPT ![w] = deposit[current[w]]]
    /\ UNCHANGED <<chainVars, balance, rows, attempt, snapshot, others, updates, history>>

Unrelated(w) ==
    /\ step[w] = "loaded" /\ entity[w] = "none"
    /\ PaysTo[current[w]] \notin addresses
    /\ Leave(w)
    /\ Return(w)
    /\ UNCHANGED <<stored, balance, rows, others, updates, history>>

NeverLocked(o, w) == FALSE

\* The first upsert of a transaction locks the tx_outs row until it ends.
Locked(o, w) == \E v \in Instances \ {w} : entity[v] = "started" /\ current[v] = o

Starts(w) ==
    /\ step[w] = "loaded" /\ entity[w] = "none"
    /\ PaysTo[current[w]] \in addresses
    /\ ~Locked(current[w], w)

\* start(): the rows are inserted, not committed yet.
StartDeposit(w) ==
    /\ Starts(w)
    /\ deposit[current[w]] = "none"
    /\ entity' = [entity EXCEPT ![w] = "started"]
    /\ UNCHANGED <<chainVars, balance, rows, step, attempt, snapshot, others, updates,
                   history>>

ConfirmAgain(w) ==
    step[w] = "loaded" /\ entity[w] # "none" /\ batch[w][current[w]] > Unconfirmed

ConfirmNewOnly(w) ==
    step[w] = "loaded" /\ entity[w] = "started" /\ batch[w][current[w]] > Unconfirmed

NeedsConfirm(w) ==
    /\ step[w] = "loaded" /\ entity[w] \in {"started", "unconfirmed"}
    /\ batch[w][current[w]] > Unconfirmed

\* balance::get and Deposit::confirm.
Confirm(w) ==
    /\ NeedsConfirm(w)
    /\ Goto(w, "credit")
    /\ snapshot' = [snapshot EXCEPT ![w] =
                      Credit(BalanceNew(balance[PaysTo[current[w]]]), Amount[current[w]])]
    /\ UNCHANGED <<chainVars, balance, rows, attempt, entity, others, updates, history>>

\* Nothing to confirm: what start() inserted, if anything, is committed.
CommitUnconfirmed(w) ==
    /\ step[w] = "loaded" /\ entity[w] # "none" /\ ~NeedsConfirm(w)
    /\ IF entity[w] = "started"
       THEN /\ deposit' = [deposit EXCEPT ![current[w]] = "unconfirmed"]
            /\ stored' = [stored EXCEPT ![current[w]] = Unconfirmed]
       ELSE UNCHANGED <<deposit, stored>>
    /\ Leave(w)
    /\ Return(w)
    /\ UNCHANGED <<balance, addresses, others, updates, history>>

\* Another handler has read this deposit, or its absence, and goes on with it.
OthersHaveUnconfirmed(w) ==
    \E v \in Instances \ {w} : current[v] = current[w] /\ entity[v] = "unconfirmed"

BalanceOf(w) == balance[PaysTo[current[w]]]

\* upsert and balance::update: deposit and balance commit together.
CommitConfirm(w) ==
    /\ step[w] = "credit" /\ ~Locked(current[w], w)
    /\ CanUpdate(BalanceOf(w), snapshot[w])
    /\ deposit' = [deposit EXCEPT ![current[w]] = "confirmed"]
    /\ stored' = [stored EXCEPT ![current[w]] = batch[w][current[w]]]
    /\ balance' = [balance EXCEPT ![PaysTo[current[w]]] = Updated(@, snapshot[w])]
    /\ raced' = IF OthersHaveUnconfirmed(w) THEN raced \cup {current[w]} ELSE raced
    /\ Leave(w)
    /\ Return(w)
    /\ UNCHANGED <<addresses, others, updates, skipped>>

\* The unique index has the output already, or the balance has moved.
Conflicted(w) ==
    \/ Starts(w) /\ deposit[current[w]] # "none"
    \/ /\ step[w] = "credit" /\ ~Locked(current[w], w)
       /\ ~CanUpdate(BalanceOf(w), snapshot[w])

ConflictReturns(w) ==
    /\ Conflicted(w) /\ attempt[w] < MaxRetries
    /\ Leave(w)
    /\ Return(w)
    /\ UNCHANGED <<stored, balance, rows, others, updates, history>>

\* The transaction is dropped and the closure runs again from the start.
ConflictRetries(w) ==
    /\ Conflicted(w) /\ attempt[w] < MaxRetries
    /\ Goto(w, "begin")
    /\ attempt' = [attempt EXCEPT ![w] = @ + 1]
    /\ Forget(w)
    /\ UNCHANGED <<chainVars, balance, rows, others, updates, history>>

\* The last conflict is unwrapped: run panics and delivers the batch again.
ConflictPanics(w) ==
    /\ Conflicted(w) /\ attempt[w] = MaxRetries
    /\ RunPanics(w)
    /\ Leave(w)
    /\ UNCHANGED <<faults, balance, rows, others, updates, history>>

-------------------------------------------------------------------------------
(* Starts, faults and the rest of the system *)

Uncredited == {o \in Outputs : Ours(o) /\ Mined(o) /\ deposit[o] # "confirmed"}

Start(w) ==
    /\ StartListening(w)
    /\ skipped' = [skipped EXCEPT ![w] = {o \in Uncredited : chain[o] < tip'[w]}]
    /\ UNCHANGED <<balance, rows, handling, others, updates, raced>>

Fault ==
    /\ faults < MaxFaults
    /\ faults' = faults + 1

\* The node or the database fails a call of this worker.
CallFails(w) ==
    /\ Fault
    /\ RunPanics(w)
    /\ Leave(w)
    /\ UNCHANGED <<balance, rows, others, updates, history>>

Crash(w) ==
    /\ Fault
    /\ Die(w)
    /\ Leave(w)
    /\ UNCHANGED <<balance, rows, others, updates, history>>

\* The sender of a withdrawal stores its output as it found it, unconfirmed or
\* with its block, and the listener with its block: the same tx_outs row, for
\* start() asks nobody whether the address is one of ours.
StoreWithdrawal(o) ==
    /\ o \in Withdrawn /\ chain[o] # Absent
    /\ \E w \in Instances : phase[w] # "down"
    /\ \A w \in Instances : ~(entity[w] = "started" /\ current[w] = o)
    /\ \E block \in {Unconfirmed, chain[o]} :
         /\ stored[o] # block
         /\ stored' = [stored EXCEPT ![o] = block]
    /\ UNCHANGED <<wallet, listening, faults, balance, rows, handling, others, updates,
                   history>>

\* An invoice, a payment or a withdrawal commits to the balance.
UpdateByOthers(u) ==
    /\ updates < MaxOthers
    /\ updates' = updates + 1
    /\ \E d \in OtherDeltas :
         /\ balance[u] + d >= 0
         /\ balance' = [balance EXCEPT ![u] = @ + d]
         /\ others' = [others EXCEPT ![u] = @ + d]
    /\ UNCHANGED <<chainVars, rows, handling, history>>

\* Nobody knows an address before it is stored (external).
Chain ==
    /\ \/ NewBlock
       \/ \E o \in Outputs :
            \/ Broadcast(o) /\ (Ours(o) => PaysTo[o] \in addresses)
            \/ Replace(o)
    /\ UNCHANGED <<balance, rows, handling, others, updates, history>>

\* What a listener does on its own.
Work(w) ==
    \/ Listen(w) /\ UNCHANGED <<balance, rows, handling, others, updates, history>>
    \/ \E o \in Outputs : Process(w, o)
    \/ Load(w) \/ Unrelated(w) \/ StartDeposit(w) \/ Confirm(w)
    \/ CommitUnconfirmed(w) \/ CommitConfirm(w)
    \/ ConflictRetries(w) \/ ConflictPanics(w)

Next ==
    \/ \E w \in Instances : Work(w) \/ Start(w) \/ CallFails(w) \/ Crash(w)
    \/ Chain
    \/ \E u \in Users : CreateAddress(u) \/ UpdateByOthers(u)
    \/ \E o \in Outputs : StoreWithdrawal(o)

Spec == Init /\ [][Next]_vars

\* worker::start runs a listener again after every return and every panic;
\* nothing is assumed of the chain, the users or whoever restarts a process.
FairSpec == Spec /\ \A w \in Instances : WF_vars(Work(w))

-------------------------------------------------------------------------------
(* Properties *)

TypeOK ==
    /\ ChainTypeOK
    /\ balance \in [Users -> Nat]
    /\ addresses \subseteq Users
    /\ deposit \in [Outputs -> {"none", "unconfirmed", "confirmed"}]
    /\ step \in [Instances -> {"none", "begin", "loaded", "credit"}]
    /\ attempt \in [Instances -> 1 .. MaxRetries]
    /\ entity \in [Instances -> {"none", "started", "unconfirmed", "confirmed"}]
    /\ snapshot \in [Instances -> BalanceSnapshot]
    /\ others \in [Users -> Int]
    /\ updates \in 0 .. MaxOthers
    /\ raced \subseteq Outputs
    /\ skipped \in [Instances -> SUBSET Outputs]

\* A deposit has an address, and its block is stored with its confirmation and
\* not before: get_chain_tip counts the block of an unconfirmed deposit only when
\* a withdrawal pays it.
RowsOK ==
    \A o \in Outputs :
        /\ Ours(o) /\ chain[o] # Absent => PaysTo[o] \in addresses
        /\ deposit[o] # "none" => PaysTo[o] \in addresses
        /\ deposit[o] = "confirmed" => Mined(o)
        /\ stored[o] > Unconfirmed => deposit[o] = "confirmed" \/ o \in Withdrawn
        /\ o \in raced => deposit[o] = "confirmed"

\* What a handler has read of its output is still true, or another instance
\* went further; of the handlers that start a deposit one gets to.
HandlerOK(w) ==
    /\ step[w] = "none" <=> current[w] = NoOutput
    /\ step[w] \in {"none", "begin"} => entity[w] = "none" /\ ~Changed(snapshot[w])
    /\ step[w] = "loaded" => ~Changed(snapshot[w])
    /\ entity[w] = "started" => /\ deposit[current[w]] = "none"
                                /\ PaysTo[current[w]] \in addresses
                                /\ ~Locked(current[w], w)
    /\ entity[w] = "unconfirmed" =>
         deposit[current[w]] = "unconfirmed" \/ current[w] \in raced
    /\ entity[w] = "confirmed" => deposit[current[w]] = "confirmed"
    /\ step[w] = "credit" =>
         /\ entity[w] \in {"started", "unconfirmed"}
         /\ batch[w][current[w]] > Unconfirmed
         /\ snapshot[w].amount = snapshot[w].original + Amount[current[w]]

\* What a listener has gone through it has credited.
BatchCredited(w) ==
    \A o \in Outputs :
        Ours(o) /\ batch[w][o] > Unconfirmed /\ o \notin todo[w] /\ o # current[w]
            => deposit[o] = "confirmed"

\* Panics, conflicts, second queries and blocks that arrive meanwhile make no
\* listener pass a deposit by: what is mined below its tip is credited, or was
\* below the tip it started at (chain.rs:35-57).
NothingPassedBy ==
    \A w \in Instances, o \in Uncredited :
        phase[w] # "down" /\ chain[o] < tip[w] => o \in skipped[w]

\* The inductive invariant.
IInv ==
    /\ TypeOK
    /\ ChainOK
    /\ RowsOK
    /\ \A w \in Instances :
         BatchOK(w) /\ BatchComplete(w) /\ HandlerOK(w) /\ BatchCredited(w)
    /\ NothingPassedBy

DepositedBy(u) == {o \in Outputs : PaysTo[o] = u /\ deposit[o] = "confirmed"}

Owed(u) == InitialBalance[u] + others[u] + SumOf(Amount, DepositedBy(u))

\* A user is credited every confirmed deposit once, with its amount, however
\* often the listener delivers the output and whatever conflicts, panics,
\* restarts and other updates there are; unless one instance confirms it while
\* another has already read it as unconfirmed, whose comparison of the balance
\* then is all that is left against crediting it again (deposit/mod.rs:65-72).
CreditsAreExact ==
    \A u \in Users :
        /\ balance[u] >= Owed(u)
        /\ balance[u] > Owed(u) => \E o \in raced : PaysTo[o] = u

Credits == INSTANCE Ledger WITH
    Items <- Outputs,
    Owner <- PaysTo,
    Worths <- {},
    worth <- Amount,
    credited <- {o \in Outputs : deposit[o] = "confirmed"},
    contested <- raced

\* Every step is one of the ledger, or none: a deposit is credited in one
\* instant, with its row and with its amount, no update of another module is
\* lost, and what instances credit again they have raced for
\* (deposit/mod.rs:62-83).
ImplementsLedger == Credits!Spec

\* A mined deposit is confirmed, as long as an instance stays up that did not
\* start past it (deposit/entities.rs:7-8).
DepositIsConfirmed ==
    \A o \in Outputs :
        o \in Uncredited
            ~> \/ deposit[o] = "confirmed"
               \/ \A w \in Instances : phase[w] = "down" \/ o \in skipped[w]

-------------------------------------------------------------------------------
(* What the documentation says and the code does not do *)

\* "When the transaction is confirmed, the Deposit::confirm method is called,
\* updating the user balance" (deposit/entities.rs:7-8): no listener is past a
\* mined deposit that is not credited.
ListenerMissesNothing ==
    \A w \in Instances, o \in Uncredited : phase[w] # "down" => chain[o] >= tip[w]
===============================================================================
