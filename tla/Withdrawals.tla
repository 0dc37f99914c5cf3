----------------------------- MODULE Withdrawals -----------------------------
(***************************************************************************)
(* On-chain withdrawals: start, WithdrawalSender::run and                  *)
(* Listener::process of app/src/withdrawal/mod.rs with the Withdrawal      *)
(* entity of withdrawal/entities.rs, and Node::get_tx and                  *)
(* Node::send_onchain of app/src/ln/node.rs.  Several instances of the     *)
(* process may run, each with a sender and a listener; the row lock of the *)
(* sender is there for them.                                               *)
(*                                                                         *)
(* The wallet's blocks are told apart by the month they are in, counted    *)
(* from first_block, which is all get_tx distinguishes.                    *)
(***************************************************************************)
EXTENDS BalanceOps, FiniteSets

CONSTANTS
    Users,
    Ids,              \* withdrawals
    Owner,            \* the grant a withdrawal is started with: its user
    Amounts,          \* what clients ask for
    Fees,             \* what the node estimates
    InitialBalance,
    CreditAmounts,    \* the amounts other modules may credit
    MaxCredited,      \* bound on what is credited to one user
    MaxRetries,       \* MAX_RETRIES
    Instances,
    Txs,              \* transactions the wallet may make
    Label,            \* the withdrawal a transaction is labelled with
    NoTx,
    MaxMonth,         \* bound on the months since first_block
    MaxFaults         \* bound on crashes and failing calls

\* A withdrawal's Id is a UUID: there are finitely many.
ASSUME WithdrawalsAssumption ==
    /\ IsFiniteSet(Ids)
    /\ Owner \in [Ids -> Users]
    /\ Amounts \subseteq Int
    /\ Fees \subseteq Nat
    /\ InitialBalance \in [Users -> Nat]
    /\ CreditAmounts \subseteq Nat
    /\ MaxCredited \in Nat
    /\ MaxRetries \in Nat \ {0}
    /\ Label \in [Txs -> Ids]
    /\ NoTx \notin Txs
    /\ MaxMonth \in Nat \ {0}
    /\ MaxFaults \in Nat

Absent == -1
Unconfirmed == 0

VARIABLES
    balance,      \* users.balance_msats
    credited,     \* what each user has been credited so far
    reservation,  \* the committed balance_reservations rows
    row,          \* the withdrawals rows: stored, tx and confirmed
    request,      \* start(): "idle", "begin", "loaded", "done" or "refused"
    asked,        \* what the client asks for
    attempt,      \* which run of the closure of start() this is
    snapshot,     \* the Balance of this run
    chain,        \* Absent, Unconfirmed or the month of each transaction (external)
    month,        \* the current month (external)
    sender,       \* WithdrawalSender: "list", "pick", "mined", "unconfirmed",
                  \* "send", "find" or "store"
    unsent,       \* what list_unsent returned and the sender has still to do
    sending,      \* the withdrawal it has locked, with the transaction it found
    confirming,   \* the transaction Listener::process is confirming
    passed,       \* transactions the listener's tip has passed
    early,        \* history: passed when no row had the transaction
    overwritten,  \* history: confirmed rows a sender wrote over
    late,         \* how many send_coins that were given up the node may still obey
    obeyed,       \* history: the transactions of such calls
    faults

given == <<late, obeyed>>
wallet == <<chain, month, given>>
starting == <<request, asked, attempt, snapshot>>
funds == <<balance, credited>>
sends == <<sender, unsent, sending>>
listens == <<confirming, passed>>
history == <<early, overwritten>>
vars == <<funds, reservation, row, starting, wallet, sends, listens, history, faults>>

NoRow == [stored |-> FALSE, tx |-> NoTx, confirmed |-> FALSE]

Mined(t) == chain[t] > Unconfirmed

TxsOf(id) == {t \in Txs : Label[t] = id}

\* The withdrawals a sender holds and looks up: none, or one with its transaction.
Nothing == [ids |-> {}, tx |-> NoTx]

Init ==
    /\ balance = InitialBalance
    /\ credited = [u \in Users |-> 0]
    /\ reservation = [id \in Ids |-> NoReservation]
    /\ row = [id \in Ids |-> NoRow]
    /\ request = [id \in Ids |-> "idle"]
    /\ asked = [id \in Ids |-> 0]
    /\ attempt = [id \in Ids |-> 1]
    /\ snapshot = [id \in Ids |-> BalanceNew(0)]
    /\ chain = [t \in Txs |-> Absent]
    /\ month = 1
    /\ late = [id \in Ids |-> 0]
    /\ obeyed = {}
    /\ sender = [w \in Instances |-> "list"]
    /\ unsent = [w \in Instances |-> {}]
    /\ sending = [w \in Instances |-> Nothing]
    /\ confirming = [w \in Instances |-> NoTx]
    /\ passed = [w \in Instances |-> {}]
    /\ early = {}
    /\ overwritten = {}
    /\ faults = 0

-------------------------------------------------------------------------------
(* start() *)

Unstarted == <<reservation, row, wallet, sends, listens, history, faults>>

Request(id) ==
    /\ request[id] = "idle"
    /\ request' = [request EXCEPT ![id] = "begin"]
    /\ \E a \in Amounts : asked' = [asked EXCEPT ![id] = a]
    /\ UNCHANGED <<funds, attempt, snapshot, Unstarted>>

LoadBalance(id) ==
    /\ request[id] = "begin"
    /\ request' = [request EXCEPT ![id] = "loaded"]
    /\ snapshot' = [snapshot EXCEPT ![id] = BalanceNew(balance[Owner[id]])]
    /\ UNCHANGED <<funds, asked, attempt, Unstarted>>

\* The closure ended: its balance is dropped.
EndRun(id, where) ==
    /\ request' = [request EXCEPT ![id] = where]
    /\ snapshot' = [snapshot EXCEPT ![id] = BalanceNew(0)]
    /\ UNCHANGED asked

\* AmountNotPositive or, with the fee the node estimates, InsufficientBalance.
Refuse(id) ==
    /\ request[id] = "loaded"
    /\ \/ asked[id] <= 0
       \/ \E fee \in Fees : ~CanReserve(snapshot[id], asked[id] + fee)
    /\ EndRun(id, "refused")
    /\ UNCHANGED <<funds, attempt, Unstarted>>

\* Balance, reservation and withdrawal commit together.
StartCommits(id) ==
    /\ request[id] = "loaded" /\ asked[id] > 0
    /\ \E fee \in Fees :
         /\ CanReserve(snapshot[id], asked[id] + fee)
         /\ CanUpdate(balance[Owner[id]], ReserveFrom(snapshot[id], asked[id] + fee))
         /\ balance' = [balance EXCEPT ![Owner[id]] =
                          Updated(@, ReserveFrom(snapshot[id], asked[id] + fee))]
         /\ reservation' =
              [reservation EXCEPT ![id] = PendingReservation(asked[id] + fee)]
    /\ row' = [row EXCEPT ![id].stored = TRUE]
    /\ EndRun(id, "done")
    /\ UNCHANGED <<credited, attempt, wallet, sends, listens, history, faults>>

\* The transaction is dropped and the closure runs again from the start; the
\* conflict of the last run is returned.
StartConflicts(id) ==
    /\ request[id] = "loaded" /\ asked[id] > 0
    /\ \E fee \in Fees :
         /\ CanReserve(snapshot[id], asked[id] + fee)
         /\ ~CanUpdate(balance[Owner[id]], ReserveFrom(snapshot[id], asked[id] + fee))
    /\ IF attempt[id] < MaxRetries
       THEN attempt' = [attempt EXCEPT ![id] = @ + 1] /\ EndRun(id, "begin")
       ELSE UNCHANGED attempt /\ EndRun(id, "refused")
    /\ UNCHANGED <<funds, Unstarted>>

-------------------------------------------------------------------------------
(* WithdrawalSender *)

Unsending == <<funds, reservation, starting, listens, early>>

SenderGoes(w, where) == sender' = [sender EXCEPT ![w] = where]

\* run() lists the unsent withdrawals, with nothing locked ...
ListUnsent(w) ==
    /\ sender[w] = "list"
    /\ unsent' = [unsent EXCEPT ![w] = {id \in Ids : row[id].stored /\ row[id].tx = NoTx}]
    /\ unsent'[w] # {}
    /\ SenderGoes(w, "pick")
    /\ UNCHANGED <<Unsending, row, wallet, sending, overwritten, faults>>

NeverLocked(id) == FALSE

\* SELECT ... FOR UPDATE, until the sender's transaction ends.
Locked(id) == \E w \in Instances : id \in sending[w].ids

\* ... and locks one after the other, without reading it again.
Lock(w, id) ==
    /\ sender[w] = "pick"
    /\ id \in unsent[w]
    /\ ~Locked(id)
    /\ unsent' = [unsent EXCEPT ![w] = @ \ {id}]
    /\ sending' = [sending EXCEPT ![w] = [ids |-> {id}, tx |-> NoTx]]
    /\ SenderGoes(w, "mined")
    /\ UNCHANGED <<Unsending, row, wallet, overwritten, faults>>

EndRound(w) ==
    /\ sender[w] = "pick" /\ unsent[w] = {}
    /\ SenderGoes(w, "list")
    /\ UNCHANGED <<Unsending, row, wallet, unsent, sending, overwritten, faults>>

Labelled(w) == {t \in Txs : Label[t] \in sending[w].ids}

\* An answer of get_tx: the transaction found, or on to the next query.
Find(w, found, otherwise) ==
    IF found = {}
    THEN SenderGoes(w, otherwise) /\ UNCHANGED sending
    ELSE /\ \E t \in found : sending' = [sending EXCEPT ![w].tx = t]
         /\ SenderGoes(w, "store")

\* get_tx asks for the month from first_block on.  A transaction with the label
\* pays the withdrawal, so the loop goes on to another month in no case: it
\* returns what it found or breaks.
LookMined(w) ==
    /\ sender[w] = "mined"
    /\ Find(w, {t \in Labelled(w) : chain[t] = 1}, "unconfirmed")
    /\ UNCHANGED <<Unsending, row, wallet, unsent, overwritten, faults>>

SkipUnconfirmed(w) ==
    /\ sender[w] = "unconfirmed"
    /\ SenderGoes(w, "send")
    /\ UNCHANGED <<Unsending, row, wallet, unsent, sending, overwritten, faults>>

\* Then it asks for the unconfirmed ones.
LookUnconfirmed(w) ==
    /\ sender[w] = "unconfirmed"
    /\ Find(w, {t \in Labelled(w) : chain[t] = Unconfirmed}, "send")
    /\ UNCHANGED <<Unsending, row, wallet, unsent, overwritten, faults>>

\* send_coins: the wallet makes and broadcasts a transaction.
SendCoins(w) ==
    /\ sender[w] = "send"
    /\ \E t \in Labelled(w) :
         /\ chain[t] = Absent
         /\ chain' = [chain EXCEPT ![t] = Unconfirmed]
         /\ sending' = [sending EXCEPT ![w].tx = t]
    /\ SenderGoes(w, "find")
    /\ UNCHANGED <<Unsending, row, month, given, unsent, overwritten, faults>>

\* send_onchain finds the output among the unconfirmed ones ...
FindSent(w) ==
    /\ sender[w] = "find"
    /\ chain[sending[w].tx] = Unconfirmed
    /\ SenderGoes(w, "store")
    /\ UNCHANGED <<Unsending, row, wallet, unsent, sending, overwritten, faults>>

\* A panic drops the transaction and its lock; run goes on with the next one.
DropSending(w) ==
    /\ sending' = [sending EXCEPT ![w] = Nothing]
    /\ SenderGoes(w, "pick")
    /\ UNCHANGED <<Unsending, row, chain, month, unsent, overwritten>>

\* ... or panics, when it has been mined meanwhile.
SentIsMined(w) ==
    /\ sender[w] = "find"
    /\ Mined(sending[w].tx)
    /\ DropSending(w)
    /\ UNCHANGED <<given, faults>>

StoreNothing(w) ==
    /\ sender[w] = "store"
    /\ DropSending(w)
    /\ UNCHANGED <<given, faults>>

\* The row as it was listed is stored with its transaction: whatever it held
\* before, it is unconfirmed now.
StoreSent(w) ==
    /\ sender[w] = "store"
    /\ row' = [id \in Ids |->
                 IF id \in sending[w].ids
                 THEN [stored |-> TRUE, tx |-> sending[w].tx, confirmed |-> FALSE]
                 ELSE row[id]]
    /\ overwritten' = overwritten \cup {id \in sending[w].ids : row[id].confirmed}
    /\ sending' = [sending EXCEPT ![w] = Nothing]
    /\ SenderGoes(w, "pick")
    /\ UNCHANGED <<Unsending, wallet, unsent, faults>>

-------------------------------------------------------------------------------
(* The listener *)

Unlistening == <<funds, row, starting, wallet, sends, overwritten, faults>>

\* After process() the tip passes the output, or the batch comes again.
Pass(w, t) == passed' = [passed EXCEPT ![w] = @ \cup {t}] \/ UNCHANGED passed

\* get_by_tx_out: no row has this output, or the row is confirmed already.
NothingToConfirm(w, t) ==
    /\ confirming[w] = NoTx /\ t \notin passed[w]
    /\ Mined(t)
    /\ row[Label[t]].tx = t => row[Label[t]].confirmed
    /\ Pass(w, t)
    /\ early' = early \cup {p \in passed'[w] \ passed[w] : row[Label[p]].tx # p}
    /\ UNCHANGED <<Unlistening, reservation, confirming>>

LoadAndPass(w, t) ==
    /\ confirming[w] = NoTx /\ t \notin passed[w]
    /\ Mined(t)
    /\ row[Label[t]].tx = t /\ ~row[Label[t]].confirmed
    /\ confirming' = [confirming EXCEPT ![w] = t]
    /\ Pass(w, t)
    /\ UNCHANGED <<Unlistening, reservation, early>>

LoadWithdrawal(w, t) ==
    /\ confirming[w] = NoTx /\ t \notin passed[w]
    /\ Mined(t)
    /\ row[Label[t]].tx = t /\ ~row[Label[t]].confirmed
    /\ confirming' = [confirming EXCEPT ![w] = t]
    /\ UNCHANGED <<Unlistening, reservation, passed, early>>

Confirmed(t) == [row EXCEPT ![Label[t]] = [stored |-> TRUE, tx |-> t, confirmed |-> TRUE]]

\* Withdrawal::confirm; the row waits for a sender that has it locked, and the
\* reservation is written only while it is pending.
Confirm(w) ==
    /\ confirming[w] # NoTx
    /\ ~Locked(Label[confirming[w]])
    /\ CanFinish(reservation[Label[confirming[w]]])
    /\ row' = Confirmed(confirming[w])
    /\ reservation' = [reservation EXCEPT ![Label[confirming[w]]] = Debit(@)]
    /\ confirming' = [confirming EXCEPT ![w] = NoTx]
    /\ Pass(w, confirming[w])
    /\ UNCHANGED <<funds, starting, wallet, sends, history, faults>>

\* Of a finished reservation either the assertion of Withdrawal::confirm or
\* upsert_reservation panics: the batch is delivered again, for ever.
ConfirmPanics(w) ==
    /\ confirming[w] # NoTx
    /\ ~CanFinish(reservation[Label[confirming[w]]])
    /\ confirming' = [confirming EXCEPT ![w] = NoTx]
    /\ UNCHANGED <<Unlistening, reservation, passed, early>>

-------------------------------------------------------------------------------
(* Faults and the rest of the system *)

Fault ==
    /\ faults < MaxFaults
    /\ faults' = faults + 1

\* A send_coins is given up before the node obeyed it: it failed, or the node
\* may still obey it, with nobody left to hear of it.
GivesUp(w) ==
    /\ UNCHANGED obeyed
    /\ \/ UNCHANGED late
       \/ /\ sender[w] = "send"
          /\ late' = [id \in Ids |-> IF id \in sending[w].ids THEN late[id] + 1
                                                          ELSE late[id]]

\* A query fails, or a call to the node fails or times out.
SendingFails(w) ==
    /\ Fault
    /\ sending[w] # Nothing
    /\ DropSending(w)
    /\ GivesUp(w)

SendsLate(t) ==
    /\ chain[t] = Absent /\ late[Label[t]] > 0
    /\ chain' = [chain EXCEPT ![t] = Unconfirmed]
    /\ late' = [late EXCEPT ![Label[t]] = @ - 1]
    /\ obeyed' = obeyed \cup {t}
    /\ UNCHANGED <<funds, reservation, row, starting, month, sends, listens, history,
                   faults>>

\* The instance dies, its locks and its calls with it, and is started again, its
\* tip wherever the stored blocks put it.
Crash(w) ==
    /\ Fault
    /\ GivesUp(w)
    /\ sending' = [sending EXCEPT ![w] = Nothing]
    /\ unsent' = [unsent EXCEPT ![w] = {}]
    /\ SenderGoes(w, "list")
    /\ confirming' = [confirming EXCEPT ![w] = NoTx]
    /\ \E p \in SUBSET {t \in Txs : Mined(t)} :
         /\ passed' = [passed EXCEPT ![w] = p]
         /\ early' = early \cup {t \in p \ passed[w] : ~row[Label[t]].confirmed}
    /\ UNCHANGED <<funds, reservation, row, starting, chain, month, overwritten>>

Mine(t) ==
    /\ chain[t] = Unconfirmed
    /\ chain' = [chain EXCEPT ![t] = month]
    /\ UNCHANGED <<funds, reservation, row, starting, month, given, sends, listens,
                   history, faults>>

MonthPasses ==
    /\ month < MaxMonth
    /\ month' = month + 1
    /\ UNCHANGED <<funds, reservation, row, starting, chain, given, sends, listens,
                   history, faults>>

\* Another module credits a settled invoice or a confirmed deposit.
CreditUser(u) ==
    /\ \E a \in CreditAmounts :
         /\ credited[u] + a <= MaxCredited
         /\ balance' = [balance EXCEPT ![u] = @ + a]
         /\ credited' = [credited EXCEPT ![u] = @ + a]
    /\ UNCHANGED <<reservation, row, starting, wallet, sends, listens, history, faults>>

Send(w) ==
    \/ ListUnsent(w) \/ EndRound(w)
    \/ \E id \in Ids : Lock(w, id)
    \/ LookMined(w) \/ LookUnconfirmed(w) \/ SendCoins(w)
    \/ FindSent(w) \/ SentIsMined(w) \/ StoreSent(w)

Listen(w) ==
    \/ \E t \in Txs : NothingToConfirm(w, t) \/ LoadWithdrawal(w, t)
    \/ Confirm(w) \/ ConfirmPanics(w)

Next ==
    \/ \E id \in Ids :
         Request(id) \/ LoadBalance(id) \/ Refuse(id) \/ StartCommits(id)
            \/ StartConflicts(id)
    \/ \E w \in Instances : Send(w) \/ Listen(w) \/ SendingFails(w) \/ Crash(w)
    \/ \E t \in Txs : Mine(t) \/ SendsLate(t)
    \/ MonthPasses
    \/ \E u \in Users : CreditUser(u)

Spec == Init /\ [][Next]_vars

\* worker::start keeps the sender running; nothing is assumed of clients, the
\* chain or the listener.
FairSpec == Spec /\ \A w \in Instances : WF_vars(Send(w))

-------------------------------------------------------------------------------
(* Properties *)

TypeOK ==
    /\ balance \in [Users -> Nat]
    /\ credited \in [Users -> Nat]
    /\ reservation \in [Ids -> Reservations]
    /\ row \in [Ids -> [stored : BOOLEAN, tx : Txs \cup {NoTx}, confirmed : BOOLEAN]]
    /\ request \in [Ids -> {"idle", "begin", "loaded", "done", "refused"}]
    /\ asked \in [Ids -> Amounts \cup {0}]
    /\ attempt \in [Ids -> 1 .. MaxRetries]
    /\ snapshot \in [Ids -> BalanceSnapshot]
    /\ chain \in [Txs -> {Absent, Unconfirmed} \cup Nat]
    /\ month \in Nat \ {0}
    /\ sender \in [Instances -> {"list", "pick", "mined", "unconfirmed", "send", "find",
                                 "store"}]
    /\ unsent \in [Instances -> SUBSET Ids]
    /\ sending \in [Instances -> [ids : SUBSET Ids, tx : Txs \cup {NoTx}]]
    /\ confirming \in [Instances -> Txs \cup {NoTx}]
    /\ passed \in [Instances -> SUBSET Txs]
    /\ early \subseteq Txs
    /\ overwritten \subseteq Ids
    /\ late \in [Ids -> Nat]
    /\ obeyed \subseteq Txs
    /\ faults \in 0 .. MaxFaults

\* A withdrawal is stored with its reservation; its row names a transaction of
\* its own; it is confirmed only with its funds debited; and they are debited
\* only for a transaction that was mined, its row confirmed, unless a sender
\* that had listed it before wrote it over.
RowOK(id) ==
    /\ row[id].stored <=> request[id] = "done"
    /\ row[id].stored <=> reservation[id].status # "None"
    /\ reservation[id].status # "Refunded"
    /\ row[id].tx # NoTx =>
         row[id].stored /\ Label[row[id].tx] = id /\ chain[row[id].tx] # Absent
    /\ row[id].confirmed => reservation[id].status = "Debited" /\ row[id].tx # NoTx
    /\ reservation[id].status = "Debited" =>
         /\ \E t \in TxsOf(id) : Mined(t)
         /\ row[id].confirmed \/ id \in overwritten
    /\ ~Changed(snapshot[id])

\* Coins are sent only for what is stored.
TxOK(t) ==
    /\ chain[t] # Absent => row[Label[t]].stored
    /\ late[Label[t]] > 0 => row[Label[t]].stored

\* One sender holds a withdrawal; what it has found or sent is in the wallet.
SenderOK(w) ==
    /\ \A v \in Instances \ {w} : sending[v].ids \cap sending[w].ids = {}
    /\ \A id \in unsent[w] \cup sending[w].ids : row[id].stored
    /\ sender[w] \in {"list", "pick"} => sending[w] = Nothing
    /\ sender[w] \notin {"list", "pick"} => \E id \in Ids : sending[w].ids = {id}
    /\ sender[w] \in {"find", "store"} =>
         /\ sending[w].tx \in Labelled(w)
         /\ chain[sending[w].tx] # Absent

\* What a listener has passed is mined and confirmed, or was passed before the
\* sender had stored it, or written over since.
ListenerOK(w) ==
    /\ \A t \in passed[w] :
         Mined(t) /\ (row[Label[t]].confirmed \/ t \in early \/ Label[t] \in overwritten)
    /\ confirming[w] # NoTx =>
         Mined(confirming[w]) /\ row[Label[confirming[w]]].stored
            /\ confirming[w] \notin passed[w]

\* A sender about to send coins has found no transaction in the mempool: one that
\* is there was made since, for a call that had been given up.
Unsent(w) ==
    sender[w] = "send" =>
        \A t \in Labelled(w) : chain[t] = Unconfirmed => t \in obeyed

\* Of two transactions of one withdrawal in the mempool, one is the node's late
\* answer to a send_coins that was given up, because the call timed out or its
\* process died; otherwise, whatever fails and however many senders there are,
\* lock and lookup keep a withdrawal from being sent again while it is unconfirmed
\* (withdrawal/mod.rs:69-74).
OneInMempool ==
    \A t, s \in Txs :
        /\ Label[t] = Label[s]
        /\ chain[t] = Unconfirmed /\ chain[s] = Unconfirmed
        => t = s \/ t \in obeyed \/ s \in obeyed

\* What the listener's tip has passed is confirmed, unless it was passed before
\* the sender had stored it, or a sender wrote over it
\* (withdrawal/mod.rs:91-115).
PassedIsConfirmed ==
    \A w \in Instances : \A t \in passed[w] :
        row[Label[t]].tx = t =>
            row[Label[t]].confirmed \/ t \in early \/ Label[t] \in overwritten

\* The inductive invariant.
IInv ==
    /\ TypeOK
    /\ \A id \in Ids : RowOK(id)
    /\ \A t \in Txs : TxOK(t)
    /\ \A w \in Instances : SenderOK(w) /\ ListenerOK(w) /\ Unsent(w)
    /\ OneInMempool

\* A stored withdrawal is sent, in the end: its row gets a transaction.  (Or
\* the wallet has made all the transactions this instance has.)
WithdrawalIsSent ==
    \A id \in Ids :
        row[id].stored /\ row[id].tx = NoTx
            ~> row[id].tx # NoTx \/ \A t \in TxsOf(id) : chain[t] # Absent

\* The irrevocable operation of the protocol: the coins are on their way once a
\* transaction is broadcast, and gone when one is mined.
Operation(id) ==
    IF \A t \in TxsOf(id) : chain[t] = Absent THEN "none"
    ELSE IF \E t \in TxsOf(id) : Mined(t) THEN "settled"
    ELSE "inflight"

\* What a withdrawal may reserve.
Costs == {a + fee : a \in {n \in Amounts : n > 0}, fee \in Fees}

Protocol == INSTANCE ReservationProtocol WITH
    operation <- [id \in Ids |-> Operation(id)],
    HoldAmounts <- Costs

\* Funds are reserved before coins are sent and debited only when they are
\* gone: every step is one of the reservation protocol, or none.
ImplementsProtocol == Protocol!Spec

-------------------------------------------------------------------------------
(* What the documentation says and the code does not do *)

\* "withdrawal has already been sent" is a panic (withdrawal/entities.rs:99-101),
\* and get_tx is asked before coins are sent: no withdrawal is sent twice.
SentOnce ==
    \A t, s \in Txs :
        Label[t] = Label[s] /\ chain[t] # Absent /\ chain[s] # Absent => t = s
===============================================================================
