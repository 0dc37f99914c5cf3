--------------------------- MODULE WithdrawalsProofs ---------------------------
(***************************************************************************)
(* Proofs about Withdrawals, for any users, withdrawals, transactions,     *)
(* senders, listeners and faults.  The argument is the inductive invariant *)
(* IInv: one sender holds a withdrawal, and while it does nobody but the   *)
(* node, late, can send coins for it; what a listener has passed stays     *)
(* confirmed, or is remembered as passed too early or written over.        *)
(***************************************************************************)
EXTENDS Withdrawals, TLAPS

USE WithdrawalsAssumption DEF Absent, Unconfirmed, Mined, Nothing

\* The types of a row and of what a sender holds.
Rows == [stored : BOOLEAN, tx : Txs \cup {NoTx}, confirmed : BOOLEAN]
Sendings == [ids : SUBSET Ids, tx : Txs \cup {NoTx}]

\* A row that start() stores has the type of a row (withdrawal/mod.rs:181).
LEMMA RowStored == ASSUME NEW r \in Rows PROVE [r EXCEPT !.stored = TRUE] \in Rows
BY DEF Rows

\* A sender that found a transaction still holds what a sender may hold.
LEMMA SendingFound ==
    ASSUME NEW s \in Sendings, NEW t \in Txs
    PROVE  [s EXCEPT !.tx = t] \in Sendings
BY DEF Sendings

\* The invariant holds before the first request and the first round of a sender.
THEOREM InitIInv == Init => IInv
<1> SUFFICES ASSUME Init PROVE IInv
  OBVIOUS
<1>1. TypeOK
  BY DEF Init, TypeOK, NoReservation, NoRow, BalanceNew, BalanceSnapshot, Reservations,
         ReservationStatus
<1>2. \A id \in Ids : RowOK(id)
  BY DEF Init, RowOK, NoReservation, NoRow, BalanceNew, Changed
<1>3. (\A t \in Txs : TxOK(t)) /\ OneInMempool
  BY DEF Init, TxOK, OneInMempool
<1>4. ASSUME NEW w \in Instances PROVE SenderOK(w) /\ ListenerOK(w) /\ Unsent(w)
  BY DEF Init, SenderOK, ListenerOK, Unsent
<1> QED
  BY <1>1, <1>2, <1>3, <1>4 DEF IInv

\* A request that does not commit touches no row, and the balance it holds, if
\* any, is a fresh one.
LEMMA RequestStep ==
    ASSUME IInv, NEW id \in Ids,
           Request(id) \/ LoadBalance(id) \/ Refuse(id) \/ StartConflicts(id)
    PROVE  IInv'
<1>0. TypeOK /\ \A i \in Ids : RowOK(i)
  BY DEF IInv
<1>1. /\ request[id] # "done"
      /\ \E s \in {"begin", "loaded", "refused"} : request' = [request EXCEPT ![id] = s]
  BY DEF Request, LoadBalance, Refuse, StartConflicts, EndRun
<1>2. \/ snapshot' = snapshot
      \/ \E a \in Nat : snapshot' = [snapshot EXCEPT ![id] = BalanceNew(a)]
  <2>1. balance[Owner[id]] \in Nat
    BY <1>0 DEF TypeOK
  <2> QED
    BY <2>1 DEF Request, LoadBalance, Refuse, StartConflicts, EndRun
<1>3. asked' \in [Ids -> Amounts \cup {0}] /\ attempt' \in [Ids -> 1 .. MaxRetries]
  <2>1. CASE Request(id)
    BY <1>0, <2>1 DEF TypeOK, Request
  <2>2. CASE LoadBalance(id) \/ Refuse(id)
    BY <1>0, <2>2 DEF TypeOK, LoadBalance, Refuse, EndRun
  <2>3. CASE StartConflicts(id)
    <3>1. asked' = asked
      BY <2>3 DEF StartConflicts, EndRun
    <3>2. \/ attempt' = attempt
          \/ /\ attempt[id] < MaxRetries
             /\ attempt' = [attempt EXCEPT ![id] = attempt[id] + 1]
      BY <2>3 DEF StartConflicts
    <3>3. attempt \in [Ids -> 1 .. MaxRetries] /\ asked \in [Ids -> Amounts \cup {0}]
      BY <1>0 DEF TypeOK
    <3> QED
      BY <3>1, <3>2, <3>3
  <2> QED
    BY <2>1, <2>2, <2>3
<1>4. UNCHANGED <<funds, Unstarted>>
  BY DEF Request, LoadBalance, Refuse, StartConflicts
<1>5. snapshot' \in [Ids -> BalanceSnapshot] /\ \A i \in Ids : ~Changed(snapshot'[i])
  <2>1. \A a \in Nat : BalanceNew(a) \in BalanceSnapshot /\ ~Changed(BalanceNew(a))
    BY DEF BalanceNew, BalanceSnapshot, Changed
  <2>2. snapshot \in [Ids -> BalanceSnapshot] /\ \A i \in Ids : ~Changed(snapshot[i])
    BY <1>0 DEF TypeOK, RowOK
  <2> QED
    BY <1>2, <2>1, <2>2
<1> USE <1>4 DEF funds, Unstarted, wallet, given, sends, listens, history
<1>6. TypeOK'
  <2>1. request' \in [Ids -> {"idle", "begin", "loaded", "done", "refused"}]
    BY <1>0, <1>1 DEF TypeOK
  <2> QED
    BY <1>0, <1>3, <1>5, <2>1 DEF TypeOK
<1>7. ASSUME NEW i \in Ids PROVE RowOK(i)'
  BY <1>0, <1>1, <1>5 DEF TypeOK, RowOK
<1>8. (\A t \in Txs : TxOK(t))' /\ OneInMempool'
  BY DEF IInv, TxOK, OneInMempool
<1>9. ASSUME NEW w \in Instances PROVE (SenderOK(w) /\ ListenerOK(w) /\ Unsent(w))'
  BY DEF IInv, SenderOK, ListenerOK, Unsent, Labelled
<1> QED
  BY <1>6, <1>7, <1>8, <1>9 DEF IInv

\* A commit of start() leaves a well-formed reservation with its row and a
\* balance of at least zero (withdrawal/mod.rs:21-34).
LEMMA StartCommitsStep ==
    ASSUME IInv, NEW id \in Ids, StartCommits(id)
    PROVE  IInv'
<1>0. TypeOK /\ RowOK(id) /\ snapshot[id] \in BalanceSnapshot /\ Owner[id] \in Users
  BY DEF IInv, TypeOK
<1>1. PICK fee \in Fees :
        /\ CanReserve(snapshot[id], asked[id] + fee)
        /\ CanUpdate(balance[Owner[id]], ReserveFrom(snapshot[id], asked[id] + fee))
        /\ balance' = [balance EXCEPT ![Owner[id]] =
                         Updated(@, ReserveFrom(snapshot[id], asked[id] + fee))]
        /\ reservation' =
             [reservation EXCEPT ![id] = PendingReservation(asked[id] + fee)]
  BY DEF StartCommits
<1>2. asked[id] + fee \in Nat /\ balance[Owner[id]] \in Nat
  <2>1. asked[id] \in Amounts \cup {0} /\ balance[Owner[id]] \in Nat
    BY <1>0 DEF TypeOK
  <2>2. asked[id] \in Int /\ fee \in Nat /\ asked[id] > 0
    BY <2>1 DEF StartCommits
  <2> QED
    BY <2>1, <2>2
<1>3. Updated(balance[Owner[id]], ReserveFrom(snapshot[id], asked[id] + fee)) \in Nat
  BY <1>0, <1>1, <1>2
  DEF BalanceSnapshot, CanReserve, CanUpdate, Updated, ReserveFrom, Changed
<1>4. PendingReservation(asked[id] + fee) \in Reservations
      /\ PendingReservation(asked[id] + fee).status = "Pending"
  BY <1>2 DEF PendingReservation, Reservations, ReservationStatus
<1>5. BalanceNew(0) \in BalanceSnapshot /\ ~Changed(BalanceNew(0))
  BY DEF BalanceNew, BalanceSnapshot, Changed
<1> USE DEF StartCommits, EndRun, wallet, given, sends, listens, history
<1>6. TypeOK'
  <2>1. balance' \in [Users -> Nat] /\ reservation' \in [Ids -> Reservations]
    BY <1>0, <1>1, <1>3, <1>4 DEF TypeOK
  <2>2. row' \in [Ids -> Rows]
    <3>1. row' = [row EXCEPT ![id] = [row[id] EXCEPT !.stored = TRUE]]
      OBVIOUS
    <3>2. /\ row \in [Ids -> Rows]
          /\ [row[id] EXCEPT !.stored = TRUE] \in Rows
      <4>1. row \in [Ids -> Rows]
        BY <1>0 DEF TypeOK, Rows
      <4> HIDE DEF StartCommits
      <4> QED
        BY <4>1, RowStored
    <3> HIDE DEF StartCommits
    <3> QED
      BY <3>1, <3>2
  <2>3. /\ request' \in [Ids -> {"idle", "begin", "loaded", "done", "refused"}]
        /\ snapshot' \in [Ids -> BalanceSnapshot]
    BY <1>0, <1>5 DEF TypeOK
  <2> QED
    BY <1>0, <2>1, <2>2, <2>3 DEF TypeOK, Rows
<1>7. ASSUME NEW i \in Ids PROVE RowOK(i)'
  BY <1>0, <1>1, <1>4, <1>5 DEF IInv, TypeOK, RowOK
<1>8. (\A t \in Txs : TxOK(t))' /\ OneInMempool'
  BY <1>0 DEF IInv, TypeOK, TxOK, OneInMempool
<1>9. ASSUME NEW w \in Instances PROVE (SenderOK(w) /\ ListenerOK(w) /\ Unsent(w))'
  BY <1>0 DEF IInv, TypeOK, SenderOK, ListenerOK, Unsent, Labelled
<1> QED
  BY <1>6, <1>7, <1>8, <1>9 DEF IInv

-------------------------------------------------------------------------------
(* The sender *)

\* Nothing but what this sender holds, and who may still send late.
LEMMA SenderMoved ==
    ASSUME IInv, NEW w \in Instances, TypeOK', SenderOK(w)', Unsent(w)',
           UNCHANGED <<Unsending, row, chain, month, overwritten>>,
           \A v \in Instances \ {w} :
               sender'[v] = sender[v] /\ unsent'[v] = unsent[v] /\ sending'[v] = sending[v],
           obeyed' = obeyed,
           \A id \in Ids : late'[id] = late[id] \/ row[id].stored
    PROVE  IInv'
<1> USE DEF Unsending, funds, starting, listens
<1>1. ASSUME NEW id \in Ids PROVE RowOK(id)'
  BY DEF IInv, RowOK
<1>2. ASSUME NEW t \in Txs PROVE TxOK(t)'
  BY DEF IInv, TxOK
<1>3. OneInMempool'
  BY DEF IInv, OneInMempool
<1>4. ASSUME NEW v \in Instances PROVE ListenerOK(v)'
  BY DEF IInv, ListenerOK
<1>5. ASSUME NEW v \in Instances PROVE SenderOK(v)'
  <2>1. CASE v = w
    BY <2>1
  <2>2. CASE v # w
    <3>1. SenderOK(v)
      BY DEF IInv
    <3>2. \A z \in Instances \ {v} : sending'[z].ids \cap sending'[v].ids = {}
      BY <2>2, <3>1 DEF SenderOK
    <3> QED
      BY <2>2, <3>1, <3>2 DEF SenderOK, Labelled
  <2> QED
    BY <2>1, <2>2
<1>6. ASSUME NEW v \in Instances PROVE Unsent(v)'
  <2>1. CASE v = w
    BY <2>1
  <2>2. CASE v # w
    BY <2>2 DEF IInv, Unsent, Labelled
  <2> QED
    BY <2>1, <2>2
<1> QED
  BY <1>1, <1>2, <1>3, <1>4, <1>5, <1>6 DEF IInv

\* Listing the unsent withdrawals preserves the invariant (withdrawal/mod.rs:62).
LEMMA ListUnsentStep ==
    ASSUME IInv, NEW w \in Instances, ListUnsent(w)
    PROVE  IInv'
<1> USE DEF ListUnsent, SenderGoes, Unsending, funds, starting, listens, wallet, given
<1>1. TypeOK'
  BY DEF IInv, TypeOK
<1>2. SenderOK(w)' /\ Unsent(w)'
  BY DEF IInv, TypeOK, SenderOK, Unsent, Labelled
<1> QED
  BY <1>1, <1>2, SenderMoved DEF IInv, TypeOK

\* The lock excludes the other senders (withdrawal/mod.rs:71).
LEMMA LockStep ==
    ASSUME IInv, NEW w \in Instances, NEW id \in Ids, Lock(w, id)
    PROVE  IInv'
<1> USE DEF Lock, SenderGoes, Unsending, funds, starting, listens, wallet, given
<1>1. TypeOK'
  <2>1. [ids |-> {id}, tx |-> NoTx] \in Sendings
    BY DEF Sendings
  <2> QED
    BY <2>1 DEF IInv, TypeOK, Sendings
<1>2. SenderOK(w)' /\ Unsent(w)'
  BY DEF IInv, TypeOK, SenderOK, Unsent, Labelled, Locked
<1> QED
  BY <1>1, <1>2, SenderMoved DEF IInv, TypeOK

\* Ending a round preserves the invariant (withdrawal/mod.rs:80).
LEMMA EndRoundStep ==
    ASSUME IInv, NEW w \in Instances, EndRound(w)
    PROVE  IInv'
<1> USE DEF EndRound, SenderGoes, Unsending, funds, starting, listens, wallet, given
<1>1. TypeOK'
  BY DEF IInv, TypeOK
<1>2. SenderOK(w)' /\ Unsent(w)'
  BY DEF IInv, TypeOK, SenderOK, Unsent, Labelled
<1> QED
  BY <1>1, <1>2, SenderMoved DEF IInv, TypeOK

\* get_tx finds a transaction of this withdrawal, or says that none is
\* unconfirmed (ln/node.rs:146).
LEMMA LookStep ==
    ASSUME IInv, NEW w \in Instances, LookMined(w) \/ LookUnconfirmed(w)
    PROVE  IInv'
<1> USE DEF SenderGoes, Unsending, funds, starting, listens, wallet, given
<1>0. TypeOK /\ SenderOK(w)
  BY DEF IInv
<1>1. /\ sender[w] \in {"mined", "unconfirmed"}
      /\ UNCHANGED <<Unsending, row, wallet, unsent, overwritten, faults>>
      /\ \/ /\ sending' = sending
            /\ \/ sender' = [sender EXCEPT ![w] = "unconfirmed"]
               \/ /\ sender' = [sender EXCEPT ![w] = "send"]
                  /\ \A t \in Labelled(w) : chain[t] # Unconfirmed
         \/ /\ sender' = [sender EXCEPT ![w] = "store"]
            /\ \E t \in Labelled(w) :
                 chain[t] # Absent /\ sending' = [sending EXCEPT ![w].tx = t]
  BY DEF LookMined, LookUnconfirmed, Find
<1>2. CASE sending' = sending
  <2>1. TypeOK'
    BY <1>0, <1>1, <1>2 DEF TypeOK
  <2>2. SenderOK(w)' /\ Unsent(w)'
    BY <1>0, <1>1, <1>2 DEF TypeOK, SenderOK, Unsent, Labelled
  <2> QED
    BY <1>0, <1>1, <1>2, <2>1, <2>2, SenderMoved DEF TypeOK
<1>3. ASSUME NEW t \in Labelled(w), chain[t] # Absent, sending' = [sending EXCEPT ![w].tx = t],
             sender' = [sender EXCEPT ![w] = "store"]
      PROVE  IInv'
  <2>1. t \in Txs
    BY DEF Labelled
  <2>2. sending'[w].ids = sending[w].ids /\ sending'[w].tx = t
    BY <1>0, <1>3 DEF TypeOK
  <2>3. TypeOK'
    <3>1. [sending[w] EXCEPT !.tx = t] \in Sendings
      <4>1. sending[w] \in Sendings
        BY <1>0 DEF TypeOK, Sendings
      <4> QED
        BY <4>1, <2>1, SendingFound
    <3> QED
      BY <1>0, <1>1, <1>3, <3>1 DEF TypeOK, Sendings
  <2>4. SenderOK(w)' /\ Unsent(w)'
    BY <1>0, <1>1, <1>3, <2>2 DEF TypeOK, SenderOK, Unsent, Labelled
  <2> QED
    BY <1>0, <1>1, <1>3, <2>3, <2>4, SenderMoved DEF TypeOK
<1> QED
  BY <1>1, <1>2, <1>3

\* Finding what was just sent preserves the invariant (ln/node.rs:187).
LEMMA FindSentStep ==
    ASSUME IInv, NEW w \in Instances, FindSent(w)
    PROVE  IInv'
<1> USE DEF FindSent, SenderGoes, Unsending, funds, starting, listens, wallet, given
<1>1. TypeOK'
  BY DEF IInv, TypeOK
<1>2. SenderOK(w)' /\ Unsent(w)'
  <2>1. SenderOK(w) /\ sender' = [sender EXCEPT ![w] = "store"]
    BY DEF IInv
  <2>2. sender'[w] = "store" /\ sending[w].tx \in Labelled(w) /\ chain[sending[w].tx] # Absent
    BY <2>1 DEF IInv, TypeOK, SenderOK
  <2>3. \E id \in Ids : sending[w].ids = {id}
    BY <2>1 DEF SenderOK
  <2> QED
    BY <2>1, <2>2, <2>3 DEF SenderOK, Unsent, Labelled
<1> QED
  BY <1>1, <1>2, SenderMoved DEF IInv, TypeOK

\* A sender drops the withdrawal it holds: the row lock goes with it.
LEMMA DropStep ==
    ASSUME IInv, NEW w \in Instances, SentIsMined(w) \/ SendingFails(w)
    PROVE  IInv'
<1> USE DEF DropSending, SenderGoes, Unsending, funds, starting, listens
<1>0. TypeOK /\ SenderOK(w)
  BY DEF IInv
<1>1. DropSending(w)
  BY DEF SentIsMined, SendingFails
<1>2. /\ faults' \in 0 .. MaxFaults
      /\ \/ late' = late
         \/ late' = [id \in Ids |-> IF id \in sending[w].ids THEN late[id] + 1
                                                           ELSE late[id]]
      /\ obeyed' = obeyed
  BY <1>0 DEF SentIsMined, SendingFails, Fault, GivesUp, given, TypeOK
<1>3. TypeOK'
  <2>1. Nothing \in Sendings
    BY DEF Sendings
  <2>2. sending' \in [Instances -> Sendings] /\ late' \in [Ids -> Nat]
    BY <1>0, <1>1, <1>2, <2>1 DEF TypeOK, Sendings
  <2> QED
    BY <1>0, <1>1, <1>2, <2>2 DEF TypeOK, Sendings
<1>4. SenderOK(w)' /\ Unsent(w)'
  BY <1>0, <1>1 DEF TypeOK, SenderOK, Unsent, Labelled
<1>5. ASSUME NEW id \in Ids
      PROVE  late'[id] = late[id] \/ row[id].stored
  BY <1>0, <1>2 DEF SenderOK
<1> QED
  BY <1>0, <1>1, <1>2, <1>3, <1>4, <1>5, SenderMoved DEF TypeOK

\* Coins are sent for a withdrawal without a transaction in the mempool, and
\* by the only sender that holds it (withdrawal/mod.rs:73).
LEMMA SendCoinsStep ==
    ASSUME IInv, NEW w \in Instances, SendCoins(w)
    PROVE  IInv'
<1> USE DEF Unsending, funds, starting, listens, given
<1>0. TypeOK /\ SenderOK(w) /\ Unsent(w)
  BY DEF IInv
<1>1. PICK t \in Labelled(w) :
        /\ chain[t] = Absent
        /\ chain' = [chain EXCEPT ![t] = Unconfirmed]
        /\ sending' = [sending EXCEPT ![w].tx = t]
  BY DEF SendCoins
<1>2. /\ sender[w] = "send" /\ sender' = [sender EXCEPT ![w] = "find"]
      /\ UNCHANGED <<Unsending, row, month, given, unsent, overwritten, faults>>
  BY DEF SendCoins, SenderGoes
<1>3. t \in Txs /\ Label[t] \in Ids /\ sending[w].ids = {Label[t]} /\ row[Label[t]].stored
  BY <1>0, <1>2 DEF SenderOK, Labelled
<1>4. sending'[w].ids = sending[w].ids /\ sending'[w].tx = t
  BY <1>0, <1>1 DEF TypeOK
<1>5. TypeOK'
  <2>1. sending' \in [Instances -> Sendings]
    <3>1. sending \in [Instances -> Sendings] /\ sending' = [sending EXCEPT ![w] = [sending[w] EXCEPT !.tx = t]]
      BY <1>0, <1>1 DEF TypeOK, Sendings
    <3> QED
      BY <1>3, <3>1, SendingFound
  <2>2. chain' \in [Txs -> {Absent, Unconfirmed} \cup Nat]
    BY <1>0, <1>1 DEF TypeOK
  <2> QED
    BY <1>0, <1>2, <2>1, <2>2 DEF TypeOK, Sendings
<1>6. ASSUME NEW id \in Ids PROVE RowOK(id)'
  BY <1>0, <1>1, <1>2, <1>3 DEF IInv, TypeOK, RowOK, TxsOf
<1>7. ASSUME NEW s \in Txs PROVE TxOK(s)'
  BY <1>0, <1>1, <1>2, <1>3 DEF IInv, TypeOK, TxOK
\* Any other transaction of this withdrawal in the mempool was sent late.
<1>8. OneInMempool'
  BY <1>0, <1>1, <1>2, <1>3 DEF IInv, TypeOK, OneInMempool, Unsent, Labelled
<1>9. ASSUME NEW v \in Instances PROVE ListenerOK(v)'
  BY <1>0, <1>1, <1>2, <1>3 DEF IInv, TypeOK, ListenerOK
<1>10. ASSUME NEW v \in Instances PROVE SenderOK(v)'
  <2>1. \A z \in Instances : sending'[z].ids = sending[z].ids
    BY <1>0, <1>1 DEF TypeOK
  <2>2. CASE v = w
    <3>1. sender'[w] = "find" /\ chain'[t] = Unconfirmed /\ t \in Labelled(w)'
      BY <1>0, <1>1, <1>2, <1>3, <1>4 DEF TypeOK, Labelled
    <3>2. \A id \in unsent'[w] \cup sending'[w].ids : row'[id].stored
      BY <1>0, <1>2, <1>4 DEF SenderOK
    <3>3. \E id \in Ids : sending'[w].ids = {id}
      BY <1>3, <1>4
    <3> QED
      BY <1>0, <1>4, <2>1, <2>2, <3>1, <3>2, <3>3 DEF SenderOK
  <2>3. CASE v # w
    <3>1. SenderOK(v) /\ sending'[v] = sending[v] /\ sender'[v] = sender[v]
      BY <1>0, <1>1, <1>2, <2>3 DEF IInv, TypeOK
    <3> QED
      BY <1>0, <1>1, <1>2, <1>3, <2>1, <3>1 DEF TypeOK, SenderOK, Labelled
  <2> QED
    BY <2>2, <2>3
\* No other sender holds this withdrawal.
<1>11. ASSUME NEW v \in Instances PROVE Unsent(v)'
  <2>1. CASE v = w
    BY <1>0, <1>2, <2>1 DEF TypeOK, Unsent
  <2>2. CASE v # w
    <3>1. Label[t] \notin sending[v].ids
      BY <1>0, <1>3, <2>2 DEF SenderOK
    <3>2. sending'[v] = sending[v] /\ sender'[v] = sender[v] /\ Unsent(v)
      BY <1>0, <1>1, <1>2, <2>2 DEF IInv, TypeOK
    <3> QED
      BY <1>0, <1>1, <1>2, <1>3, <3>1, <3>2 DEF TypeOK, Unsent, Labelled
  <2> QED
    BY <2>1, <2>2
<1> QED
  BY <1>5, <1>6, <1>7, <1>8, <1>9, <1>10, <1>11 DEF IInv

\* Storing the row as it was listed takes a confirmation back only of what
\* overwritten remembers (withdrawal/mod.rs:74-76).
LEMMA StoreSentStep ==
    ASSUME IInv, NEW w \in Instances, StoreSent(w)
    PROVE  IInv'
<1> USE DEF Unsending, funds, starting, listens, wallet, given
<1>0. TypeOK /\ SenderOK(w)
  BY DEF IInv
<1>1. /\ sender[w] = "store" /\ sender' = [sender EXCEPT ![w] = "pick"]
      /\ sending' = [sending EXCEPT ![w] = Nothing]
      /\ overwritten' = overwritten \cup {id \in sending[w].ids : row[id].confirmed}
      /\ UNCHANGED <<Unsending, wallet, unsent, faults>>
  BY DEF StoreSent, SenderGoes
<1>2. PICK x \in Ids : sending[w].ids = {x}
  BY <1>0, <1>1 DEF SenderOK
<1> DEFINE tx == sending[w].tx
<1>3. tx \in Txs /\ Label[tx] = x /\ chain[tx] # Absent /\ row[x].stored
  BY <1>0, <1>1, <1>2 DEF SenderOK, Labelled
<1>4. row' = [row EXCEPT ![x] = [stored |-> TRUE, tx |-> tx, confirmed |-> FALSE]]
  BY <1>0, <1>2 DEF StoreSent, TypeOK
<1>5. overwritten' = IF row[x].confirmed THEN overwritten \cup {x} ELSE overwritten
  BY <1>1, <1>2
<1> HIDE DEF tx
<1>6. TypeOK'
  <2>1. row \in [Ids -> Rows] /\ [stored |-> TRUE, tx |-> tx, confirmed |-> FALSE] \in Rows
    BY <1>0, <1>3 DEF TypeOK, Rows
  <2>2. row' \in [Ids -> Rows]
    BY <1>4, <2>1
  <2>3. sending' \in [Instances -> Sendings]
    BY <1>0, <1>1 DEF TypeOK, Sendings
  <2> QED
    BY <1>0, <1>1, <1>2, <2>2, <2>3 DEF TypeOK, Rows, Sendings
<1>7. \A id \in Ids : row'[id] = IF id = x
                                 THEN [stored |-> TRUE, tx |-> tx, confirmed |-> FALSE]
                                 ELSE row[id]
  BY <1>0, <1>4 DEF TypeOK
<1>8. ASSUME NEW id \in Ids PROVE RowOK(id)'
  <2>1. RowOK(id)
    BY DEF IInv
  <2> QED
    BY <1>1, <1>3, <1>5, <1>7, <2>1 DEF RowOK, TxsOf
<1>9. (\A t \in Txs : TxOK(t))' /\ OneInMempool'
  BY <1>1, <1>3, <1>7 DEF IInv, TxOK, OneInMempool
<1>10. ASSUME NEW v \in Instances PROVE ListenerOK(v)'
  <2>1. ListenerOK(v)
    BY DEF IInv
  <2>2. passed[v] \subseteq Txs
    BY <1>0 DEF TypeOK
  <2>3. \A id \in Ids : row[id].confirmed => row'[id].confirmed \/ id \in overwritten'
    BY <1>5, <1>7
  <2>4. \A id \in Ids : row[id].stored => row'[id].stored
    BY <1>7
  <2>5. /\ UNCHANGED <<chain, confirming, passed, early>>
        /\ overwritten \subseteq overwritten'
    BY <1>1
  <2>6. confirming[v] \in Txs \cup {NoTx}
    BY <1>0 DEF TypeOK
  <2> QED
    BY <2>1, <2>2, <2>3, <2>4, <2>5, <2>6 DEF ListenerOK
<1>11. ASSUME NEW v \in Instances PROVE SenderOK(v)' /\ Unsent(v)'
  <2>1. SenderOK(v) /\ Unsent(v)
    BY DEF IInv
  <2>2. \A id \in Ids : row[id].stored => row'[id].stored
    BY <1>7
  <2>3. \A z \in Instances : sending'[z].ids \subseteq sending[z].ids
    BY <1>0, <1>1 DEF TypeOK
  <2>4. CASE v = w
    BY <1>0, <1>1, <2>1, <2>2, <2>3, <2>4 DEF TypeOK, SenderOK, Unsent
  <2>5. CASE v # w
    BY <1>0, <1>1, <2>1, <2>2, <2>3, <2>5 DEF TypeOK, SenderOK, Unsent, Labelled
  <2> QED
    BY <2>4, <2>5
<1> QED
  BY <1>6, <1>8, <1>9, <1>10, <1>11 DEF IInv

-------------------------------------------------------------------------------
(* The listener *)

\* Nothing but what a listener is confirming and has passed.
LEMMA ListenerMoved ==
    ASSUME IInv, NEW w \in Instances, UNCHANGED <<Unlistening, reservation>>,
           TypeOK', ListenerOK(w)', early \subseteq early',
           \A v \in Instances \ {w} :
               passed'[v] = passed[v] /\ confirming'[v] = confirming[v]
    PROVE  IInv'
<1> USE DEF Unlistening, funds, starting, wallet, given, sends
<1>1. ASSUME NEW id \in Ids PROVE RowOK(id)'
  BY DEF IInv, RowOK
<1>2. (\A t \in Txs : TxOK(t))' /\ OneInMempool'
  BY DEF IInv, TxOK, OneInMempool
<1>3. ASSUME NEW v \in Instances PROVE SenderOK(v)' /\ Unsent(v)'
  <2>1. SenderOK(v) /\ Unsent(v)
    BY DEF IInv
  <2>2. SenderOK(v)'
    BY <2>1 DEF SenderOK, Labelled
  <2>3. Unsent(v)'
    BY <2>1 DEF Unsent, Labelled
  <2> QED
    BY <2>2, <2>3
<1>4. ASSUME NEW v \in Instances PROVE ListenerOK(v)'
  <2>1. CASE v = w
    BY <2>1
  <2>2. CASE v # w
    BY <2>2 DEF IInv, ListenerOK
  <2> QED
    BY <2>1, <2>2
<1> QED
  BY <1>1, <1>2, <1>3, <1>4 DEF IInv

\* A listener passes what no row has, or what is confirmed
\* (withdrawal/mod.rs:93).
LEMMA NothingToConfirmStep ==
    ASSUME IInv, NEW w \in Instances, NEW t \in Txs, NothingToConfirm(w, t)
    PROVE  IInv'
<1>0. TypeOK /\ ListenerOK(w)
  BY DEF IInv
<1>1. /\ UNCHANGED <<Unlistening, reservation, confirming>>
      /\ confirming[w] = NoTx /\ Mined(t)
      /\ row[Label[t]].tx = t => row[Label[t]].confirmed
      /\ early' = early \cup {p \in passed'[w] \ passed[w] : row[Label[p]].tx # p}
      /\ passed' = [passed EXCEPT ![w] = @ \cup {t}] \/ passed' = passed
  BY DEF NothingToConfirm, Pass
<1> USE DEF Unlistening, funds, starting, wallet, given, sends
<1>2. passed'[w] \subseteq passed[w] \cup {t}
  BY <1>0, <1>1 DEF TypeOK
<1>3. TypeOK'
  <2>1. passed' \in [Instances -> SUBSET Txs]
    <3>1. passed \in [Instances -> SUBSET Txs] /\ passed[w] \cup {t} \in SUBSET Txs
      BY <1>0 DEF TypeOK
    <3> QED
      BY <1>1, <3>1
  <2>2. early' \subseteq Txs
    BY <1>0, <1>1, <1>2 DEF TypeOK
  <2> QED
    BY <1>0, <1>1, <2>1, <2>2 DEF TypeOK
<1>4. ListenerOK(w)'
  BY <1>0, <1>1, <1>2 DEF ListenerOK
<1>5. \A v \in Instances \ {w} : passed'[v] = passed[v]
  BY <1>0, <1>1 DEF TypeOK
<1> QED
  BY <1>1, <1>3, <1>4, <1>5, ListenerMoved

\* A listener takes up a mined transaction of a stored row
\* (withdrawal/mod.rs:93-96).
LEMMA LoadWithdrawalStep ==
    ASSUME IInv, NEW w \in Instances, NEW t \in Txs, LoadWithdrawal(w, t)
    PROVE  IInv'
<1> USE DEF LoadWithdrawal, Unlistening, funds, starting, wallet, given, sends
<1>1. TypeOK'
  BY DEF IInv, TypeOK
<1>2. row[Label[t]].stored
  BY DEF IInv, RowOK
<1>3. ListenerOK(w)'
  BY <1>2 DEF IInv, TypeOK, ListenerOK
<1> QED
  BY <1>1, <1>3, ListenerMoved DEF IInv, TypeOK

\* A confirmation that panics leaves nothing behind
\* (withdrawal/entities.rs:139).
LEMMA ConfirmPanicsStep ==
    ASSUME IInv, NEW w \in Instances, ConfirmPanics(w)
    PROVE  IInv'
<1> USE DEF ConfirmPanics, Unlistening, funds, starting, wallet, given, sends
<1>1. TypeOK'
  BY DEF IInv, TypeOK
<1>2. ListenerOK(w)'
  BY DEF IInv, TypeOK, ListenerOK
<1> QED
  BY <1>1, <1>2, ListenerMoved DEF IInv, TypeOK

\* A confirmation debits the reservation of a row whose transaction is mined
\* (withdrawal/mod.rs:97-102).
LEMMA ConfirmStep ==
    ASSUME IInv, NEW w \in Instances, Confirm(w)
    PROVE  IInv'
<1> DEFINE t == confirming[w]
           x == Label[t]
<1>0. TypeOK /\ ListenerOK(w)
  BY DEF IInv
<1>1. /\ t # NoTx /\ ~Locked(x) /\ CanFinish(reservation[x])
      /\ row' = [row EXCEPT ![x] = [stored |-> TRUE, tx |-> t, confirmed |-> TRUE]]
      /\ reservation' = [reservation EXCEPT ![x] = Debit(reservation[x])]
      /\ confirming' = [confirming EXCEPT ![w] = NoTx]
      /\ passed' = [passed EXCEPT ![w] = @ \cup {t}] \/ passed' = passed
      /\ UNCHANGED <<funds, starting, wallet, sends, history, faults>>
  BY DEF Confirm, Confirmed, Pass
<1>2. t \in Txs /\ x \in Ids /\ chain[t] \in Nat \ {0} /\ row[x].stored
  BY <1>0, <1>1 DEF TypeOK, ListenerOK
<1> USE DEF funds, starting, wallet, given, sends, history
<1> HIDE DEF t, x
<1>3. Debit(reservation[x]) \in Reservations /\ Debit(reservation[x]).status = "Debited"
  <2>1. reservation[x] \in Reservations
    BY <1>0, <1>2 DEF TypeOK
  <2> QED
    BY <2>1 DEF Debit, Reservations, ReservationStatus
<1>4. TypeOK'
  <2>1. row \in [Ids -> Rows] /\ [stored |-> TRUE, tx |-> t, confirmed |-> TRUE] \in Rows
    BY <1>0, <1>2 DEF TypeOK, Rows
  <2>2. row' \in [Ids -> Rows]
    BY <1>1, <2>1
  <2>3. reservation' \in [Ids -> Reservations]
    BY <1>0, <1>1, <1>3 DEF TypeOK
  <2>4. confirming' \in [Instances -> Txs \cup {NoTx}]
    BY <1>0, <1>1 DEF TypeOK
  <2>5. passed' \in [Instances -> SUBSET Txs]
    <3>1. passed \in [Instances -> SUBSET Txs] /\ passed[w] \cup {t} \in SUBSET Txs
      BY <1>0, <1>2 DEF TypeOK
    <3> QED
      BY <1>1, <3>1
  <2> QED
    BY <1>0, <1>1, <2>2, <2>3, <2>4, <2>5 DEF TypeOK, Rows
<1>5. \A id \in Ids :
        row'[id] = IF id = x THEN [stored |-> TRUE, tx |-> t, confirmed |-> TRUE] ELSE row[id]
  BY <1>0, <1>1 DEF TypeOK
<1>6. ASSUME NEW id \in Ids PROVE RowOK(id)'
  <2>1. RowOK(id)
    BY DEF IInv
  <2>2. CASE id = x
    <3>1. reservation'[x].status = "Debited" /\ t \in TxsOf(x)
      BY <1>0, <1>1, <1>2, <1>3 DEF TypeOK, TxsOf, x
    <3> QED
      BY <1>1, <1>2, <1>5, <2>1, <2>2, <3>1 DEF RowOK, TxsOf, x
  <2>3. CASE id # x
    <3>1. reservation'[id] = reservation[id]
      BY <1>0, <1>1, <2>3 DEF TypeOK
    <3> QED
      BY <1>1, <1>5, <2>1, <2>3, <3>1 DEF RowOK, TxsOf
  <2> QED
    BY <2>2, <2>3
<1>7. (\A s \in Txs : TxOK(s))' /\ OneInMempool'
  BY <1>1, <1>5 DEF IInv, TxOK, OneInMempool
<1>8. ASSUME NEW v \in Instances PROVE SenderOK(v)' /\ Unsent(v)'
  <2>1. SenderOK(v) /\ Unsent(v)
    BY DEF IInv
  <2>2. \A id \in Ids : row[id].stored => row'[id].stored
    BY <1>5
  <2>3. SenderOK(v)'
    BY <1>0, <1>1, <2>1, <2>2 DEF SenderOK, Labelled, TypeOK
  <2>4. Unsent(v)'
    BY <1>1, <2>1 DEF Unsent, Labelled
  <2> QED
    BY <2>3, <2>4
<1>9. ASSUME NEW v \in Instances PROVE ListenerOK(v)'
  <2>1. ListenerOK(v)
    BY DEF IInv
  <2>2. CASE v = w
    <3>1. confirming'[w] = NoTx /\ passed'[w] \subseteq passed[w] \cup {t}
      BY <1>0, <1>1 DEF TypeOK
    <3> QED
      BY <1>1, <1>2, <1>5, <2>1, <2>2, <3>1 DEF ListenerOK, x
  <2>3. CASE v # w
    <3>1. confirming'[v] = confirming[v] /\ passed'[v] = passed[v]
      BY <1>0, <1>1, <2>3 DEF TypeOK
    <3> QED
      BY <1>1, <1>2, <1>5, <2>1, <3>1 DEF ListenerOK
  <2> QED
    BY <2>2, <2>3
<1> QED
  BY <1>4, <1>6, <1>7, <1>8, <1>9 DEF IInv

-------------------------------------------------------------------------------
(* Faults, the chain and the rest of the system *)

\* A crash drops the locks of its instance; wherever the tip starts again, what
\* it passes unconfirmed is remembered in early (chain.rs:75).
LEMMA CrashStep ==
    ASSUME IInv, NEW w \in Instances, Crash(w)
    PROVE  IInv'
<1>0. TypeOK /\ ListenerOK(w)
  BY DEF IInv
<1>1. /\ sending' = [sending EXCEPT ![w] = Nothing]
      /\ unsent' = [unsent EXCEPT ![w] = {}]
      /\ sender' = [sender EXCEPT ![w] = "list"]
      /\ confirming' = [confirming EXCEPT ![w] = NoTx]
      /\ UNCHANGED <<funds, reservation, row, starting, chain, month, obeyed, overwritten>>
      /\ faults' \in 0 .. MaxFaults
  BY <1>0 DEF Crash, GivesUp, SenderGoes, Fault, TypeOK
<1>2. PICK p \in SUBSET {t \in Txs : Mined(t)} :
        /\ passed' = [passed EXCEPT ![w] = p]
        /\ early' = early \cup {t \in p \ passed[w] : ~row[Label[t]].confirmed}
  BY DEF Crash
<1> USE DEF funds, starting
\* Calls are given up only for what this instance held, which is stored.
<1>3. \/ late' = late
      \/ late' = [id \in Ids |-> IF id \in sending[w].ids THEN late[id] + 1 ELSE late[id]]
  BY DEF Crash, GivesUp
<1>4. late' \in [Ids -> Nat] /\ \A id \in Ids : late'[id] = late[id] \/ row[id].stored
  <2>1. late \in [Ids -> Nat] /\ \A id \in sending[w].ids : row[id].stored
    BY <1>0 DEF IInv, TypeOK, SenderOK
  <2> QED
    BY <1>3, <2>1
<1>5. TypeOK'
  <2>1. sending' \in [Instances -> Sendings]
    BY <1>0, <1>1 DEF TypeOK, Sendings
  <2> QED
    BY <1>0, <1>1, <1>2, <1>4, <2>1 DEF TypeOK, Sendings
<1>6. ASSUME NEW id \in Ids PROVE RowOK(id)'
  BY <1>1 DEF IInv, RowOK
<1>7. (\A t \in Txs : TxOK(t))' /\ OneInMempool'
  BY <1>1, <1>4 DEF IInv, TxOK, OneInMempool
<1>8. ASSUME NEW v \in Instances PROVE ListenerOK(v)'
  <2>1. ListenerOK(v)
    BY DEF IInv
  <2> QED
    BY <1>0, <1>1, <1>2, <2>1 DEF ListenerOK, TypeOK
<1>9. ASSUME NEW v \in Instances PROVE SenderOK(v)' /\ Unsent(v)'
  <2>1. SenderOK(v) /\ Unsent(v)
    BY DEF IInv
  <2>2. \A z \in Instances : sending'[z].ids \subseteq sending[z].ids
    BY <1>0, <1>1 DEF TypeOK
  <2>3. CASE v = w
    BY <1>0, <1>1, <2>1, <2>2, <2>3 DEF TypeOK, SenderOK, Unsent
  <2>4. CASE v # w
    BY <1>0, <1>1, <2>1, <2>2, <2>4 DEF TypeOK, SenderOK, Unsent, Labelled
  <2> QED
    BY <2>3, <2>4
<1> QED
  BY <1>5, <1>6, <1>7, <1>8, <1>9 DEF IInv

\* A transaction that moves on in the wallet, from the mempool or into it.
LEMMA WalletMoved ==
    ASSUME IInv, NEW t \in Txs, NEW c \in Nat, chain' = [chain EXCEPT ![t] = c],
           \/ chain[t] = Unconfirmed /\ c # Unconfirmed /\ UNCHANGED given
           \/ /\ chain[t] = Absent /\ c = Unconfirmed /\ late[Label[t]] > 0
              /\ late' = [late EXCEPT ![Label[t]] = @ - 1]
              /\ obeyed' = obeyed \cup {t},
           UNCHANGED <<funds, reservation, row, starting, month, sends, listens, history,
                       faults>>
    PROVE  IInv'
<1> USE DEF funds, starting, sends, listens, history
<1>0. TypeOK
  BY DEF IInv
<1>2. /\ \A s \in Txs \ {t} : chain'[s] = chain[s]
      /\ chain'[t] = c
      /\ late' \in [Ids -> Nat] /\ \A id \in Ids : late'[id] > 0 => late[id] > 0
      /\ obeyed \subseteq obeyed' /\ obeyed' \subseteq Txs
      /\ chain[t] = Absent => t \in obeyed' /\ row[Label[t]].stored
  <2>1. late \in [Ids -> Nat] /\ Label[t] \in Ids
    BY <1>0 DEF TypeOK
  <2>2. \/ UNCHANGED given
        \/ /\ late[Label[t]] > 0 /\ late' = [late EXCEPT ![Label[t]] = @ - 1]
           /\ obeyed' = obeyed \cup {t}
    OBVIOUS
  <2>3. late' \in [Ids -> Nat] /\ \A id \in Ids : late'[id] > 0 => late[id] > 0
    BY <2>1, <2>2 DEF given
  <2>4. obeyed \subseteq obeyed' /\ obeyed' \subseteq Txs
    BY <1>0, <2>2 DEF TypeOK, given
  <2>5. chain[t] = Absent => t \in obeyed' /\ row[Label[t]].stored
    BY DEF IInv, TxOK
  <2> QED
    BY <1>0, <2>3, <2>4, <2>5 DEF TypeOK
<1>1. TypeOK'
  BY <1>0, <1>2 DEF TypeOK
<1>3. ASSUME NEW id \in Ids PROVE RowOK(id)'
  <2>1. RowOK(id)
    BY DEF IInv
  <2>2. \A s \in Txs : Mined(s) => chain'[s] > 0
    BY <1>2
  <2>3. \A s \in Txs : chain[s] # Absent => chain'[s] # Absent
    BY <1>2
  <2> QED
    BY <1>0, <2>1, <2>2, <2>3 DEF RowOK, TxsOf, TypeOK
<1>4. ASSUME NEW s \in Txs PROVE TxOK(s)'
  BY <1>0, <1>2 DEF IInv, TxOK
<1>5. OneInMempool'
  BY <1>0, <1>2 DEF IInv, OneInMempool, TypeOK
<1>6. ASSUME NEW v \in Instances PROVE SenderOK(v)'
  <2>1. SenderOK(v)
    BY DEF IInv
  <2>2. \A s \in Txs : chain[s] # Absent => chain'[s] # Absent
    BY <1>2
  <2> QED
    BY <2>1, <2>2 DEF SenderOK, Labelled
<1>7. ASSUME NEW v \in Instances PROVE Unsent(v)'
  BY <1>0, <1>2 DEF IInv, Unsent, Labelled, TypeOK
<1>8. ASSUME NEW v \in Instances PROVE ListenerOK(v)'
  <2>1. ListenerOK(v)
    BY DEF IInv
  <2>2. \A s \in Txs : Mined(s) => chain'[s] > 0
    BY <1>2
  <2> QED
    BY <1>0, <2>1, <2>2 DEF ListenerOK, TypeOK
<1> QED
  BY <1>1, <1>3, <1>4, <1>5, <1>6, <1>7, <1>8 DEF IInv

\* Nothing but months and balances.
LEMMA RestMoved ==
    ASSUME IInv, \/ MonthPasses \/ (\E u \in Users : CreditUser(u)) \/ UNCHANGED vars
    PROVE  IInv'
<1> USE DEF vars, funds, starting, wallet, given, sends, listens, history
<1>0. TypeOK
  BY DEF IInv
<1>1. TypeOK'
  <2>1. CASE MonthPasses
    BY <1>0, <2>1 DEF TypeOK, MonthPasses
  <2>2. ASSUME NEW u \in Users, CreditUser(u) PROVE TypeOK'
    <3>1. PICK a \in CreditAmounts : /\ balance' = [balance EXCEPT ![u] = @ + a]
                                     /\ credited' = [credited EXCEPT ![u] = @ + a]
      BY <2>2 DEF CreditUser
    <3>2. a \in Nat
      OBVIOUS
    <3>3. balance' \in [Users -> Nat] /\ credited' \in [Users -> Nat]
      BY <1>0, <3>1, <3>2 DEF TypeOK
    <3> QED
      BY <1>0, <2>2, <3>3 DEF TypeOK, CreditUser
  <2>3. CASE UNCHANGED vars
    BY <1>0, <2>3 DEF TypeOK
  <2> QED
    BY <2>1, <2>2, <2>3
<1>2. UNCHANGED <<reservation, row, starting, chain, given, sends, listens, history>>
  BY DEF MonthPasses, CreditUser
<1>3. ASSUME NEW id \in Ids PROVE RowOK(id)'
  BY <1>2 DEF IInv, RowOK
<1>4. (\A t \in Txs : TxOK(t))' /\ OneInMempool'
  BY <1>2 DEF IInv, TxOK, OneInMempool
<1>5. ASSUME NEW v \in Instances PROVE SenderOK(v)' /\ Unsent(v)' /\ ListenerOK(v)'
  <2>1. SenderOK(v) /\ Unsent(v) /\ ListenerOK(v)
    BY DEF IInv
  <2>2. SenderOK(v)'
    BY <1>2, <2>1 DEF SenderOK, Labelled
  <2>3. Unsent(v)'
    BY <1>2, <2>1 DEF Unsent, Labelled
  <2>4. ListenerOK(v)'
    BY <1>2, <2>1 DEF ListenerOK
  <2> QED
    BY <2>2, <2>3, <2>4
<1> QED
  BY <1>1, <1>3, <1>4, <1>5 DEF IInv

-------------------------------------------------------------------------------
(* Invariance *)

\* Every step of the requests, senders, listeners, faults and the chain
\* preserves the invariant.
THEOREM NextIInv == IInv /\ [Next]_vars => IInv'
<1> SUFFICES ASSUME IInv, [Next]_vars PROVE IInv'
  OBVIOUS
<1>1. ASSUME NEW id \in Ids,
             Request(id) \/ LoadBalance(id) \/ Refuse(id) \/ StartCommits(id)
               \/ StartConflicts(id)
      PROVE  IInv'
  BY <1>1, RequestStep, StartCommitsStep
<1>2. ASSUME NEW w \in Instances, Send(w) PROVE IInv'
  BY <1>2, ListUnsentStep, EndRoundStep, LockStep, LookStep, SendCoinsStep,
     FindSentStep, DropStep, StoreSentStep
  DEF Send
<1>3. ASSUME NEW w \in Instances, Listen(w) PROVE IInv'
  BY <1>3, NothingToConfirmStep, LoadWithdrawalStep, ConfirmStep, ConfirmPanicsStep
  DEF Listen
<1>4. ASSUME NEW w \in Instances, SendingFails(w) \/ Crash(w) PROVE IInv'
  BY <1>4, DropStep, CrashStep
<1>5. ASSUME NEW t \in Txs, Mine(t) PROVE IInv'
  <2>1. month \in Nat \ {0}
    BY DEF IInv, TypeOK
  <2> QED
    BY <1>5, <2>1, WalletMoved DEF Mine
<1>6. ASSUME NEW t \in Txs, SendsLate(t) PROVE IInv'
  BY <1>6, WalletMoved DEF SendsLate
<1>7. CASE MonthPasses \/ (\E u \in Users : CreditUser(u)) \/ UNCHANGED vars
  BY <1>7, RestMoved
<1> QED
  BY <1>1, <1>2, <1>3, <1>4, <1>5, <1>6, <1>7 DEF Next

\* The inductive invariant holds in every reachable state.
THEOREM Invariance == Spec => []IInv
<1> QED
  BY InitIInv, NextIInv, PTL DEF Spec

\* No withdrawal has two transactions in the mempool but by a late answer to a
\* send_coins that was given up, for any number of senders, crashes and failing
\* calls (withdrawal/mod.rs:69-74).
THEOREM OneInMempoolAlways == Spec => []OneInMempool
<1>1. IInv => OneInMempool
  BY DEF IInv
<1> QED
  BY <1>1, Invariance, PTL

\* A transaction the listener has passed is confirmed, but for the exceptions
\* the property names (withdrawal/mod.rs:91-115).
THEOREM PassedIsConfirmedAlways == Spec => []PassedIsConfirmed
<1>1. IInv => PassedIsConfirmed
  BY DEF IInv, ListenerOK, PassedIsConfirmed
<1> QED
  BY <1>1, Invariance, PTL

-------------------------------------------------------------------------------
(* Withdrawals implement the reservation protocol *)

\* A commit of start() is the protocol's ReserveFunds, for an amount the balance
\* covers (withdrawal/mod.rs:28-31).
LEMMA StartCommitsRefines ==
    ASSUME IInv, NEW id \in Ids, StartCommits(id)
    PROVE  Protocol!ReserveFunds(id)
<1>0. /\ TypeOK /\ RowOK(id) /\ snapshot[id] \in BalanceSnapshot /\ Owner[id] \in Users
      /\ balance[Owner[id]] \in Nat
  BY DEF IInv, TypeOK
<1>1. PICK fee \in Fees :
        /\ CanReserve(snapshot[id], asked[id] + fee)
        /\ CanUpdate(balance[Owner[id]], ReserveFrom(snapshot[id], asked[id] + fee))
        /\ balance' = [balance EXCEPT ![Owner[id]] =
                         Updated(@, ReserveFrom(snapshot[id], asked[id] + fee))]
        /\ reservation' =
             [reservation EXCEPT ![id] = PendingReservation(asked[id] + fee)]
  BY DEF StartCommits
<1> DEFINE cost == asked[id] + fee
<1>2. asked[id] > 0 /\ asked[id] \in Int /\ fee \in Nat
  BY <1>0 DEF StartCommits, TypeOK
<1>3. asked[id] \in Amounts
  BY <1>0, <1>2 DEF TypeOK
<1>4. cost \in Costs
  BY <1>2, <1>3 DEF Costs
<1>5. /\ cost <= balance[Owner[id]]
      /\ Updated(balance[Owner[id]], ReserveFrom(snapshot[id], cost))
           = balance[Owner[id]] - cost
  BY <1>0, <1>1, <1>2
  DEF BalanceSnapshot, CanReserve, CanUpdate, Updated, ReserveFrom, Changed, RowOK
<1>6. reservation[id].status = "None"
  BY <1>0 DEF RowOK, StartCommits
<1>7. UNCHANGED <<chain, credited>>
  BY DEF StartCommits, wallet
<1>8. balance' = [balance EXCEPT ![Owner[id]] = @ - cost]
  BY <1>1, <1>5
<1>9. reservation' = [reservation EXCEPT ![id] = PendingReservation(cost)]
  BY <1>1
<1>10. UNCHANGED [i \in Ids |-> Operation(i)]
  BY <1>7 DEF Operation, TxsOf
<1>11. cost <= balance[Owner[id]]
  BY <1>5
<1> HIDE DEF cost
<1>12. Protocol!PendingReservation(cost) = PendingReservation(cost)
  BY DEF Protocol!PendingReservation, PendingReservation
<1>13. \E a \in Costs :
         /\ a <= balance[Owner[id]]
         /\ balance' = [balance EXCEPT ![Owner[id]] = @ - a]
         /\ reservation' = [reservation EXCEPT ![id] = Protocol!PendingReservation(a)]
  BY <1>4, <1>8, <1>9, <1>11, <1>12
<1> QED
  BY <1>6, <1>7, <1>10, <1>13 DEF Protocol!ReserveFunds

\* What a transaction that enters the mempool or is mined means to the protocol:
\* the first one of a withdrawal begins its operation, the first one mined
\* decides it, and any other changes nothing.
LEMMA WalletRefines ==
    ASSUME IInv, NEW t \in Txs, NEW c \in Nat, chain' = [chain EXCEPT ![t] = c],
           \/ chain[t] = Unconfirmed /\ c # Unconfirmed
           \/ chain[t] = Absent /\ c = Unconfirmed /\ row[Label[t]].stored,
           UNCHANGED <<funds, reservation>>
    PROVE  \/ Protocol!Begin(Label[t])
           \/ Protocol!Decide(Label[t])
           \/ UNCHANGED Protocol!vars
<1> DEFINE x == Label[t]
           op == [id \in Ids |-> Operation(id)]
<1>0. TypeOK /\ RowOK(x) /\ x \in Ids /\ t \in TxsOf(x)
  BY DEF IInv, TxsOf
<1>1. /\ \A s \in Txs \ {t} : chain'[s] = chain[s]
      /\ chain'[t] = c
      /\ chain \in [Txs -> {Absent, Unconfirmed} \cup Nat]
  BY <1>0 DEF TypeOK
<1>2. ASSUME NEW id \in Ids, id # x PROVE Operation(id)' = Operation(id)
  <2>1. \A s \in TxsOf(id) : chain'[s] = chain[s]
    BY <1>1, <1>2 DEF TxsOf
  <2>2. TxsOf(id)' = TxsOf(id)
    BY DEF TxsOf
  <2> QED
    BY <2>1, <2>2 DEF Operation
<1>3. ASSUME NEW v, Operation(x)' = v
      PROVE  op' = [op EXCEPT ![x] = v]
  BY <1>0, <1>2, <1>3
<1>4. CASE Operation(x)' = Operation(x)
  <2>1. op' = op
    BY <1>2, <1>4
  <2> QED
    BY <2>1 DEF Protocol!vars, funds
<1>5. CASE Operation(x) = "none" /\ Operation(x)' = "inflight"
  <2>1. row[x].stored
    BY <1>0, <1>5 DEF Operation
  <2>2. CanFinish(reservation[x])
    BY <1>0, <1>5, <2>1
    DEF RowOK, Operation, TypeOK, CanFinish, Reservations, ReservationStatus
  <2> QED
    BY <1>0, <1>3, <1>5, <2>2 DEF Protocol!Begin, Protocol!CanFinish, CanFinish, funds
<1>6. CASE Operation(x) = "inflight" /\ Operation(x)' = "settled"
  BY <1>0, <1>3, <1>6 DEF Protocol!Decide, funds
<1>7. \/ Operation(x)' = Operation(x)
      \/ Operation(x) = "none" /\ Operation(x)' = "inflight"
      \/ Operation(x) = "inflight" /\ Operation(x)' = "settled"
  <2>1. TxsOf(x)' = TxsOf(x) /\ TxsOf(x) \subseteq Txs
    BY DEF TxsOf
  <2>2. CASE chain[t] = Unconfirmed /\ c # Unconfirmed
    <3>1. ~(\A s \in TxsOf(x) : chain[s] = Absent) /\ Operation(x)' = "settled"
      BY <1>0, <1>1, <2>1, <2>2 DEF Operation
    <3> QED
      BY <3>1 DEF Operation
  <2>3. CASE chain[t] = Absent /\ c = Unconfirmed
    <3>1. /\ ~(\A s \in TxsOf(x) : chain[s] = Absent)'
          /\ \A s \in TxsOf(x) : Mined(s)' <=> Mined(s)
      BY <1>0, <1>1, <2>1, <2>3
    <3>2. Operation(x)' = IF \E s \in TxsOf(x) : Mined(s) THEN "settled" ELSE "inflight"
      BY <2>1, <3>1 DEF Operation
    <3> QED
      BY <3>2 DEF Operation
  <2> QED
    BY <2>2, <2>3
<1> QED
  BY <1>4, <1>5, <1>6, <1>7

\* A confirmation is the protocol's DebitFunds: the coins are gone
\* (withdrawal/entities.rs:139).
LEMMA ConfirmRefines ==
    ASSUME IInv, NEW w \in Instances, Confirm(w)
    PROVE  Protocol!DebitFunds(Label[confirming[w]])
<1> DEFINE x == Label[confirming[w]]
<1>1. confirming[w] \in Txs /\ x \in Ids /\ Mined(confirming[w])
  BY DEF IInv, TypeOK, ListenerOK, Confirm
<1>2. confirming[w] \in TxsOf(x)
  BY <1>1 DEF TxsOf
<1>3. Operation(x) = "settled"
  BY <1>1, <1>2 DEF Operation
<1>4. UNCHANGED <<funds, chain>>
  BY DEF Confirm, wallet
<1>5. [id \in Ids |-> Operation(id)]' = [id \in Ids |-> Operation(id)]
  BY <1>4 DEF Operation, TxsOf
<1>6. CanFinish(reservation[x]) /\ reservation' = [reservation EXCEPT ![x] = Debit(@)]
  BY DEF Confirm
<1> HIDE DEF x
<1>7. Protocol!DebitFunds(x)
  BY <1>1, <1>3, <1>4, <1>5, <1>6
  DEF Protocol!DebitFunds, Protocol!CanFinish, CanFinish, Protocol!Debit, Debit, funds
<1> QED
  BY <1>7 DEF x

\* Every step of the withdrawal handlers is a step of the protocol or none.
THEOREM StepRefines == IInv /\ [Next]_vars => [Protocol!Next]_(Protocol!vars)
<1> SUFFICES ASSUME IInv, [Next]_vars PROVE [Protocol!Next]_(Protocol!vars)
  OBVIOUS
<1>0. UNCHANGED <<funds, reservation, chain>> => UNCHANGED Protocol!vars
  BY DEF funds, Protocol!vars, Operation, TxsOf
<1>1. ASSUME NEW id \in Ids,
             Request(id) \/ LoadBalance(id) \/ Refuse(id) \/ StartConflicts(id)
      PROVE  UNCHANGED <<funds, reservation, chain>>
  BY <1>1 DEF Request, LoadBalance, Refuse, StartConflicts, Unstarted, wallet
<1>2. ASSUME NEW id \in Ids, StartCommits(id) PROVE Protocol!Next
  BY <1>2, StartCommitsRefines DEF Protocol!Next
<1>3. ASSUME NEW w \in Instances, SendCoins(w) PROVE [Protocol!Next]_(Protocol!vars)
  <2>1. PICK t \in Labelled(w) : chain[t] = Absent /\ chain' = [chain EXCEPT ![t] = 0]
    BY <1>3 DEF SendCoins
  <2>2. t \in Txs /\ row[Label[t]].stored /\ UNCHANGED <<funds, reservation>>
    BY <1>3, <2>1 DEF Labelled, IInv, SenderOK, SendCoins, Unsending
  <2> QED
    BY <2>1, <2>2, WalletRefines DEF Protocol!Next
<1>4. ASSUME NEW w \in Instances, Send(w), ~SendCoins(w)
      PROVE  UNCHANGED <<funds, reservation, chain>>
  BY <1>4 DEF Send, ListUnsent, EndRound, Lock, LookMined, LookUnconfirmed, FindSent,
     SentIsMined, StoreSent, DropSending, Unsending, wallet
<1>5. ASSUME NEW w \in Instances, Confirm(w) PROVE Protocol!Next
  <2>1. Label[confirming[w]] \in Ids
    BY <1>5 DEF IInv, TypeOK, Confirm
  <2> QED
    BY <1>5, <2>1, ConfirmRefines DEF Protocol!Next
<1>6. ASSUME NEW w \in Instances, Listen(w), ~Confirm(w)
      PROVE  UNCHANGED <<funds, reservation, chain>>
  BY <1>6 DEF Listen, NothingToConfirm, LoadWithdrawal, ConfirmPanics, Unlistening, wallet
<1>7. ASSUME NEW w \in Instances, SendingFails(w) \/ Crash(w)
      PROVE  UNCHANGED <<funds, reservation, chain>>
  BY <1>7 DEF SendingFails, DropSending, Crash, Unsending, wallet
<1>8. ASSUME NEW t \in Txs, Mine(t) PROVE [Protocol!Next]_(Protocol!vars)
  <2>1. month \in Nat \ {0}
    BY DEF IInv, TypeOK
  <2> QED
    BY <1>8, <2>1, WalletRefines DEF Mine, Protocol!Next
<1>9. ASSUME NEW t \in Txs, SendsLate(t) PROVE [Protocol!Next]_(Protocol!vars)
  <2>1. row[Label[t]].stored
    BY <1>9 DEF SendsLate, IInv, TxOK
  <2> QED
    BY <1>9, <2>1, WalletRefines DEF SendsLate, Protocol!Next
<1>10. ASSUME NEW u \in Users, CreditUser(u) PROVE Protocol!Next
  BY <1>10 DEF CreditUser, wallet, Operation, TxsOf, Protocol!CreditUser, Protocol!Next
<1>11. CASE MonthPasses \/ UNCHANGED vars
  BY <1>0, <1>11 DEF MonthPasses, vars, wallet
<1> QED
  BY <1>0, <1>1, <1>2, <1>3, <1>4, <1>5, <1>6, <1>7, <1>8, <1>9, <1>10, <1>11 DEF Next

\* The withdrawal handlers implement the reservation protocol: funds are
\* reserved before coins are sent and debited only when some are mined.
THEOREM Refinement == Spec => ImplementsProtocol
<1>1. Init => Protocol!Init
  BY DEF Init, Protocol!Init, NoReservation, Protocol!NoReservation, Operation, TxsOf
<1> QED
  BY <1>1, Invariance, StepRefines, PTL DEF Spec, ImplementsProtocol, Protocol!Spec

-------------------------------------------------------------------------------
(* What the protocol promises, withdrawals keep *)

\* The theorems about the protocol, for withdrawals.
Proved == INSTANCE ReservationProtocolProofs WITH
    operation <- [id \in Ids |-> Operation(id)],
    HoldAmounts <- Costs

\* Withdrawals meet what the protocol assumes of its constants.
LEMMA ProtocolAssumed ==
    /\ Proved!IsFiniteSet(Ids)
    /\ Owner \in [Ids -> Users]
    /\ Costs \subseteq Nat
    /\ CreditAmounts \subseteq Nat
    /\ InitialBalance \in [Users -> Nat]
    /\ MaxCredited \in Nat
<1>1. Proved!IsFiniteSet(Ids)
  BY DEF IsFiniteSet, Proved!IsFiniteSet
<1>2. ASSUME NEW c \in Costs PROVE c \in Nat
  <2>1. PICK a \in Amounts, fee \in Fees : a > 0 /\ c = a + fee
    BY DEF Costs
  <2> QED
    BY <2>1
<1> QED
  BY <1>1, <1>2

\* What the theorems are about is the protocol that withdrawals implement.
LEMMA SameProtocol == Protocol!Spec => Proved!Spec
<1>1. Protocol!Init => Proved!Init
  BY DEF Protocol!Init, Proved!Init, Protocol!NoReservation, Proved!NoReservation
<1>2. [Protocol!Next]_(Protocol!vars) => [Proved!Next]_(Proved!vars)
  BY DEF Protocol!Next, Proved!Next, Protocol!vars, Proved!vars,
     Protocol!CreditUser, Proved!CreditUser, Protocol!ReserveFunds, Proved!ReserveFunds,
     Protocol!Begin, Proved!Begin, Protocol!Decide, Proved!Decide,
     Protocol!DebitFunds, Proved!DebitFunds, Protocol!RefundFunds, Proved!RefundFunds,
     Protocol!CanFinish, Proved!CanFinish, Protocol!Debit, Proved!Debit,
     Protocol!Refund, Proved!Refund, Protocol!PendingReservation,
     Proved!PendingReservation
<1> QED
  BY <1>1, <1>2, PTL DEF Protocol!Spec, Proved!Spec

\* No order of requests, senders, listeners, crashes and late sends creates or
\* loses money: what a user was given is on the balance, reserved for a
\* withdrawal or debited with it (withdrawal/mod.rs:14-35, 60-77, 91-123).
THEOREM FundsConservedAlways == Spec => []Proved!FundsConserved
BY ProtocolAssumed, Proved!FundsConservedAlways, Refinement, SameProtocol, PTL
DEF ImplementsProtocol

\* Coins that may have left the wallet for a withdrawal are covered by its
\* reservation, and only coins that are gone are debited
\* (balance/entities.rs:6-15).
THEOREM OperationsCoveredAlways == Spec => []Proved!OperationsCovered
BY ProtocolAssumed, Proved!OperationsCoveredAlways, Refinement, SameProtocol, PTL
DEF ImplementsProtocol

\* A reservation that was debited stays as it is (balance/entities.rs:86-91).
THEOREM FinalityAlways == Spec => Proved!Finality
BY ProtocolAssumed, Proved!FinalityAlways, Refinement, SameProtocol, PTL
DEF ImplementsProtocol
===============================================================================
