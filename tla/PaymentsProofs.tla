---------------------------- MODULE PaymentsProofs ----------------------------
(***************************************************************************)
(* Proofs about Payments, for any users, requests, invoices, amounts, fees *)
(* and limits.  The argument is the inductive invariant FundsInv: wherever a   *)
(* request is, its rows, its reservation and what the node did with it are *)
(* pinned down, and the compare-and-set of balance::update makes a commit  *)
(* computed from a snapshot equal to one computed from the stored balance. *)
(***************************************************************************)
EXTENDS Payments, SumsProofs, TLAPS

USE PaymentsAssumption

-------------------------------------------------------------------------------
(* The compare-and-set *)

\* A reservation taken from a fresh snapshot and committed by balance::update
\* debits the stored balance by exactly its amount and never below zero.
LEMMA CommittedReserve ==
    ASSUME NEW stored \in Nat, NEW bal \in BalanceSnapshot, NEW a \in Nat,
           ~Changed(bal), CanReserve(bal, a), CanUpdate(stored, ReserveFrom(bal, a))
    PROVE  /\ Updated(stored, ReserveFrom(bal, a)) = stored - a
           /\ a <= stored
           /\ Updated(stored, ReserveFrom(bal, a)) \in Nat
BY DEF BalanceSnapshot, Changed, CanReserve, CanUpdate, Updated, ReserveFrom

\* A refund credits the stored balance by exactly the reserved amount.
LEMMA CommittedRefund ==
    ASSUME NEW stored \in Nat, NEW bal \in BalanceSnapshot, NEW res \in Reservations,
           ~Changed(bal), CanUpdate(stored, RefundCredit(bal, res))
    PROVE  /\ Updated(stored, RefundCredit(bal, res)) = stored + res.amount
           /\ Updated(stored, RefundCredit(bal, res)) \in Nat
BY DEF BalanceSnapshot, Reservations, Changed, CanUpdate, Updated, RefundCredit, Credit

\* A balance nobody changed is not written.
LEMMA CommittedUnchanged ==
    ASSUME NEW stored \in Nat, NEW bal \in BalanceSnapshot, ~Changed(bal)
    PROVE  Updated(stored, bal) = stored
BY DEF Updated

-------------------------------------------------------------------------------
(* The entities *)

\* Payment::create gives a new payment of a positive amount.
LEMMA NewPaymentFacts ==
    ASSUME NEW i \in Invoices, NEW a \in ExplicitAmounts, AmountGivenOnce(i, a)
    PROVE  /\ NewPayment(i, a) \in Payment
           /\ NewPayment(i, a).status = "New"
           /\ NewPayment(i, a).amount \in Amounts
BY DEF Amounts, NewPayment, AmountGivenOnce, AmountOf, NoAmount, Payment, PaymentStatus

\* Payment::prepare gives a ready payment that costs amount and fee.
LEMMA ReadiedFacts ==
    ASSUME NEW pay \in Payment, NEW fee \in Fees
    PROVE  /\ Readied(pay, fee) \in Payment
           /\ Readied(pay, fee).status = "Ready"
           /\ Readied(pay, fee).amount = pay.amount
           /\ Readied(pay, fee).invoice = pay.invoice
           /\ Cost(Readied(pay, fee)) \in Nat
           /\ Cost(Readied(pay, fee)) = pay.amount + fee
<1>1. fee \in Nat
  BY PaymentsAssumption
<1> QED
  BY <1>1 DEF Readied, Cost, Payment, PaymentStatus

\* Payment::fail keeps a payment well formed.
LEMMA FailedFacts ==
    ASSUME NEW pay \in Payment
    PROVE  /\ FailedPayment(pay) \in Payment
           /\ FailedPayment(pay).status = "Failed"
           /\ FailedPayment(pay).amount = pay.amount
           /\ FailedPayment(pay).invoice = pay.invoice
           /\ Cost(FailedPayment(pay)) = Cost(pay)
BY DEF FailedPayment, Cost, Payment, PaymentStatus

\* A succeeded payment keeps what it cost.
LEMMA SucceededFacts ==
    ASSUME NEW pay \in Payment
    PROVE  /\ SucceededPayment(pay) \in Payment
           /\ SucceededPayment(pay).status = "Succeeded"
           /\ SucceededPayment(pay).amount = pay.amount
           /\ SucceededPayment(pay).invoice = pay.invoice
           /\ Cost(SucceededPayment(pay)) = Cost(pay)
BY DEF SucceededPayment, Cost, Payment, PaymentStatus

\* A ready payment is stored with the status code of a new one.
LEMMA RowFacts ==
    ASSUME NEW pay \in Payment, pay.status # "None"
    PROVE  /\ RowOf(pay) \in [code : {-1, 0, 2, 3}, amount : Nat]
           /\ RowOf(pay).amount = pay.amount
           /\ pay.status \in {"New", "Ready"} => RowOf(pay).code = 0
           /\ pay.status = "Succeeded" => RowOf(pay).code = 2
           /\ pay.status = "Failed" => RowOf(pay).code = 3
<1>1. pay.status \in {"New", "Ready", "Succeeded", "Failed"} /\ pay.amount \in Nat
  BY DEF Payment, PaymentStatus
<1>2. /\ pay.status \in {"New", "Ready"} => StatusToI32(pay.status) = 0
      /\ pay.status = "Succeeded" => StatusToI32(pay.status) = 2
      /\ pay.status = "Failed" => StatusToI32(pay.status) = 3
  BY <1>1 DEF StatusToI32
<1> QED
  BY <1>1, <1>2 DEF RowOf

\* Debiting and refunding keep what was reserved.
LEMMA FinishFacts ==
    ASSUME NEW res \in Reservations
    PROVE  /\ Debit(res) \in Reservations /\ Refund(res) \in Reservations
           /\ Debit(res).status = "Debited" /\ Refund(res).status = "Refunded"
           /\ Debit(res).amount = res.amount /\ Refund(res).amount = res.amount
BY DEF Debit, Refund, Reservations, ReservationStatus

\* Loading a balance gives a well-formed, unchanged snapshot.
LEMMA SnapshotFacts ==
    ASSUME NEW a \in Nat
    PROVE  BalanceNew(a) \in BalanceSnapshot /\ ~Changed(BalanceNew(a))
BY DEF BalanceNew, BalanceSnapshot, Changed

-------------------------------------------------------------------------------
(* The inductive invariant *)

\* A step of one request leaves the rows, the node's payment and the memory of
\* the others alone.
OthersKeep(p) ==
    \A q \in PaymentIds :
        q # p => /\ pc'[q] = pc[q]
                 /\ payment'[q] = payment[q]
                 /\ row'[q] = row[q]
                 /\ reservation'[q] = reservation[q]
                 /\ htlc'[q] = htlc[q]
                 /\ snapshot'[q] = snapshot[q]

\* The node starts no payment, or one it may start; a stored payment keeps its
\* invoice.
NodeKeeps(p) ==
    /\ HeldByNode(p)' => \/ HeldByNode(p)
                         \/ \A q \in PaymentIds :
                              payment[q].invoice = payment[p].invoice => ~HeldByNode(q)
    /\ HeldByNode(p)' => payment'[p].invoice = payment[p].invoice

\* It is enough to look at the request that moved.
LEMMA MovedRequest ==
    ASSUME FundsInv, NEW p \in PaymentIds,
           TypeOK', PhaseOK(p)', MemoryOK(p)', OthersKeep(p), NodeKeeps(p)
    PROVE  FundsInv'
<1>1. \A q \in PaymentIds : PhaseOK(q)'
  BY DEF FundsInv, OthersKeep, PhaseOK, Unstored, Preparing, Sending, InNodesHands,
         Paid, Failed, Panicked
<1>2. \A q \in PaymentIds : MemoryOK(q)'
  BY DEF FundsInv, OthersKeep, MemoryOK, Cost, Changed
<1>3. NodeExclusive'
  BY DEF FundsInv, OthersKeep, NodeKeeps, NodeExclusive, HeldByNode
<1> QED
  BY <1>1, <1>2, <1>3 DEF FundsInv

\* What a request reads as daily total is a natural number (payment/mod.rs:153).
LEMMA DailyTotalIsNatural ==
    ASSUME TypeOK, NEW u \in Users
    PROVE  DailyTotal(u) \in Nat
<1>1. IsFiniteSet(RowsOf(u)) /\ RowsOf(u) \subseteq PaymentIds
  BY FS_Subset DEF RowsOf
<1>2. \A p \in RowsOf(u) : RowAmounts[p] \in Nat
  BY <1>1 DEF TypeOK, RowAmounts
<1>3. SumOf(RowAmounts, RowsOf(u)) \in Nat
  BY <1>1, <1>2, SumIsNatural
<1> QED
  BY <1>3 DEF DailyTotal

\* The invariant holds in the initial states.
THEOREM InitFundsInv == Init => FundsInv
  BY DEF Init, FundsInv, TypeOK, PhaseOK, MemoryOK, NodeExclusive, Unstored, HeldByNode,
         NoReservation, NoRow, NoPayment, BalanceNew, Changed, Reservations,
         ReservationStatus, BalanceSnapshot, Payment, PaymentStatus

\* ReadDailyTotal (payment/mod.rs:18) preserves the invariant.
LEMMA ReadDailyTotalStep ==
    ASSUME FundsInv, NEW p \in PaymentIds, ReadDailyTotal(p)
    PROVE  FundsInv'
<1>1. TypeOK /\ PhaseOK(p) /\ MemoryOK(p)
  BY DEF FundsInv
<1>2. TypeOK'
  <2>1. DailyTotal(Owner[p]) \in Nat
    BY <1>1, PaymentsAssumption, DailyTotalIsNatural
  <2>2. dailyTotal' \in [PaymentIds -> Nat]
    BY <1>1, <2>1 DEF ReadDailyTotal, TypeOK
  <2>3. RowsOf(Owner[p]) \in SUBSET PaymentIds
    BY DEF RowsOf
  <2>4. seen' \in [PaymentIds -> SUBSET PaymentIds]
    BY <1>1, <2>3 DEF ReadDailyTotal, TypeOK
  <2> QED
    BY <1>1, <2>2, <2>4 DEF ReadDailyTotal, Goto, env, TypeOK, Running, Ended
<1>3. PhaseOK(p)'
  BY <1>1
  DEF ReadDailyTotal, Goto, total, env, PhaseOK, Unstored, Preparing, Sending, InNodesHands,
      Paid, Failed, Panicked, TypeOK, Running, Ended
<1>4. MemoryOK(p)'
  BY <1>1
  DEF ReadDailyTotal, Goto, total, env, PhaseOK, Unstored, Preparing, Sending, InNodesHands,
      Paid, Failed, Panicked, MemoryOK, TypeOK, Running, Ended
<1>5. OthersKeep(p)
  BY <1>1 DEF ReadDailyTotal, Goto, total, env, OthersKeep, TypeOK
<1>6. NodeKeeps(p)
  BY <1>1
  DEF ReadDailyTotal, Goto, total, env, NodeKeeps, HeldByNode, PhaseOK, Unstored, Preparing,
      Sending, InNodesHands, Paid, Failed, Panicked, TypeOK, Running, Ended
<1> QED
  BY <1>2, <1>3, <1>4, <1>5, <1>6, MovedRequest

\* DailyTotalPanics (payment/mod.rs:151) preserves the invariant.
LEMMA DailyTotalPanicsStep ==
    ASSUME FundsInv, NEW p \in PaymentIds, DailyTotalPanics(p)
    PROVE  FundsInv'
<1>1. TypeOK /\ PhaseOK(p) /\ MemoryOK(p)
  BY DEF FundsInv
<1>2. TypeOK'
  BY <1>1
  DEF DailyTotalPanics, Goto, task, total, env, PhaseOK, Unstored, Preparing, Sending,
      InNodesHands, Paid, Failed, Panicked, MemoryOK, TypeOK, Running, Ended
<1>3. PhaseOK(p)'
  BY <1>1
  DEF DailyTotalPanics, Goto, task, total, env, PhaseOK, Unstored, Preparing, Sending,
      InNodesHands, Paid, Failed, Panicked, TypeOK, Running, Ended
<1>4. MemoryOK(p)'
  BY <1>1
  DEF DailyTotalPanics, Goto, task, total, env, PhaseOK, Unstored, Preparing, Sending,
      InNodesHands, Paid, Failed, Panicked, MemoryOK, TypeOK, Running, Ended
<1>5. OthersKeep(p)
  BY <1>1 DEF DailyTotalPanics, Goto, task, total, env, OthersKeep, TypeOK
<1>6. NodeKeeps(p)
  BY <1>1
  DEF DailyTotalPanics, Goto, task, total, env, NodeKeeps, HeldByNode, PhaseOK, Unstored,
      Preparing, Sending, InNodesHands, Paid, Failed, Panicked, TypeOK, Running, Ended
<1> QED
  BY <1>2, <1>3, <1>4, <1>5, <1>6, MovedRequest

\* Reject (payment/entities.rs:78) preserves the invariant.
LEMMA RejectStep == ASSUME FundsInv, NEW p \in PaymentIds, Reject(p) PROVE FundsInv'
<1>1. TypeOK /\ PhaseOK(p) /\ MemoryOK(p)
  BY DEF FundsInv
<1>2. TypeOK'
  BY <1>1
  DEF Reject, Goto, task, total, env, PhaseOK, Unstored, Preparing, Sending, InNodesHands,
      Paid, Failed, Panicked, MemoryOK, TypeOK, Running, Ended
<1>3. PhaseOK(p)'
  BY <1>1
  DEF Reject, Goto, task, total, env, PhaseOK, Unstored, Preparing, Sending, InNodesHands,
      Paid, Failed, Panicked, TypeOK, Running, Ended
<1>4. MemoryOK(p)'
  BY <1>1
  DEF Reject, Goto, task, total, env, PhaseOK, Unstored, Preparing, Sending, InNodesHands,
      Paid, Failed, Panicked, MemoryOK, TypeOK, Running, Ended
<1>5. OthersKeep(p)
  BY <1>1 DEF Reject, Goto, task, total, env, OthersKeep, TypeOK
<1>6. NodeKeeps(p)
  BY <1>1
  DEF Reject, Goto, task, total, env, NodeKeeps, HeldByNode, PhaseOK, Unstored, Preparing,
      Sending, InNodesHands, Paid, Failed, Panicked, TypeOK, Running, Ended
<1> QED
  BY <1>2, <1>3, <1>4, <1>5, <1>6, MovedRequest

\* PrepareBegins (payment/mod.rs:25) preserves the invariant.
LEMMA PrepareBeginsStep ==
    ASSUME FundsInv, NEW p \in PaymentIds, PrepareBegins(p)
    PROVE  FundsInv'
<1>1. TypeOK /\ PhaseOK(p) /\ MemoryOK(p)
  BY DEF FundsInv
<1>2. TypeOK'
  BY <1>1, SnapshotFacts
  DEF PrepareBegins, ReadBalance, Goto, total, env, PhaseOK, Unstored, Preparing, Sending,
      InNodesHands, Paid, Failed, Panicked, MemoryOK, TypeOK, Running, Ended
<1>3. PhaseOK(p)'
  BY <1>1, SnapshotFacts
  DEF PrepareBegins, ReadBalance, Goto, total, env, PhaseOK, Unstored, Preparing, Sending,
      InNodesHands, Paid, Failed, Panicked, TypeOK, Running, Ended
<1>4. MemoryOK(p)'
  BY <1>1, SnapshotFacts
  DEF PrepareBegins, ReadBalance, Goto, total, env, PhaseOK, Unstored, Preparing, Sending,
      InNodesHands, Paid, Failed, Panicked, MemoryOK, TypeOK, Running, Ended
<1>5. OthersKeep(p)
  BY <1>1 DEF PrepareBegins, ReadBalance, Goto, total, env, OthersKeep, TypeOK
<1>6. NodeKeeps(p)
  BY <1>1, SnapshotFacts
  DEF PrepareBegins, ReadBalance, Goto, total, env, NodeKeeps, HeldByNode, PhaseOK, Unstored,
      Preparing, Sending, InNodesHands, Paid, Failed, Panicked, TypeOK, Running, Ended
<1> QED
  BY <1>2, <1>3, <1>4, <1>5, <1>6, MovedRequest

\* PreparePanics (payment/entities.rs:102) preserves the invariant.
LEMMA PreparePanicsStep ==
    ASSUME FundsInv, NEW p \in PaymentIds, PreparePanics(p)
    PROVE  FundsInv'
<1>1. TypeOK /\ PhaseOK(p) /\ MemoryOK(p)
  BY DEF FundsInv
<1>2. TypeOK'
  BY <1>1, SnapshotFacts
  DEF PreparePanics, Leave, Goto, total, env, PhaseOK, Unstored, Preparing, Sending,
      InNodesHands, Paid, Failed, Panicked, MemoryOK, TypeOK, Running, Ended
<1>3. PhaseOK(p)'
  BY <1>1, SnapshotFacts
  DEF PreparePanics, Leave, Goto, total, env, PhaseOK, Unstored, Preparing, Sending,
      InNodesHands, Paid, Failed, Panicked, TypeOK, Running, Ended
<1>4. MemoryOK(p)'
  BY <1>1, SnapshotFacts
  DEF PreparePanics, Leave, Goto, total, env, PhaseOK, Unstored, Preparing, Sending,
      InNodesHands, Paid, Failed, Panicked, MemoryOK, TypeOK, Running, Ended
<1>5. OthersKeep(p)
  BY <1>1 DEF PreparePanics, Leave, Goto, total, env, OthersKeep, TypeOK
<1>6. NodeKeeps(p)
  BY <1>1, SnapshotFacts
  DEF PreparePanics, Leave, Goto, total, env, NodeKeeps, HeldByNode, PhaseOK, Unstored,
      Preparing, Sending, InNodesHands, Paid, Failed, Panicked, TypeOK, Running, Ended
<1> QED
  BY <1>2, <1>3, <1>4, <1>5, <1>6, MovedRequest

\* PrepareInsufficient (payment/entities.rs:122) preserves the invariant.
LEMMA PrepareInsufficientStep ==
    ASSUME FundsInv, NEW p \in PaymentIds, PrepareInsufficient(p)
    PROVE  FundsInv'
<1>1. TypeOK /\ PhaseOK(p) /\ MemoryOK(p)
  BY DEF FundsInv
<1>2. TypeOK'
  BY <1>1, SnapshotFacts, RowFacts
  DEF PrepareInsufficient, Probed, IsNew, UpsertRow, Leave, Goto, total, env, PhaseOK,
      Unstored, Preparing, Sending, InNodesHands, Paid, Failed, Panicked, MemoryOK,
      TypeOK, Running, Ended
<1>3. PhaseOK(p)'
  BY <1>1, SnapshotFacts, RowFacts
  DEF PrepareInsufficient, Probed, IsNew, UpsertRow, Leave, Goto, total, env, PhaseOK,
      Unstored, Preparing, Sending, InNodesHands, Paid, Failed, Panicked, TypeOK,
      Running, Ended
<1>4. MemoryOK(p)'
  BY <1>1, SnapshotFacts, RowFacts
  DEF PrepareInsufficient, Probed, IsNew, UpsertRow, Leave, Goto, total, env, PhaseOK,
      Unstored, Preparing, Sending, InNodesHands, Paid, Failed, Panicked, MemoryOK,
      TypeOK, Running, Ended
<1>5. OthersKeep(p)
  BY <1>1
  DEF PrepareInsufficient, Probed, IsNew, UpsertRow, Leave, Goto, total, env, OthersKeep,
      TypeOK
<1>6. NodeKeeps(p)
  BY <1>1, SnapshotFacts, RowFacts
  DEF PrepareInsufficient, Probed, IsNew, UpsertRow, Leave, Goto, total, env, NodeKeeps,
      HeldByNode, PhaseOK, Unstored, Preparing, Sending, InNodesHands, Paid, Failed,
      Panicked, TypeOK, Running, Ended
<1> QED
  BY <1>2, <1>3, <1>4, <1>5, <1>6, MovedRequest

\* PrepareFails (payment/entities.rs:129) preserves the invariant.
LEMMA PrepareFailsStep == ASSUME FundsInv, NEW p \in PaymentIds, PrepareFails(p) PROVE FundsInv'
<1>1. TypeOK /\ PhaseOK(p) /\ MemoryOK(p)
  BY DEF FundsInv
<1>2. TypeOK'
  BY <1>1, SnapshotFacts, RowFacts, FailedFacts
  DEF PrepareFails, Probed, IsNew, Remember, UpsertRow, Leave, Goto, total, env, PhaseOK,
      Unstored, Preparing, Sending, InNodesHands, Paid, Failed, Panicked, MemoryOK,
      TypeOK, Running, Ended
<1>3. PhaseOK(p)'
  BY <1>1, SnapshotFacts, RowFacts, FailedFacts
  DEF PrepareFails, Probed, IsNew, Remember, UpsertRow, Leave, Goto, total, env, PhaseOK,
      Unstored, Preparing, Sending, InNodesHands, Paid, Failed, Panicked, TypeOK,
      Running, Ended
<1>4. MemoryOK(p)'
  BY <1>1, SnapshotFacts, RowFacts, FailedFacts
  DEF PrepareFails, Probed, IsNew, Remember, UpsertRow, Leave, Goto, total, env, PhaseOK,
      Unstored, Preparing, Sending, InNodesHands, Paid, Failed, Panicked, MemoryOK,
      TypeOK, Running, Ended
<1>5. OthersKeep(p)
  BY <1>1
  DEF PrepareFails, Probed, IsNew, Remember, UpsertRow, Leave, Goto, total, env, OthersKeep,
      TypeOK
<1>6. NodeKeeps(p)
  BY <1>1, SnapshotFacts, RowFacts, FailedFacts
  DEF PrepareFails, Probed, IsNew, Remember, UpsertRow, Leave, Goto, total, env, NodeKeeps,
      HeldByNode, PhaseOK, Unstored, Preparing, Sending, InNodesHands, Paid, Failed,
      Panicked, TypeOK, Running, Ended
<1> QED
  BY <1>2, <1>3, <1>4, <1>5, <1>6, MovedRequest

\* SendBegins (payment/mod.rs:45) preserves the invariant.
LEMMA SendBeginsStep == ASSUME FundsInv, NEW p \in PaymentIds, SendBegins(p) PROVE FundsInv'
<1>1. TypeOK /\ PhaseOK(p) /\ MemoryOK(p)
  BY DEF FundsInv
<1>2. TypeOK'
  BY <1>1, SnapshotFacts
  DEF SendBegins, ReadBalance, Goto, total, env, PhaseOK, Unstored, Preparing, Sending,
      InNodesHands, Paid, Failed, Panicked, MemoryOK, TypeOK, Running, Ended
<1>3. PhaseOK(p)'
  BY <1>1, SnapshotFacts
  DEF SendBegins, ReadBalance, Goto, total, env, PhaseOK, Unstored, Preparing, Sending,
      InNodesHands, Paid, Failed, Panicked, TypeOK, Running, Ended
<1>4. MemoryOK(p)'
  BY <1>1, SnapshotFacts
  DEF SendBegins, ReadBalance, Goto, total, env, PhaseOK, Unstored, Preparing, Sending,
      InNodesHands, Paid, Failed, Panicked, MemoryOK, TypeOK, Running, Ended
<1>5. OthersKeep(p)
  BY <1>1 DEF SendBegins, ReadBalance, Goto, total, env, OthersKeep, TypeOK
<1>6. NodeKeeps(p)
  BY <1>1, SnapshotFacts
  DEF SendBegins, ReadBalance, Goto, total, env, NodeKeeps, HeldByNode, PhaseOK, Unstored,
      Preparing, Sending, InNodesHands, Paid, Failed, Panicked, TypeOK, Running, Ended
<1> QED
  BY <1>2, <1>3, <1>4, <1>5, <1>6, MovedRequest

\* SendPanics (payment/entities.rs:140) preserves the invariant.
LEMMA SendPanicsStep == ASSUME FundsInv, NEW p \in PaymentIds, SendPanics(p) PROVE FundsInv'
<1>1. TypeOK /\ PhaseOK(p) /\ MemoryOK(p)
  BY DEF FundsInv
<1>2. TypeOK'
  BY <1>1, SnapshotFacts
  DEF SendPanics, Leave, Goto, total, env, PhaseOK, Unstored, Preparing, Sending, InNodesHands,
      Paid, Failed, Panicked, MemoryOK, TypeOK, Running, Ended
<1>3. PhaseOK(p)'
  BY <1>1, SnapshotFacts
  DEF SendPanics, Leave, Goto, total, env, PhaseOK, Unstored, Preparing, Sending, InNodesHands,
      Paid, Failed, Panicked, TypeOK, Running, Ended
<1>4. MemoryOK(p)'
  BY <1>1, SnapshotFacts
  DEF SendPanics, Leave, Goto, total, env, PhaseOK, Unstored, Preparing, Sending, InNodesHands,
      Paid, Failed, Panicked, MemoryOK, TypeOK, Running, Ended
<1>5. OthersKeep(p)
  BY <1>1 DEF SendPanics, Leave, Goto, total, env, OthersKeep, TypeOK
<1>6. NodeKeeps(p)
  BY <1>1, SnapshotFacts
  DEF SendPanics, Leave, Goto, total, env, NodeKeeps, HeldByNode, PhaseOK, Unstored, Preparing,
      Sending, InNodesHands, Paid, Failed, Panicked, TypeOK, Running, Ended
<1> QED
  BY <1>2, <1>3, <1>4, <1>5, <1>6, MovedRequest

\* NodeAccepts (ln/node.rs:234) preserves the invariant.
LEMMA NodeAcceptsStep == ASSUME FundsInv, NEW p \in PaymentIds, NodeAccepts(p) PROVE FundsInv'
<1>1. TypeOK /\ PhaseOK(p) /\ MemoryOK(p)
  BY DEF FundsInv
<1>2. TypeOK'
  BY <1>1
  DEF NodeAccepts, CanSend, CanFinish, NodeHolds, Goto, task, total, env, PhaseOK, Unstored,
      Preparing, Sending, InNodesHands, Paid, Failed, Panicked, MemoryOK, TypeOK,
      Running, Ended
<1>3. PhaseOK(p)'
  BY <1>1
  DEF NodeAccepts, CanSend, CanFinish, NodeHolds, Goto, task, total, env, PhaseOK, Unstored,
      Preparing, Sending, InNodesHands, Paid, Failed, Panicked, TypeOK, Running, Ended
<1>4. MemoryOK(p)'
  BY <1>1
  DEF NodeAccepts, CanSend, CanFinish, NodeHolds, Goto, task, total, env, PhaseOK, Unstored,
      Preparing, Sending, InNodesHands, Paid, Failed, Panicked, MemoryOK, TypeOK,
      Running, Ended
<1>5. OthersKeep(p)
  BY <1>1
  DEF NodeAccepts, CanSend, CanFinish, NodeHolds, Goto, task, total, env, OthersKeep, TypeOK
<1>6. NodeKeeps(p)
  BY <1>1
  DEF NodeAccepts, CanSend, CanFinish, NodeHolds, Goto, task, total, env, NodeKeeps,
      HeldByNode, PhaseOK, Unstored, Preparing, Sending, InNodesHands, Paid, Failed,
      Panicked, TypeOK, Running, Ended
<1> QED
  BY <1>2, <1>3, <1>4, <1>5, <1>6, MovedRequest

\* CallPanics (ln/node.rs:428) preserves the invariant.
LEMMA CallPanicsStep == ASSUME FundsInv, NEW p \in PaymentIds, CallPanics(p) PROVE FundsInv'
<1>1. TypeOK /\ PhaseOK(p) /\ MemoryOK(p)
  BY DEF FundsInv
<1>2. TypeOK'
  BY <1>1, SnapshotFacts
  DEF CallPanics, Waits, Probed, IsNew, CanSend, CanFinish, Leave, Goto, total, env, PhaseOK,
      Unstored, Preparing, Sending, InNodesHands, Paid, Failed, Panicked, MemoryOK,
      TypeOK, Running, Ended
<1>3. PhaseOK(p)'
  BY <1>1, SnapshotFacts
  DEF CallPanics, Waits, Probed, IsNew, CanSend, CanFinish, Leave, Goto, total, env, PhaseOK,
      Unstored, Preparing, Sending, InNodesHands, Paid, Failed, Panicked, TypeOK,
      Running, Ended
<1>4. MemoryOK(p)'
  BY <1>1, SnapshotFacts
  DEF CallPanics, Waits, Probed, IsNew, CanSend, CanFinish, Leave, Goto, total, env, PhaseOK,
      Unstored, Preparing, Sending, InNodesHands, Paid, Failed, Panicked, MemoryOK,
      TypeOK, Running, Ended
<1>5. OthersKeep(p)
  BY <1>1
  DEF CallPanics, Waits, Probed, IsNew, CanSend, CanFinish, Leave, Goto, total, env,
      OthersKeep, TypeOK
<1>6. NodeKeeps(p)
  BY <1>1, SnapshotFacts
  DEF CallPanics, Waits, Probed, IsNew, CanSend, CanFinish, Leave, Goto, total, env, NodeKeeps,
      HeldByNode, PhaseOK, Unstored, Preparing, Sending, InNodesHands, Paid, Failed,
      Panicked, TypeOK, Running, Ended
<1> QED
  BY <1>2, <1>3, <1>4, <1>5, <1>6, MovedRequest

\* TaskLost (payment/mod.rs:21) preserves the invariant.
LEMMA TaskLostStep == ASSUME FundsInv, NEW p \in PaymentIds, TaskLost(p) PROVE FundsInv'
<1>1. TypeOK /\ PhaseOK(p) /\ MemoryOK(p)
  BY DEF FundsInv
<1>2. TypeOK'
  BY <1>1, SnapshotFacts
  DEF TaskLost, Leave, Goto, total, PhaseOK, Unstored, Preparing, Sending, InNodesHands, Paid,
      Failed, Panicked, MemoryOK, TypeOK, Running, Ended
<1>3. PhaseOK(p)'
  BY <1>1, SnapshotFacts
  DEF TaskLost, Leave, Goto, total, PhaseOK, Unstored, Preparing, Sending, InNodesHands, Paid,
      Failed, Panicked, TypeOK, Running, Ended
<1>4. MemoryOK(p)'
  BY <1>1, SnapshotFacts
  DEF TaskLost, Leave, Goto, total, PhaseOK, Unstored, Preparing, Sending, InNodesHands, Paid,
      Failed, Panicked, MemoryOK, TypeOK, Running, Ended
<1>5. OthersKeep(p)
  BY <1>1 DEF TaskLost, Leave, Goto, total, OthersKeep, TypeOK
<1>6. NodeKeeps(p)
  BY <1>1, SnapshotFacts
  DEF TaskLost, Leave, Goto, total, NodeKeeps, HeldByNode, PhaseOK, Unstored, Preparing,
      Sending, InNodesHands, Paid, Failed, Panicked, TypeOK, Running, Ended
<1> QED
  BY <1>2, <1>3, <1>4, <1>5, <1>6, MovedRequest

\* NodeDecides, a step of the node, preserves the invariant.
LEMMA NodeDecidesStep == ASSUME FundsInv, NEW p \in PaymentIds, NodeDecides(p) PROVE FundsInv'
<1>1. TypeOK /\ PhaseOK(p) /\ MemoryOK(p)
  BY DEF FundsInv
<1>2. TypeOK'
  BY <1>1
  DEF NodeDecides, task, total, env, PhaseOK, Unstored, Preparing, Sending, InNodesHands, Paid,
      Failed, Panicked, MemoryOK, TypeOK, Running, Ended
<1>3. PhaseOK(p)'
  BY <1>1
  DEF NodeDecides, task, total, env, PhaseOK, Unstored, Preparing, Sending, InNodesHands, Paid,
      Failed, Panicked, TypeOK, Running, Ended
<1>4. MemoryOK(p)'
  BY <1>1
  DEF NodeDecides, task, total, env, PhaseOK, Unstored, Preparing, Sending, InNodesHands, Paid,
      Failed, Panicked, MemoryOK, TypeOK, Running, Ended
<1>5. OthersKeep(p)
  BY <1>1 DEF NodeDecides, task, total, env, OthersKeep, TypeOK
<1>6. NodeKeeps(p)
  BY <1>1
  DEF NodeDecides, task, total, env, NodeKeeps, HeldByNode, PhaseOK, Unstored, Preparing,
      Sending, InNodesHands, Paid, Failed, Panicked, TypeOK, Running, Ended
<1> QED
  BY <1>2, <1>3, <1>4, <1>5, <1>6, MovedRequest

\* RefundConflicts (payment/mod.rs:45) preserves the invariant.
LEMMA RefundConflictsStep ==
    ASSUME FundsInv, NEW p \in PaymentIds, RefundConflicts(p)
    PROVE  FundsInv'
<1>1. TypeOK /\ PhaseOK(p) /\ MemoryOK(p)
  BY DEF FundsInv
<1>2. TypeOK'
  BY <1>1, SnapshotFacts, FailedFacts
  DEF RefundConflicts, SendFailed, CanSend, Remember, Leave, Goto, total, env, PhaseOK,
      Unstored, Preparing, Sending, InNodesHands, Paid, Failed, Panicked, MemoryOK,
      TypeOK, Running, Ended
<1>3. PhaseOK(p)'
  BY <1>1, SnapshotFacts, FailedFacts
  DEF RefundConflicts, SendFailed, CanSend, Remember, Leave, Goto, total, env, PhaseOK,
      Unstored, Preparing, Sending, InNodesHands, Paid, Failed, Panicked, TypeOK,
      Running, Ended
<1>4. MemoryOK(p)'
  BY <1>1, SnapshotFacts, FailedFacts
  DEF RefundConflicts, SendFailed, CanSend, Remember, Leave, Goto, total, env, PhaseOK,
      Unstored, Preparing, Sending, InNodesHands, Paid, Failed, Panicked, MemoryOK,
      TypeOK, Running, Ended
<1>5. OthersKeep(p)
  BY <1>1
  DEF RefundConflicts, SendFailed, CanSend, Remember, Leave, Goto, total, env, OthersKeep,
      TypeOK
<1>6. NodeKeeps(p)
  BY <1>1, SnapshotFacts, FailedFacts
  DEF RefundConflicts, SendFailed, CanSend, Remember, Leave, Goto, total, env, NodeKeeps,
      HeldByNode, PhaseOK, Unstored, Preparing, Sending, InNodesHands, Paid, Failed,
      Panicked, TypeOK, Running, Ended
<1> QED
  BY <1>2, <1>3, <1>4, <1>5, <1>6, MovedRequest

\* SendSucceeds (payment/entities.rs:184) preserves the invariant.
LEMMA SendSucceedsStep == ASSUME FundsInv, NEW p \in PaymentIds, SendSucceeds(p) PROVE FundsInv'
<1> DEFINE pay == SucceededPayment(payment[p])
           res == Debit(reservation[p])
<1>1. TypeOK /\ PhaseOK(p) /\ MemoryOK(p)
  BY DEF FundsInv
<1>2. /\ pc[p] = "awaiting" /\ htlc[p] = "settled" /\ pc'[p] = "paid"
      /\ payment' = [payment EXCEPT ![p] = pay]
      /\ row' = [row EXCEPT ![p] = RowOf(pay)]
      /\ reservation' = [reservation EXCEPT ![p] = res]
  BY <1>1 DEF SendSucceeds, Remember, UpsertRow, UpsertReservation, Leave, Goto, TypeOK
<1>3. /\ payment[p] \in Payment /\ reservation[p] \in Reservations
      /\ snapshot[p] \in BalanceSnapshot /\ balance[Owner[p]] \in Nat /\ Owner[p] \in Users
  BY <1>1, PaymentsAssumption DEF TypeOK
<1>4. /\ pay \in Payment /\ pay.status = "Succeeded" /\ pay.amount = payment[p].amount
      /\ Cost(pay) = Cost(payment[p]) /\ pay.invoice = payment[p].invoice
  BY <1>3, SucceededFacts
<1>5. RowOf(pay) \in [code : {-1, 0, 2, 3}, amount : Nat] /\ RowOf(pay).code = 2
      /\ RowOf(pay).amount = pay.amount
  BY <1>4, RowFacts
<1>6. res \in Reservations /\ res.status = "Debited" /\ res.amount = reservation[p].amount
  BY <1>3, FinishFacts
<1>7. balance' = [balance EXCEPT ![Owner[p]] = balance[Owner[p]]]
  BY <1>1, <1>3, CommittedUnchanged DEF SendSucceeds, UpdateBalance, MemoryOK
<1> HIDE DEF pay, res
<1>8. TypeOK'
  BY <1>1, <1>2, <1>3, <1>4, <1>5, <1>6, <1>7, SnapshotFacts
  DEF SendSucceeds, Leave, Goto, total, env, TypeOK, Running, Ended
<1>9. PhaseOK(p)'
  BY <1>1, <1>2, <1>4, <1>5, <1>6
  DEF SendSucceeds, PhaseOK, Unstored, Preparing, Sending, InNodesHands, Paid, Failed,
      Panicked, TypeOK
<1>10. MemoryOK(p)'
  BY <1>1, <1>2, <1>4, <1>5, <1>6, SnapshotFacts
  DEF SendSucceeds, Leave, MemoryOK, PhaseOK, Unstored, Preparing, Sending,
      InNodesHands, Paid, Failed, Panicked, TypeOK
<1>11. OthersKeep(p)
  BY <1>1
  DEF SendSucceeds, Remember, UpsertRow, UpsertReservation, Leave, Goto, OthersKeep,
      TypeOK
<1>12. NodeKeeps(p)
  BY <1>1, <1>2, <1>4 DEF SendSucceeds, NodeKeeps, HeldByNode, TypeOK
<1> QED
  BY <1>8, <1>9, <1>10, <1>11, <1>12, MovedRequest

\* SendUnknown (payment/entities.rs:192) preserves the invariant.
LEMMA SendUnknownStep == ASSUME FundsInv, NEW p \in PaymentIds, SendUnknown(p) PROVE FundsInv'
<1>1. TypeOK /\ PhaseOK(p) /\ MemoryOK(p)
  BY DEF FundsInv
<1>2. /\ pc[p] = "awaiting" /\ pc' = [pc EXCEPT ![p] = "unknown"]
      /\ row' = [row EXCEPT ![p] = RowOf(payment[p])]
      /\ reservation' = [reservation EXCEPT ![p] = reservation[p]]
      /\ UNCHANGED <<htlc, payment, total, credited, faults>>
  BY DEF SendUnknown, UpsertRow, UpsertReservation, Leave, Goto, total, env
<1>3. /\ payment[p] \in Payment /\ payment[p].status = "Ready"
      /\ snapshot[p] \in BalanceSnapshot /\ balance[Owner[p]] \in Nat /\ Owner[p] \in Users
  BY <1>1, <1>2, PaymentsAssumption DEF PhaseOK, InNodesHands, TypeOK
<1>4. RowOf(payment[p]) \in [code : {-1, 0, 2, 3}, amount : Nat] /\ RowOf(payment[p]).code = 0
      /\ RowOf(payment[p]).amount = payment[p].amount
  BY <1>3, RowFacts
<1>5. balance' = [balance EXCEPT ![Owner[p]] = balance[Owner[p]]]
  BY <1>1, <1>3, CommittedUnchanged DEF SendUnknown, UpdateBalance, MemoryOK
<1>6. TypeOK'
  BY <1>1, <1>2, <1>3, <1>4, <1>5, SnapshotFacts
  DEF SendUnknown, Leave, total, TypeOK, Running, Ended
<1>7. PhaseOK(p)'
  BY <1>1, <1>2, <1>4
  DEF PhaseOK, Unstored, Preparing, Sending, InNodesHands, Paid, Failed, Panicked,
      TypeOK
<1>8. MemoryOK(p)'
  BY <1>1, <1>2, <1>4, SnapshotFacts DEF SendUnknown, Leave, MemoryOK, Cost, TypeOK
<1>9. OthersKeep(p)
  BY <1>1, <1>2 DEF SendUnknown, Leave, OthersKeep, TypeOK
<1>10. NodeKeeps(p)
  BY <1>2 DEF NodeKeeps, HeldByNode
<1> QED
  BY <1>6, <1>7, <1>8, <1>9, <1>10, MovedRequest

\* RefundCommits (payment/entities.rs:199) preserves the invariant.
LEMMA RefundCommitsStep ==
    ASSUME FundsInv, NEW p \in PaymentIds, RefundCommits(p)
    PROVE  FundsInv'
<1> DEFINE pay == FailedPayment(payment[p])
           res == Refund(reservation[p])
<1>1. TypeOK /\ PhaseOK(p) /\ MemoryOK(p)
  BY DEF FundsInv
<1>2. /\ pc'[p] = "failed" /\ SendFailed(p)
      /\ payment' = [payment EXCEPT ![p] = pay]
      /\ row' = [row EXCEPT ![p] = RowOf(pay)]
      /\ reservation' = [reservation EXCEPT ![p] = res]
  BY <1>1 DEF RefundCommits, Remember, UpsertRow, UpsertReservation, Leave, Goto, TypeOK
<1>3. /\ payment[p] \in Payment /\ reservation[p] \in Reservations
      /\ snapshot[p] \in BalanceSnapshot /\ balance[Owner[p]] \in Nat /\ Owner[p] \in Users
  BY <1>1, PaymentsAssumption DEF TypeOK
<1>4. /\ pay \in Payment /\ pay.status = "Failed" /\ pay.amount = payment[p].amount
      /\ Cost(pay) = Cost(payment[p]) /\ pay.invoice = payment[p].invoice
  BY <1>3, FailedFacts
<1>5. RowOf(pay) \in [code : {-1, 0, 2, 3}, amount : Nat] /\ RowOf(pay).code = 3
      /\ RowOf(pay).amount = pay.amount
  BY <1>4, RowFacts
<1>6. res \in Reservations /\ res.status = "Refunded" /\ res.amount = reservation[p].amount
  BY <1>3, FinishFacts
<1>7. \E b \in Nat : balance' = [balance EXCEPT ![Owner[p]] = b]
  BY <1>1, <1>3, CommittedRefund DEF RefundCommits, UpdateBalance, MemoryOK
<1> HIDE DEF pay, res
<1>8. TypeOK'
  BY <1>1, <1>2, <1>3, <1>4, <1>5, <1>6, <1>7, SnapshotFacts
  DEF RefundCommits, Leave, Goto, total, env, TypeOK, Running, Ended
<1>9. PhaseOK(p)'
  BY <1>1, <1>2, <1>4, <1>5, <1>6
  DEF RefundCommits, SendFailed, CanSend, PhaseOK, Unstored, Preparing, Sending,
      InNodesHands, Paid, Failed, Panicked, TypeOK
<1>10. MemoryOK(p)'
  BY <1>1, <1>2, <1>4, <1>5, <1>6, SnapshotFacts
  DEF RefundCommits, SendFailed, Leave, MemoryOK, PhaseOK, Unstored, Preparing, Sending,
      InNodesHands, Paid, Failed, Panicked, TypeOK
<1>11. OthersKeep(p)
  BY <1>1
  DEF RefundCommits, Remember, UpsertRow, UpsertReservation, Leave, Goto, OthersKeep,
      TypeOK
<1>12. NodeKeeps(p)
  BY <1>1, <1>2, <1>4 DEF RefundCommits, NodeKeeps, HeldByNode, TypeOK
<1> QED
  BY <1>8, <1>9, <1>10, <1>11, <1>12, MovedRequest

\* Create (payment/mod.rs:19) preserves the invariant.
LEMMA CreateStep == ASSUME FundsInv, NEW p \in PaymentIds, Create(p) PROVE FundsInv'
<1>1. TypeOK /\ PhaseOK(p) /\ MemoryOK(p)
  BY DEF FundsInv
<1>2. PICK i \in Invoices, a \in ExplicitAmounts :
        /\ AmountGivenOnce(i, a)
        /\ payment' = [payment EXCEPT ![p] = NewPayment(i, a)]
        /\ row' = [row EXCEPT ![p] = RowOf(NewPayment(i, a))]
  BY DEF Create, Remember, UpsertRow
<1> DEFINE pay == NewPayment(i, a)
<1>3. pay \in Payment /\ pay.status = "New" /\ pay.amount \in Amounts
  BY <1>2, NewPaymentFacts
<1>4. RowOf(pay) \in [code : {-1, 0, 2, 3}, amount : Nat] /\ RowOf(pay).code = 0
      /\ RowOf(pay).amount = pay.amount
  BY <1>3, RowFacts
<1>5. TypeOK'
  BY <1>1, <1>2, <1>3, <1>4 DEF Create, Goto, total, env, TypeOK, Running, Ended
<1>6. PhaseOK(p)'
  BY <1>1, <1>2, <1>3, <1>4
  DEF Create, Goto, PhaseOK, Unstored, Preparing, Sending, InNodesHands, Paid, Failed,
      Panicked, TypeOK
<1>7. MemoryOK(p)'
  BY <1>1, <1>2, <1>3, <1>4 DEF Create, MemoryOK, PhaseOK, Unstored, TypeOK
<1>8. OthersKeep(p)
  BY <1>1 DEF Create, Remember, UpsertRow, Goto, OthersKeep, TypeOK
<1>9. NodeKeeps(p)
  BY <1>1 DEF Create, NodeKeeps, HeldByNode, PhaseOK, Unstored
<1> QED
  BY <1>5, <1>6, <1>7, <1>8, <1>9, MovedRequest

\* PrepareConflicts (payment/mod.rs:27) preserves the invariant.
LEMMA PrepareConflictsStep ==
    ASSUME FundsInv, NEW p \in PaymentIds, PrepareConflicts(p) PROVE FundsInv'
<1>1. TypeOK /\ PhaseOK(p) /\ MemoryOK(p)
  BY DEF FundsInv
<1>2. PICK fee \in Fees : payment' = [payment EXCEPT ![p] = Readied(payment[p], fee)]
  BY DEF PrepareConflicts, Remember
<1> DEFINE pay == Readied(payment[p], fee)
<1>3. /\ pay \in Payment /\ pay.status = "Ready" /\ pay.amount = payment[p].amount
      /\ pay.invoice = payment[p].invoice
  BY <1>1, ReadiedFacts DEF TypeOK
<1>4. TypeOK'
  BY <1>1, <1>2, <1>3, SnapshotFacts
  DEF PrepareConflicts, Leave, Goto, total, env, TypeOK, Running, Ended
<1>5. PhaseOK(p)'
  BY <1>1, <1>2, <1>3
  DEF PrepareConflicts, Probed, Leave, Goto, PhaseOK, Unstored, Preparing, Sending,
      InNodesHands, Paid, Failed, Panicked, TypeOK
<1>6. MemoryOK(p)'
  BY <1>1, <1>2, <1>3, SnapshotFacts
  DEF PrepareConflicts, Probed, Leave, MemoryOK, PhaseOK, Preparing, TypeOK
<1>7. OthersKeep(p)
  BY <1>1 DEF PrepareConflicts, Remember, Leave, Goto, OthersKeep, TypeOK
<1>8. NodeKeeps(p)
  BY <1>1 DEF PrepareConflicts, Probed, NodeKeeps, HeldByNode, PhaseOK, Preparing
<1> QED
  BY <1>4, <1>5, <1>6, <1>7, <1>8, MovedRequest

\* PrepareCommits (payment/mod.rs:27) preserves the invariant.
LEMMA PrepareCommitsStep ==
    ASSUME FundsInv, NEW p \in PaymentIds, PrepareCommits(p) PROVE FundsInv'
<1>1. TypeOK /\ PhaseOK(p) /\ MemoryOK(p)
  BY DEF FundsInv
<1>2. PICK fee \in Fees :
        LET pay == Readied(payment[p], fee) IN
        /\ CanReserve(snapshot[p], Cost(pay))
        /\ Remember(p, pay)
        /\ UpsertReservation(p, PendingReservation(Cost(pay)))
        /\ UpsertRow(p, pay)
        /\ UpdateBalance(p, ReserveFrom(snapshot[p], Cost(pay)))
  BY DEF PrepareCommits
<1> DEFINE pay == Readied(payment[p], fee)
           res == PendingReservation(Cost(pay))
<1>3. /\ snapshot[p] \in BalanceSnapshot /\ balance[Owner[p]] \in Nat /\ Owner[p] \in Users
      /\ payment[p] \in Payment
  BY <1>1, PaymentsAssumption DEF TypeOK
<1>4. /\ pay \in Payment /\ pay.status = "Ready" /\ pay.amount = payment[p].amount
      /\ pay.invoice = payment[p].invoice /\ Cost(pay) \in Nat
  BY <1>3, ReadiedFacts
<1>5. RowOf(pay) \in [code : {-1, 0, 2, 3}, amount : Nat] /\ RowOf(pay).code = 0
      /\ RowOf(pay).amount = pay.amount
  BY <1>4, RowFacts
<1>6. res \in Reservations /\ res.status = "Pending" /\ res.amount = Cost(pay)
  BY <1>4 DEF PendingReservation, Reservations, ReservationStatus
<1>7. \E b \in Nat : balance' = [balance EXCEPT ![Owner[p]] = b]
  BY <1>1, <1>2, <1>3, <1>4, CommittedReserve DEF UpdateBalance, MemoryOK
<1>8. /\ pc[p] = "probing" /\ pc'[p] = "send"
      /\ payment' = [payment EXCEPT ![p] = pay]
      /\ row' = [row EXCEPT ![p] = RowOf(pay)]
      /\ reservation' = [reservation EXCEPT ![p] = res]
  BY <1>1, <1>2
  DEF PrepareCommits, Probed, Remember, UpsertRow, UpsertReservation, Leave, Goto,
      TypeOK
<1> HIDE DEF pay, res
<1>9. TypeOK'
  BY <1>1, <1>3, <1>4, <1>5, <1>6, <1>7, <1>8, SnapshotFacts
  DEF PrepareCommits, Leave, Goto, total, env, TypeOK, Running, Ended
<1>10. PhaseOK(p)'
  BY <1>1, <1>4, <1>5, <1>6, <1>8
  DEF PrepareCommits, PhaseOK, Unstored, Preparing, Sending, InNodesHands, Paid, Failed,
      Panicked, TypeOK
<1>11. MemoryOK(p)'
  BY <1>1, <1>4, <1>5, <1>6, <1>8, SnapshotFacts
  DEF PrepareCommits, Leave, MemoryOK, PhaseOK, Preparing, TypeOK
<1>12. OthersKeep(p)
  BY <1>1, <1>8 DEF PrepareCommits, Leave, Goto, OthersKeep, TypeOK
<1>13. NodeKeeps(p)
  BY <1>1, <1>8 DEF PrepareCommits, NodeKeeps, HeldByNode, PhaseOK, Preparing
<1> QED
  BY <1>9, <1>10, <1>11, <1>12, <1>13, MovedRequest

\* CreditUser (balance/entities.rs:66) preserves the invariant.
LEMMA CreditUserStep == ASSUME FundsInv, NEW u \in Users, CreditUser(u) PROVE FundsInv'
<1>1. UNCHANGED <<reservation, row, htlc, pc, payment, snapshot>>
  BY DEF CreditUser, task, total
<1>2. TypeOK'
  BY PaymentsAssumption DEF FundsInv, CreditUser, task, total, TypeOK, Running, Ended
<1>3. (\A p \in PaymentIds : PhaseOK(p))'
  BY <1>1
  DEF FundsInv, PhaseOK, Unstored, Preparing, Sending, InNodesHands, Paid, Failed, Panicked
<1>4. (\A p \in PaymentIds : MemoryOK(p))' /\ NodeExclusive'
  BY <1>1 DEF FundsInv, MemoryOK, Cost, Changed, NodeExclusive, HeldByNode
<1> QED
  BY <1>2, <1>3, <1>4 DEF FundsInv

\* Every step preserves the invariant.
THEOREM NextFundsInv == FundsInv /\ [Next]_vars => FundsInv'
<1> SUFFICES ASSUME FundsInv, [Next]_vars PROVE FundsInv'
  OBVIOUS
<1>1. CASE UNCHANGED vars
  BY <1>1
  DEF vars, FundsInv, MemoryOK, Cost, Changed, NodeExclusive, HeldByNode, PhaseOK, Unstored,
      Preparing, Sending, InNodesHands, Paid, Failed, Panicked, TypeOK, Running, Ended
<1>2. ASSUME NEW u \in Users, CreditUser(u) PROVE FundsInv'
  BY <1>2, CreditUserStep
<1>3. ASSUME NEW p \in PaymentIds, Advance(p) PROVE FundsInv'
  BY <1>3, CreateStep, RejectStep, PrepareBeginsStep, PreparePanicsStep,
     SendBeginsStep, SendPanicsStep, CallPanicsStep
  DEF Advance
<1>4. ASSUME NEW p \in PaymentIds, Answered(p) PROVE FundsInv'
  BY <1>4, PrepareCommitsStep, PrepareConflictsStep, PrepareInsufficientStep,
     PrepareFailsStep, NodeAcceptsStep, SendSucceedsStep, SendUnknownStep,
     RefundCommitsStep, RefundConflictsStep
  DEF Answered
<1>5. ASSUME NEW p \in PaymentIds,
             ReadDailyTotal(p) \/ DailyTotalPanics(p) \/ TaskLost(p) \/ NodeDecides(p)
      PROVE FundsInv'
  BY <1>5, ReadDailyTotalStep, DailyTotalPanicsStep, TaskLostStep, NodeDecidesStep
<1> QED
  BY <1>1, <1>2, <1>3, <1>4, <1>5 DEF Next

\* What is known of the funds holds in every reachable state: TypeOK, and with
\* it that no balance ever goes negative, included.
THEOREM FundsInvariance == Spec => []FundsInv
  BY InitFundsInv, NextFundsInv, PTL DEF Spec

-------------------------------------------------------------------------------
(* The daily limit *)

\* A step leaves the totals that were read right when the rows they are the sum
\* of keep their amounts, and new rows keep to the limit.
LEMMA TotalsKept ==
    ASSUME TypeOK, TypeOK', UNCHANGED total, \A q \in PaymentIds : TotalOK(q),
           \A q \in PaymentIds :
               /\ row[q] # NoRow => row'[q] # NoRow /\ row'[q].amount = row[q].amount
               /\ row'[q].code = -1 => row'[q] = NoRow
               /\ row'[q] # NoRow => dailyTotal[q] + row'[q].amount <= DailyMax
    PROVE  \A q \in PaymentIds : TotalOK(q)'
<1> SUFFICES ASSUME NEW q \in PaymentIds PROVE TotalOK(q)'
  OBVIOUS
<1>1. TotalOK(q) /\ seen' = seen /\ dailyTotal' = dailyTotal
  BY DEF total
<1>2. \A u : RowsOf(u) \subseteq RowsOf(u)' /\ RowsOf(u) \subseteq PaymentIds
  BY DEF RowsOf
<1>3. seen[q] \subseteq RowsOf(Owner[q])
  BY <1>1 DEF TotalOK
<1>4. \A p \in seen[q] : RowAmounts'[p] = RowAmounts[p]
  BY <1>3 DEF RowsOf, RowAmounts
<1>5. IsFiniteSet(seen[q])
  BY <1>2, <1>3, FS_Subset
<1>6. SumOf(RowAmounts', seen[q]) = SumOf(RowAmounts, seen[q])
  BY <1>4, <1>5, SumOfSameTerms
<1>7. dailyTotal'[q] = SumOf(RowAmounts', seen'[q])
  BY <1>1, <1>6 DEF TotalOK
<1>8. seen'[q] \subseteq RowsOf(Owner[q])' \ {q}
  BY <1>1, <1>2 DEF TotalOK
<1>9. \A p \in seen'[q] : seen'[p] \subseteq seen'[q]
  BY <1>1 DEF TotalOK
<1> QED
  BY <1>1, <1>7, <1>8, <1>9 DEF TotalOK

\* A request that stores its row anew stores the amount it has stored before,
\* and leaves the total it read.
StoresSameAmount(p) ==
    /\ UNCHANGED total
    /\ \A q \in PaymentIds :
         \/ row'[q] = row[q]
         \/ /\ q = p /\ row[p].code # -1 /\ row'[p].code # -1
            /\ payment'[p].amount = payment[p].amount

\* A step that stores an amount again keeps every row within the limit it was
\* checked with, and every total that counts it (payment/mod.rs:88-120).
LEMMA StoredAmounts ==
    ASSUME IInv, FundsInv', NEW p \in PaymentIds, StoresSameAmount(p)
    PROVE  \A q \in PaymentIds : TotalOK(q)'
<1>1. \A q \in PaymentIds : row[q].amount = payment[q].amount /\ TotalOK(q)
  BY DEF IInv, FundsInv, MemoryOK
<1>2. \A q \in PaymentIds : row'[q].amount = payment'[q].amount
  BY DEF FundsInv, MemoryOK
<1>3. ASSUME NEW q \in PaymentIds
      PROVE  /\ row[q] # NoRow => row'[q] # NoRow /\ row'[q].amount = row[q].amount
             /\ row'[q].code = -1 => row'[q] = NoRow
             /\ row'[q] # NoRow => dailyTotal[q] + row'[q].amount <= DailyMax
  <2>1. CASE row'[q] = row[q]
    BY <1>1, <2>1 DEF TotalOK
  <2>2. CASE row'[q] # row[q]
    <3>1. /\ q = p /\ row[q].code # -1 /\ row'[q].code # -1
          /\ payment'[q].amount = payment[q].amount
      BY <2>2 DEF StoresSameAmount
    <3>2. row[q] # NoRow /\ row'[q] # NoRow /\ row'[q].amount = row[q].amount
      BY <1>1, <1>2, <3>1 DEF NoRow
    <3> QED
      BY <1>1, <3>1, <3>2 DEF TotalOK
  <2> QED
    BY <2>1, <2>2
<1> QED
  BY <1>1, <1>3, TotalsKept DEF IInv, FundsInv, StoresSameAmount

\* The commits that store a row again: the probe failed or was not covered, the
\* payment is ready, sent, of unknown outcome, or given back.
LEMMA StoringSteps ==
    ASSUME FundsInv, NEW p \in PaymentIds,
           \/ PrepareCommits(p) \/ PrepareInsufficient(p) \/ PrepareFails(p)
           \/ SendSucceeds(p) \/ SendUnknown(p) \/ RefundCommits(p)
    PROVE  StoresSameAmount(p)
<1>1. /\ payment[p] \in Payment /\ row \in [PaymentIds -> [code : {-1, 0, 2, 3}, amount : Nat]]
      /\ payment \in [PaymentIds -> Payment]
  BY DEF FundsInv, TypeOK
<1>2. /\ row[p].code # -1 /\ payment[p].status # "None"
  BY DEF FundsInv, PhaseOK, Preparing, Sending, InNodesHands, PrepareCommits,
     PrepareInsufficient, PrepareFails, SendSucceeds, SendUnknown, RefundCommits,
     Probed, SendFailed
<1>3. UNCHANGED total
  BY DEF PrepareCommits, PrepareInsufficient, PrepareFails, SendSucceeds, SendUnknown,
     RefundCommits
<1>4. ASSUME NEW pay \in Payment, pay.status # "None", pay.amount = payment[p].amount,
             row' = [row EXCEPT ![p] = RowOf(pay)],
             payment' = [payment EXCEPT ![p] = pay]
      PROVE  StoresSameAmount(p)
  <2>1. RowOf(pay).code # -1
    <3>1. pay.status \in {"New", "Ready", "Succeeded", "Failed"}
      BY <1>4 DEF Payment, PaymentStatus
    <3> QED
      BY <1>4, <3>1, RowFacts
  <2> QED
    BY <1>1, <1>2, <1>3, <1>4, <2>1 DEF StoresSameAmount
<1>5. payment' = payment => payment' = [payment EXCEPT ![p] = payment[p]]
  BY <1>1
<1>6. CASE PrepareCommits(p)
  <2>1. PICK fee \in Fees : Remember(p, Readied(payment[p], fee))
                            /\ UpsertRow(p, Readied(payment[p], fee))
    BY <1>6 DEF PrepareCommits
  <2> QED
    BY <1>1, <1>4, <2>1, ReadiedFacts DEF Remember, UpsertRow
<1>7. CASE PrepareInsufficient(p) \/ SendUnknown(p)
  BY <1>1, <1>2, <1>4, <1>5, <1>7 DEF PrepareInsufficient, SendUnknown, UpsertRow
<1>8. CASE PrepareFails(p) \/ RefundCommits(p)
  BY <1>1, <1>4, <1>8, FailedFacts DEF PrepareFails, RefundCommits, Remember, UpsertRow
<1>9. CASE SendSucceeds(p)
  BY <1>1, <1>4, <1>9, SucceededFacts DEF SendSucceeds, Remember, UpsertRow
<1> QED
  BY <1>6, <1>7, <1>8, <1>9

\* A total is read before there is a row, so nobody has seen this request, and it
\* sees all of its user's (payment/mod.rs:18).
LEMMA TotalRead ==
    ASSUME IInv, NEW p \in PaymentIds, ReadDailyTotal(p)
    PROVE  \A q \in PaymentIds : TotalOK(q)'
<1>0. FundsInv /\ TypeOK /\ \A q \in PaymentIds : TotalOK(q)
  BY DEF IInv, FundsInv
<1>1. row' = row /\ row[p] = NoRow
  BY <1>0 DEF ReadDailyTotal, FundsInv, PhaseOK, Unstored, TotalOK
<1>2. /\ \A q \in PaymentIds \ {p} : dailyTotal'[q] = dailyTotal[q] /\ seen'[q] = seen[q]
      /\ dailyTotal'[p] = SumOf(RowAmounts, RowsOf(Owner[p]))
      /\ seen'[p] = RowsOf(Owner[p])
  BY <1>0 DEF ReadDailyTotal, TypeOK, DailyTotal
<1>3. RowAmounts' = RowAmounts /\ \A u : RowsOf(u)' = RowsOf(u)
  BY <1>1 DEF RowAmounts, RowsOf
<1>4. \A u : p \notin RowsOf(u) /\ RowsOf(u) \subseteq PaymentIds
  BY <1>1 DEF RowsOf
<1>5. TotalOK(p)'
  <2>1. \A q \in RowsOf(Owner[p]) : q # p /\ q \in PaymentIds /\ Owner[q] = Owner[p]
    BY <1>4 DEF RowsOf
  <2>2. \A q \in seen'[p] : seen'[q] \subseteq seen'[p]
    BY <1>0, <1>2, <2>1 DEF TotalOK
  <2> QED
    BY <1>1, <1>2, <1>3, <1>4, <2>2 DEF TotalOK
<1>6. ASSUME NEW q \in PaymentIds, q # p PROVE TotalOK(q)'
  <2>1. TotalOK(q) /\ seen[q] \subseteq PaymentIds \ {p}
    BY <1>0, <1>4 DEF TotalOK
  <2>2. dailyTotal'[q] = SumOf(RowAmounts', seen'[q])
    BY <1>2, <1>3, <1>6, <2>1 DEF TotalOK
  <2>3. \A r \in seen'[q] : seen'[r] \subseteq seen'[q]
    BY <1>2, <1>6, <2>1 DEF TotalOK
  <2>4. seen'[q] \subseteq RowsOf(Owner[q])' \ {q}
    BY <1>2, <1>3, <1>6, <2>1 DEF TotalOK
  <2>5. /\ row'[q].code = -1 => row'[q] = NoRow
        /\ row'[q] # NoRow => dailyTotal'[q] + row'[q].amount <= DailyMax
    BY <1>1, <1>2, <1>6, <2>1 DEF TotalOK
  <2> QED
    BY <2>2, <2>3, <2>4, <2>5 DEF TotalOK
<1> QED
  BY <1>5, <1>6

\* A row is first stored within the limit of the total that was read.
LEMMA LimitStep ==
    ASSUME IInv, FundsInv', [Next]_vars
    PROVE  \A q \in PaymentIds : TotalOK(q)'
<1>0. FundsInv /\ TypeOK /\ TypeOK' /\ \A q \in PaymentIds : TotalOK(q)
  BY DEF IInv, FundsInv
<1>1. ASSUME UNCHANGED <<row, total>> PROVE \A q \in PaymentIds : TotalOK(q)'
  <2>1. ASSUME NEW q \in PaymentIds
        PROVE  /\ row'[q].code = -1 => row'[q] = NoRow
               /\ row'[q] # NoRow => dailyTotal[q] + row'[q].amount <= DailyMax
    BY <1>0, <1>1 DEF TotalOK
  <2> QED
    BY <1>0, <1>1, <2>1, TotalsKept
<1>2. ASSUME NEW p \in PaymentIds, ReadDailyTotal(p)
      PROVE  \A q \in PaymentIds : TotalOK(q)'
  BY <1>2, TotalRead
<1>3. ASSUME NEW p \in PaymentIds, Create(p)
      PROVE  \A q \in PaymentIds : TotalOK(q)'
  <2>1. PICK i \in Invoices, a \in ExplicitAmounts :
          /\ AmountGivenOnce(i, a)
          /\ WithinLimits(AmountOf(i, a), dailyTotal[p])
          /\ row' = [row EXCEPT ![p] = RowOf(NewPayment(i, a))]
    BY <1>3 DEF Create, UpsertRow
  <2>2. /\ RowOf(NewPayment(i, a)).code = 0
        /\ RowOf(NewPayment(i, a)).amount = AmountOf(i, a)
    BY <2>1, NewPaymentFacts, RowFacts DEF NewPayment
  <2>3. dailyTotal[p] + AmountOf(i, a) <= DailyMax /\ UNCHANGED total
    BY <1>3, <2>1 DEF WithinLimits, Create, total
  <2>4. \A q \in PaymentIds : q # p => row'[q] = row[q]
    BY <1>0, <2>1 DEF TypeOK
  <2>5. row'[p] = RowOf(NewPayment(i, a))
    BY <1>0, <2>1 DEF TypeOK
  <2>6. row[p] = NoRow
    BY <1>0, <1>3 DEF Create, FundsInv, PhaseOK, Unstored, TotalOK
  <2>7. ASSUME NEW q \in PaymentIds
        PROVE  /\ row[q] # NoRow => row'[q] # NoRow /\ row'[q].amount = row[q].amount
               /\ row'[q].code = -1 => row'[q] = NoRow
               /\ row'[q] # NoRow => dailyTotal[q] + row'[q].amount <= DailyMax
    BY <1>0, <2>2, <2>3, <2>4, <2>5, <2>6 DEF TotalOK
  <2> QED
    BY <1>0, <2>3, <2>7, TotalsKept
<1>4. ASSUME NEW p \in PaymentIds,
             \/ PrepareCommits(p) \/ PrepareInsufficient(p) \/ PrepareFails(p)
             \/ SendSucceeds(p) \/ SendUnknown(p) \/ RefundCommits(p)
      PROVE  \A q \in PaymentIds : TotalOK(q)'
  BY <1>0, <1>4, StoringSteps, StoredAmounts
<1>5. ASSUME NEW p \in PaymentIds,
             \/ DailyTotalPanics(p) \/ TaskLost(p) \/ NodeDecides(p)
             \/ Reject(p) \/ PrepareBegins(p) \/ PreparePanics(p) \/ SendBegins(p)
             \/ SendPanics(p) \/ CallPanics(p) \/ PrepareConflicts(p) \/ NodeAccepts(p)
             \/ RefundConflicts(p)
      PROVE  UNCHANGED <<row, total>>
  BY <1>5 DEF DailyTotalPanics, TaskLost, NodeDecides, Reject, PrepareBegins,
     PreparePanics, SendBegins, SendPanics, CallPanics, PrepareConflicts, NodeAccepts,
     RefundConflicts, task
<1>6. ASSUME NEW u \in Users, CreditUser(u) PROVE UNCHANGED <<row, total>>
  BY <1>6 DEF CreditUser, task
<1>7. CASE UNCHANGED vars
  BY <1>1, <1>7 DEF vars, total
<1> QED
  BY <1>1, <1>2, <1>3, <1>4, <1>5, <1>6, <1>7 DEF Next, Advance, Answered

\* Every reachable state of the payment handlers satisfies IInv.
THEOREM Invariance == Spec => []IInv
<1>1. Init => IInv
  <2> SUFFICES ASSUME Init PROVE \A p \in PaymentIds : TotalOK(p)
    BY InitFundsInv DEF IInv
  <2>1. SumOf(RowAmounts, {}) = 0
    BY SumOfNothing
  <2> QED
    BY <2>1 DEF Init, TotalOK, NoRow
<1>2. IInv /\ [Next]_vars => IInv'
  BY NextFundsInv, LimitStep DEF IInv
<1> QED
  BY <1>1, <1>2, PTL DEF Spec

\* Of requests no two of which raced, one has seen all the others: seeing is
\* transitive, so what the requests have not seen is smallest for one of them.
LEMMA LastOne ==
    ASSUME NEW S, IsFiniteSet(S), S # {}, NEW sees, \A p \in S : p \notin sees[p],
           \A p \in S : \A q \in sees[p] : sees[q] \subseteq sees[p],
           \A p, q \in S : p # q => p \in sees[q] \/ q \in sees[p]
    PROVE  \E p \in S : S \ {p} \subseteq sees[p]
<1> SUFFICES ASSUME \A p \in S : \E r \in S : p \in sees[r] PROVE FALSE
  OBVIOUS
<1> DEFINE B == {T \in SUBSET S : \A p \in S : S \ sees[p] # T}
<1>1. ASSUME NEW T \in SUBSET S, \A U \in SUBSET T : U # T => U \in B
      PROVE  T \in B
  <2> SUFFICES ASSUME NEW p \in S, S \ sees[p] = T PROVE FALSE
    OBVIOUS
  <2>1. PICK r \in S : p \in sees[r]
    OBVIOUS
  <2>2. sees[p] \subseteq sees[r]
    BY <2>1
  <2>3. S \ sees[r] \in SUBSET T /\ p \in T /\ p \notin S \ sees[r]
    BY <2>1, <2>2
  <2> QED
    BY <1>1, <2>3
<1>2. \A T \in SUBSET S : T \in B
  <2> HIDE DEF B
  <2> QED
    BY <1>1, SubsetInduction
<1>3. PICK p \in S : TRUE
  OBVIOUS
<1>4. S \ sees[p] \in B
  <2> HIDE DEF B
  <2> QED
    BY <1>2
<1> QED
  BY <1>4

\* A user is over the daily limit only by requests that raced, however many she
\* makes and whatever becomes of them (payment/mod.rs:18-22).
THEOREM OverLimitOnlyByRacesAlways == Spec => []OverLimitOnlyByRaces
<1>1. IInv => OverLimitOnlyByRaces
  <2> SUFFICES ASSUME IInv, NEW u \in Users,
                      \A p, q \in RowsOf(u) : p # q => p \in seen[q] \/ q \in seen[p]
               PROVE  ~(SumOf(RowAmounts, RowsOf(u)) > DailyMax)
    BY DEF OverLimitOnlyByRaces
  <2>1. TypeOK /\ RowsOf(u) \subseteq PaymentIds /\ IsFiniteSet(RowsOf(u))
    BY FS_Subset DEF IInv, FundsInv, RowsOf
  <2>2. \A p \in RowsOf(u) : TotalOK(p) /\ Owner[p] = u /\ row[p] # NoRow
    BY DEF IInv, RowsOf
  <2>3. CASE RowsOf(u) = {}
    BY <2>3, SumOfNothing
  <2>4. CASE RowsOf(u) # {}
    <3>1. PICK p \in RowsOf(u) : RowsOf(u) \ {p} \subseteq seen[p]
      <4>1. /\ \A p \in RowsOf(u) : p \notin seen[p]
            /\ \A p \in RowsOf(u) : \A q \in seen[p] : seen[q] \subseteq seen[p]
        BY <2>2 DEF TotalOK
      <4> QED
        BY <2>1, <2>4, <4>1, LastOne
    <3>2. seen[p] = RowsOf(u) \ {p}
      BY <2>2, <3>1 DEF TotalOK
    <3>3. \A q \in RowsOf(u) : RowAmounts[q] \in Int
      BY <2>1 DEF RowAmounts, TypeOK
    <3>4. SumOf(RowAmounts, RowsOf(u)) = RowAmounts[p] + SumOf(RowAmounts, RowsOf(u) \ {p})
      BY <2>1, <3>3, SumTakeOut
    <3>5. /\ dailyTotal[p] + RowAmounts[p] <= DailyMax
          /\ dailyTotal[p] = SumOf(RowAmounts, RowsOf(u) \ {p})
      <4>1. RowAmounts[p] = row[p].amount
        BY <2>1 DEF RowAmounts
      <4> QED
        BY <2>2, <3>2, <4>1 DEF TotalOK
    <3>6. dailyTotal[p] \in Int /\ RowAmounts[p] \in Int
      BY <2>1, <3>3 DEF TypeOK
    <3>7. DailyMax \in Int
      BY PaymentsAssumption
    <3> QED
      BY <3>4, <3>5, <3>6, <3>7
  <2> QED
    BY <2>3, <2>4
<1> QED
  BY <1>1, Invariance, PTL

-------------------------------------------------------------------------------
(* What the invariant gives *)

\* Funds are held or spent exactly for what the node holds or settled, in
\* every reachable state: a payment in flight is never refunded.
THEOREM FundsFollowTheNodeAlways == Spec => []FundsFollowTheNode
<1>1. FundsInv => FundsFollowTheNode
  BY
  DEF FundsInv, TypeOK, MemoryOK, Cost, PhaseOK, Unstored, Preparing, Sending, InNodesHands,
      Paid, Failed, Panicked, Running, Ended, FundsFollowTheNode, FundsFollowNode
<1> QED
  BY <1>1, FundsInvariance, PTL

\* No interleaving, conflict or lost task makes a payment row contradict its
\* reservation.
THEOREM RowsMatchAlways == Spec => []RowsMatchReservations
<1>1. FundsInv => RowsMatchReservations
  BY
  DEF FundsInv, TypeOK, MemoryOK, PhaseOK, Unstored, Preparing, Sending, InNodesHands, Paid,
      Failed, Panicked, Running, Ended, RowsMatchReservations, RowMatches
<1> QED
  BY <1>1, FundsInvariance, PTL

\* Funds stay pending only for an unknown outcome or a panic.
THEOREM NothingLeftPendingAlways == Spec => []NothingLeftPending
<1>1. FundsInv => NothingLeftPending
  BY
  DEF FundsInv, PhaseOK, Unstored, Preparing, Sending, InNodesHands, Paid, Failed, Panicked,
      NothingLeftPending
<1> QED
  BY <1>1, FundsInvariance, PTL

\* An invoice is debited once, whoever races to pay it.
THEOREM DebitedOncePerInvoiceAlways == Spec => []DebitedOncePerInvoice
<1>1. FundsInv => DebitedOncePerInvoice
  BY
  DEF FundsInv, TypeOK, PhaseOK, Unstored, Preparing, Sending, InNodesHands, Paid, Failed,
      Panicked, Running, Ended, NodeExclusive, HeldByNode, DebitedOncePerInvoice
<1> QED
  BY <1>1, FundsInvariance, PTL

-------------------------------------------------------------------------------
(* Payments implement the reservation protocol *)

\* A commit that reserves is the protocol's ReserveFunds, for an amount the
\* snapshot covered and the compare-and-set made good.
LEMMA PrepareCommitsRefines ==
    ASSUME FundsInv, NEW p \in PaymentIds, PrepareCommits(p)
    PROVE  Protocol!ReserveFunds(p)
<1>1. TypeOK /\ PhaseOK(p) /\ MemoryOK(p)
  BY DEF FundsInv
<1>2. PICK fee \in Fees :
        LET pay == Readied(payment[p], fee) IN
        /\ CanReserve(snapshot[p], Cost(pay))
        /\ UpsertReservation(p, PendingReservation(Cost(pay)))
        /\ UpdateBalance(p, ReserveFrom(snapshot[p], Cost(pay)))
  BY DEF PrepareCommits
<1> DEFINE cost == Cost(Readied(payment[p], fee))
<1>3. /\ snapshot[p] \in BalanceSnapshot /\ balance[Owner[p]] \in Nat
      /\ payment[p] \in Payment /\ payment[p].amount \in Amounts
      /\ reservation[p].status = "None"
  BY <1>1, PaymentsAssumption
  DEF TypeOK, MemoryOK, PrepareCommits, Probed, IsNew, PhaseOK, Preparing
<1>4. cost \in Nat /\ cost \in Costs
  <2>1. cost = payment[p].amount + fee /\ cost \in Nat
    BY <1>3, ReadiedFacts
  <2> HIDE DEF cost
  <2>2. payment[p].amount + fee \in Costs
    BY <1>3 DEF Costs
  <2> QED
    BY <2>1, <2>2
<1>5. /\ cost <= balance[Owner[p]]
      /\ balance' = [balance EXCEPT ![Owner[p]] = @ - cost]
  BY <1>1, <1>2, <1>3, <1>4, CommittedReserve DEF UpdateBalance, MemoryOK
<1>6. reservation' = [reservation EXCEPT ![p] = PendingReservation(cost)]
  BY <1>2 DEF UpsertReservation
<1>7. UNCHANGED <<htlc, credited>>
  BY DEF PrepareCommits, total, env
<1> HIDE DEF cost
<1> QED
  BY <1>3, <1>4, <1>5, <1>6, <1>7
  DEF Protocol!ReserveFunds, Protocol!PendingReservation, PendingReservation

\* A commit that refunds is the protocol's RefundFunds.
LEMMA RefundCommitsRefines ==
    ASSUME FundsInv, NEW p \in PaymentIds, RefundCommits(p)
    PROVE  Protocol!RefundFunds(p)
<1>1. TypeOK /\ PhaseOK(p) /\ MemoryOK(p)
  BY DEF FundsInv
<1>2. /\ snapshot[p] \in BalanceSnapshot /\ balance[Owner[p]] \in Nat
      /\ reservation[p] \in Reservations
  BY <1>1, PaymentsAssumption DEF TypeOK
<1>3. reservation[p].status = "Pending" /\ htlc[p] \in {"none", "failed"}
  BY <1>1 DEF RefundCommits, SendFailed, PhaseOK, Sending, InNodesHands
<1>4. balance' = [balance EXCEPT ![Owner[p]] = @ + reservation[p].amount]
  BY <1>1, <1>2, CommittedRefund DEF RefundCommits, UpdateBalance, MemoryOK
<1> QED
  BY <1>3, <1>4 DEF RefundCommits, UpsertReservation, total, env, Protocol!RefundFunds,
     Protocol!CanFinish, Protocol!Refund, Refund

\* A commit that debits is the protocol's DebitFunds.
LEMMA SendSucceedsRefines ==
    ASSUME FundsInv, NEW p \in PaymentIds, SendSucceeds(p)
    PROVE  Protocol!DebitFunds(p)
<1>1. TypeOK /\ PhaseOK(p) /\ MemoryOK(p)
  BY DEF FundsInv
<1>2. snapshot[p] \in BalanceSnapshot /\ balance[Owner[p]] \in Nat
  BY <1>1, PaymentsAssumption DEF TypeOK
<1>3. reservation[p].status = "Pending"
  BY <1>1 DEF SendSucceeds, PhaseOK, InNodesHands
<1>4. balance' = balance
  BY <1>1, <1>2, CommittedUnchanged DEF SendSucceeds, UpdateBalance, MemoryOK, TypeOK
<1> QED
  BY <1>3, <1>4 DEF SendSucceeds, UpsertReservation, total, env, Protocol!DebitFunds,
     Protocol!CanFinish, Protocol!Debit, Debit

\* Storing an unknown outcome changes neither funds nor reservation.
LEMMA SendUnknownRefines ==
    ASSUME FundsInv, NEW p \in PaymentIds, SendUnknown(p)
    PROVE  UNCHANGED Protocol!vars
<1>1. TypeOK /\ MemoryOK(p)
  BY DEF FundsInv
<1>2. snapshot[p] \in BalanceSnapshot /\ balance[Owner[p]] \in Nat
  BY <1>1, PaymentsAssumption DEF TypeOK
<1>3. balance' = balance
  BY <1>1, <1>2, CommittedUnchanged DEF SendUnknown, UpdateBalance, MemoryOK, TypeOK
<1> QED
  BY <1>1, <1>3 DEF SendUnknown, UpsertReservation, total, env, TypeOK, Protocol!vars

\* Every step of the payment handlers is a step of the protocol or none.
THEOREM StepRefines == FundsInv /\ [Next]_vars => [Protocol!Next]_(Protocol!vars)
<1> SUFFICES ASSUME FundsInv, [Next]_vars PROVE [Protocol!Next]_(Protocol!vars)
  OBVIOUS
<1>1. CASE UNCHANGED vars
  BY <1>1 DEF vars, Protocol!vars
<1>2. ASSUME NEW u \in Users, CreditUser(u) PROVE Protocol!CreditUser(u)
  BY <1>2 DEF CreditUser, Protocol!CreditUser
<1>3. ASSUME NEW p \in PaymentIds, Advance(p) PROVE UNCHANGED Protocol!vars
  BY <1>3 DEF Advance, Create, Reject, PrepareBegins, PreparePanics, SendBegins,
     SendPanics, CallPanics, Protocol!vars, total, env
<1>4. ASSUME NEW p \in PaymentIds, NodeAccepts(p) PROVE Protocol!Begin(p)
  BY <1>4 DEF NodeAccepts, CanSend, CanFinish, FundsInv, PhaseOK, Sending, total, env,
     Protocol!Begin, Protocol!CanFinish
<1>5. ASSUME NEW p \in PaymentIds, NodeDecides(p) PROVE Protocol!Decide(p)
  BY <1>5 DEF NodeDecides, total, env, Protocol!Decide
<1>6. ASSUME NEW p \in PaymentIds,
             \/ ReadDailyTotal(p) \/ DailyTotalPanics(p) \/ TaskLost(p)
             \/ PrepareConflicts(p) \/ PrepareInsufficient(p) \/ PrepareFails(p)
             \/ RefundConflicts(p)
      PROVE  UNCHANGED Protocol!vars
  BY <1>6 DEF ReadDailyTotal, DailyTotalPanics, TaskLost, PrepareConflicts,
     PrepareInsufficient, PrepareFails, RefundConflicts, Protocol!vars, total, env
<1> QED
  BY <1>1, <1>2, <1>3, <1>4, <1>5, <1>6, PrepareCommitsRefines, RefundCommitsRefines,
     SendSucceedsRefines, SendUnknownRefines
  DEF Next, Answered, Protocol!Next

\* The payment handlers implement the reservation protocol: read, probe and
\* commit are atomic reservations, debits and refunds, whatever interleaves.
THEOREM Refinement == Spec => ImplementsProtocol
<1>1. Init => Protocol!Init
  BY DEF Init, Protocol!Init, NoReservation, Protocol!NoReservation
<1> QED
  BY <1>1, FundsInvariance, StepRefines, PTL DEF Spec, ImplementsProtocol, Protocol!Spec

-------------------------------------------------------------------------------
(* What the protocol promises, payments keep *)

\* The theorems about the protocol, for payments.
Proved == INSTANCE ReservationProtocolProofs WITH
    Ids <- PaymentIds,
    operation <- htlc,
    HoldAmounts <- Costs

\* Payments meet what the protocol assumes of its constants.
LEMMA ProtocolAssumed ==
    /\ Proved!IsFiniteSet(PaymentIds)
    /\ Owner \in [PaymentIds -> Users]
    /\ Costs \subseteq Nat
    /\ CreditAmounts \subseteq Nat
    /\ InitialBalance \in [Users -> Nat]
    /\ MaxCredited \in Nat
<1>1. Proved!IsFiniteSet(PaymentIds)
  BY DEF IsFiniteSet, Proved!IsFiniteSet
<1>2. Amounts \subseteq Nat
  BY DEF Amounts, NoAmount
<1>3. ASSUME NEW c \in Costs PROVE c \in Nat
  <2>1. PICK a \in Amounts, fee \in Fees : c = a + fee
    BY DEF Costs
  <2> QED
    BY <1>2, <2>1
<1> QED
  BY <1>1, <1>3

\* What the theorems are about is the protocol that payments implement.
LEMMA SameProtocol == Protocol!Spec => Proved!Spec
<1>1. Protocol!Init => Proved!Init
  BY DEF Protocol!Init, Proved!Init, Protocol!NoReservation, Proved!NoReservation
<1>2. [Protocol!Next]_(Protocol!vars) => [Proved!Next]_(Proved!vars)
  BY DEF Protocol!Next, Proved!Next, Protocol!vars, Proved!vars,
     Protocol!CreditUser, Proved!CreditUser, Protocol!ReserveFunds, Proved!ReserveFunds,
     Protocol!Begin, Proved!Begin, Protocol!Decide, Proved!Decide,
     Protocol!DebitFunds, Proved!DebitFunds, Protocol!RefundFunds, Proved!RefundFunds,
     Protocol!CanFinish, Proved!CanFinish, Protocol!Debit, Proved!Debit,
     Protocol!Refund, Proved!Refund, Protocol!PendingReservation,
     Proved!PendingReservation
<1> QED
  BY <1>1, <1>2, PTL DEF Protocol!Spec, Proved!Spec

\* No interleaving of requests, conflicts, credits and lost tasks creates or
\* loses money, for any number of users and requests: payments only make the
\* moves of the protocol, and those conserve it (payment/mod.rs:35-40, 56-59).
THEOREM FundsConservedAlways == Spec => []FundsConserved
<1>1. Proved!Spec => []Proved!FundsConserved
  BY ProtocolAssumed, Proved!FundsConservedAlways, PTL
<1>2. Proved!FundsConserved => FundsConserved
  BY DEF Proved!FundsConserved, FundsConserved, Proved!Committed, Committed,
     Proved!CommittedAmount, CommittedAmount, Proved!OwnedBy, OwnedBy, Proved!SumOf, SumOf,
     Proved!MapThenSumSet, MapThenSumSet, Proved!MapThenFoldSet, MapThenFoldSet
<1> QED
  BY <1>1, <1>2, Refinement, SameProtocol, PTL DEF ImplementsProtocol

\* "Both of these operations are final" (balance/entities.rs:86-91): no retry
\* and no other request of a payment debits or refunds its reservation again.
THEOREM FinalityAlways == Spec => Proved!Finality
BY ProtocolAssumed, Proved!FinalityAlways, Refinement, SameProtocol, PTL
DEF ImplementsProtocol
===============================================================================
