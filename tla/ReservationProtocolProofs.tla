---------------------- MODULE ReservationProtocolProofs ----------------------
(***************************************************************************)
(* Proofs about ReservationProtocol, for any users, operations and         *)
(* amounts.                                                                *)
(***************************************************************************)
EXTENDS ReservationProtocol, SumsProofs, TLAPS

USE ProtocolAssumption

\* No step of the protocol takes a balance below zero (balance/entities.rs).
LEMMA NextTypeOK == TypeOK /\ [Next]_vars => TypeOK'
<1> SUFFICES ASSUME TypeOK, [Next]_vars PROVE TypeOK'
  OBVIOUS
<1>1. CASE UNCHANGED vars
  BY <1>1 DEF vars, TypeOK
<1>2. ASSUME NEW u \in Users, CreditUser(u) PROVE TypeOK'
  BY <1>2 DEF CreditUser, TypeOK
<1>3. ASSUME NEW id \in Ids, ReserveFunds(id) PROVE TypeOK'
  BY <1>3 DEF ReserveFunds, TypeOK, PendingReservation, Reservations, ReservationStatus
<1>4. ASSUME NEW id \in Ids, Begin(id) \/ Decide(id) PROVE TypeOK'
  BY <1>4 DEF Begin, Decide, TypeOK, OperationStatus
<1>5. ASSUME NEW id \in Ids, DebitFunds(id) PROVE TypeOK'
  BY <1>5 DEF DebitFunds, TypeOK, Debit, Reservations, ReservationStatus
<1>6. ASSUME NEW id \in Ids, RefundFunds(id) PROVE TypeOK'
  <2>1. Refund(reservation[id]) \in Reservations /\ reservation[id].amount \in Nat
    BY DEF TypeOK, Refund, Reservations, ReservationStatus
  <2> QED
    BY <1>6, <2>1 DEF RefundFunds, TypeOK
<1> QED
  BY <1>1, <1>2, <1>3, <1>4, <1>5, <1>6 DEF Next

\* No move of the protocol takes a balance below zero (entities.rs:71-75).
THEOREM TypeCorrect == Spec => []TypeOK
<1>1. Init => TypeOK
  BY DEF Init, TypeOK, NoReservation, Reservations, ReservationStatus, OperationStatus
<1> QED
  BY <1>1, NextTypeOK, PTL DEF Spec

\* An operation that is under way or took effect is always covered by funds
\* that were not given back.
THEOREM OperationsCoveredAlways == Spec => []OperationsCovered
<1>1. Init => OperationsCovered
  BY DEF Init, OperationsCovered, OperationCovered, NoReservation
<1>2. TypeOK /\ OperationsCovered /\ [Next]_vars => OperationsCovered'
  <2> SUFFICES ASSUME TypeOK, OperationsCovered, [Next]_vars,
                      NEW id \in Ids
               PROVE  OperationCovered(id)'
    BY DEF OperationsCovered
  <2>1. OperationCovered(id)
    BY DEF OperationsCovered
  <2>2. CASE UNCHANGED vars
    BY <2>1, <2>2 DEF vars, OperationCovered
  <2>3. ASSUME NEW u \in Users, CreditUser(u) PROVE OperationCovered(id)'
    BY <2>1, <2>3 DEF CreditUser, OperationCovered
  <2>4. ASSUME NEW other \in Ids, ReserveFunds(other) PROVE OperationCovered(id)'
    BY <2>1, <2>4 DEF ReserveFunds, PendingReservation, OperationCovered, TypeOK
  <2>5. ASSUME NEW other \in Ids, Begin(other) \/ Decide(other)
        PROVE  OperationCovered(id)'
    BY <2>1, <2>5 DEF Begin, Decide, CanFinish, OperationCovered, TypeOK
  <2>6. ASSUME NEW other \in Ids, DebitFunds(other) \/ RefundFunds(other)
        PROVE  OperationCovered(id)'
    <3>1. CASE other # id
      BY <2>1, <2>6, <3>1 DEF DebitFunds, RefundFunds, OperationCovered, TypeOK
    <3>2. CASE other = id
      BY <2>1, <2>6, <3>2 DEF DebitFunds, RefundFunds, Debit, Refund, OperationCovered,
         TypeOK, Reservations
    <3> QED
      BY <3>1, <3>2
  <2> QED
    BY <2>2, <2>3, <2>4, <2>5, <2>6 DEF Next
<1> QED
  BY <1>1, <1>2, TypeCorrect, PTL DEF Spec

\* "Both of these operations are final" (entities.rs:86-91), step by step.
THEOREM FinalityAlways == Spec => Finality
<1>1. TypeOK /\ [Next]_vars => [\A id \in Ids : FinalStep(id)]_vars
  <2> SUFFICES ASSUME TypeOK, Next, NEW id \in Ids PROVE FinalStep(id)
    OBVIOUS
  <2>1. ASSUME NEW u \in Users, CreditUser(u) PROVE FinalStep(id)
    BY <2>1 DEF CreditUser, FinalStep
  <2>2. ASSUME NEW other \in Ids, ReserveFunds(other) PROVE FinalStep(id)
    BY <2>2 DEF ReserveFunds, FinalStep, TypeOK
  <2>3. ASSUME NEW other \in Ids, Begin(other) \/ Decide(other) PROVE FinalStep(id)
    BY <2>3 DEF Begin, Decide, FinalStep
  <2>4. ASSUME NEW other \in Ids, DebitFunds(other) \/ RefundFunds(other)
        PROVE  FinalStep(id)
    BY <2>4 DEF DebitFunds, RefundFunds, CanFinish, Debit, Refund, FinalStep, TypeOK,
       Reservations
  <2> QED
    BY <2>1, <2>2, <2>3, <2>4 DEF Next
<1> QED
  BY <1>1, TypeCorrect, PTL DEF Spec, Finality

-------------------------------------------------------------------------------
(* Accounting *)

\* What a user has committed is an integer.
LEMMA CommittedIsInteger ==
    ASSUME TypeOK, NEW u \in Users
    PROVE  /\ IsFiniteSet(OwnedBy(u))
           /\ \A id \in Ids : CommittedAmount(id) \in Nat
           /\ Committed(u) \in Int
<1>1. IsFiniteSet(OwnedBy(u)) /\ OwnedBy(u) \subseteq Ids
  BY FS_Subset DEF OwnedBy
<1>2. \A id \in Ids : CommittedAmount(id) \in Nat
  BY DEF TypeOK, Reservations, CommittedAmount
<1> QED
  BY <1>1, <1>2, SumIsInteger DEF Committed

\* A reservation that changes moves what its owner has committed by as much,
\* and nothing of anybody else.
LEMMA CommittedMoves ==
    ASSUME TypeOK, TypeOK', NEW id \in Ids, NEW u \in Users,
           \A other \in Ids : other # id => reservation'[other] = reservation[other]
    PROVE  Committed(u)' =
             Committed(u) + (IF Owner[id] = u
                             THEN CommittedAmount(id)' - CommittedAmount(id) ELSE 0)
<1> DEFINE now == [i \in Ids |-> CommittedAmount(i)]
           next == [i \in Ids |-> CommittedAmount(i)']
<1>1. /\ IsFiniteSet(OwnedBy(u)) /\ OwnedBy(u) \subseteq Ids
      /\ \A i \in Ids : now[i] \in Int /\ next[i] \in Int
      /\ SumOf(now, OwnedBy(u)) \in Int
  BY CommittedIsInteger DEF TypeOK, Reservations, CommittedAmount, OwnedBy, Committed
<1>2. \A i \in Ids : i # id => next[i] = now[i]
  BY DEF CommittedAmount
<1>3. Committed(u) = SumOf(now, OwnedBy(u)) /\ Committed(u)' = SumOf(next, OwnedBy(u))
  BY DEF Committed, OwnedBy
<1>4. now[id] = CommittedAmount(id) /\ next[id] = CommittedAmount(id)'
  OBVIOUS
<1> HIDE DEF now, next
<1> DEFINE S == OwnedBy(u)
<1>5. /\ IsFiniteSet(S) /\ next[id] \in Int
      /\ \A i \in S : now[i] \in Int
      /\ \A i \in S : i # id => next[i] = now[i]
  BY <1>1, <1>2
<1>6. SumOf(next, S) = SumOf(now, S) + (IF id \in S THEN next[id] - now[id] ELSE 0)
  <2> HIDE DEF S
  <2> QED
    BY <1>5, SumOfOneChangeIf
<1>7. id \in S <=> Owner[id] = u
  BY DEF OwnedBy
<1> QED
  BY <1>3, <1>4, <1>6, <1>7

\* Reservations that stay as they are keep what everybody has committed.
LEMMA CommittedStays ==
    ASSUME UNCHANGED reservation, NEW u \in Users
    PROVE  Committed(u)' = Committed(u)
BY DEF Committed, CommittedAmount, OwnedBy

\* No step creates or loses money.
LEMMA NextConserves == TypeOK /\ FundsConserved /\ [Next]_vars => FundsConserved'
<1> SUFFICES ASSUME TypeOK, FundsConserved, [Next]_vars, NEW u \in Users
             PROVE  balance'[u] + Committed(u)' = InitialBalance[u] + credited'[u]
  BY DEF FundsConserved
<1>1. TypeOK'
  BY NextTypeOK
<1>2. /\ balance[u] + Committed(u) = InitialBalance[u] + credited[u]
      /\ balance[u] \in Nat /\ credited[u] \in Nat /\ InitialBalance[u] \in Nat
      /\ Committed(u) \in Int
  BY CommittedIsInteger DEF TypeOK, FundsConserved
<1>3. CASE UNCHANGED vars
  BY <1>2, <1>3, CommittedStays DEF vars
<1>4. ASSUME NEW v \in Users, CreditUser(v)
      PROVE  balance'[u] + Committed(u)' = InitialBalance[u] + credited'[u]
  <2>1. Committed(u)' = Committed(u)
    BY <1>4, CommittedStays DEF CreditUser
  <2>2. PICK a \in Nat : /\ balance' = [balance EXCEPT ![v] = @ + a]
                         /\ credited' = [credited EXCEPT ![v] = @ + a]
    BY <1>4 DEF CreditUser
  <2> QED
    BY <1>2, <2>1, <2>2 DEF TypeOK
<1>5. ASSUME NEW id \in Ids, ReserveFunds(id)
      PROVE  balance'[u] + Committed(u)' = InitialBalance[u] + credited'[u]
  <2>1. PICK a \in Nat : /\ balance' = [balance EXCEPT ![Owner[id]] = @ - a]
                         /\ reservation' = [reservation EXCEPT ![id] = PendingReservation(a)]
    BY <1>5 DEF ReserveFunds
  <2>2. CommittedAmount(id) = 0 /\ CommittedAmount(id)' = a
    BY <1>5, <2>1 DEF ReserveFunds, CommittedAmount, PendingReservation, TypeOK
  <2>3. Committed(u)' = Committed(u) + (IF Owner[id] = u THEN a ELSE 0)
    BY <1>1, <2>1, <2>2, CommittedMoves DEF TypeOK
  <2>4. balance'[u] = balance[u] - (IF Owner[id] = u THEN a ELSE 0)
    BY <1>2, <2>1 DEF TypeOK
  <2> QED
    BY <1>2, <1>5, <2>3, <2>4 DEF ReserveFunds
<1>6. ASSUME NEW id \in Ids, Begin(id) \/ Decide(id)
      PROVE  balance'[u] + Committed(u)' = InitialBalance[u] + credited'[u]
  BY <1>2, <1>6, CommittedStays DEF Begin, Decide
<1>7. ASSUME NEW id \in Ids, DebitFunds(id)
      PROVE  balance'[u] + Committed(u)' = InitialBalance[u] + credited'[u]
  <2>1. CommittedAmount(id)' = CommittedAmount(id) /\ CommittedAmount(id) \in Nat
    BY <1>7 DEF DebitFunds, CanFinish, Debit, CommittedAmount, TypeOK, Reservations
  <2>2. Committed(u)' = Committed(u) + (IF Owner[id] = u
                             THEN CommittedAmount(id)' - CommittedAmount(id) ELSE 0)
    BY <1>1, <1>7, CommittedMoves DEF DebitFunds, TypeOK
  <2> QED
    BY <1>2, <1>7, <2>1, <2>2 DEF DebitFunds
<1>8. ASSUME NEW id \in Ids, RefundFunds(id)
      PROVE  balance'[u] + Committed(u)' = InitialBalance[u] + credited'[u]
  <2> DEFINE a == reservation[id].amount
  <2>1. /\ a \in Nat
        /\ CommittedAmount(id) = a /\ CommittedAmount(id)' = 0
    BY <1>8 DEF RefundFunds, CanFinish, Refund, CommittedAmount, TypeOK, Reservations
  <2>2. Committed(u)' = Committed(u) + (IF Owner[id] = u
                             THEN CommittedAmount(id)' - CommittedAmount(id) ELSE 0)
    BY <1>1, <1>8, CommittedMoves DEF RefundFunds, TypeOK
  <2>3. balance'[u] = balance[u] + (IF Owner[id] = u THEN a ELSE 0)
    BY <1>2, <1>8, <2>1 DEF RefundFunds, TypeOK
  <2> QED
    BY <1>2, <1>8, <2>1, <2>2, <2>3 DEF RefundFunds
<1> QED
  BY <1>3, <1>4, <1>5, <1>6, <1>7, <1>8 DEF Next

\* No sequence of reservations, debits, refunds and credits creates or loses
\* money, for any number of users and operations (entities.rs:4, 71-120).
THEOREM FundsConservedAlways == Spec => []FundsConserved
<1>1. Init => FundsConserved
  <2> SUFFICES ASSUME Init, NEW u \in Users
               PROVE  balance[u] + Committed(u) = InitialBalance[u] + credited[u]
    BY DEF FundsConserved
  <2>1. \A id \in OwnedBy(u) : [i \in Ids |-> CommittedAmount(i)][id] = 0
    BY DEF Init, CommittedAmount, NoReservation, OwnedBy
  <2>2. IsFiniteSet(OwnedBy(u))
    BY FS_Subset DEF OwnedBy
  <2>3. Committed(u) = 0
    BY <2>1, <2>2, SumOfZeros DEF Committed
  <2> QED
    BY <2>3 DEF Init
<1> QED
  BY <1>1, NextConserves, TypeCorrect, PTL DEF Spec
===============================================================================
