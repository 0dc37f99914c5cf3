------------------------- MODULE BalanceUpdatesProofs -------------------------
(***************************************************************************)
(* Proofs about BalanceUpdates, for any number of clients, any deltas and  *)
(* any MAX_RETRIES.  The argument: a stale snapshot is paid for by another *)
(* client's success, so the number of runs a client needed never exceeds   *)
(* the number of the others that succeeded by more than one.               *)
(***************************************************************************)
EXTENDS BalanceUpdates, FiniteSetTheorems, TLAPS

USE UpdatesAssumption

\* The clients other than one that succeeded can be counted.
LEMMA OthersFinite ==
    ASSUME NEW c \in Clients
    PROVE  /\ IsFiniteSet(OthersThan(c))
           /\ Cardinality(OthersThan(c)) \in Nat
<1>1. OthersThan(c) \subseteq Clients
  BY DEF OthersThan, Succeeded
<1> QED
  BY <1>1, FS_Subset, FS_CardinalityType

\* A commit counts for every client but the one that commits.
LEMMA CommitCounts ==
    ASSUME TypeOK, NEW d \in Clients, Commit(d), NEW c \in Clients
    PROVE  Cardinality(OthersThan(c))' =
             IF c = d THEN Cardinality(OthersThan(c)) ELSE Cardinality(OthersThan(c)) + 1
<1>1. Succeeded' = Succeeded \cup {d} /\ d \notin Succeeded
  BY DEF Commit, Goto, Succeeded, TypeOK
<1>2. CASE c = d
  <2>1. OthersThan(c)' = OthersThan(c)
    BY <1>1, <1>2 DEF OthersThan
  <2> QED
    BY <1>2, <2>1
<1>3. CASE c # d
  <2>1. OthersThan(c)' = OthersThan(c) \cup {d} /\ d \notin OthersThan(c)
    BY <1>1, <1>3 DEF OthersThan
  <2>2. Cardinality(OthersThan(c) \cup {d}) = Cardinality(OthersThan(c)) + 1
    BY <2>1, OthersFinite, FS_AddElement
  <2> QED
    BY <1>3, <2>1, <2>2
<1> QED
  BY <1>2, <1>3

\* A step that is no commit changes nobody's count.
LEMMA NoCommitNoCount ==
    ASSUME TypeOK, NEW d \in Clients, Load(d) \/ Refuse(d) \/ Retry(d) \/ Exhaust(d)
    PROVE  Succeeded' = Succeeded /\ \A c \in Clients : OthersThan(c)' = OthersThan(c)
<1>1. Succeeded' = Succeeded
  BY DEF Load, Refuse, Retry, Exhaust, Conflicted, Goto, Succeeded, TypeOK
<1> QED
  BY <1>1 DEF OthersThan

\* What a compare-and-set that matched stores: the stored balance moved by the
\* client's delta, and never below zero.
LEMMA CommittedUpdate ==
    ASSUME TypeOK, MemoryOK, NEW c \in Clients, Commit(c)
    PROVE  balance' = balance + Delta[c] /\ balance' \in Nat
<1>1. /\ snapshot[c] \in BalanceSnapshot /\ snapshot[c].original = snapshot[c].amount
      /\ Delta[c] \in Int /\ balance \in Nat
  BY DEF TypeOK, MemoryOK, Changed
<1>2. CASE Delta[c] >= 0
  BY <1>1, <1>2 DEF Commit, Mutated, Credit, CanUpdate, Updated, Changed, BalanceSnapshot
<1>3. CASE Delta[c] < 0
  BY <1>1, <1>3 DEF Commit, Allowed, CanReserve, Mutated, ReserveFrom, CanUpdate, Updated,
     Changed, BalanceSnapshot
<1> QED
  BY <1>1, <1>2, <1>3

\* The invariant holds in the initial states.
LEMMA InitIInv == Init => IInv
<1> SUFFICES ASSUME Init PROVE IInv
  OBVIOUS
<1>1. TypeOK
  BY DEF Init, TypeOK, BalanceNew, BalanceSnapshot
<1>2. ConflictsArePaidFor
  BY OthersFinite DEF Init, ConflictsArePaidFor
<1>3. StaleIsPaidFor /\ MemoryOK /\ NoExhaustion
  BY DEF Init, StaleIsPaidFor, MemoryOK, NoExhaustion, BalanceNew, Changed
<1> QED
  BY <1>1, <1>2, <1>3 DEF IInv

\* Loading a balance preserves the invariant.
LEMMA LoadStep == ASSUME IInv, NEW d \in Clients, Load(d) PROVE IInv'
<1>1. TypeOK /\ ConflictsArePaidFor /\ StaleIsPaidFor /\ MemoryOK /\ NoExhaustion
  BY DEF IInv
<1>2. \A c \in Clients : Cardinality(OthersThan(c))' = Cardinality(OthersThan(c))
  BY <1>1, NoCommitNoCount
<1>3. BalanceNew(balance) \in BalanceSnapshot /\ ~Changed(BalanceNew(balance))
      /\ BalanceNew(balance).original = balance
  BY <1>1 DEF TypeOK, BalanceNew, BalanceSnapshot, Changed
<1>4. TypeOK'
  BY <1>1, <1>3 DEF Load, Goto, TypeOK, Returned
<1>5. ConflictsArePaidFor'
  BY <1>1, <1>2 DEF Load, ConflictsArePaidFor
<1>6. StaleIsPaidFor'
  BY <1>1, <1>2, <1>3 DEF Load, Goto, StaleIsPaidFor, TypeOK
<1>7. (MemoryOK /\ NoExhaustion)'
  BY <1>1, <1>2, <1>3 DEF Load, Goto, MemoryOK, NoExhaustion, TypeOK
<1> QED
  BY <1>4, <1>5, <1>6, <1>7 DEF IInv

\* A commit pays for the snapshots it makes stale.
LEMMA CommitStep == ASSUME IInv, NEW d \in Clients, Commit(d) PROVE IInv'
<1>1. TypeOK /\ ConflictsArePaidFor /\ StaleIsPaidFor /\ MemoryOK /\ NoExhaustion
  BY DEF IInv
<1>2. \A c \in Clients : Cardinality(OthersThan(c))' =
        IF c = d THEN Cardinality(OthersThan(c)) ELSE Cardinality(OthersThan(c)) + 1
  BY <1>1, CommitCounts
<1>3. \A c \in Clients : Cardinality(OthersThan(c)) \in Nat
  BY OthersFinite
<1>4. TypeOK'
  <2>1. balance' \in Nat
    BY <1>1, CommittedUpdate
  <2> QED
    BY <1>1, <2>1 DEF Commit, Goto, TypeOK, Returned
<1>5. ConflictsArePaidFor'
  BY <1>1, <1>2, <1>3 DEF Commit, ConflictsArePaidFor, TypeOK
<1>6. StaleIsPaidFor'
  BY <1>1, <1>2, <1>3 DEF Commit, Goto, ConflictsArePaidFor, StaleIsPaidFor, TypeOK
<1>7. (MemoryOK /\ NoExhaustion)'
  BY <1>1, <1>2, <1>3 DEF Commit, Goto, MemoryOK, NoExhaustion, TypeOK
<1> QED
  BY <1>4, <1>5, <1>6, <1>7 DEF IInv

\* A conflict means the snapshot is stale, and that has been paid for.
LEMMA ConflictIsStale ==
    ASSUME IInv, NEW d \in Clients, Conflicted(d)
    PROVE  attempt[d] <= Cardinality(OthersThan(d))
<1>1. snapshot[d].original # balance
  <2>1. Mutated(d).original = snapshot[d].original
    BY DEF IInv, TypeOK, Mutated, Credit, ReserveFrom, BalanceSnapshot
  <2> QED
    BY <2>1 DEF Conflicted, CanUpdate
<1> QED
  BY <1>1 DEF IInv, StaleIsPaidFor, Conflicted

\* A retry starts afresh and uses up one paid conflict.
LEMMA RetryStep == ASSUME IInv, NEW d \in Clients, Retry(d) PROVE IInv'
<1>1. TypeOK /\ ConflictsArePaidFor /\ StaleIsPaidFor /\ MemoryOK /\ NoExhaustion
  BY DEF IInv
<1>2. \A c \in Clients : Cardinality(OthersThan(c))' = Cardinality(OthersThan(c))
  BY <1>1, NoCommitNoCount
<1>3. attempt[d] <= Cardinality(OthersThan(d)) /\ Cardinality(OthersThan(d)) \in Nat
  BY ConflictIsStale, OthersFinite DEF Retry
<1>4. TypeOK'
  BY <1>1 DEF Retry, Goto, MayRetry, TypeOK
<1>5. ConflictsArePaidFor'
  BY <1>1, <1>2, <1>3 DEF Retry, ConflictsArePaidFor, TypeOK
<1>6. StaleIsPaidFor'
  BY <1>1, <1>2 DEF Retry, Goto, StaleIsPaidFor, TypeOK
<1>7. (MemoryOK /\ NoExhaustion)'
  BY <1>1, <1>2 DEF Retry, Goto, MemoryOK, NoExhaustion, TypeOK
<1> QED
  BY <1>4, <1>5, <1>6, <1>7 DEF IInv

\* Returning an error changes nothing but where the client is.
LEMMA ReturnStep ==
    ASSUME IInv, NEW d \in Clients, Refuse(d) \/ Exhaust(d) PROVE IInv'
<1>1. TypeOK /\ ConflictsArePaidFor /\ StaleIsPaidFor /\ MemoryOK /\ NoExhaustion
  BY DEF IInv
<1>2. \A c \in Clients : Cardinality(OthersThan(c))' = Cardinality(OthersThan(c))
  BY <1>1, NoCommitNoCount
<1>3. Exhaust(d) => MaxRetries <= Cardinality(OthersThan(d))
  BY <1>1, ConflictIsStale, OthersFinite DEF Exhaust, MayRetry, TypeOK
<1>4. TypeOK'
  BY <1>1 DEF Refuse, Exhaust, Goto, TypeOK, Returned
<1>5. ConflictsArePaidFor'
  BY <1>1, <1>2 DEF Refuse, Exhaust, ConflictsArePaidFor
<1>6. StaleIsPaidFor'
  BY <1>1, <1>2 DEF Refuse, Exhaust, Goto, StaleIsPaidFor, TypeOK
<1>7. (MemoryOK /\ NoExhaustion)'
  BY <1>1, <1>2, <1>3 DEF Refuse, Exhaust, Goto, MemoryOK, NoExhaustion, TypeOK
<1> QED
  BY <1>4, <1>5, <1>6, <1>7 DEF IInv

\* Every step preserves the invariant.
LEMMA NextIInv == IInv /\ [Next]_vars => IInv'
<1> SUFFICES ASSUME IInv, [Next]_vars PROVE IInv'
  OBVIOUS
<1>1. CASE UNCHANGED vars
  BY <1>1 DEF vars, IInv, TypeOK, ConflictsArePaidFor, StaleIsPaidFor, MemoryOK,
     NoExhaustion, OthersThan, Succeeded
<1>2. CASE Next
  BY <1>2, LoadStep, CommitStep, RetryStep, ReturnStep DEF Next
<1> QED
  BY <1>1, <1>2

\* A conflict is always paid for by another client's success.
THEOREM Invariance == Spec => []IInv
  BY InitIInv, NextIInv, PTL DEF Spec

\* Whoever is turned away was outrun by MAX_RETRIES others.
THEOREM NoExhaustionAlways == Spec => []NoExhaustion
<1>1. IInv => NoExhaustion
  BY DEF IInv
<1> QED
  BY <1>1, Invariance, PTL

\* No more than MAX_RETRIES contending tasks: nobody is turned away.
THEOREM NobodyIsTurnedAway ==
    ASSUME Cardinality(Clients) <= MaxRetries
    PROVE  Spec => [](\A c \in Clients : pc[c] # "conflict")
<1>1. IInv => \A c \in Clients : pc[c] # "conflict"
  <2> SUFFICES ASSUME IInv, NEW c \in Clients, pc[c] = "conflict" PROVE FALSE
    OBVIOUS
  <2>1. MaxRetries <= Cardinality(OthersThan(c))
    BY DEF IInv, NoExhaustion
  <2>2. OthersThan(c) \subseteq Clients \ {c}
    BY DEF OthersThan, Succeeded
  <2>3. IsFiniteSet(Clients \ {c}) /\ Cardinality(Clients \ {c}) = Cardinality(Clients) - 1
    BY FS_RemoveElement
  <2>4. Cardinality(OthersThan(c)) <= Cardinality(Clients \ {c})
    BY <2>2, <2>3, FS_Subset
  <2>5. Cardinality(Clients) \in Nat /\ Cardinality(OthersThan(c)) \in Nat
    BY FS_CardinalityType, OthersFinite
  <2> QED
    BY <2>1, <2>3, <2>4, <2>5
<1> QED
  BY <1>1, Invariance, PTL

\* Optimistic updates with retries are atomic updates, whatever interleaves.
THEOREM Refinement == Spec => ImplementsAtomic
<1>1. Init => Atomic!Init
  BY DEF Init, Atomic!Init, Succeeded
<1>2. IInv /\ [Next]_vars => [Atomic!Next]_(Atomic!vars)
  <2> SUFFICES ASSUME IInv, [Next]_vars PROVE [Atomic!Next]_(Atomic!vars)
    OBVIOUS
  <2>1. CASE UNCHANGED vars
    BY <2>1 DEF vars, Atomic!vars, Succeeded
  <2>2. ASSUME NEW d \in Clients, Load(d) \/ Refuse(d) \/ Retry(d) \/ Exhaust(d)
        PROVE  UNCHANGED Atomic!vars
    BY <2>2, NoCommitNoCount DEF IInv, Load, Refuse, Retry, Exhaust, Atomic!vars
  <2>3. ASSUME NEW d \in Clients, Commit(d) PROVE Atomic!Apply(d)
    <3>1. Succeeded' = Succeeded \cup {d} /\ d \notin Succeeded
      BY <2>3 DEF IInv, TypeOK, Commit, Goto, Succeeded
    <3>2. balance' = balance + Delta[d] /\ balance' \in Nat
      BY <2>3, CommittedUpdate DEF IInv
    <3> QED
      BY <3>1, <3>2 DEF Atomic!Apply
  <2> QED
    BY <2>1, <2>2, <2>3 DEF Next, Atomic!Next
<1> QED
  BY <1>1, <1>2, Invariance, PTL DEF Spec, ImplementsAtomic, Atomic!Spec
===============================================================================
