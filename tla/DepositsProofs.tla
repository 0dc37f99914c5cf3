----------------------------- MODULE DepositsProofs -----------------------------
(***************************************************************************)
(* Proofs about Deposits, for any users, outputs, amounts, ranges, faults  *)
(* and any number of instances.  The argument is the inductive invariant   *)
(* IInv: a batch has every output between the tip and its highest block,   *)
(* and what a listener has gone through of it is credited, so the tip      *)
(* never moves past a deposit that is not.                                 *)
(***************************************************************************)
EXTENDS Deposits, SumsProofs

USE ChainAssumption, DepositsAssumption DEF Absent, Unconfirmed, Mined, Ours

-------------------------------------------------------------------------------
(* One instance moves *)

\* What the invariant says of one listener, and of nobody else's.
LocalOK(w) ==
    /\ \A o \in Outputs : batch[w][o] \in {Absent, Unconfirmed, chain[o]}
    /\ BatchOK(w) /\ BatchComplete(w) /\ HandlerOK(w) /\ BatchCredited(w)
    /\ \A o \in Uncredited :
         phase[w] # "down" /\ chain[o] < tip[w] => o \in skipped[w]

\* A step of one instance leaves the memory of the others alone.
OthersKeep(w) ==
    \A v \in Instances \ {w} :
        /\ phase'[v] = phase[v] /\ tip'[v] = tip[v] /\ batch'[v] = batch[v]
        /\ todo'[v] = todo[v] /\ current'[v] = current[v] /\ step'[v] = step[v]
        /\ entity'[v] = entity[v] /\ snapshot'[v] = snapshot[v]
        /\ skipped'[v] = skipped[v]

\* A deposit only goes forward, never under a handler that has started it, and
\* under one that has read it as unconfirmed only as raced.
DepositsKeep(w) ==
    /\ raced \subseteq raced'
    /\ \A v \in Instances \ {w} :
        entity[v] = "unconfirmed" /\ deposit[current[v]] = "unconfirmed"
            => deposit'[current[v]] = "unconfirmed" \/ current[v] \in raced'
    /\ \A o \in Outputs :
        /\ deposit[o] # "none" => deposit'[o] # "none"
        /\ deposit[o] = "confirmed" => deposit'[o] = "confirmed"
        /\ deposit'[o] # deposit[o] => ~Locked(o, w)

\* The invariant, listener by listener.
LEMMA Locally ==
    IInv <=> /\ TypeOK
             /\ StartHeight <= top + 1
             /\ \A o \in Outputs :
                  chain[o] <= top /\ stored[o] \in {Absent, Unconfirmed, chain[o]}
             /\ RowsOK
             /\ \A w \in Instances : LocalOK(w)
BY DEF IInv, ChainOK, NothingPassedBy, LocalOK

\* It is enough to look at the instance that moved.
LEMMA MovedInstance ==
    ASSUME IInv, NEW w \in Instances, TypeOK', RowsOK', LocalOK(w)',
           UNCHANGED <<chain, top>>, OthersKeep(w), DepositsKeep(w),
           \A o \in Outputs : stored'[o] \in {stored[o], Unconfirmed, chain[o]},
           addresses \subseteq addresses'
    PROVE  IInv'
<1>0. /\ TypeOK /\ StartHeight <= top + 1 /\ RowsOK /\ \A v \in Instances : LocalOK(v)
      /\ \A o \in Outputs : chain[o] <= top /\ stored[o] \in {Absent, Unconfirmed, chain[o]}
  BY Locally
<1>1. ASSUME NEW v \in Instances, v # w PROVE LocalOK(v)'
  <2>0. LocalOK(v)
    BY <1>0
  <2>1. /\ phase'[v] = phase[v] /\ tip'[v] = tip[v] /\ batch'[v] = batch[v]
        /\ todo'[v] = todo[v] /\ current'[v] = current[v] /\ step'[v] = step[v]
        /\ entity'[v] = entity[v] /\ snapshot'[v] = snapshot[v]
        /\ skipped'[v] = skipped[v]
    BY <1>1 DEF OthersKeep
  <2>2. BatchOK(v)' /\ BatchComplete(v)'
    BY <2>0, <2>1 DEF LocalOK, BatchOK, BatchComplete, NoBatch
  <2>3. current[v] \in Outputs \cup {NoOutput} /\ (step[v] = "none" <=> current[v] = NoOutput)
    BY <1>0, <2>0 DEF TypeOK, ChainTypeOK, LocalOK, HandlerOK
  <2>4. entity[v] # "none" => current[v] \in Outputs
    BY <2>0, <2>3 DEF LocalOK, HandlerOK
  <2>5. entity[v] = "started" =>
          deposit'[current[v]] = "none" /\ ~Locked(current[v], v)'
    <3>1. SUFFICES ASSUME entity[v] = "started" PROVE deposit'[current[v]] = "none" /\ ~Locked(current[v], v)'
      OBVIOUS
    <3>2. current[v] \in Outputs /\ deposit[current[v]] = "none" /\ ~Locked(current[v], v)
      BY <2>0, <2>4, <3>1 DEF LocalOK, HandlerOK
    <3>3. Locked(current[v], w)
      BY <1>1, <3>1 DEF Locked
    <3>4. deposit'[current[v]] = "none"
      BY <3>2, <3>3 DEF DepositsKeep
    <3>5. ~(entity'[w] = "started" /\ current'[w] = current'[v])
      BY <1>1, <2>1, <3>1 DEF LocalOK, HandlerOK, Locked
    <3>6. \A z \in Instances \ {v} : ~(entity'[z] = "started" /\ current'[z] = current[v])
      BY <2>1, <3>2, <3>5 DEF Locked, OthersKeep
    <3> QED
      BY <2>1, <3>4, <3>6 DEF Locked
  <2>6. HandlerOK(v)'
    BY <2>0, <2>1, <2>3, <2>4, <2>5 DEF LocalOK, HandlerOK, DepositsKeep
  <2>7. BatchCredited(v)'
    BY <2>0, <2>1 DEF LocalOK, BatchCredited, DepositsKeep
  <2>8. Uncredited' \subseteq Uncredited
    BY DEF Uncredited, DepositsKeep
  <2> QED
    BY <2>0, <2>1, <2>2, <2>6, <2>7, <2>8 DEF LocalOK
<1>2. (StartHeight <= top + 1)'
      /\ \A o \in Outputs : chain'[o] <= top' /\ stored'[o] \in {Absent, Unconfirmed, chain'[o]}
  BY <1>0
<1>3. \A v \in Instances : LocalOK(v)'
  BY <1>1
<1> QED
  BY <1>2, <1>3 DEF IInv, ChainOK, NothingPassedBy, LocalOK

-------------------------------------------------------------------------------
(* The listener *)

\* What stays when a listener turns a page: the handler is idle then.
LEMMA IdleFacts ==
    ASSUME IInv, NEW w \in Instances, current[w] = NoOutput
    PROVE  /\ TypeOK /\ RowsOK /\ LocalOK(w)
           /\ step[w] = "none" /\ entity[w] = "none" /\ ~Changed(snapshot[w])
<1>1. TypeOK /\ RowsOK /\ LocalOK(w)
  BY Locally
<1> QED
  BY <1>1 DEF LocalOK, HandlerOK

\* Outside a batch there is nothing left of one.
LEMMA NoBatchFacts ==
    ASSUME IInv, NEW w \in Instances, phase[w] # "batch"
    PROVE  batch[w] = NoBatch /\ todo[w] = {} /\ current[w] = NoOutput
<1>1. TypeOK /\ BatchOK(w)
  BY DEF IInv
<1>2. batch[w] = NoBatch /\ \A o \in Outputs : batch[w][o] = Absent
  BY <1>1 DEF BatchOK, NoBatch
<1>3. todo[w] \subseteq Outputs /\ current[w] \in Outputs \cup {NoOutput}
  BY <1>1 DEF TypeOK, ChainTypeOK
<1> QED
  BY <1>1, <1>2, <1>3 DEF BatchOK

\* Neither a row nor an address changes.
RowsKeep == UNCHANGED <<chain, top, stored, addresses, deposit, raced>>

\* A step that touches no row keeps what the invariant says of the rows.
LEMMA KeptRows ==
    ASSUME IInv, NEW w \in Instances, RowsKeep
    PROVE  RowsOK' /\ DepositsKeep(w) /\ (addresses \subseteq addresses')
           /\ \A o \in Outputs : stored'[o] \in {stored[o], Unconfirmed, chain[o]}
BY DEF IInv, RowsKeep, RowsOK, DepositsKeep

\* An answer holds every output between the tip and its highest block
\* (ln/node.rs:84).
LEMMA ReceiveStep ==
    ASSUME IInv, NEW w \in Instances, AskRange(w) \/ AskAll(w),
           UNCHANGED <<balance, rows, handling, others, updates, history>>
    PROVE  IInv'
<1>1. /\ phase[w] \in {"ask", "askAll"}
      /\ UNCHANGED <<wallet, stored, tip, current, faults>>
  BY DEF AskRange, AskAll
<1>2. PICK heights \in {tip[w] .. EndHeight(w), (tip[w] .. top) \cup {Unconfirmed}} :
        Receive(w, heights)
  BY DEF AskRange, AskAll
<1>3. EndHeight(w) \in Int /\ top \in Nat
  BY DEF IInv, TypeOK, ChainTypeOK, EndHeight
<1>4. current[w] = NoOutput
  BY <1>1, NoBatchFacts
<1>5. TypeOK /\ RowsOK /\ LocalOK(w) /\ step[w] = "none" /\ entity[w] = "none"
  BY <1>4, IdleFacts
<1> USE DEF wallet, rows, handling, history
<1>6. /\ batch' = [batch EXCEPT ![w] =
                     [o \in Outputs |-> IF chain[o] \in heights THEN chain[o] ELSE Absent]]
      /\ todo' = [todo EXCEPT ![w] = {o \in Outputs : chain[o] \in heights}]
      /\ phase' = [phase EXCEPT ![w] = "batch"]
  BY <1>2 DEF Receive
<1>7. Absent \notin heights
  BY <1>2, <1>3, <1>5 DEF LocalOK, BatchComplete
<1>8. /\ batch'[w] = [o \in Outputs |-> IF chain[o] \in heights THEN chain[o] ELSE Absent]
      /\ todo'[w] = {o \in Outputs : chain[o] \in heights}
      /\ phase'[w] = "batch"
  BY <1>5, <1>6 DEF TypeOK, ChainTypeOK
<1>9. TypeOK'
  <2>1. [o \in Outputs |-> IF chain[o] \in heights THEN chain[o] ELSE Absent] \in [Outputs -> Heights]
    BY <1>5 DEF TypeOK, ChainTypeOK, Heights
  <2>2. batch' \in [Instances -> [Outputs -> Heights]]
    BY <1>5, <1>6, <2>1 DEF TypeOK, ChainTypeOK
  <2>3. todo' \in [Instances -> SUBSET Outputs]
    BY <1>5, <1>6 DEF TypeOK, ChainTypeOK
  <2>4. phase' \in [Instances -> {"down", "ask", "askAll", "batch"}]
    BY <1>5, <1>6 DEF TypeOK, ChainTypeOK
  <2> QED
    BY <1>1, <1>5, <2>2, <2>3, <2>4 DEF TypeOK, ChainTypeOK
<1>10. LocalOK(w)'
  <2>1. BatchOK(w)'
    BY <1>1, <1>4, <1>7, <1>8 DEF BatchOK
  <2>2. BatchComplete(w)'
    <3>1. tip[w] \in 1 .. top + 1 /\ tip[w] \in Nat /\ top \in Nat
      BY <1>5 DEF LocalOK, BatchComplete, TypeOK, ChainTypeOK
    <3>2. \A o \in Outputs : chain[o] <= top /\ chain[o] \in Int
      BY <1>5 DEF IInv, ChainOK, TypeOK, ChainTypeOK, Heights
    <3>3. ASSUME NEW o \in Outputs, NEW p \in Outputs,
                 tip[w] <= chain[o], chain[o] <= batch'[w][p]
          PROVE  batch'[w][o] = chain[o]
      <4>1. chain[p] \in heights /\ batch'[w][p] = chain[p]
        BY <1>8, <3>1, <3>2, <3>3
      <4>2. chain[o] \in heights
        BY <1>2, <1>3, <3>1, <3>2, <3>3, <4>1
      <4> QED
        BY <1>8, <4>2
    <3> QED
      BY <1>1, <3>1, <3>3 DEF BatchComplete
  <2>3. HandlerOK(w)' /\ \A o \in Outputs : batch'[w][o] \in {Absent, Unconfirmed, chain'[o]}
    BY <1>1, <1>4, <1>5, <1>8 DEF LocalOK, HandlerOK
  <2>4. BatchCredited(w)'
    BY <1>8 DEF BatchCredited
  <2>5. \A o \in Uncredited' :
          phase'[w] # "down" /\ chain'[o] < tip'[w] => o \in skipped'[w]
    BY <1>1, <1>5 DEF LocalOK, Uncredited
  <2> QED
    BY <2>1, <2>2, <2>3, <2>4, <2>5 DEF LocalOK
<1>11. RowsKeep /\ OthersKeep(w)
  BY <1>1, <1>5, <1>6 DEF RowsKeep, OthersKeep, TypeOK, ChainTypeOK
<1> QED
  BY <1>9, <1>10, <1>11, KeptRows, MovedInstance DEF RowsKeep

\* A first answer that is dropped leaves the tip where it was (ln/node.rs:84).
LEMMA AskedTooFarStep ==
    ASSUME IInv, NEW w \in Instances, AskedTooFar(w),
           UNCHANGED <<balance, rows, handling, others, updates, history>>
    PROVE  IInv'
<1>1. TypeOK /\ LocalOK(w)
  BY Locally
<1> USE DEF AskedTooFar, wallet, rows, handling, history
<1>2. TypeOK'
  BY <1>1 DEF TypeOK, ChainTypeOK
<1>3. phase'[w] = "askAll"
  BY <1>1 DEF TypeOK, ChainTypeOK
<1>4. BatchOK(w)' /\ BatchComplete(w)' /\ BatchCredited(w)'
  BY <1>1, <1>3 DEF LocalOK, BatchOK, NoBatch, BatchComplete, BatchCredited
<1>5. HandlerOK(w)'
  BY <1>1 DEF LocalOK, HandlerOK, Locked
<1>6. LocalOK(w)'
  BY <1>1, <1>3, <1>4, <1>5 DEF LocalOK, Uncredited
<1>7. RowsKeep /\ OthersKeep(w)
  BY <1>1 DEF RowsKeep, OthersKeep, TypeOK, ChainTypeOK
<1> QED
  BY <1>2, <1>6, <1>7, KeptRows, MovedInstance DEF RowsKeep

\* The tip moves past the highest block of a batch that is credited.
LEMMA EndBatchStep ==
    ASSUME IInv, NEW w \in Instances, EndBatch(w),
           UNCHANGED <<balance, rows, handling, others, updates, history>>
    PROVE  IInv'
<1>1. /\ phase[w] = "batch" /\ todo[w] = {} /\ current[w] = NoOutput
      /\ phase' = [phase EXCEPT ![w] = "ask"]
      /\ batch' = [batch EXCEPT ![w] = NoBatch]
      /\ UNCHANGED <<wallet, stored, todo, current, faults>>
  BY DEF EndBatch
<1>2. TypeOK /\ RowsOK /\ LocalOK(w) /\ step[w] = "none" /\ entity[w] = "none"
  BY <1>1, IdleFacts
<1>3. /\ \A o \in Outputs : batch[w][o] \in {Absent, Unconfirmed, chain[o]}
      /\ \A o \in Outputs : chain[o] <= top /\ chain[o] \in Int
      /\ top \in Nat /\ tip[w] \in 1 .. top + 1 /\ tip \in [Instances -> Nat]
  BY <1>2 DEF LocalOK, BatchComplete, IInv, ChainOK, TypeOK, ChainTypeOK, Heights
<1>4. \/ tip' = tip
      \/ \E p \in Outputs : /\ batch[w][p] \notin {Absent, Unconfirmed}
                            /\ \A o \in Outputs : batch[w][o] <= batch[w][p]
                            /\ tip' = [tip EXCEPT ![w] = batch[w][p] + 1]
  <2>1. ASSUME NEW h \in BatchHeights(w), IsHighest(h, BatchHeights(w)),
               tip' = [tip EXCEPT ![w] = h + 1]
        PROVE  \E p \in Outputs : /\ batch[w][p] \notin {Absent, Unconfirmed}
                                  /\ \A o \in Outputs : batch[w][o] <= batch[w][p]
                                  /\ tip' = [tip EXCEPT ![w] = batch[w][p] + 1]
    <3>1. PICK p \in Outputs : batch[w][p] = h /\ h \notin {Absent, Unconfirmed}
      BY <2>1 DEF BatchHeights
    <3>2. h \in Int /\ h > Unconfirmed
      BY <1>2, <3>1 DEF TypeOK, ChainTypeOK, Heights
    <3>3. ASSUME NEW o \in Outputs PROVE batch[w][o] <= h
      BY <2>1, <3>2 DEF IsHighest, BatchHeights
    <3> QED
      BY <2>1, <3>1, <3>3
  <2> QED
    BY <2>1 DEF EndBatch
<1> USE DEF wallet, rows, handling, history
<1>5. phase'[w] = "ask" /\ batch'[w] = NoBatch /\ \A o \in Outputs : batch'[w][o] = Absent
  BY <1>1, <1>2 DEF TypeOK, ChainTypeOK, NoBatch
<1>6. /\ tip' \in [Instances -> Nat] /\ tip'[w] \in 1 .. top + 1
      /\ \A v \in Instances \ {w} : tip'[v] = tip[v]
  <2>1. CASE tip' = tip
    BY <1>3, <2>1
  <2>2. ASSUME NEW p \in Outputs, batch[w][p] \notin {Absent, Unconfirmed},
               tip' = [tip EXCEPT ![w] = batch[w][p] + 1]
        PROVE  /\ tip' \in [Instances -> Nat] /\ tip'[w] \in 1 .. top + 1
               /\ \A v \in Instances \ {w} : tip'[v] = tip[v]
    <3>1. batch[w][p] \in Nat /\ batch[w][p] <= top
      BY <1>2, <1>3, <2>2 DEF TypeOK, ChainTypeOK, Heights
    <3> QED
      BY <1>3, <2>2, <3>1
  <2> QED
    BY <1>4, <2>1, <2>2
\* A deposit the tip passes now was in the batch.
<1>7. ASSUME NEW o \in Uncredited, chain[o] < tip'[w] PROVE o \in skipped[w]
  <2>0. o \in Outputs /\ chain[o] > Unconfirmed /\ deposit[o] # "confirmed" /\ PaysTo[o] \in Users
    BY DEF Uncredited
  <2>1. CASE chain[o] < tip[w]
    BY <1>1, <1>2, <2>1 DEF LocalOK
  <2>2. CASE ~(chain[o] < tip[w])
    <3>1. PICK p \in Outputs : /\ batch[w][p] \notin {Absent, Unconfirmed}
                               /\ tip' = [tip EXCEPT ![w] = batch[w][p] + 1]
      BY <1>4, <1>7, <2>2
    <3>2. chain[o] <= batch[w][p] /\ tip[w] <= chain[o]
      BY <1>3, <1>7, <2>0, <2>2, <3>1
    <3>3. batch[w][o] = chain[o]
      BY <1>2, <2>0, <3>2 DEF LocalOK, BatchComplete
    <3>4. deposit[o] = "confirmed"
      BY <1>1, <1>2, <2>0, <3>3 DEF LocalOK, BatchCredited
    <3> QED
      BY <2>0, <3>4
  <2> QED
    BY <2>1, <2>2
<1>8. TypeOK'
  <2>1. batch' \in [Instances -> [Outputs -> Heights]]
    BY <1>1, <1>2 DEF TypeOK, ChainTypeOK, NoBatch, Heights
  <2>2. phase' \in [Instances -> {"down", "ask", "askAll", "batch"}]
    BY <1>1, <1>2 DEF TypeOK, ChainTypeOK
  <2> QED
    BY <1>1, <1>2, <1>6, <2>1, <2>2 DEF TypeOK, ChainTypeOK
<1>9. LocalOK(w)'
  <2>1. BatchOK(w)' /\ BatchCredited(w)'
    BY <1>1, <1>5 DEF BatchOK, BatchCredited, NoBatch
  <2>2. BatchComplete(w)'
    BY <1>1, <1>3, <1>5, <1>6 DEF BatchComplete
  <2>3. HandlerOK(w)'
    BY <1>1, <1>2 DEF LocalOK, HandlerOK
  <2>4. \A o \in Uncredited' :
          phase'[w] # "down" /\ chain'[o] < tip'[w] => o \in skipped'[w]
    BY <1>1, <1>7 DEF Uncredited
  <2> QED
    BY <1>5, <2>1, <2>2, <2>3, <2>4 DEF LocalOK
<1>10. RowsKeep /\ OthersKeep(w)
  BY <1>1, <1>2, <1>6 DEF RowsKeep, OthersKeep, TypeOK, ChainTypeOK
<1> QED
  BY <1>8, <1>9, <1>10, KeptRows, MovedInstance DEF RowsKeep

-------------------------------------------------------------------------------
(* process() *)

\* A handler moves neither the tip nor the batch.
LEMMA HandlerLocal ==
    ASSUME IInv, NEW w \in Instances, UNCHANGED <<chain, top, phase, tip, batch, skipped>>,
           DepositsKeep(w), BatchOK(w)', HandlerOK(w)', BatchCredited(w)'
    PROVE  LocalOK(w)'
<1>1. LocalOK(w)
  BY Locally
<1>2. Uncredited' \subseteq Uncredited
  BY DEF Uncredited, DepositsKeep
<1> QED
  BY <1>1, <1>2 DEF LocalOK, BatchComplete

\* An output that is taken up is the handler's until it returns (chain.rs:50).
LEMMA ProcessStep ==
    ASSUME IInv, NEW w \in Instances, NEW o \in Outputs, Process(w, o)
    PROVE  IInv'
<1>1. /\ current[w] = NoOutput /\ o \in todo[w]
      /\ current' = [current EXCEPT ![w] = o]
      /\ todo' = [todo EXCEPT ![w] = @ \ {o}]
      /\ step' = [step EXCEPT ![w] = "begin"]
      /\ UNCHANGED <<wallet, stored, phase, tip, batch, faults>>
      /\ UNCHANGED <<balance, rows, attempt, entity, snapshot, others, updates, history>>
  BY DEF Process, Deliver, Goto
<1>2. TypeOK /\ LocalOK(w) /\ step[w] = "none" /\ entity[w] = "none" /\ ~Changed(snapshot[w])
  BY <1>1, IdleFacts
<1> USE DEF wallet, rows, history
<1>3. current'[w] = o /\ todo'[w] = todo[w] \ {o} /\ step'[w] = "begin"
  BY <1>1, <1>2 DEF TypeOK, ChainTypeOK
<1>4. TypeOK'
  BY <1>1, <1>2 DEF TypeOK, ChainTypeOK
<1>5. BatchOK(w)' /\ HandlerOK(w)' /\ BatchCredited(w)'
  <2>1. BatchOK(w)'
    BY <1>1, <1>2, <1>3 DEF LocalOK, BatchOK, NoBatch
  <2>2. HandlerOK(w)'
    BY <1>1, <1>2, <1>3 DEF HandlerOK
  <2>3. BatchCredited(w)'
    BY <1>1, <1>2, <1>3 DEF LocalOK, BatchCredited
  <2> QED
    BY <2>1, <2>2, <2>3
<1>6. RowsKeep /\ OthersKeep(w)
  BY <1>1, <1>2 DEF RowsKeep, OthersKeep, TypeOK, ChainTypeOK
<1> QED
  BY <1>1, <1>4, <1>5, <1>6, HandlerLocal, KeptRows, MovedInstance DEF RowsKeep

\* A handler that is at work, on an output of its batch.
LEMMA BusyFacts ==
    ASSUME IInv, NEW w \in Instances, step[w] # "none"
    PROVE  /\ TypeOK /\ RowsOK /\ LocalOK(w) /\ HandlerOK(w) /\ BatchOK(w) /\ BatchCredited(w)
           /\ current[w] \in Outputs /\ phase[w] = "batch"
           /\ batch[w][current[w]] \in {Unconfirmed, chain[current[w]]}
           /\ batch[w][current[w]] \in Int
<1>1. TypeOK /\ RowsOK /\ LocalOK(w)
  BY Locally
<1>2. current[w] \in Outputs
  BY <1>1 DEF LocalOK, HandlerOK, TypeOK, ChainTypeOK
<1>3. batch[w][current[w]] # Absent /\ phase[w] = "batch"
  BY <1>1, <1>2 DEF LocalOK, BatchOK, NoBatch
<1> QED
  BY <1>1, <1>2, <1>3 DEF LocalOK, TypeOK, ChainTypeOK, Heights

\* A handler that goes on with its output and touches no row.
LEMMA WorksOn ==
    ASSUME IInv, NEW w \in Instances, step[w] # "none",
           TypeOK', HandlerOK(w)',
           UNCHANGED <<chainVars, rows, history>>,
           \A v \in Instances \ {w} :
               step'[v] = step[v] /\ entity'[v] = entity[v] /\ snapshot'[v] = snapshot[v]
    PROVE  IInv'
<1> USE DEF chainVars, rows, history
<1>1. BatchOK(w) /\ BatchCredited(w)
  BY BusyFacts
<1>2. BatchOK(w)' /\ BatchCredited(w)'
  BY <1>1 DEF BatchOK, BatchCredited
<1>3. RowsKeep /\ OthersKeep(w)
  BY DEF RowsKeep, OthersKeep
<1> QED
  BY <1>2, <1>3, HandlerLocal, KeptRows, MovedInstance DEF RowsKeep

\* What a handler has loaded is true when it loads it (deposit/mod.rs:91).
LEMMA LoadStep ==
    ASSUME IInv, NEW w \in Instances, Load(w)
    PROVE  IInv'
<1>1. /\ step[w] = "begin"
      /\ step' = [step EXCEPT ![w] = "loaded"]
      /\ entity' = [entity EXCEPT ![w] = deposit[current[w]]]
      /\ UNCHANGED <<chainVars, balance, rows, attempt, snapshot, others, updates, history>>
  BY DEF Load, Goto
<1>2. TypeOK /\ HandlerOK(w) /\ current[w] \in Outputs
  BY <1>1, BusyFacts
<1> USE DEF chainVars, rows, history
<1>3. deposit[current[w]] \in {"none", "unconfirmed", "confirmed"}
  BY <1>2 DEF TypeOK
<1>4. TypeOK'
  BY <1>1, <1>2, <1>3 DEF TypeOK, ChainTypeOK
<1>5. step'[w] = "loaded" /\ entity'[w] = deposit[current[w]]
  BY <1>1, <1>2 DEF TypeOK
<1>6. HandlerOK(w)'
  BY <1>1, <1>2, <1>3, <1>5 DEF HandlerOK
<1>7. \A v \in Instances \ {w} :
        step'[v] = step[v] /\ entity'[v] = entity[v] /\ snapshot'[v] = snapshot[v]
  BY <1>1, <1>2 DEF TypeOK
<1> QED
  BY <1>1, <1>4, <1>6, <1>7, WorksOn

\* One handler at a time has an output inserted and not committed
\* (deposit/mod.rs:105).
LEMMA StartDepositStep ==
    ASSUME IInv, NEW w \in Instances, StartDeposit(w)
    PROVE  IInv'
<1>1. /\ step[w] = "loaded" /\ entity[w] = "none"
      /\ PaysTo[current[w]] \in addresses /\ deposit[current[w]] = "none"
      /\ ~Locked(current[w], w)
      /\ entity' = [entity EXCEPT ![w] = "started"]
      /\ UNCHANGED <<chainVars, balance, rows, step, attempt, snapshot, others, updates,
                     history>>
  BY DEF StartDeposit, Starts
<1>2. TypeOK /\ HandlerOK(w) /\ current[w] \in Outputs
  BY <1>1, BusyFacts
<1> USE DEF chainVars, rows, history
<1>3. TypeOK'
  BY <1>1, <1>2 DEF TypeOK, ChainTypeOK
<1>4. entity'[w] = "started" /\ \A v \in Instances \ {w} : entity'[v] = entity[v]
  BY <1>1, <1>2 DEF TypeOK
<1>5. ~Locked(current[w], w)'
  BY <1>1, <1>4 DEF Locked
<1>6. HandlerOK(w)'
  BY <1>1, <1>2, <1>4, <1>5 DEF HandlerOK
<1> QED
  BY <1>1, <1>3, <1>4, <1>6, WorksOn

\* A handler credits what it loaded, by the amount of its output
\* (deposit/mod.rs:69-70).
LEMMA ConfirmStep ==
    ASSUME IInv, NEW w \in Instances, Confirm(w)
    PROVE  IInv'
<1> DEFINE o == current[w]
           snap == Credit(BalanceNew(balance[PaysTo[o]]), Amount[o])
<1>1. /\ step[w] = "loaded" /\ entity[w] \in {"started", "unconfirmed"}
      /\ batch[w][o] > Unconfirmed
      /\ step' = [step EXCEPT ![w] = "credit"]
      /\ snapshot' = [snapshot EXCEPT ![w] = snap]
      /\ UNCHANGED <<chainVars, balance, rows, attempt, entity, others, updates, history>>
  BY DEF Confirm, NeedsConfirm, Goto
<1>2. TypeOK /\ RowsOK /\ HandlerOK(w) /\ LocalOK(w) /\ o \in Outputs
  BY <1>1, BusyFacts
\* The output pays one of our users: it has a deposit or is about to.
<1>3. PaysTo[o] \in Users /\ balance[PaysTo[o]] \in Nat /\ Amount[o] \in Nat \ {0}
  BY <1>1, <1>2 DEF HandlerOK, RowsOK, TypeOK
<1>4. snap \in BalanceSnapshot /\ snap.amount = snap.original + Amount[o]
  BY <1>3 DEF Credit, BalanceNew, BalanceSnapshot
<1> HIDE DEF snap
<1> USE DEF chainVars, rows, history
<1>5. TypeOK'
  BY <1>1, <1>2, <1>4 DEF TypeOK, ChainTypeOK
<1>6. step'[w] = "credit" /\ snapshot'[w] = snap
  BY <1>1, <1>2 DEF TypeOK
<1>7. HandlerOK(w)'
  <2>1. Locked(o, w)' <=> Locked(o, w)
    BY <1>1 DEF Locked
  <2> QED
    BY <1>1, <1>2, <1>4, <1>6, <2>1 DEF HandlerOK
<1>8. \A v \in Instances \ {w} :
        step'[v] = step[v] /\ entity'[v] = entity[v] /\ snapshot'[v] = snapshot[v]
  BY <1>1, <1>2 DEF TypeOK
<1> QED
  BY <1>1, <1>5, <1>7, <1>8, WorksOn

\* A run that is forgotten holds nothing.
LEMMA ForgottenFacts ==
    ASSUME TypeOK, NEW w \in Instances, Forget(w)
    PROVE  /\ entity' \in [Instances -> {"none", "started", "unconfirmed", "confirmed"}]
           /\ snapshot' \in [Instances -> BalanceSnapshot]
           /\ entity'[w] = "none" /\ ~Changed(snapshot'[w])
           /\ \A v \in Instances \ {w} : entity'[v] = entity[v] /\ snapshot'[v] = snapshot[v]
<1>1. BalanceNew(0) \in BalanceSnapshot /\ ~Changed(BalanceNew(0))
  BY DEF BalanceNew, BalanceSnapshot, Changed
<1> QED
  BY <1>1 DEF Forget, TypeOK

\* A run that met a conflict holds nothing when it starts again
\* (concurrency.rs:13).
LEMMA ConflictRetriesStep ==
    ASSUME IInv, NEW w \in Instances, ConflictRetries(w)
    PROVE  IInv'
<1>1. /\ step[w] # "none" /\ attempt[w] < MaxRetries
      /\ step' = [step EXCEPT ![w] = "begin"]
      /\ attempt' = [attempt EXCEPT ![w] = @ + 1]
      /\ Forget(w)
      /\ UNCHANGED <<chainVars, balance, rows, others, updates, history>>
  BY DEF ConflictRetries, Conflicted, Starts, Goto
<1>2. TypeOK /\ HandlerOK(w) /\ current[w] \in Outputs
  BY <1>1, BusyFacts
<1>3. /\ entity' \in [Instances -> {"none", "started", "unconfirmed", "confirmed"}]
      /\ snapshot' \in [Instances -> BalanceSnapshot]
      /\ entity'[w] = "none" /\ ~Changed(snapshot'[w])
      /\ \A v \in Instances \ {w} : entity'[v] = entity[v] /\ snapshot'[v] = snapshot[v]
  BY <1>1, <1>2, ForgottenFacts
<1> USE DEF chainVars, rows, history
<1>4. /\ step'[w] = "begin" /\ \A v \in Instances \ {w} : step'[v] = step[v]
      /\ attempt' \in [Instances -> 1 .. MaxRetries]
      /\ step' \in [Instances -> {"none", "begin", "loaded", "credit"}]
  BY <1>1, <1>2 DEF TypeOK
<1>5. TypeOK'
  BY <1>1, <1>2, <1>3, <1>4 DEF TypeOK, ChainTypeOK
<1>6. HandlerOK(w)'
  BY <1>1, <1>2, <1>3, <1>4 DEF HandlerOK
<1> QED
  BY <1>1, <1>3, <1>4, <1>5, <1>6, WorksOn

\* A handler that returns has credited its output, if there was anything to
\* credit.
LEMMA Returns ==
    ASSUME IInv, NEW w \in Instances, step[w] # "none", Leave(w), Return(w),
           stored' \in [Outputs -> Heights], balance' \in [Users -> Nat],
           deposit' \in [Outputs -> {"none", "unconfirmed", "confirmed"}],
           raced' \subseteq Outputs, UNCHANGED <<addresses, others, updates, skipped>>,
           RowsOK', DepositsKeep(w),
           \A o \in Outputs : stored'[o] \in {stored[o], Unconfirmed, chain[o]},
           Ours(current[w]) /\ batch[w][current[w]] > Unconfirmed
               => deposit'[current[w]] = "confirmed"
    PROVE  IInv'
<1>1. TypeOK /\ HandlerOK(w) /\ BatchOK(w) /\ BatchCredited(w) /\ current[w] \in Outputs
  BY BusyFacts
<1>2. /\ step' = [step EXCEPT ![w] = "none"]
      /\ attempt' = [attempt EXCEPT ![w] = 1]
      /\ current' = [current EXCEPT ![w] = NoOutput]
      /\ UNCHANGED <<wallet, phase, tip, batch, todo, faults>>
      /\ Forget(w)
  BY DEF Leave, Return, Goto
<1>3. /\ entity' \in [Instances -> {"none", "started", "unconfirmed", "confirmed"}]
      /\ snapshot' \in [Instances -> BalanceSnapshot]
      /\ entity'[w] = "none" /\ ~Changed(snapshot'[w])
      /\ \A v \in Instances \ {w} : entity'[v] = entity[v] /\ snapshot'[v] = snapshot[v]
  BY <1>1, <1>2, ForgottenFacts
<1> USE DEF wallet
<1>4. /\ step'[w] = "none" /\ current'[w] = NoOutput
      /\ \A v \in Instances \ {w} : step'[v] = step[v] /\ current'[v] = current[v]
      /\ step' \in [Instances -> {"none", "begin", "loaded", "credit"}]
      /\ attempt' \in [Instances -> 1 .. MaxRetries]
      /\ current' \in [Instances -> Outputs \cup {NoOutput}]
  BY <1>1, <1>2 DEF TypeOK, ChainTypeOK
<1>5. TypeOK'
  BY <1>1, <1>2, <1>3, <1>4 DEF TypeOK, ChainTypeOK
<1>6. BatchOK(w)'
  BY <1>1, <1>2, <1>4 DEF BatchOK, NoBatch, TypeOK, ChainTypeOK
<1>7. HandlerOK(w)'
  BY <1>3, <1>4 DEF HandlerOK
<1>8. BatchCredited(w)'
  BY <1>1, <1>2, <1>4 DEF BatchCredited, DepositsKeep
<1>9. OthersKeep(w)
  BY <1>2, <1>3, <1>4 DEF OthersKeep
<1> QED
  BY <1>2, <1>5, <1>6, <1>7, <1>8, <1>9, HandlerLocal, MovedInstance

\* Nothing of ours is mined before it has an address: what pays a stranger is
\* no deposit (deposit/mod.rs:102-108).
LEMMA UnrelatedStep ==
    ASSUME IInv, NEW w \in Instances, Unrelated(w)
    PROVE  IInv'
<1>1. /\ step[w] = "loaded" /\ PaysTo[current[w]] \notin addresses
      /\ Leave(w) /\ Return(w)
      /\ UNCHANGED <<stored, balance, rows, others, updates, history>>
  BY DEF Unrelated
<1> USE DEF rows, history, wallet
<1>2. /\ TypeOK /\ RowsOK /\ current[w] \in Outputs
      /\ batch[w][current[w]] \in {Unconfirmed, chain[current[w]]}
  BY <1>1, BusyFacts
<1>3. ~(Ours(current[w]) /\ batch[w][current[w]] > Unconfirmed)
  BY <1>1, <1>2 DEF RowsOK
<1>4. RowsKeep
  BY <1>1 DEF RowsKeep, Return
<1> QED
  BY <1>1, <1>2, <1>3, <1>4, KeptRows, Returns DEF TypeOK, ChainTypeOK

\* An unconfirmed deposit is stored once, by the handler that started it.
LEMMA CommitUnconfirmedStep ==
    ASSUME IInv, NEW w \in Instances, CommitUnconfirmed(w)
    PROVE  IInv'
<1> DEFINE o == current[w]
<1>1. /\ step[w] = "loaded" /\ entity[w] # "none" /\ ~NeedsConfirm(w)
      /\ Leave(w) /\ Return(w)
      /\ UNCHANGED <<balance, addresses, others, updates, history>>
  BY DEF CommitUnconfirmed
<1>2. /\ TypeOK /\ RowsOK /\ HandlerOK(w) /\ o \in Outputs
      /\ batch[w][o] \in {Unconfirmed, chain[o]}
  BY <1>1, BusyFacts
<1> USE DEF history, wallet
<1>3. entity[w] \in {"started", "unconfirmed", "confirmed"}
  BY <1>1, <1>2 DEF TypeOK
<1>4. UNCHANGED <<chain, top>>
  BY <1>1 DEF Return
<1>5. CASE entity[w] = "started"
  <2>1. /\ deposit' = [deposit EXCEPT ![o] = "unconfirmed"]
        /\ stored' = [stored EXCEPT ![o] = Unconfirmed]
        /\ deposit[o] = "none" /\ PaysTo[o] \in addresses /\ ~Locked(o, w)
        /\ ~(batch[w][o] > Unconfirmed)
    BY <1>1, <1>2, <1>5 DEF CommitUnconfirmed, HandlerOK, NeedsConfirm
  <2> HIDE DEF o
  <2>2. /\ stored' \in [Outputs -> Heights]
        /\ deposit' \in [Outputs -> {"none", "unconfirmed", "confirmed"}]
        /\ stored'[o] = Unconfirmed /\ deposit'[o] = "unconfirmed"
        /\ \A p \in Outputs \ {o} : stored'[p] = stored[p] /\ deposit'[p] = deposit[p]
    BY <1>2, <2>1 DEF TypeOK, ChainTypeOK, Heights
  <2>3. RowsOK'
    BY <1>1, <1>2, <1>4, <2>1, <2>2 DEF RowsOK
  <2>4. DepositsKeep(w)
    <3>1. \A v \in Instances :
            deposit[current[v]] = "unconfirmed" => deposit'[current[v]] = "unconfirmed"
      BY <1>2, <2>1 DEF TypeOK
    <3> QED
      BY <1>1, <1>2, <2>1, <2>2, <3>1 DEF DepositsKeep
  <2>5. \A p \in Outputs : stored'[p] \in {stored[p], Unconfirmed, chain[p]}
    BY <2>2
  <2>6. ~(batch[w][current[w]] > Unconfirmed)
    BY <2>1 DEF o
  <2> QED
    BY <1>1, <1>2, <2>2, <2>3, <2>4, <2>5, <2>6, Returns DEF TypeOK
<1>6. CASE entity[w] # "started"
  <2>1. RowsKeep
    BY <1>1, <1>4, <1>6 DEF RowsKeep, CommitUnconfirmed
  <2>2. batch[w][o] > Unconfirmed => deposit'[o] = "confirmed"
    BY <1>1, <1>2, <1>3, <1>6, <2>1 DEF HandlerOK, NeedsConfirm, RowsKeep
  <2> QED
    BY <1>1, <1>2, <2>1, <2>2, KeptRows, Returns DEF TypeOK, ChainTypeOK, RowsKeep
<1> QED
  BY <1>5, <1>6

\* A confirmation stores the block of the deposit with it and leaves a balance
\* of at least zero.
LEMMA CommitConfirmStep ==
    ASSUME IInv, NEW w \in Instances, CommitConfirm(w)
    PROVE  IInv'
<1> DEFINE o == current[w]
<1>1. /\ step[w] = "credit" /\ ~Locked(o, w)
      /\ CanUpdate(balance[PaysTo[o]], snapshot[w])
      /\ deposit' = [deposit EXCEPT ![o] = "confirmed"]
      /\ stored' = [stored EXCEPT ![o] = batch[w][o]]
      /\ balance' = [balance EXCEPT ![PaysTo[o]] = Updated(@, snapshot[w])]
      /\ raced' \in {raced, raced \cup {o}}
      /\ Leave(w) /\ Return(w)
      /\ UNCHANGED <<addresses, others, updates, skipped>>
  BY DEF CommitConfirm, BalanceOf
<1>2. /\ TypeOK /\ RowsOK /\ HandlerOK(w) /\ o \in Outputs
      /\ batch[w][o] \in {Unconfirmed, chain[o]}
  BY <1>1, BusyFacts
<1>3. /\ entity[w] \in {"started", "unconfirmed"} /\ batch[w][o] > Unconfirmed
      /\ PaysTo[o] \in addresses
  BY <1>1, <1>2 DEF HandlerOK, RowsOK
<1>4. UNCHANGED <<chain, top>>
  BY <1>1 DEF Return, wallet
<1>5. batch[w][o] = chain[o] /\ chain[o] > Unconfirmed
  BY <1>2, <1>3
<1>6. balance' \in [Users -> Nat]
  <2>1. snapshot[w].amount \in Nat /\ PaysTo[o] \in Users /\ balance[PaysTo[o]] \in Nat
    BY <1>2, <1>3 DEF TypeOK, BalanceSnapshot
  <2> QED
    BY <1>1, <1>2, <2>1 DEF TypeOK, Updated
<1>7. raced' \subseteq Outputs
  BY <1>1, <1>2 DEF TypeOK
<1> HIDE DEF o
<1>8. /\ stored' \in [Outputs -> Heights]
      /\ deposit' \in [Outputs -> {"none", "unconfirmed", "confirmed"}]
      /\ stored'[o] = chain[o] /\ deposit'[o] = "confirmed"
      /\ \A p \in Outputs \ {o} : stored'[p] = stored[p] /\ deposit'[p] = deposit[p]
  BY <1>1, <1>2, <1>5 DEF TypeOK, ChainTypeOK, Heights
<1>9. RowsOK'
  BY <1>1, <1>2, <1>3, <1>4, <1>5, <1>8 DEF RowsOK
<1>10. DepositsKeep(w)
  <2>1. ASSUME NEW v \in Instances \ {w}, entity[v] = "unconfirmed",
               deposit[current[v]] = "unconfirmed"
        PROVE  deposit'[current[v]] = "unconfirmed" \/ current[v] \in raced'
    <3>1. CASE current[v] = current[w]
      BY <2>1, <3>1 DEF CommitConfirm, OthersHaveUnconfirmed
    <3>2. CASE current[v] # current[w]
      BY <1>1, <1>2, <2>1, <3>2 DEF TypeOK, o
    <3> QED
      BY <3>1, <3>2
  <2>2. raced \subseteq raced'
    BY <1>1
  <2> QED
    BY <1>1, <1>2, <1>8, <2>1, <2>2 DEF DepositsKeep
<1>11. \A p \in Outputs : stored'[p] \in {stored[p], Unconfirmed, chain[p]}
  BY <1>8
<1>12. deposit'[current[w]] = "confirmed"
  BY <1>8 DEF o
<1> QED
  BY <1>1, <1>6, <1>7, <1>8, <1>9, <1>10, <1>11, <1>12, Returns

-------------------------------------------------------------------------------
(* Panics, crashes and starts *)

\* A listener that panics or dies keeps its tip, and forgets its batch and its
\* handler.
LEMMA StopsStep ==
    ASSUME IInv, NEW w \in Instances, RunPanics(w) \/ Die(w), Leave(w),
           faults' \in 0 .. MaxFaults,
           UNCHANGED <<balance, rows, others, updates, history>>
    PROVE  IInv'
<1>1. /\ \E to \in {"ask", "down"} : phase' = [phase EXCEPT ![w] = to]
      /\ phase[w] # "down"
      /\ batch' = [batch EXCEPT ![w] = NoBatch]
      /\ todo' = [todo EXCEPT ![w] = {}]
      /\ current' = [current EXCEPT ![w] = NoOutput]
      /\ UNCHANGED <<wallet, stored, tip>>
  BY DEF RunPanics, Die
<1>2. /\ step' = [step EXCEPT ![w] = "none"]
      /\ attempt' = [attempt EXCEPT ![w] = 1]
      /\ Forget(w)
  BY DEF Leave, Goto
<1>3. TypeOK /\ LocalOK(w)
  BY Locally
<1>4. /\ entity' \in [Instances -> {"none", "started", "unconfirmed", "confirmed"}]
      /\ snapshot' \in [Instances -> BalanceSnapshot]
      /\ entity'[w] = "none" /\ ~Changed(snapshot'[w])
      /\ \A v \in Instances \ {w} : entity'[v] = entity[v] /\ snapshot'[v] = snapshot[v]
  BY <1>2, <1>3, ForgottenFacts
<1> USE DEF wallet, rows, history
<1>5. NoBatch \in [Outputs -> Heights] /\ \A o \in Outputs : NoBatch[o] = Absent
  BY DEF NoBatch, Heights
<1>6. /\ phase'[w] \in {"ask", "down"} /\ batch'[w] = NoBatch /\ todo'[w] = {}
      /\ current'[w] = NoOutput /\ step'[w] = "none"
      /\ \A v \in Instances \ {w} :
           /\ phase'[v] = phase[v] /\ batch'[v] = batch[v] /\ todo'[v] = todo[v]
           /\ current'[v] = current[v] /\ step'[v] = step[v]
  BY <1>1, <1>2, <1>3 DEF TypeOK, ChainTypeOK
<1>7. TypeOK'
  <2>1. /\ phase' \in [Instances -> {"down", "ask", "askAll", "batch"}]
        /\ batch' \in [Instances -> [Outputs -> Heights]]
        /\ todo' \in [Instances -> SUBSET Outputs]
        /\ current' \in [Instances -> Outputs \cup {NoOutput}]
    BY <1>1, <1>3, <1>5 DEF TypeOK, ChainTypeOK
  <2>2. /\ step' \in [Instances -> {"none", "begin", "loaded", "credit"}]
        /\ attempt' \in [Instances -> 1 .. MaxRetries]
    BY <1>2, <1>3 DEF TypeOK
  <2> QED
    BY <1>1, <1>3, <1>4, <2>1, <2>2 DEF TypeOK, ChainTypeOK
<1>8. LocalOK(w)'
  <2>1. BatchOK(w)' /\ BatchCredited(w)' /\ HandlerOK(w)'
    BY <1>4, <1>5, <1>6 DEF BatchOK, BatchCredited, HandlerOK, NoBatch
  <2>2. BatchComplete(w)'
    <3>1. tip[w] \in 1 .. top + 1 /\ \A o \in Outputs : chain[o] \in Int
      BY <1>3 DEF LocalOK, BatchComplete, TypeOK, ChainTypeOK, Heights
    <3> QED
      BY <1>1, <1>3, <1>5, <1>6, <3>1 DEF BatchComplete, TypeOK, ChainTypeOK
  <2>3. \A o \in Uncredited' :
          phase'[w] # "down" /\ chain'[o] < tip'[w] => o \in skipped'[w]
    BY <1>1, <1>3 DEF LocalOK, Uncredited
  <2> QED
    BY <1>5, <1>6, <2>1, <2>2, <2>3 DEF LocalOK
<1>9. RowsKeep /\ OthersKeep(w)
  BY <1>1, <1>4, <1>6 DEF RowsKeep, OthersKeep
<1> QED
  BY <1>7, <1>8, <1>9, KeptRows, MovedInstance DEF RowsKeep

\* A listener starts at the highest block stored or at first_block, and what it
\* starts past is remembered in skipped (chain.rs:75).
LEMMA StartStep ==
    ASSUME IInv, NEW w \in Instances, Start(w)
    PROVE  IInv'
<1>1. PICK h \in StoredHeights \cup {StartHeight} : tip' = [tip EXCEPT ![w] = h]
  BY DEF Start, StartListening
<1>2. /\ phase[w] = "down" /\ phase' = [phase EXCEPT ![w] = "ask"]
      /\ skipped' = [skipped EXCEPT ![w] = {o \in Uncredited : chain[o] < tip'[w]}]
      /\ UNCHANGED <<wallet, stored, batch, todo, current, faults>>
      /\ UNCHANGED <<balance, rows, handling, others, updates, raced>>
  BY DEF Start, StartListening
<1>3. TypeOK /\ LocalOK(w) /\ StartHeight <= top + 1
      /\ \A o \in Outputs : chain[o] <= top /\ stored[o] \in {Absent, Unconfirmed, chain[o]}
  BY Locally
<1>4. h \in 1 .. top + 1
  BY <1>3 DEF StoredHeights, TypeOK, ChainTypeOK, Heights
<1>5. batch[w] = NoBatch /\ todo[w] = {} /\ current[w] = NoOutput
  BY <1>2, NoBatchFacts
<1> USE DEF wallet, rows, handling
<1>6. /\ tip'[w] = h /\ phase'[w] = "ask"
      /\ skipped'[w] = {o \in Uncredited : chain[o] < h}
      /\ \A v \in Instances \ {w} :
           tip'[v] = tip[v] /\ phase'[v] = phase[v] /\ skipped'[v] = skipped[v]
  BY <1>1, <1>2, <1>3 DEF TypeOK, ChainTypeOK
<1>7. TypeOK'
  <2>1. tip' \in [Instances -> Nat] /\ phase' \in [Instances -> {"down", "ask", "askAll", "batch"}]
    BY <1>1, <1>2, <1>3, <1>4 DEF TypeOK, ChainTypeOK
  <2>2. skipped' \in [Instances -> SUBSET Outputs]
    BY <1>2, <1>3 DEF TypeOK, Uncredited
  <2> QED
    BY <1>2, <1>3, <2>1, <2>2 DEF TypeOK, ChainTypeOK
<1>8. LocalOK(w)'
  <2>1. BatchOK(w)' /\ BatchCredited(w)'
    BY <1>2, <1>5, <1>6 DEF BatchOK, BatchCredited, NoBatch
  <2>2. HandlerOK(w)'
    BY <1>2, <1>3 DEF LocalOK, HandlerOK, Locked
  <2>3. BatchComplete(w)'
    <3>1. \A p \in Outputs : batch'[w][p] = Absent
      BY <1>2, <1>5 DEF NoBatch
    <3>2. ASSUME NEW o \in Outputs, NEW p \in Outputs,
                 tip'[w] <= chain[o], chain[o] <= batch'[w][p]
          PROVE  FALSE
      <4>1. chain[o] \in Int
        BY <1>3 DEF TypeOK, ChainTypeOK, Heights
      <4> QED
        BY <1>4, <1>6, <3>1, <3>2, <4>1
    <3> QED
      BY <1>2, <1>4, <1>6, <3>2 DEF BatchComplete
  <2>4. \A o \in Uncredited' :
          phase'[w] # "down" /\ chain'[o] < tip'[w] => o \in skipped'[w]
    BY <1>2, <1>6 DEF Uncredited
  <2> QED
    BY <1>2, <1>3, <2>1, <2>2, <2>3, <2>4 DEF LocalOK
<1>9. RowsKeep /\ OthersKeep(w)
  BY <1>2, <1>6 DEF RowsKeep, OthersKeep
<1> QED
  BY <1>7, <1>8, <1>9, KeptRows, MovedInstance DEF RowsKeep

-------------------------------------------------------------------------------
(* The chain and the rest of the system *)

\* Nothing of the handlers and listeners moves, no deposit changes, and no
\* address is forgotten.
EnvironmentKeeps ==
    /\ UNCHANGED <<listening, handling, deposit, history>>
    /\ addresses \subseteq addresses'

\* What happens around the handlers changes nothing they have read.
LEMMA EnvironmentHandlers ==
    ASSUME IInv, EnvironmentKeeps, NEW w \in Instances
    PROVE  HandlerOK(w)'
<1>1. TypeOK /\ HandlerOK(w)
  BY DEF IInv
<1> USE DEF EnvironmentKeeps, listening, handling, history
<1>2. \A o \in Outputs : Locked(o, w)' <=> Locked(o, w)
  BY DEF Locked
<1>3. entity[w] = "started" => current[w] \in Outputs
  BY <1>1 DEF HandlerOK, TypeOK, ChainTypeOK
<1> QED
  BY <1>1, <1>2, <1>3 DEF HandlerOK, Locked

\* A block is above every tip but one, and above every batch.
LEMMA NewBlockStep ==
    ASSUME IInv, NewBlock, UNCHANGED <<balance, rows, handling, others, updates, history>>
    PROVE  IInv'
<1>1. PICK mined \in SUBSET {o \in Outputs : chain[o] = Unconfirmed} :
        chain' = [o \in Outputs |-> IF o \in mined THEN top + 1 ELSE chain[o]]
  BY DEF NewBlock
<1>2. top' = top + 1 /\ UNCHANGED <<stored, listening, faults>>
  BY DEF NewBlock
<1>3. /\ TypeOK /\ StartHeight <= top + 1 /\ RowsOK /\ \A v \in Instances : LocalOK(v)
      /\ \A o \in Outputs : chain[o] <= top /\ stored[o] \in {Absent, Unconfirmed, chain[o]}
  BY Locally
<1> USE DEF rows, handling, history, listening
<1>4. top \in Nat /\ \A o \in Outputs : chain[o] \in Int
  BY <1>3 DEF TypeOK, ChainTypeOK, Heights
<1>5. \A o \in Outputs : \/ chain'[o] = chain[o] /\ o \notin mined
                         \/ chain[o] = Unconfirmed /\ chain'[o] = top + 1 /\ o \in mined
  BY <1>1
<1>6. TypeOK'
  <2>1. chain' \in [Outputs -> Heights]
    BY <1>1, <1>3 DEF TypeOK, ChainTypeOK, Heights
  <2> QED
    BY <1>2, <1>3, <1>4, <2>1 DEF TypeOK, ChainTypeOK
<1>7. RowsOK'
  BY <1>2, <1>3, <1>4, <1>5 DEF RowsOK
<1>8. ChainOK'
  <2>1. ASSUME NEW o \in Outputs
        PROVE  chain'[o] <= top' /\ stored'[o] \in {Absent, Unconfirmed, chain'[o]}
    BY <1>2, <1>3, <1>4, <1>5
  <2>2. ASSUME NEW v \in Instances, NEW o \in Outputs
        PROVE  batch'[v][o] \in {Absent, Unconfirmed, chain'[o]}
    BY <1>2, <1>3, <1>5 DEF LocalOK
  <2> QED
    BY <1>2, <1>3, <1>4, <2>1, <2>2 DEF ChainOK
<1>9. ASSUME NEW v \in Instances
      PROVE  (BatchOK(v) /\ BatchComplete(v) /\ HandlerOK(v) /\ BatchCredited(v))'
  <2>1. BatchOK(v)' /\ BatchCredited(v)'
    BY <1>2, <1>3 DEF LocalOK, BatchOK, BatchCredited, NoBatch
  <2>2. HandlerOK(v)'
    BY <1>2, EnvironmentHandlers DEF EnvironmentKeeps
  <2>3. BatchComplete(v)'
    <3>1. tip[v] \in 1 .. top + 1
      BY <1>3 DEF LocalOK, BatchComplete
    <3>2. ASSUME NEW o \in Outputs, NEW p \in Outputs,
                 tip[v] <= chain'[o], chain'[o] <= batch[v][p]
          PROVE  batch[v][o] = chain'[o]
      <4>1. batch[v][p] <= top
        BY <1>3, <1>4 DEF LocalOK
      <4>2. batch[v][p] \in Int
        BY <1>3, <1>4 DEF LocalOK
      <4>3. chain'[o] = chain[o]
        BY <1>4, <1>5, <3>2, <4>1, <4>2
      <4> QED
        BY <1>3, <3>2, <4>3 DEF LocalOK, BatchComplete
    <3> QED
      BY <1>2, <1>4, <3>1, <3>2 DEF BatchComplete
  <2> QED
    BY <2>1, <2>2, <2>3
<1>10. NothingPassedBy'
  <2>1. ASSUME NEW v \in Instances, NEW o \in Uncredited',
               phase[v] # "down", chain'[o] < tip[v]
        PROVE  o \in skipped[v]
    <3>1. tip[v] \in 1 .. top + 1
      BY <1>3 DEF LocalOK, BatchComplete
    <3>2. o \in Outputs
      BY DEF Uncredited
    <3>3. chain'[o] = chain[o]
      BY <1>4, <1>5, <2>1, <3>1, <3>2
    <3>4. o \in Uncredited
      BY <1>2, <3>3 DEF Uncredited
    <3> QED
      BY <1>3, <2>1, <3>3, <3>4 DEF LocalOK
  <2> QED
    BY <1>2, <2>1 DEF NothingPassedBy
<1> QED
  BY <1>6, <1>7, <1>8, <1>9, <1>10 DEF IInv

\* What enters or leaves the mempool is in no block and in no row.
LEMMA MempoolStep ==
    ASSUME IInv, NEW o \in Outputs,
           (Broadcast(o) /\ (Ours(o) => PaysTo[o] \in addresses)) \/ Replace(o),
           UNCHANGED <<balance, rows, handling, others, updates, history>>
    PROVE  IInv'
<1>1. \/ chain' = [chain EXCEPT ![o] = Absent]
      \/ chain' = [chain EXCEPT ![o] = Unconfirmed] /\ (Ours(o) => PaysTo[o] \in addresses)
  BY DEF Broadcast, Replace
<1>2. /\ chain[o] \in {Absent, Unconfirmed}
      /\ UNCHANGED <<top, stored, listening, faults>>
  BY DEF Broadcast, Replace
<1>3. /\ TypeOK /\ StartHeight <= top + 1 /\ RowsOK /\ \A v \in Instances : LocalOK(v)
      /\ \A p \in Outputs : chain[p] <= top /\ stored[p] \in {Absent, Unconfirmed, chain[p]}
  BY Locally
<1> USE DEF rows, handling, history, listening
<1>4. /\ chain'[o] \in {Absent, Unconfirmed}
      /\ \A p \in Outputs : p # o => chain'[p] = chain[p]
      /\ top \in Nat
      /\ chain' \in [Outputs -> Heights]
  BY <1>1, <1>3 DEF TypeOK, ChainTypeOK, Heights
<1>5. TypeOK'
  BY <1>2, <1>3, <1>4 DEF TypeOK, ChainTypeOK
<1>6. RowsOK'
  <2>1. ASSUME NEW p \in Outputs, Ours(p), chain'[p] # Absent PROVE PaysTo[p] \in addresses
    <3>1. CASE p # o
      BY <1>3, <1>4, <2>1, <3>1 DEF RowsOK
    <3>2. CASE p = o
      BY <1>1, <1>3, <2>1, <3>2 DEF TypeOK, ChainTypeOK
    <3> QED
      BY <3>1, <3>2
  <2> QED
    BY <1>2, <1>3, <1>4, <2>1 DEF RowsOK
<1>7. ChainOK'
  BY <1>2, <1>3, <1>4 DEF ChainOK, LocalOK
<1>8. ASSUME NEW v \in Instances
      PROVE  (BatchOK(v) /\ BatchComplete(v) /\ HandlerOK(v) /\ BatchCredited(v))'
  <2>1. BatchOK(v)' /\ BatchCredited(v)'
    BY <1>2, <1>3 DEF LocalOK, BatchOK, BatchCredited, NoBatch
  <2>2. HandlerOK(v)'
    BY <1>2, EnvironmentHandlers DEF EnvironmentKeeps
  <2>3. BatchComplete(v)'
    BY <1>2, <1>3, <1>4 DEF LocalOK, BatchComplete
  <2> QED
    BY <2>1, <2>2, <2>3
<1>9. NothingPassedBy'
  <2>1. \A p \in Outputs : chain'[p] > Unconfirmed => chain'[p] = chain[p]
    BY <1>4
  <2> QED
    BY <1>2, <1>3, <2>1 DEF NothingPassedBy, Uncredited, LocalOK
<1> QED
  BY <1>5, <1>6, <1>7, <1>8, <1>9 DEF IInv

\* New addresses, balances and the blocks of withdrawals.
LEMMA RestMoved ==
    ASSUME IInv,
           \/ \E u \in Users : CreateAddress(u) \/ UpdateByOthers(u)
           \/ \E o \in Outputs : StoreWithdrawal(o)
           \/ UNCHANGED vars
    PROVE  IInv'
<1> USE DEF vars, chainVars, wallet, rows, handling, history, listening
<1>1. /\ UNCHANGED <<chain, top, listening, handling, deposit, history>>
      /\ addresses \subseteq addresses'
  BY DEF CreateAddress, UpdateByOthers, StoreWithdrawal
<1>2. /\ TypeOK /\ StartHeight <= top + 1 /\ RowsOK /\ \A v \in Instances : LocalOK(v)
      /\ \A p \in Outputs : chain[p] <= top /\ stored[p] \in {Absent, Unconfirmed, chain[p]}
  BY Locally
<1>3. \/ stored' = stored
      \/ \E o \in Withdrawn : \E b \in {Unconfirmed, chain[o]} :
           stored' = [stored EXCEPT ![o] = b]
  BY DEF CreateAddress, UpdateByOthers, StoreWithdrawal
<1>4. /\ stored' \in [Outputs -> Heights]
      /\ \A o \in Outputs : /\ stored'[o] \in {Absent, Unconfirmed, chain[o]}
                            /\ o \notin Withdrawn => stored'[o] = stored[o]
  <2>1. stored \in [Outputs -> Heights] /\ chain \in [Outputs -> Heights]
    BY <1>2 DEF TypeOK, ChainTypeOK
  <2>2. CASE stored' = stored
    BY <1>2, <2>1, <2>2
  <2>3. ASSUME NEW o \in Withdrawn, NEW b \in {Unconfirmed, chain[o]},
               stored' = [stored EXCEPT ![o] = b]
        PROVE  /\ stored' \in [Outputs -> Heights]
               /\ \A p \in Outputs : /\ stored'[p] \in {Absent, Unconfirmed, chain[p]}
                                     /\ p \notin Withdrawn => stored'[p] = stored[p]
    <3>1. o \in Outputs /\ b \in Heights
      BY <2>1 DEF Heights
    <3> QED
      BY <1>2, <2>1, <2>3, <3>1
  <2> QED
    BY <1>3, <2>2, <2>3
<1>5. TypeOK'
  <2>1. ASSUME NEW u \in Users, UpdateByOthers(u) PROVE TypeOK'
    <3>1. PICK d \in OtherDeltas :
            /\ balance[u] + d >= 0
            /\ balance' = [balance EXCEPT ![u] = @ + d]
            /\ others' = [others EXCEPT ![u] = @ + d]
      BY <2>1 DEF UpdateByOthers
    <3>2. d \in Int
      OBVIOUS
    <3>3. balance' \in [Users -> Nat] /\ others' \in [Users -> Int]
      BY <1>2, <3>1, <3>2 DEF TypeOK
    <3>4. updates' \in 0 .. MaxOthers
      BY <1>2, <2>1 DEF TypeOK, UpdateByOthers
    <3> QED
      BY <1>2, <2>1, <3>3, <3>4 DEF TypeOK, ChainTypeOK, UpdateByOthers
  <2>2. ASSUME NEW u \in Users, CreateAddress(u) PROVE TypeOK'
    BY <1>2, <2>2 DEF TypeOK, ChainTypeOK, CreateAddress
  <2>3. ASSUME NEW o \in Outputs, StoreWithdrawal(o) PROVE TypeOK'
    BY <1>2, <1>4, <2>3 DEF TypeOK, ChainTypeOK, StoreWithdrawal
  <2>4. CASE UNCHANGED vars
    BY <1>2, <2>4 DEF TypeOK, ChainTypeOK
  <2> QED
    BY <2>1, <2>2, <2>3, <2>4
<1>6. RowsOK'
  BY <1>1, <1>2, <1>4 DEF RowsOK
<1>7. ChainOK'
  BY <1>1, <1>2, <1>4 DEF ChainOK, LocalOK
<1>8. ASSUME NEW v \in Instances
      PROVE  (BatchOK(v) /\ BatchComplete(v) /\ HandlerOK(v) /\ BatchCredited(v))'
  <2>1. BatchOK(v)' /\ BatchCredited(v)'
    BY <1>1, <1>2 DEF LocalOK, BatchOK, BatchCredited, NoBatch
  <2>2. HandlerOK(v)'
    BY <1>1, EnvironmentHandlers DEF EnvironmentKeeps
  <2>3. BatchComplete(v)'
    BY <1>1, <1>2 DEF LocalOK, BatchComplete
  <2> QED
    BY <2>1, <2>2, <2>3
<1>9. NothingPassedBy'
  BY <1>1, <1>2 DEF NothingPassedBy, Uncredited, LocalOK
<1> QED
  BY <1>5, <1>6, <1>7, <1>8, <1>9 DEF IInv

-------------------------------------------------------------------------------
(* Invariance *)

\* The invariant holds before any listener starts.
THEOREM InitIInv == Init => IInv
<1> SUFFICES ASSUME Init PROVE IInv
  OBVIOUS
<1> USE DEF Init, ChainInit
<1>1. TypeOK
  BY DEF TypeOK, ChainTypeOK, Heights, NoBatch, BalanceNew, BalanceSnapshot
<1>2. ChainOK /\ RowsOK
  BY DEF ChainOK, RowsOK, NoBatch
<1>3. ASSUME NEW w \in Instances
      PROVE  BatchOK(w) /\ BatchComplete(w) /\ HandlerOK(w) /\ BatchCredited(w)
  BY DEF BatchOK, BatchComplete, HandlerOK, BatchCredited, NoBatch, Locked, BalanceNew, Changed
<1>4. NothingPassedBy
  BY DEF NothingPassedBy
<1> QED
  BY <1>1, <1>2, <1>3, <1>4 DEF IInv

\* Every step of the listeners, their handlers, the chain and the rest of the
\* system preserves the invariant.
THEOREM NextIInv == IInv /\ [Next]_vars => IInv'
<1> SUFFICES ASSUME IInv, [Next]_vars PROVE IInv'
  OBVIOUS
<1>1. ASSUME NEW w \in Instances, Listen(w),
             UNCHANGED <<balance, rows, handling, others, updates, history>>
      PROVE  IInv'
  BY <1>1, ReceiveStep, AskedTooFarStep, EndBatchStep DEF Listen
<1>2. ASSUME NEW w \in Instances, ConflictPanics(w) PROVE IInv'
  <2>1. faults' \in 0 .. MaxFaults
    BY <1>2 DEF ConflictPanics, IInv, TypeOK, ChainTypeOK
  <2> QED
    BY <1>2, <2>1, StopsStep DEF ConflictPanics
<1>3. ASSUME NEW w \in Instances, CallFails(w) \/ Crash(w) PROVE IInv'
  <2>1. faults' \in 0 .. MaxFaults
    BY <1>3 DEF CallFails, Crash, Fault, IInv, TypeOK, ChainTypeOK
  <2> QED
    BY <1>3, <2>1, StopsStep DEF CallFails, Crash
<1>4. ASSUME NEW w \in Instances, Work(w) PROVE IInv'
  BY <1>1, <1>2, <1>4, ProcessStep, LoadStep, UnrelatedStep, StartDepositStep, ConfirmStep,
     CommitUnconfirmedStep, CommitConfirmStep, ConflictRetriesStep
  DEF Work
<1>5. CASE Chain
  BY <1>5, NewBlockStep, MempoolStep DEF Chain
<1>6. CASE \/ \E u \in Users : CreateAddress(u) \/ UpdateByOthers(u)
           \/ \E o \in Outputs : StoreWithdrawal(o)
           \/ UNCHANGED vars
  BY <1>6, RestMoved
<1> QED
  BY <1>3, <1>4, <1>5, <1>6, StartStep DEF Next

\* The inductive invariant holds in every reachable state.
THEOREM Invariance == Spec => []IInv
<1> QED
  BY InitIInv, NextIInv, PTL DEF Spec

\* No listener passes a deposit by, whatever the ranges it asks for, however
\* many blocks, outputs, instances, panics and crashes there are
\* (chain.rs:35-57).
THEOREM NothingPassedByAlways == Spec => []NothingPassedBy
<1>1. IInv => NothingPassedBy
  BY DEF IInv
<1> QED
  BY <1>1, Invariance, PTL

-------------------------------------------------------------------------------
(* The ledger *)

\* What the ledger calls credited.
ConfirmedOutputs == {o \in Outputs : deposit[o] = "confirmed"}

\* A step that confirms nothing and leaves every balance is none of the ledger.
LEMMA Stutters ==
    ASSUME UNCHANGED <<balance, raced, others>>,
           ConfirmedOutputs' = ConfirmedOutputs
    PROVE  UNCHANGED Credits!vars
BY DEF Credits!vars, ConfirmedOutputs

\* A confirmation that commits credits the amount of the deposit: the first
\* time it is confirmed, or once it is raced for (deposit/mod.rs:65-72).
LEMMA CommitConfirmRefines ==
    ASSUME IInv, NEW w \in Instances, CommitConfirm(w)
    PROVE  Credits!Next
<1>0. PICK o \in Outputs : o = current[w]
  BY BusyFacts DEF CommitConfirm
<1>1. /\ step[w] = "credit"
      /\ CanUpdate(balance[PaysTo[o]], snapshot[w])
      /\ deposit' = [deposit EXCEPT ![o] = "confirmed"]
      /\ balance' = [balance EXCEPT ![PaysTo[o]] = Updated(@, snapshot[w])]
      /\ raced' \in {raced, raced \cup {o}}
      /\ UNCHANGED others
  BY <1>0 DEF CommitConfirm, BalanceOf
<1>2. TypeOK /\ RowsOK /\ HandlerOK(w)
  BY <1>1, BusyFacts
<1>3. /\ entity[w] \in {"started", "unconfirmed"}
      /\ snapshot[w].amount = snapshot[w].original + Amount[o]
      /\ snapshot[w].original \in Nat /\ Amount[o] \in Nat \ {0}
  BY <1>0, <1>1, <1>2 DEF HandlerOK, TypeOK, BalanceSnapshot
<1>4. PaysTo[o] \in Users
  <2>1. deposit[o] # "none" \/ PaysTo[o] \in addresses
    BY <1>0, <1>2, <1>3 DEF HandlerOK, RowsOK
  <2> QED
    BY <1>2, <2>1 DEF RowsOK, TypeOK
<1>5. Changed(snapshot[w]) /\ snapshot[w].amount = balance[PaysTo[o]] + Amount[o]
  BY <1>1, <1>3 DEF Changed, CanUpdate
<1>6. Credits!Pays(o)
  BY <1>1, <1>4, <1>5 DEF Credits!Pays, Updated
<1>7. ConfirmedOutputs' = ConfirmedOutputs \cup {o}
  BY <1>1, <1>2 DEF ConfirmedOutputs, TypeOK
<1>8. CASE o \notin ConfirmedOutputs
  <2>1. Credits!CreditItem(o)
    BY <1>1, <1>6, <1>7, <1>8 DEF Credits!CreditItem, ConfirmedOutputs
  <2> QED
    BY <2>1 DEF Credits!Next
<1>9. CASE o \in ConfirmedOutputs
  <2>1. o \in raced
    BY <1>0, <1>2, <1>3, <1>9 DEF HandlerOK, ConfirmedOutputs
  <2>2. raced' = raced /\ ConfirmedOutputs' = ConfirmedOutputs
    BY <1>1, <1>7, <1>9, <2>1
  <2>3. Credits!CreditAgain(o)
    BY <1>1, <1>6, <1>9, <2>1, <2>2 DEF Credits!CreditAgain, ConfirmedOutputs
  <2> QED
    BY <2>3 DEF Credits!Next
<1> QED
  BY <1>8, <1>9

\* Every step is a step of the ledger or none.
LEMMA StepRefines == IInv /\ [Next]_vars => [Credits!Next]_(Credits!vars)
<1> SUFFICES ASSUME IInv, [Next]_vars PROVE [Credits!Next]_(Credits!vars)
  OBVIOUS
<1>0. TypeOK
  BY DEF IInv
<1>1. ASSUME UNCHANGED <<balance, deposit, raced, others>>
      PROVE  UNCHANGED Credits!vars
  BY <1>1, Stutters DEF ConfirmedOutputs
<1> USE DEF rows, history, handling
<1>2. ASSUME NEW w \in Instances, CommitUnconfirmed(w) PROVE UNCHANGED Credits!vars
  <2>1. CASE entity[w] = "started"
    <3>1. /\ deposit' = [deposit EXCEPT ![current[w]] = "unconfirmed"]
          /\ UNCHANGED <<balance, others, raced>>
          /\ step[w] = "loaded"
      BY <1>2, <2>1 DEF CommitUnconfirmed
    <3>2. deposit[current[w]] = "none"
      BY <2>1, <3>1, BusyFacts DEF HandlerOK
    <3> QED
      BY <1>0, <3>1, <3>2, Stutters DEF ConfirmedOutputs, TypeOK
  <2>2. CASE entity[w] # "started"
    BY <1>1, <1>2, <2>2 DEF CommitUnconfirmed
  <2> QED
    BY <2>1, <2>2
<1>3. ASSUME NEW w \in Instances, Work(w), ~CommitUnconfirmed(w), ~CommitConfirm(w)
      PROVE  UNCHANGED <<balance, deposit, raced, others>>
  BY <1>3 DEF Work, Process, Load, Unrelated, StartDeposit, Confirm, ConflictRetries,
     ConflictPanics
<1>4. ASSUME NEW w \in Instances, Start(w) \/ CallFails(w) \/ Crash(w)
      PROVE  UNCHANGED <<balance, deposit, raced, others>>
  BY <1>4 DEF Start, CallFails, Crash
<1>5. ASSUME NEW u \in Users, UpdateByOthers(u) PROVE Credits!Next
  <2>1. Credits!UpdateByOthers(u)
    BY <1>5 DEF UpdateByOthers, Credits!UpdateByOthers, chainVars
  <2> QED
    BY <2>1 DEF Credits!Next
<1>6. CASE \/ Chain
           \/ \E u \in Users : CreateAddress(u)
           \/ \E o \in Outputs : StoreWithdrawal(o)
           \/ UNCHANGED vars
  <2>1. UNCHANGED <<balance, deposit, raced, others>>
    BY <1>6 DEF Chain, CreateAddress, StoreWithdrawal, vars
  <2> QED
    BY <1>1, <2>1
<1> QED
  BY <1>1, <1>2, <1>3, <1>4, <1>5, <1>6, CommitConfirmRefines DEF Next

\* Deposits are credited as the ledger says: with their row, once, with their
\* amount, unless instances race for them (deposit/mod.rs:62-83).
THEOREM Refinement == Spec => ImplementsLedger
<1>1. Init => Credits!Init
  BY DEF Init, Credits!Init
<1> QED
  BY <1>1, Invariance, StepRefines, PTL DEF Spec, ImplementsLedger, Credits!Spec
-------------------------------------------------------------------------------
(* Accounting *)

\* A user's confirmed deposits are finitely many, and their amounts add up to an
\* integer.
LEMMA OwedIsInteger ==
    ASSUME TypeOK, NEW u \in Users
    PROVE  /\ IsFiniteSet(DepositedBy(u)) /\ DepositedBy(u) \subseteq Outputs
           /\ \A o \in Outputs : Amount[o] \in Int /\ Amount[o] > 0
           /\ SumOf(Amount, DepositedBy(u)) \in Int
           /\ balance[u] \in Int /\ InitialBalance[u] \in Int /\ others[u] \in Int
<1>1. IsFiniteSet(DepositedBy(u)) /\ DepositedBy(u) \subseteq Outputs
  BY FS_Subset DEF DepositedBy
<1>2. \A o \in Outputs : Amount[o] \in Int /\ Amount[o] > 0
  OBVIOUS
<1>3. SumOf(Amount, DepositedBy(u)) \in Int
  BY <1>1, <1>2, SumIsInteger
<1> QED
  BY <1>1, <1>2, <1>3 DEF TypeOK

\* A step of the ledger keeps balances and confirmed deposits in agreement, and
\* exceeds them only for an output that is raced for.
LEMMA LedgerKeepsExact ==
    ASSUME TypeOK, TypeOK', CreditsAreExact, [Credits!Next]_(Credits!vars)
    PROVE  CreditsAreExact'
<1> DEFINE Exact(u, owed, races) ==
             /\ balance'[u] >= owed
             /\ balance'[u] > owed => \E o \in races : PaysTo[o] = u
<1> SUFFICES ASSUME NEW u \in Users PROVE Exact(u, Owed(u)', raced')
  BY DEF CreditsAreExact
<1>1. /\ balance[u] >= Owed(u)
      /\ balance[u] > Owed(u) => \E o \in raced : PaysTo[o] = u
  BY DEF CreditsAreExact
<1>2. /\ IsFiniteSet(DepositedBy(u)) /\ DepositedBy(u) \subseteq Outputs
      /\ \A o \in Outputs : Amount[o] \in Int /\ Amount[o] > 0
      /\ SumOf(Amount, DepositedBy(u)) \in Int
      /\ balance[u] \in Int /\ InitialBalance[u] \in Int /\ others[u] \in Int
  BY OwedIsInteger
<1>3. DepositedBy(u) = {o \in Outputs : PaysTo[o] = u /\ o \in ConfirmedOutputs}
  BY DEF DepositedBy, ConfirmedOutputs
<1>4. ASSUME NEW rows1, ConfirmedOutputs' = rows1
      PROVE  DepositedBy(u)' = {o \in Outputs : PaysTo[o] = u /\ o \in rows1}
  BY <1>4 DEF DepositedBy, ConfirmedOutputs
<1>5. Owed(u) = InitialBalance[u] + others[u] + SumOf(Amount, DepositedBy(u))
  BY DEF Owed
<1>6. ASSUME NEW S, DepositedBy(u)' = S
      PROVE  Owed(u)' = InitialBalance[u] + others'[u] + SumOf(Amount, S)
  BY <1>6 DEF Owed
<1>7. ASSUME ConfirmedOutputs' = ConfirmedOutputs
      PROVE  Owed(u)' = InitialBalance[u] + others'[u] + SumOf(Amount, DepositedBy(u))
  BY <1>3, <1>4, <1>6, <1>7
<1>8. CASE UNCHANGED Credits!vars
  <2>1. ConfirmedOutputs' = ConfirmedOutputs /\ UNCHANGED <<balance, others, raced>>
    BY <1>8 DEF Credits!vars, ConfirmedOutputs
  <2> QED
    BY <1>1, <1>5, <1>7, <2>1
<1>9. ASSUME NEW o \in Outputs, Credits!Value(o) PROVE FALSE
  BY <1>9 DEF Credits!Value
<1>10. ASSUME NEW o \in Outputs, Credits!CreditItem(o) PROVE Exact(u, Owed(u)', raced')
  <2>1. /\ o \notin ConfirmedOutputs /\ ConfirmedOutputs' = ConfirmedOutputs \cup {o}
        /\ balance' = [balance EXCEPT ![PaysTo[o]] = @ + Amount[o]]
        /\ raced \subseteq raced' /\ others' = others
    BY <1>10 DEF Credits!CreditItem, Credits!Pays, ConfirmedOutputs
  <2>2. CASE PaysTo[o] = u
    <3> DEFINE S == DepositedBy(u)
    <3>1. DepositedBy(u)' = S \cup {o} /\ o \notin S
      BY <1>3, <1>4, <2>1, <2>2
    <3>2. IsFiniteSet(S) /\ Amount[o] \in Int /\ \A p \in S : Amount[p] \in Int
      BY <1>2
    <3>3. SumOf(Amount, S \cup {o}) = SumOf(Amount, S) + Amount[o]
      <4> HIDE DEF S
      <4> QED
        BY <3>1, <3>2, SumOfOneMore
    <3>4. Owed(u)' = InitialBalance[u] + others[u] + (SumOf(Amount, S) + Amount[o])
      BY <1>6, <2>1, <3>1, <3>3
    <3>5. balance'[u] = balance[u] + Amount[o]
      BY <2>1, <2>2 DEF TypeOK
    <3>6. Owed(u)' = Owed(u) + Amount[o]
      BY <1>2, <1>5, <3>4
    <3>7. Owed(u) \in Int /\ Amount[o] \in Int
      BY <1>2, <1>5
    <3> QED
      BY <1>1, <1>2, <2>1, <3>5, <3>6, <3>7
  <2>3. CASE PaysTo[o] # u
    <3>1. DepositedBy(u)' = DepositedBy(u)
      BY <1>3, <1>4, <2>1, <2>3
    <3>2. balance'[u] = balance[u]
      BY <2>1, <2>3 DEF TypeOK
    <3> QED
      BY <1>1, <1>5, <1>6, <2>1, <3>1, <3>2
  <2> QED
    BY <2>2, <2>3
<1>11. ASSUME NEW o \in Outputs, Credits!CreditAgain(o) PROVE Exact(u, Owed(u)', raced')
  <2>1. /\ o \in raced /\ raced' = raced /\ ConfirmedOutputs' = ConfirmedOutputs
        /\ balance' = [balance EXCEPT ![PaysTo[o]] = @ + Amount[o]]
        /\ others' = others
    BY <1>11 DEF Credits!CreditAgain, Credits!Pays, ConfirmedOutputs
  <2>2. Owed(u)' = Owed(u) /\ Owed(u) \in Int
    BY <1>2, <1>5, <1>7, <2>1
  <2>3. balance'[u] = IF PaysTo[o] = u THEN balance[u] + Amount[o] ELSE balance[u]
    BY <2>1 DEF TypeOK
  <2> QED
    BY <1>1, <1>2, <2>1, <2>2, <2>3
<1>12. ASSUME NEW v \in Users, Credits!UpdateByOthers(v)
       PROVE  Exact(u, Owed(u)', raced')
  <2>1. PICK d \in Int : /\ balance' = [balance EXCEPT ![v] = @ + d]
                         /\ others' = [others EXCEPT ![v] = @ + d]
                         /\ raced' = raced /\ ConfirmedOutputs' = ConfirmedOutputs
    BY <1>12 DEF Credits!UpdateByOthers, ConfirmedOutputs
  <2>2. /\ balance'[u] = balance[u] + (IF u = v THEN d ELSE 0)
        /\ others'[u] = others[u] + (IF u = v THEN d ELSE 0)
    BY <1>2, <2>1 DEF TypeOK
  <2>3. Owed(u)' = Owed(u) + (IF u = v THEN d ELSE 0) /\ Owed(u) \in Int
    BY <1>2, <1>5, <1>7, <2>1, <2>2
  <2> QED
    BY <1>1, <1>2, <2>1, <2>2, <2>3
<1> QED
  BY <1>8, <1>9, <1>10, <1>11, <1>12 DEF Credits!Next

\* Every user has been credited each confirmed deposit, and nothing more unless
\* instances have raced for one, for any outputs, instances, conflicts, panics
\* and restarts (deposit/mod.rs:62-83).
THEOREM CreditsAreExactAlways == Spec => []CreditsAreExact
<1>1. Init => CreditsAreExact
  <2> SUFFICES ASSUME Init, NEW u \in Users
               PROVE  balance[u] = Owed(u) /\ balance[u] \in Int
    BY DEF CreditsAreExact
  <2>1. DepositedBy(u) = {}
    BY DEF Init, DepositedBy
  <2>2. SumOf(Amount, DepositedBy(u)) = 0
    BY <2>1, SumOfNothing
  <2> QED
    BY <2>2 DEF Init, Owed
<1>2. IInv /\ IInv' /\ CreditsAreExact /\ [Next]_vars => CreditsAreExact'
  BY StepRefines, LedgerKeepsExact DEF IInv
<1> QED
  BY <1>1, <1>2, Invariance, PTL DEF Spec
===============================================================================
