---------------------------- MODULE InvoicesProofs ----------------------------
(***************************************************************************)
(* Proofs about Invoices, for any instances of the service: its inductive  *)
(* invariant, that no settlement is lost silently, that every step is one  *)
(* of the ledger, and that balances and rows therefore agree.              *)
(***************************************************************************)
EXTENDS Invoices, SumsProofs, TLAPS

USE InvoicesAssumption DEF Absent, Open

-------------------------------------------------------------------------------
(* Steps of one instance that leave the rows and the node alone *)

\* What IInv says of one instance.
InstanceOK(w) == TasksOK(w) /\ HandlerOK(w) /\ OpenOrRaced(w) /\ CursorBehindStream(w)

\* The rows, the node and the history of races are as they were.
RowsKeep == UNCHANGED <<stored, nodeIndex, paid, raced>>

\* A step of one instance leaves the tasks of the others as they are.
OthersKeep(w) ==
    \A v \in Instances :
        v # w => /\ creating'[v] = creating[v] /\ phase'[v] = phase[v]
                 /\ scan'[v] = scan[v]
                 /\ listener'[v] = listener[v] /\ stream'[v] = stream[v]
                 /\ step'[v] = step[v] /\ current'[v] = current[v]
                 /\ snapshot'[v] = snapshot[v]

\* Whoever is alone stays so, unless this instance starts.
AloneKeeps(w) ==
    \/ alone' = alone /\ (phase[w] = "down" => phase'[w] = "down")
    \/ alone' \subseteq {w} /\ AloneOK'

\* What is due in other instances stays due; nothing due here gets lost.
DueKeeps(w) ==
    /\ \A i \in Uncredited : Due(w, i) => Due(w, i)' \/ i \in missed'
    /\ \A i \in Uncredited : i \in missed => Due(w, i)' \/ i \in missed'

\* It is enough to look at the instance that moved.
LEMMA MovedInstance ==
    ASSUME IInv, NoSilentLoss, NEW w \in Instances,
           TypeOK', RowsKeep, OthersKeep(w), AloneKeeps(w),
           creating'[w] \subseteq creating[w],
           InstanceOK(w)', DueKeeps(w)
    PROVE  (IInv /\ NoSilentLoss)'
<1>1. RowsAreTheNodes'
  BY DEF IInv, RowsAreTheNodes, RowsKeep, Settled
<1>2. CreatingOK'
  <2>1. \A v \in Instances : creating'[v] \subseteq creating[v]
    BY DEF OthersKeep
  <2> QED
    BY <2>1 DEF IInv, CreatingOK, RowsKeep
<1>3. ASSUME NEW v \in Instances, v # w PROVE InstanceOK(v)'
  <2>1. InstanceOK(v)
    BY DEF IInv, InstanceOK
  <2>2. /\ creating'[v] = creating[v] /\ phase'[v] = phase[v]
        /\ scan'[v] = scan[v]
        /\ listener'[v] = listener[v] /\ stream'[v] = stream[v]
        /\ step'[v] = step[v] /\ current'[v] = current[v]
        /\ snapshot'[v] = snapshot[v]
    BY <1>3 DEF OthersKeep
  <2>3. TasksOK(v)' /\ HandlerOK(v)'
    BY <2>1, <2>2 DEF InstanceOK, RowsKeep, TasksOK, HandlerOK, Settled
  <2>4. OpenOrRaced(v)'
    BY <2>1, <2>2 DEF InstanceOK, RowsKeep, OpenOrRaced, HasOpen
  <2>5. v \in alone' => v \in alone
    BY <1>3 DEF AloneKeeps
  <2>6. CursorBehindStream(v)'
    BY <2>1, <2>2, <2>5 DEF InstanceOK, RowsKeep, CursorBehindStream
  <2> QED
    BY <2>3, <2>4, <2>6 DEF InstanceOK
<1>4. NoSilentLoss'
  <2>1. Uncredited' = Uncredited
    BY DEF RowsKeep, Uncredited, Settled
  <2>2. \A v \in Instances \ {w}, i \in Uncredited : Due(v, i) => Due(v, i)'
    BY DEF OthersKeep, Due, HasOpen
  <2> QED
    BY <2>1, <2>2 DEF NoSilentLoss, DueKeeps
<1>5. raced' # {} => \E v, u \in Instances : v # u
  BY DEF IInv, RowsKeep
<1>6. AloneOK'
  BY DEF IInv, AloneOK, AloneKeeps, OthersKeep
<1> QED
  BY <1>1, <1>2, <1>3, <1>4, <1>5, <1>6 DEF IInv, InstanceOK

\* A task that is done with an invoice holds none.
LEMMA ReturnsFacts ==
    ASSUME TypeOK, NEW w \in Instances, Returns(w)
    PROVE  /\ step' \in [Instances -> {"none", "begin", "loaded"}]
           /\ current' \in [Instances -> [invoice : Invoices \cup {Absent},
                                          settled : BOOLEAN]]
           /\ snapshot' \in [Instances -> BalanceSnapshot]
           /\ step'[w] = "none"
           /\ \A v \in Instances \ {w} : /\ step'[v] = step[v]
                                         /\ current'[v] = current[v]
                                         /\ snapshot'[v] = snapshot[v]
<1>1. Nobody \in [invoice : Invoices \cup {Absent}, settled : BOOLEAN]
  BY DEF Nobody
<1>2. BalanceNew(0) \in BalanceSnapshot
  BY DEF BalanceNew, BalanceSnapshot
<1> QED
  BY <1>1, <1>2 DEF Returns, TypeOK

\* A task that begins with an invoice holds its entity.
LEMMA CompleteFacts ==
    ASSUME TypeOK, NEW w \in Instances, NEW x \in Invoices, NEW known \in BOOLEAN,
           Complete(w, x, known)
    PROVE  /\ step' \in [Instances -> {"none", "begin", "loaded"}]
           /\ current' \in [Instances -> [invoice : Invoices \cup {Absent},
                                          settled : BOOLEAN]]
           /\ step'[w] = "begin"
           /\ current'[w] = [invoice |-> x, settled |-> known]
           /\ snapshot' = snapshot
           /\ \A v \in Instances \ {w} : step'[v] = step[v] /\ current'[v] = current[v]
<1>1. [invoice |-> x, settled |-> known] \in [invoice : Invoices \cup {Absent},
                                                settled : BOOLEAN]
  OBVIOUS
<1>2. /\ step' = [step EXCEPT ![w] = "begin"]
      /\ current' = [current EXCEPT ![w] = [invoice |-> x, settled |-> known]]
      /\ snapshot' = snapshot
  BY Zenon DEF Complete
<1> HIDE DEF Complete
<1> DEFINE e == [invoice |-> x, settled |-> known]
<1>3. e \in [invoice : Invoices \cup {Absent}, settled : BOOLEAN]
      /\ current' = [current EXCEPT ![w] = e]
  BY <1>1, <1>2, Zenon
<1> HIDE DEF e
<1>4. /\ current' \in [Instances -> [invoice : Invoices \cup {Absent}, settled : BOOLEAN]]
      /\ current'[w] = e
      /\ \A v \in Instances \ {w} : current'[v] = current[v]
  BY <1>3 DEF TypeOK
<1>5. /\ step' \in [Instances -> {"none", "begin", "loaded"}]
      /\ step'[w] = "begin"
      /\ \A v \in Instances \ {w} : step'[v] = step[v]
  BY <1>2 DEF TypeOK
<1> QED
  BY <1>2, <1>4, <1>5, Zenon DEF e

\* SkipSettled (invoice/mod.rs:93) preserves the invariant, and loses nothing silently.
LEMMA SkipSettledStep ==
    ASSUME IInv, NoSilentLoss, NEW w \in Instances, SkipSettled(w)
    PROVE  (IInv /\ NoSilentLoss)'
<1>1. TypeOK /\ InstanceOK(w)
  BY DEF IInv, InstanceOK
<1>2. /\ step[w] = "begin" /\ current[w].settled /\ step'[w] = "none"
      /\ UNCHANGED <<balance, rows, node, listening, bounds, history>>
  BY <1>1, ReturnsFacts DEF SkipSettled
<1> USE DEF rows, node, listening, bounds, history
<1>3. TypeOK' /\ OthersKeep(w) /\ AloneKeeps(w)
  BY <1>1, <1>2, ReturnsFacts DEF SkipSettled, TypeOK, OthersKeep, AloneKeeps
<1>4. RowsKeep /\ creating' = creating
  BY <1>2 DEF RowsKeep
<1>5. InstanceOK(w)'
  BY <1>1, <1>2
  DEF InstanceOK, TasksOK, HandlerOK, OpenOrRaced, HasOpen, CursorBehindStream, Settled
<1>6. DueKeeps(w)
  BY <1>2 DEF DueKeeps, Due, HasOpen
<1> QED
  BY <1>3, <1>4, <1>5, <1>6, MovedInstance

\* Settle (invoice/entities.rs:115) preserves the invariant, and loses nothing silently.
LEMMA SettleStep ==
    ASSUME IInv, NoSilentLoss, NEW w \in Instances, Settle(w)
    PROVE  (IInv /\ NoSilentLoss)'
<1>1. TypeOK /\ InstanceOK(w)
  BY DEF IInv, InstanceOK
<1>2. /\ step[w] = "begin" /\ ~current[w].settled
      /\ current' = [current EXCEPT ![w].settled = TRUE]
      /\ step' = [step EXCEPT ![w] = "loaded"]
      /\ UNCHANGED <<balance, rows, node, listening, bounds, history>>
  BY DEF Settle
<1>3. PICK i \in Invoices : i = current[w].invoice
  BY <1>1, <1>2 DEF InstanceOK, HandlerOK
<1> DEFINE snap == Credit(BalanceNew(balance[Owner[i]]), paid[i])
<1>4. snapshot' = [snapshot EXCEPT ![w] = snap]
  BY <1>3 DEF Settle, Payee
<1>5. snap \in BalanceSnapshot /\ snap.amount = snap.original + paid[i]
  BY <1>1 DEF TypeOK, Credit, BalanceNew, BalanceSnapshot
<1> HIDE DEF snap
<1> USE DEF rows, node, listening, bounds, history
<1>6. TypeOK' /\ OthersKeep(w) /\ AloneKeeps(w)
  <2>1. snapshot' \in [Instances -> BalanceSnapshot]
    BY <1>1, <1>4, <1>5 DEF TypeOK
  <2>2. current' \in [Instances -> [invoice : Invoices \cup {Absent}, settled : BOOLEAN]]
    <3>1. [current[w] EXCEPT !.settled = TRUE] \in
              [invoice : Invoices \cup {Absent}, settled : BOOLEAN]
      <4>1. PICK e \in [invoice : Invoices \cup {Absent}, settled : BOOLEAN] :
                e = current[w]
        BY <1>1 DEF TypeOK
      <4>2. [e EXCEPT !.settled = TRUE] \in
                [invoice : Invoices \cup {Absent}, settled : BOOLEAN]
        OBVIOUS
      <4> QED
        BY <4>1, <4>2
    <3>2. current' = [current EXCEPT ![w] = [current[w] EXCEPT !.settled = TRUE]]
      BY <1>2
    <3> QED
      BY <1>1, <3>1, <3>2 DEF TypeOK
  <2>3. step' \in [Instances -> {"none", "begin", "loaded"}]
    BY <1>1, <1>2 DEF TypeOK
  <2> QED
    BY <1>1, <1>2, <1>4, <2>1, <2>2, <2>3 DEF TypeOK, OthersKeep, AloneKeeps
<1>7. RowsKeep /\ creating' = creating
  BY <1>2 DEF RowsKeep
<1>8. /\ step'[w] = "loaded" /\ current'[w].invoice = i /\ current'[w].settled
      /\ snapshot'[w].amount = snapshot'[w].original + paid[i]
  BY <1>1, <1>2, <1>3, <1>4, <1>5 DEF TypeOK
<1>9. InstanceOK(w)'
  BY <1>1, <1>2, <1>3, <1>8
  DEF InstanceOK, TasksOK, HandlerOK, OpenOrRaced, HasOpen, CursorBehindStream, Settled
<1>10. DueKeeps(w)
  BY <1>2, <1>3, <1>8 DEF DueKeeps, Due, HasOpen
<1> QED
  BY <1>6, <1>7, <1>9, <1>10, MovedInstance

\* ConflictDropsCredit (invoice/mod.rs:92) preserves the invariant, and loses nothing silently.
LEMMA ConflictDropsCreditStep ==
    ASSUME IInv, NoSilentLoss, NEW w \in Instances, ConflictDropsCredit(w)
    PROVE  (IInv /\ NoSilentLoss)'
<1>1. TypeOK /\ InstanceOK(w)
  BY DEF IInv, InstanceOK
<1>2. /\ step[w] = "loaded"
      /\ step' = [step EXCEPT ![w] = "begin"]
      /\ missed' = missed \cup {current[w].invoice}
      /\ UNCHANGED <<balance, rows, node, listening, current, snapshot, bounds, raced, alone>>
  BY DEF ConflictDropsCredit
<1>3. current[w].settled /\ current[w].invoice \in Invoices
  BY <1>1, <1>2 DEF InstanceOK, HandlerOK
<1> USE DEF rows, node, listening, bounds
<1>4. TypeOK' /\ OthersKeep(w) /\ AloneKeeps(w)
  BY <1>1, <1>2, <1>3 DEF TypeOK, OthersKeep, AloneKeeps
<1>5. RowsKeep /\ creating' = creating /\ step'[w] = "begin"
  BY <1>1, <1>2 DEF RowsKeep, TypeOK
<1>6. InstanceOK(w)'
  BY <1>1, <1>2, <1>3, <1>5
  DEF InstanceOK, TasksOK, HandlerOK, OpenOrRaced, HasOpen, CursorBehindStream, Settled
<1>7. DueKeeps(w)
  BY <1>2, <1>5 DEF DueKeeps, Due, HasOpen
<1> QED
  BY <1>4, <1>5, <1>6, <1>7, MovedInstance

\* Start (invoice/mod.rs:43) preserves the invariant, and loses nothing silently.
LEMMA StartStep ==
    ASSUME IInv, NoSilentLoss, NEW w \in Instances, Start(w)
    PROVE  (IInv /\ NoSilentLoss)'
<1>1. TypeOK /\ InstanceOK(w)
  BY DEF IInv, InstanceOK
<1> USE DEF rows, node, handling, bounds
<1>2. TypeOK' /\ OthersKeep(w) /\ AloneKeeps(w)
  <2>1. alone' = {v \in {w} : \A x \in Instances \ {w} : phase[x] = "down"}
        /\ phase' = [phase EXCEPT ![w] = "scan"]
    BY DEF Start
  <2>2. alone' \subseteq {w}
    BY <2>1
  <2>3. AloneOK'
    BY <1>1, <2>1 DEF TypeOK, AloneOK
  <2>4. {i \in Invoices : stored[i] = Open} \in SUBSET Invoices
    OBVIOUS
  <2>5. TypeOK'
    BY <1>1, <2>2, <2>4 DEF Start, TypeOK
  <2>6. OthersKeep(w)
    BY <1>1 DEF Start, TypeOK, OthersKeep
  <2> QED
    BY <2>2, <2>3, <2>5, <2>6 DEF AloneKeeps
<1>3. RowsKeep /\ creating' = creating
  BY DEF Start, RowsKeep
<1>4. /\ phase[w] = "down" /\ phase'[w] = "scan"
      /\ scan'[w] = {i \in Invoices : stored[i] = Open}
      /\ step' = step /\ current' = current /\ stream' = stream /\ listener' = listener
      /\ snapshot' = snapshot
  BY <1>1 DEF Start, TypeOK
<1>5. step[w] = "none" /\ listener[w] = "waits" /\ stream[w] = {} /\ scan[w] = {}
  BY <1>1, <1>4 DEF InstanceOK, TasksOK
<1>6. InstanceOK(w)'
  BY <1>1, <1>3, <1>4, <1>5
  DEF RowsKeep, InstanceOK, TasksOK, HandlerOK, OpenOrRaced, HasOpen, CursorBehindStream,
      Settled
<1>7. DueKeeps(w)
  BY <1>4, <1>5 DEF Uncredited, DueKeeps, Due, HasOpen
<1> QED
  BY <1>2, <1>3, <1>6, <1>7, MovedInstance

\* Look (invoice/mod.rs:47) preserves the invariant, and loses nothing silently.
LEMMA LookStep ==
    ASSUME IInv, NoSilentLoss, NEW w \in Instances, NEW x \in Invoices, Look(w, x)
    PROVE  (IInv /\ NoSilentLoss)'
<1>1. TypeOK /\ InstanceOK(w)
  BY DEF IInv, InstanceOK
<1> USE DEF rows, node, bounds, history
<1>2. /\ phase[w] = "scan" /\ step[w] = "none" /\ x \in scan[w]
      /\ scan' = [scan EXCEPT ![w] = @ \ {x}]
      /\ UNCHANGED <<balance, stored, creating, nodeIndex, paid, phase, listener, stream,
                     others, updates, faults, missed, raced, alone>>
  BY DEF Look
<1>3. /\ scan'[w] = scan[w] \ {x}
      /\ scan' \in [Instances -> SUBSET Invoices]
      /\ \A v \in Instances \ {w} : scan'[v] = scan[v]
  <2>1. scan[w] \ {x} \in SUBSET Invoices
    BY <1>1 DEF TypeOK
  <2> QED
    BY <1>1, <1>2, <2>1 DEF TypeOK
<1>4. RowsKeep /\ creating' = creating
  BY <1>2 DEF RowsKeep
<1>5. stored[x] # Absent /\ (stored[x] = Open \/ x \in raced)
      /\ (w \in alone => stored[x] = Open)
  BY <1>1, <1>2 DEF InstanceOK, TasksOK, OpenOrRaced, HasOpen, CursorBehindStream
<1>6. CASE Settled(x)
  <2>1. Complete(w, x, FALSE)
    BY <1>6 DEF Look
  <2>2. /\ step'[w] = "begin" /\ current'[w] = [invoice |-> x, settled |-> FALSE]
        /\ snapshot' = snapshot
    BY <1>1, <2>1, CompleteFacts
  <2>3. /\ step' \in [Instances -> {"none", "begin", "loaded"}]
         /\ current' \in [Instances -> [invoice : Invoices \cup {Absent},
                                        settled : BOOLEAN]]
         /\ \A v \in Instances \ {w} : step'[v] = step[v] /\ current'[v] = current[v]
    BY <1>1, <2>1, CompleteFacts
  <2>4. TypeOK' /\ OthersKeep(w) /\ AloneKeeps(w)
    BY <1>1, <1>2, <1>3, <2>2, <2>3 DEF TypeOK, OthersKeep, AloneKeeps
  <2>5. current'[w].invoice = x /\ current'[w].settled = FALSE
    BY <2>2
  <2>6. stream[w] = {}
    BY <1>1, <1>2 DEF InstanceOK, TasksOK
  <2>7. TasksOK(w)' /\ HandlerOK(w)'
    BY <1>1, <1>2, <1>3, <1>5, <1>6, <2>2, <2>5, <2>6
    DEF InstanceOK, TasksOK, HandlerOK, Settled
  <2>8. OpenOrRaced(w)'
    BY <1>1, <1>2, <1>3, <1>5, <2>2, <2>5 DEF InstanceOK, OpenOrRaced, HasOpen
  <2>9. CursorBehindStream(w)'
    BY <1>1, <1>2, <1>3, <1>5, <2>2, <2>5, <2>6 DEF InstanceOK, CursorBehindStream
  <2>10. DueKeeps(w)
    BY <1>2, <1>3, <2>2, <2>5 DEF DueKeeps, Due, HasOpen
  <2> QED
    BY <1>4, <2>4, <2>7, <2>8, <2>9, <2>10, MovedInstance DEF InstanceOK
<1>7. CASE ~Settled(x)
  <2>1. UNCHANGED <<step, current, snapshot>>
    BY <1>7 DEF Look, handling
  <2>2. TypeOK' /\ OthersKeep(w) /\ AloneKeeps(w)
    BY <1>1, <1>2, <1>3, <2>1 DEF TypeOK, OthersKeep, AloneKeeps
  <2>3. InstanceOK(w)'
    BY <1>1, <1>2, <1>3, <2>1
    DEF InstanceOK, TasksOK, HandlerOK, OpenOrRaced, HasOpen, CursorBehindStream, Settled
  <2>4. DueKeeps(w)
    BY <1>2, <1>3, <1>7, <2>1 DEF Uncredited, DueKeeps, Due, HasOpen
  <2> QED
    BY <1>4, <2>2, <2>3, <2>4, MovedInstance
<1> QED
  BY <1>6, <1>7

\* Serve (invoice/mod.rs:54) preserves the invariant, and loses nothing silently.
LEMMA ServeStep ==
    ASSUME IInv, NoSilentLoss, NEW w \in Instances, Serve(w)
    PROVE  (IInv /\ NoSilentLoss)'
<1>1. TypeOK /\ InstanceOK(w)
  BY DEF IInv, InstanceOK
<1> USE DEF rows, node, handling, bounds, history
<1>2. TypeOK' /\ OthersKeep(w) /\ AloneKeeps(w)
  BY <1>1 DEF Serve, TypeOK, OthersKeep, AloneKeeps
<1>3. RowsKeep /\ creating' = creating
  BY DEF Serve, RowsKeep
<1>4. InstanceOK(w)'
  BY <1>1
  DEF Serve, TypeOK, InstanceOK, TasksOK, HandlerOK, OpenOrRaced, HasOpen,
      CursorBehindStream, Settled
<1>5. DueKeeps(w)
  BY DEF Serve, DueKeeps, Due, HasOpen
<1> QED
  BY <1>2, <1>3, <1>4, <1>5, MovedInstance

\* Subscribe (invoice/mod.rs:65) preserves the invariant, and loses nothing silently.
LEMMA SubscribeStep ==
    ASSUME IInv, NoSilentLoss, NEW w \in Instances, Subscribe(w)
    PROVE  (IInv /\ NoSilentLoss)'
<1>1. TypeOK /\ InstanceOK(w)
  BY DEF IInv, InstanceOK
<1> USE DEF rows, node, handling, bounds
<1>2. Replayed \in SUBSET Invoices
      /\ \A i \in Replayed : Settled(i) /\ \A j \in Invoices : stored[j] < nodeIndex[i]
  BY DEF Replayed
<1>3. /\ phase[w] = "serve" /\ listener[w] = "waits"
      /\ listener' = [listener EXCEPT ![w] = "stream"]
      /\ stream' = [stream EXCEPT ![w] = Replayed]
      /\ missed' = missed \ Replayed
      /\ UNCHANGED <<balance, rows, node, phase, scan, handling, bounds, raced, alone>>
  BY DEF Subscribe
<1>4. TypeOK' /\ OthersKeep(w) /\ AloneKeeps(w)
  BY <1>1, <1>2, <1>3 DEF TypeOK, OthersKeep, AloneKeeps
<1>5. RowsKeep /\ creating' = creating
  BY <1>3 DEF RowsKeep
<1>6. listener'[w] = "stream" /\ stream'[w] = Replayed
  BY <1>1, <1>3 DEF TypeOK
<1>7. step[w] = "none" /\ stream[w] = {}
  BY <1>1, <1>3 DEF InstanceOK, TasksOK
<1> HIDE DEF Replayed
<1>8. InstanceOK(w)'
  BY <1>1, <1>2, <1>3, <1>6, <1>7
  DEF InstanceOK, TasksOK, HandlerOK, OpenOrRaced, HasOpen, CursorBehindStream, Settled
<1>9. DueKeeps(w)
  BY <1>3, <1>6, <1>7 DEF DueKeeps, Due, HasOpen
<1> QED
  BY <1>4, <1>5, <1>8, <1>9, MovedInstance

\* Deliver (invoice/mod.rs:68) preserves the invariant, and loses nothing silently.
LEMMA DeliverStep ==
    ASSUME IInv, NoSilentLoss, NEW w \in Instances, NEW x \in Invoices, Deliver(w, x)
    PROVE  (IInv /\ NoSilentLoss)'
<1>1. TypeOK /\ InstanceOK(w) /\ RowsAreTheNodes
  BY DEF IInv, InstanceOK
<1> USE DEF rows, node, bounds, history
<1>2. /\ listener[w] = "stream" /\ step[w] = "none" /\ x \in stream[w]
      /\ \A j \in stream[w] : nodeIndex[x] <= nodeIndex[j]
      /\ stream' = [stream EXCEPT ![w] = @ \ {x}]
      /\ UNCHANGED <<balance, stored, creating, nodeIndex, paid, phase, scan, listener,
                     others, updates, faults, missed, raced, alone>>
  BY DEF Deliver
<1>3. /\ stream'[w] = stream[w] \ {x}
      /\ stream' \in [Instances -> SUBSET Invoices]
      /\ \A v \in Instances \ {w} : stream'[v] = stream[v]
  <2>1. stream[w] \ {x} \in SUBSET Invoices
    BY <1>1 DEF TypeOK
  <2> QED
    BY <1>1, <1>2, <2>1 DEF TypeOK
<1>4. RowsKeep /\ creating' = creating
  BY <1>2 DEF RowsKeep
<1>5. phase[w] = "serve" /\ scan[w] = {} /\ \A j \in stream[w] : Settled(j)
  BY <1>1, <1>2 DEF InstanceOK, TasksOK, TypeOK
<1>6. CASE stored[x] = Absent
  <2>1. UNCHANGED <<step, current, snapshot>>
    BY <1>6 DEF Deliver, handling
  <2>2. TypeOK' /\ OthersKeep(w) /\ AloneKeeps(w)
    BY <1>1, <1>2, <1>3, <2>1 DEF TypeOK, OthersKeep, AloneKeeps
  <2>3. InstanceOK(w)'
    BY <1>1, <1>2, <1>3, <2>1
    DEF InstanceOK, TasksOK, HandlerOK, OpenOrRaced, HasOpen, CursorBehindStream, Settled
  <2>4. DueKeeps(w)
    BY <1>2, <1>3, <1>6, <2>1 DEF Uncredited, DueKeeps, Due, HasOpen
  <2> QED
    BY <1>4, <2>2, <2>3, <2>4, MovedInstance
<1>7. CASE stored[x] # Absent
  <2> DEFINE known == stored[x] > Open
  <2>1. Complete(w, x, known) /\ known \in BOOLEAN
    BY <1>7 DEF Deliver
  <2>2. stored[x] = Open \/ known
    BY <1>1, <1>5, <1>2, <1>7 DEF RowsAreTheNodes, Settled
  <2>3. w \in alone => stored[x] = Open
    BY <1>1, <1>2, <1>7 DEF RowsAreTheNodes, InstanceOK, CursorBehindStream, TypeOK
  <2>4. stored[x] = Open => known = FALSE
    OBVIOUS
  <2> HIDE DEF known
  <2>5. /\ step' \in [Instances -> {"none", "begin", "loaded"}]
        /\ current' \in [Instances -> [invoice : Invoices \cup {Absent},
                                       settled : BOOLEAN]]
        /\ step'[w] = "begin" /\ current'[w] = [invoice |-> x, settled |-> known]
        /\ snapshot' = snapshot
        /\ \A v \in Instances \ {w} : step'[v] = step[v] /\ current'[v] = current[v]
    BY <1>1, <2>1, CompleteFacts
  <2>6. current'[w].invoice = x /\ current'[w].settled = known
    BY <2>5
  <2>7. TypeOK' /\ OthersKeep(w) /\ AloneKeeps(w)
    BY <1>1, <1>2, <1>3, <2>5 DEF TypeOK, OthersKeep, AloneKeeps
  <2>8. TasksOK(w)' /\ HandlerOK(w)'
    BY <1>1, <1>2, <1>3, <1>5, <1>7, <2>5, <2>6
    DEF InstanceOK, TasksOK, HandlerOK, Settled
  <2>9. OpenOrRaced(w)'
    BY <1>2, <1>5, <2>2, <2>5, <2>6 DEF OpenOrRaced, HasOpen
  <2>10. CursorBehindStream(w)'
    <3> SUFFICES ASSUME w \in alone
                 PROVE  /\ stored[x] = Open
                        /\ \A i \in stream[w] \ {x} :
                             /\ \A j \in Invoices : stored[j] < nodeIndex[i]
                             /\ nodeIndex[x] < nodeIndex[i]
      BY <1>2, <1>3, <1>5, <2>5, <2>6 DEF CursorBehindStream
    <3>1. ASSUME NEW i \in stream[w] \ {x} PROVE nodeIndex[x] < nodeIndex[i]
      <4>1. i \in Invoices /\ Settled(x)
        BY <1>1, <1>2, <1>5 DEF TypeOK
      <4>2. nodeIndex[x] # nodeIndex[i] /\ nodeIndex[x] <= nodeIndex[i]
        BY <1>1, <1>2, <4>1 DEF RowsAreTheNodes
      <4>3. nodeIndex[x] \in Int /\ nodeIndex[i] \in Int
        BY <1>1, <4>1 DEF TypeOK
      <4> QED
        BY <4>2, <4>3
    <3> QED
      BY <1>1, <2>3, <3>1 DEF InstanceOK, CursorBehindStream
  <2>11. DueKeeps(w)
    <3>1. \A i \in Uncredited \ {x} : Due(w, i) => Due(w, i)'
      BY <1>2, <1>3, <2>5 DEF Due, HasOpen
    <3>2. x \in Uncredited => Due(w, x)'
      BY <2>4, <2>5, <2>6 DEF Uncredited, Due, HasOpen
    <3> QED
      BY <1>2, <3>1, <3>2 DEF DueKeeps
  <2> QED
    BY <1>4, <2>7, <2>8, <2>9, <2>10, <2>11, MovedInstance DEF InstanceOK
<1> QED
  BY <1>6, <1>7

\* LoseStream (ln/node.rs:411) preserves the invariant, and loses nothing silently.
LEMMA LoseStreamStep ==
    ASSUME IInv, NoSilentLoss, NEW w \in Instances, LoseStream(w)
    PROVE  (IInv /\ NoSilentLoss)'
<1>1. TypeOK /\ InstanceOK(w)
  BY DEF IInv, InstanceOK
<1> USE DEF rows, node, handling, Fault
<1>2. /\ listener[w] = "stream" /\ step[w] = "none"
      /\ listener' = [listener EXCEPT ![w] = "waits"]
      /\ stream' = [stream EXCEPT ![w] = {}]
      /\ missed' = missed \cup stream[w]
      /\ UNCHANGED <<balance, rows, node, phase, scan, handling, others, updates, raced,
                     alone>>
  BY DEF LoseStream
<1>3. TypeOK' /\ OthersKeep(w) /\ AloneKeeps(w)
  BY <1>1, <1>2 DEF LoseStream, TypeOK, OthersKeep, AloneKeeps
<1>4. RowsKeep /\ creating' = creating
  BY <1>2 DEF RowsKeep
<1>5. listener'[w] = "waits" /\ stream'[w] = {}
  BY <1>1, <1>2 DEF TypeOK
<1>6. InstanceOK(w)'
  BY <1>1, <1>2, <1>5
  DEF InstanceOK, TasksOK, HandlerOK, OpenOrRaced, HasOpen, CursorBehindStream, Settled
<1>7. DueKeeps(w)
  BY <1>2 DEF DueKeeps, Due, HasOpen
<1> QED
  BY <1>3, <1>4, <1>6, <1>7, MovedInstance

\* EndStream (ln/node.rs:411) preserves the invariant, and loses nothing silently.
LEMMA EndStreamStep ==
    ASSUME IInv, NoSilentLoss, NEW w \in Instances, EndStream(w)
    PROVE  (IInv /\ NoSilentLoss)'
<1>1. TypeOK /\ InstanceOK(w)
  BY DEF IInv, InstanceOK
<1> USE DEF rows, node, handling, Fault
<1>2. /\ listener[w] = "stream" /\ step[w] = "none" /\ stream[w] = {}
      /\ listener' = [listener EXCEPT ![w] = "ended"]
      /\ UNCHANGED <<balance, rows, node, phase, scan, stream, handling, others, updates,
                     missed, raced, alone>>
  BY DEF EndStream
<1>3. TypeOK' /\ OthersKeep(w) /\ AloneKeeps(w)
  BY <1>1, <1>2 DEF EndStream, TypeOK, OthersKeep, AloneKeeps
<1>4. RowsKeep /\ creating' = creating /\ listener'[w] = "ended"
  BY <1>1, <1>2 DEF RowsKeep, TypeOK
<1>5. InstanceOK(w)'
  BY <1>1, <1>2, <1>4
  DEF InstanceOK, TasksOK, HandlerOK, OpenOrRaced, HasOpen, CursorBehindStream, Settled
<1>6. DueKeeps(w)
  BY <1>2 DEF DueKeeps, Due, HasOpen
<1> QED
  BY <1>3, <1>4, <1>5, <1>6, MovedInstance

\* HandlerPanics (invoice/mod.rs:69) preserves the invariant, and loses nothing silently.
LEMMA HandlerPanicsStep ==
    ASSUME IInv, NoSilentLoss, NEW w \in Instances, HandlerPanics(w)
    PROVE  (IInv /\ NoSilentLoss)'
<1>1. TypeOK /\ InstanceOK(w)
  BY DEF IInv, InstanceOK
<1> USE DEF rows, node, listening, Fault
<1>2. /\ step[w] # "none" /\ step'[w] = "none"
      /\ missed' = missed \cup {current[w].invoice}
      /\ UNCHANGED <<balance, rows, node, listening, others, updates, raced, alone>>
  BY <1>1, ReturnsFacts DEF HandlerPanics
<1>3. current[w].invoice \in Invoices
  BY <1>1, <1>2 DEF InstanceOK, HandlerOK
<1>4. TypeOK' /\ OthersKeep(w) /\ AloneKeeps(w)
  <2>1. faults' \in 0 .. MaxFaults
    BY <1>1 DEF HandlerPanics, TypeOK
  <2>2. /\ step' \in [Instances -> {"none", "begin", "loaded"}]
        /\ current' \in [Instances -> [invoice : Invoices \cup {Absent},
                                       settled : BOOLEAN]]
        /\ snapshot' \in [Instances -> BalanceSnapshot]
        /\ \A v \in Instances \ {w} : /\ step'[v] = step[v]
                                      /\ current'[v] = current[v]
                                      /\ snapshot'[v] = snapshot[v]
    BY <1>1, ReturnsFacts DEF HandlerPanics
  <2> QED
    BY <1>1, <1>2, <1>3, <2>1, <2>2 DEF TypeOK, OthersKeep, AloneKeeps
<1>5. RowsKeep /\ creating' = creating
  BY <1>2 DEF RowsKeep
<1>6. InstanceOK(w)'
  BY <1>1, <1>2
  DEF InstanceOK, TasksOK, HandlerOK, OpenOrRaced, HasOpen, CursorBehindStream, Settled
<1>7. DueKeeps(w)
  BY <1>2 DEF DueKeeps, Due, HasOpen
<1> QED
  BY <1>4, <1>5, <1>6, <1>7, MovedInstance

\* Crash (invoice/mod.rs:43) preserves the invariant, and loses nothing silently.
LEMMA CrashStep ==
    ASSUME IInv, NoSilentLoss, NEW w \in Instances, Crash(w)
    PROVE  (IInv /\ NoSilentLoss)'
<1>1. TypeOK /\ InstanceOK(w)
  BY DEF IInv, InstanceOK
<1> USE DEF node, Fault
<1>2. /\ step'[w] = "none"
      /\ phase' = [phase EXCEPT ![w] = "down"]
      /\ creating' = [creating EXCEPT ![w] = {}]
      /\ scan' = [scan EXCEPT ![w] = {}]
      /\ listener' = [listener EXCEPT ![w] = "waits"]
      /\ stream' = [stream EXCEPT ![w] = {}]
      /\ missed' = missed \cup (Held(w) \cap Uncredited)
      /\ UNCHANGED <<balance, stored, node, others, updates, raced, alone>>
  BY <1>1, ReturnsFacts DEF Crash
<1>3. TypeOK' /\ OthersKeep(w) /\ AloneKeeps(w)
  <2>1. faults' \in 0 .. MaxFaults
    BY <1>1 DEF Crash, TypeOK
  <2>2. /\ step' \in [Instances -> {"none", "begin", "loaded"}]
        /\ current' \in [Instances -> [invoice : Invoices \cup {Absent},
                                       settled : BOOLEAN]]
        /\ snapshot' \in [Instances -> BalanceSnapshot]
        /\ \A v \in Instances \ {w} : /\ step'[v] = step[v]
                                      /\ current'[v] = current[v]
                                      /\ snapshot'[v] = snapshot[v]
    BY <1>1, ReturnsFacts DEF Crash
  <2>3. missed' \subseteq Invoices
    BY <1>1, <1>2 DEF TypeOK, Uncredited
  <2> QED
    BY <1>1, <1>2, <2>1, <2>2, <2>3 DEF TypeOK, OthersKeep, AloneKeeps
<1>4. RowsKeep
  BY <1>2 DEF RowsKeep
<1>5. /\ phase'[w] = "down" /\ creating'[w] = {} /\ scan'[w] = {} /\ stream'[w] = {}
      /\ listener'[w] = "waits"
  BY <1>1, <1>2 DEF TypeOK
<1>6. InstanceOK(w)'
  BY <1>2, <1>5
  DEF InstanceOK, TasksOK, HandlerOK, OpenOrRaced, HasOpen, CursorBehindStream
<1>7. DueKeeps(w)
  BY <1>2 DEF DueKeeps, Due, HasOpen, Held
<1> QED
  BY <1>3, <1>4, <1>5, <1>6, <1>7, MovedInstance

-------------------------------------------------------------------------------
(* Steps that change the rows, the node or the balances *)

\* CreateAtNode (invoice/entities.rs:56) preserves the invariant, and loses nothing silently.
LEMMA CreateAtNodeStep ==
    ASSUME IInv, NoSilentLoss, NEW w \in Instances, NEW x \in Invoices, CreateAtNode(w, x)
    PROVE  (IInv /\ NoSilentLoss)'
<1>1. TypeOK /\ RowsAreTheNodes /\ CreatingOK /\ \A v \in Instances : InstanceOK(v)
  BY DEF IInv, InstanceOK
<1> USE DEF listening, handling, bounds, history
<1>2. /\ phase[w] = "serve" /\ nodeIndex[x] = Absent
      /\ nodeIndex' = [nodeIndex EXCEPT ![x] = Open]
      /\ creating' = [creating EXCEPT ![w] = @ \cup {x}]
      /\ UNCHANGED <<balance, stored, paid, listening, handling, bounds, history>>
  BY DEF CreateAtNode
<1>3. stored[x] = Absent /\ x \notin Foreign
  BY <1>1, <1>2 DEF RowsAreTheNodes
<1>4. \A i \in Invoices : nodeIndex'[i] = IF i = x THEN Open ELSE nodeIndex[i]
  BY <1>1, <1>2 DEF TypeOK
<1>5. \A i \in Invoices : Settled(i)' <=> Settled(i)
  BY <1>2, <1>4 DEF Settled
<1>6. TypeOK'
  <2>1. creating[w] \cup {x} \in SUBSET Invoices
    BY <1>1 DEF TypeOK
  <2> QED
    BY <1>1, <1>2, <2>1 DEF TypeOK
<1>7. \A v \in Instances, i \in Invoices :
        i \in creating'[v] <=> i \in creating[v] \/ (v = w /\ i = x)
  BY <1>1, <1>2 DEF TypeOK
<1>8. RowsAreTheNodes'
  <2>1. \A i, j \in Invoices :
          Settled(i)' /\ nodeIndex'[i] = nodeIndex'[j] => i = j
    BY <1>1, <1>4, <1>5 DEF RowsAreTheNodes, Settled, TypeOK
  <2>2. ASSUME NEW i \in Invoices
        PROVE  /\ stored'[i] \in {Absent, Open, nodeIndex'[i]}
               /\ stored'[i] # Absent => nodeIndex'[i] # Absent
               /\ i \in Foreign => stored'[i] = Absent /\ nodeIndex'[i] # Absent
               /\ i \in raced' => stored'[i] > Open
    <3>1. CASE i = x
      BY <1>1, <1>2, <1>3, <1>4, <3>1 DEF RowsAreTheNodes
    <3>2. CASE i # x
      BY <1>1, <1>2, <1>4, <3>2 DEF RowsAreTheNodes
    <3> QED
      BY <3>1, <3>2
  <2> QED
    BY <2>1, <2>2 DEF RowsAreTheNodes
<1>9. CreatingOK'
  BY <1>1, <1>2, <1>3, <1>4, <1>7 DEF CreatingOK
<1>10. ASSUME NEW v \in Instances PROVE InstanceOK(v)'
  <2>1. InstanceOK(v)
    BY <1>1
  <2>2. scan[v] \subseteq Invoices /\ stream[v] \subseteq Invoices
    BY <1>1 DEF TypeOK
  <2>3. TasksOK(v)'
    <3>1. phase[v] = "down" => v # w
      BY <1>2
    <3> QED
      BY <1>1, <1>2, <1>5, <2>1, <2>2, <3>1 DEF InstanceOK, TasksOK, TypeOK
  <2>4. HandlerOK(v)' /\ OpenOrRaced(v)'
    BY <1>2, <1>5, <2>1 DEF InstanceOK, HandlerOK, OpenOrRaced, HasOpen
  <2>5. CursorBehindStream(v)'
    BY <1>2, <1>4, <2>1, <2>2
    DEF InstanceOK, TasksOK, HandlerOK, CursorBehindStream, Settled
  <2> QED
    BY <2>3, <2>4, <2>5 DEF InstanceOK
<1>11. NoSilentLoss'
  BY <1>2, <1>5 DEF NoSilentLoss, Uncredited, Due, HasOpen
<1>12. raced' # {} => \E v, u \in Instances : v # u
  BY <1>2 DEF IInv
<1>13. AloneOK'
  BY <1>2 DEF IInv, AloneOK
<1> QED
  BY <1>6, <1>8, <1>9, <1>10, <1>11, <1>12, <1>13 DEF IInv, InstanceOK

\* Store (invoice/mod.rs:29) preserves the invariant, and loses nothing silently.
LEMMA StoreStep ==
    ASSUME IInv, NoSilentLoss, NEW w \in Instances, NEW x \in Invoices, Store(w, x)
    PROVE  (IInv /\ NoSilentLoss)'
<1>1. TypeOK /\ RowsAreTheNodes /\ CreatingOK /\ \A v \in Instances : InstanceOK(v)
  BY DEF IInv, InstanceOK
<1> USE DEF node, listening, handling, bounds, history
<1>2. /\ x \in creating[w]
      /\ creating' = [creating EXCEPT ![w] = @ \ {x}]
      /\ stored' = [stored EXCEPT ![x] = Open]
      /\ UNCHANGED <<balance, node, listening, handling, bounds, history>>
  BY DEF Store
<1>3. /\ stored[x] = Absent /\ nodeIndex[x] = Open /\ x \notin Foreign
      /\ \A v \in Instances : x \in creating[v] => v = w
  BY <1>1, <1>2 DEF CreatingOK
<1>4. \A i \in Invoices : stored'[i] = IF i = x THEN Open ELSE stored[i]
  BY <1>1, <1>2 DEF TypeOK
<1>5. \A i \in Invoices : Settled(i)' <=> Settled(i)
  BY <1>2 DEF Settled
<1>6. TypeOK'
  <2>1. creating[w] \ {x} \in SUBSET Invoices
    BY <1>1 DEF TypeOK
  <2> QED
    BY <1>1, <1>2, <2>1 DEF TypeOK
<1>7. \A v \in Instances, i \in Invoices :
        i \in creating'[v] <=> i \in creating[v] /\ ~(v = w /\ i = x)
  BY <1>1, <1>2 DEF TypeOK
<1>8. RowsAreTheNodes'
  <2>1. \A i, j \in Invoices :
          Settled(i)' /\ nodeIndex'[i] = nodeIndex'[j] => i = j
    BY <1>1, <1>2, <1>5 DEF RowsAreTheNodes
  <2>2. ASSUME NEW i \in Invoices
        PROVE  /\ stored'[i] \in {Absent, Open, nodeIndex'[i]}
               /\ stored'[i] # Absent => nodeIndex'[i] # Absent
               /\ i \in Foreign => stored'[i] = Absent /\ nodeIndex'[i] # Absent
               /\ i \in raced' => stored'[i] > Open
    <3>1. CASE i = x
      BY <1>1, <1>2, <1>3, <1>4, <3>1 DEF RowsAreTheNodes
    <3>2. CASE i # x
      BY <1>1, <1>2, <1>4, <3>2 DEF RowsAreTheNodes
    <3> QED
      BY <3>1, <3>2
  <2> QED
    BY <2>1, <2>2 DEF RowsAreTheNodes
<1>9. CreatingOK'
  BY <1>1, <1>2, <1>3, <1>4, <1>7 DEF CreatingOK
<1>10. ASSUME NEW v \in Instances PROVE InstanceOK(v)'
  <2>1. InstanceOK(v)
    BY <1>1
  <2>2. scan[v] \subseteq Invoices /\ stream[v] \subseteq Invoices
    BY <1>1 DEF TypeOK
  <2>3. TasksOK(v)'
    <3>1. creating[v] = {} => creating'[v] = {}
      BY <1>1, <1>2, <1>7 DEF TypeOK
    <3> QED
      BY <1>2, <1>4, <1>5, <2>1, <2>2, <3>1 DEF InstanceOK, TasksOK
  <2>4. HandlerOK(v)' /\ OpenOrRaced(v)'
    BY <1>2, <1>4, <1>5, <2>1 DEF InstanceOK, HandlerOK, OpenOrRaced, HasOpen
  <2>5. CursorBehindStream(v)'
    BY <1>2, <1>4, <2>1, <2>2
    DEF InstanceOK, TasksOK, HandlerOK, CursorBehindStream, Settled
  <2> QED
    BY <2>3, <2>4, <2>5 DEF InstanceOK
<1>11. NoSilentLoss'
  <2>1. Uncredited' = Uncredited
    BY <1>3, <1>4, <1>5 DEF Uncredited, Settled
  <2> QED
    BY <1>2, <2>1 DEF NoSilentLoss, Due, HasOpen
<1>12. raced' # {} => \E v, u \in Instances : v # u
  BY <1>2 DEF IInv
<1>13. AloneOK'
  BY <1>2 DEF IInv, AloneOK
<1> QED
  BY <1>6, <1>8, <1>9, <1>10, <1>11, <1>12, <1>13 DEF IInv, InstanceOK

\* Pay (ln/node.rs:365) preserves the invariant, and loses nothing silently.
LEMMA PayStep ==
    ASSUME IInv, NoSilentLoss, NEW x \in Invoices, Pay(x)
    PROVE  (IInv /\ NoSilentLoss)'
<1>1. TypeOK /\ RowsAreTheNodes /\ CreatingOK /\ \A v \in Instances : InstanceOK(v)
  BY DEF IInv, InstanceOK
<1> USE DEF rows, handling, bounds
<1>2. PICK n \in NextIndexes : nodeIndex' = [nodeIndex EXCEPT ![x] = n]
  BY DEF Pay
<1>3. PICK amount \in PaidAmounts : paid' = [paid EXCEPT ![x] = amount]
  BY DEF Pay
<1>4. /\ nodeIndex[x] = Open
      /\ stored[x] = Open \/ x \in Foreign
      /\ stream' = [v \in Instances |->
           IF listener[v] = "stream" THEN stream[v] \cup {x} ELSE stream[v]]
      /\ missed' = IF \E v \in Instances : listener[v] = "stream" \/ x \in scan[v]
                   THEN missed ELSE missed \cup {x}
      /\ UNCHANGED <<balance, rows, phase, scan, listener, handling, bounds, raced, alone>>
  BY DEF Pay
<1>5. n \in Nat /\ n > Open /\ \A i \in Invoices : nodeIndex[i] < n
  BY <1>2, <1>4 DEF NextIndexes
<1>6. \A i \in Invoices : nodeIndex'[i] = IF i = x THEN n ELSE nodeIndex[i]
  BY <1>1, <1>2 DEF TypeOK
<1>7. ~Settled(x) /\ \A i \in Invoices : Settled(i)' <=> Settled(i) \/ i = x
  BY <1>4, <1>5, <1>6 DEF Settled
<1>8. \A i \in Invoices : i # x => paid'[i] = paid[i]
  BY <1>1, <1>3 DEF TypeOK
<1>9. \A v \in Instances :
        /\ listener[v] = "stream" => stream'[v] = stream[v] \cup {x}
        /\ listener[v] # "stream" => stream'[v] = stream[v]
  BY <1>4
<1>10. TypeOK'
  <2>1. nodeIndex' \in [Invoices -> {Absent} \cup Nat]
    BY <1>1, <1>2, <1>5 DEF TypeOK
  <2>2. paid' \in [Invoices -> Nat]
    BY <1>1, <1>3 DEF TypeOK
  <2>3. stream' \in [Instances -> SUBSET Invoices]
    BY <1>1, <1>4 DEF TypeOK
  <2> QED
    BY <1>1, <1>4, <2>1, <2>2, <2>3 DEF TypeOK
<1>11. RowsAreTheNodes'
  <2>1. \A i, j \in Invoices :
          Settled(i)' /\ nodeIndex'[i] = nodeIndex'[j] => i = j
    BY <1>1, <1>5, <1>6, <1>7 DEF RowsAreTheNodes, TypeOK
  <2>2. ASSUME NEW i \in Invoices
        PROVE  /\ stored'[i] \in {Absent, Open, nodeIndex'[i]}
               /\ stored'[i] # Absent => nodeIndex'[i] # Absent
               /\ i \in Foreign => stored'[i] = Absent /\ nodeIndex'[i] # Absent
               /\ i \in raced' => stored'[i] > Open
    <3>1. CASE i = x
      BY <1>1, <1>4, <1>5, <1>6, <3>1 DEF RowsAreTheNodes
    <3>2. CASE i # x
      BY <1>1, <1>4, <1>6, <3>2 DEF RowsAreTheNodes
    <3> QED
      BY <3>1, <3>2
  <2> QED
    BY <2>1, <2>2 DEF RowsAreTheNodes
<1>12. CreatingOK'
  BY <1>1, <1>4, <1>6 DEF CreatingOK
<1>13. ASSUME NEW v \in Instances PROVE InstanceOK(v)'
  <2>1. InstanceOK(v)
    BY <1>1
  <2>2. scan[v] \subseteq Invoices /\ stream[v] \subseteq Invoices
    BY <1>1 DEF TypeOK
  <2>3. TasksOK(v)'
    BY <1>4, <1>7, <1>9, <2>1, <2>2 DEF InstanceOK, TasksOK
  <2>4. HandlerOK(v)' /\ OpenOrRaced(v)'
    BY <1>4, <1>7, <1>8, <2>1 DEF InstanceOK, HandlerOK, OpenOrRaced, HasOpen
  <2>5. CursorBehindStream(v)'
    <3>1. \A j \in Invoices : stored[j] < n
      BY <1>1, <1>5 DEF RowsAreTheNodes
    <3>2. step[v] # "none" =>
            current[v].invoice \in Invoices /\ current[v].invoice # x
      BY <1>7, <2>1 DEF InstanceOK, HandlerOK
    <3>3. \A i \in stream[v] : i # x /\ i \in Invoices
      BY <1>7, <2>1, <2>2 DEF InstanceOK, TasksOK
    <3> QED
      BY <1>4, <1>5, <1>6, <1>9, <2>1, <2>2, <3>1, <3>2, <3>3
      DEF InstanceOK, CursorBehindStream
  <2> QED
    BY <2>3, <2>4, <2>5 DEF InstanceOK
<1>14. NoSilentLoss'
  <2>1. \A i \in Uncredited' : i = x \/ i \in Uncredited
    BY <1>4, <1>7 DEF Uncredited
  <2>2. \A v \in Instances, i \in Invoices : Due(v, i) => Due(v, i)'
    BY <1>4, <1>9 DEF Due, HasOpen
  <2>3. x \in missed' \/ \E v \in Instances : Due(v, x)'
    BY <1>4, <1>9 DEF Due, HasOpen
  <2>4. missed \subseteq missed' /\ Uncredited \subseteq Invoices
    BY <1>4 DEF Uncredited
  <2> QED
    BY <2>1, <2>2, <2>3, <2>4 DEF NoSilentLoss
<1>15. raced' # {} => \E v, u \in Instances : v # u
  BY <1>4 DEF IInv
<1>16. AloneOK'
  BY <1>4 DEF IInv, AloneOK
<1> QED
  BY <1>10, <1>11, <1>12, <1>13, <1>14, <1>15, <1>16 DEF IInv, InstanceOK

\* CommitCredit (invoice/mod.rs:93) preserves the invariant, and loses nothing silently.
LEMMA CommitCreditStep ==
    ASSUME IInv, NoSilentLoss, NEW w \in Instances, CommitCredit(w)
    PROVE  (IInv /\ NoSilentLoss)'
<1>1. TypeOK /\ RowsAreTheNodes /\ CreatingOK /\ \A v \in Instances : InstanceOK(v)
  BY DEF IInv, InstanceOK
<1> USE DEF node, listening, bounds
<1>2. PICK x \in Invoices : x = current[w].invoice
  BY <1>1 DEF CommitCredit, InstanceOK, HandlerOK
<1>3. /\ step[w] = "loaded"
      /\ stored' = [stored EXCEPT ![x] = nodeIndex[x]]
      /\ missed' = missed \ {x}
      /\ raced' = IF \E v \in Instances \ {w} : HasOpen(v, x) THEN raced \cup {x}
                  ELSE raced
      /\ UNCHANGED <<creating, node, listening, bounds, alone>>
  BY <1>2 DEF CommitCredit, SettleRow
<1>4. /\ step' \in [Instances -> {"none", "begin", "loaded"}]
      /\ current' \in [Instances -> [invoice : Invoices \cup {Absent},
                                     settled : BOOLEAN]]
      /\ snapshot' \in [Instances -> BalanceSnapshot]
      /\ step'[w] = "none"
      /\ \A v \in Instances \ {w} : /\ step'[v] = step[v]
                                    /\ current'[v] = current[v]
                                    /\ snapshot'[v] = snapshot[v]
  BY <1>1, ReturnsFacts DEF CommitCredit
<1>5. /\ Settled(x) /\ stored[x] # Absent /\ x \notin scan[w]
      /\ snapshot[w].amount = snapshot[w].original + paid[x]
  BY <1>1, <1>2, <1>3 DEF InstanceOK, HandlerOK
<1>6. nodeIndex[x] \in Nat /\ nodeIndex[x] > Open
  BY <1>1, <1>5 DEF TypeOK, Settled
<1>7. \A i \in Invoices : stored'[i] = IF i = x THEN nodeIndex[x] ELSE stored[i]
  BY <1>1, <1>3 DEF TypeOK
<1>8. \A i \in Invoices : Settled(i)' <=> Settled(i)
  BY <1>3 DEF Settled
<1>9. balance' \in [Users -> Nat]
  <2>1. Payee(w) \in Users /\ balance[Payee(w)] \in Nat /\ snapshot[w] \in BalanceSnapshot
    BY <1>1, <1>2 DEF TypeOK, Payee
  <2>2. Updated(balance[Payee(w)], snapshot[w]) \in Nat
    BY <2>1 DEF Updated, BalanceSnapshot
  <2> QED
    BY <1>1, <2>2 DEF CommitCredit, TypeOK
<1>10. TypeOK'
  <2>1. raced' \subseteq Invoices /\ missed' \subseteq Invoices
    BY <1>1, <1>3 DEF TypeOK
  <2>2. stored' \in [Invoices -> Int]
    BY <1>1, <1>3, <1>6 DEF TypeOK
  <2> QED
    BY <1>1, <1>3, <1>4, <1>9, <2>1, <2>2 DEF TypeOK
<1>11. RowsAreTheNodes'
  <2>1. \A i, j \in Invoices :
          Settled(i)' /\ nodeIndex'[i] = nodeIndex'[j] => i = j
    BY <1>1, <1>3, <1>8 DEF RowsAreTheNodes
  <2>2. ASSUME NEW i \in Invoices
        PROVE  /\ stored'[i] \in {Absent, Open, nodeIndex'[i]}
               /\ stored'[i] # Absent => nodeIndex'[i] # Absent
               /\ i \in Foreign => stored'[i] = Absent /\ nodeIndex'[i] # Absent
               /\ i \in raced' => stored'[i] > Open
    <3>1. CASE i = x
      BY <1>1, <1>3, <1>5, <1>6, <1>7, <3>1 DEF RowsAreTheNodes
    <3>2. CASE i # x
      BY <1>1, <1>3, <1>7, <3>2 DEF RowsAreTheNodes
    <3> QED
      BY <3>1, <3>2
  <2> QED
    BY <2>1, <2>2 DEF RowsAreTheNodes
<1>12. CreatingOK'
  <2>1. \A v \in Instances : x \notin creating[v]
    BY <1>1, <1>6 DEF CreatingOK
  <2> QED
    BY <1>1, <1>3, <1>7, <2>1 DEF CreatingOK
<1>13. ASSUME NEW v \in Instances PROVE InstanceOK(v)'
  <2>1. InstanceOK(v)
    BY <1>1
  <2>2. scan[v] \subseteq Invoices /\ stream[v] \subseteq Invoices
    BY <1>1 DEF TypeOK
  <2>3. step'[v] = "none" \/ (v # w /\ step'[v] = step[v])
    BY <1>4
  <2>4. TasksOK(v)'
    BY <1>3, <1>6, <1>7, <1>8, <2>1, <2>2, <2>3 DEF InstanceOK, TasksOK
  <2>5. HandlerOK(v)'
    BY <1>3, <1>4, <1>6, <1>7, <1>8, <2>1, <2>3 DEF InstanceOK, HandlerOK
  <2>6. OpenOrRaced(v)'
    <3>1. CASE v = w
      BY <1>3, <1>4, <1>5, <1>7, <2>1, <3>1 DEF InstanceOK, OpenOrRaced, HasOpen
    <3>2. CASE v # w
      BY <1>3, <1>4, <1>7, <2>1, <3>2 DEF InstanceOK, OpenOrRaced, HasOpen
    <3> QED
      BY <3>1, <3>2
  <2>7. CursorBehindStream(v)'
    <3> SUFFICES ASSUME v \in alone PROVE CursorBehindStream(v)'
      BY <1>3 DEF CursorBehindStream
    <3>1. v = w
      <4>1. phase[w] # "down"
        BY <1>1, <1>3 DEF InstanceOK, TasksOK
      <4> QED
        BY <4>1 DEF IInv, AloneOK
    <3>2. \A i \in scan[w] : i # x /\ i \in Invoices /\ stored[i] = Open
      BY <1>5, <2>1, <2>2, <3>1 DEF InstanceOK, CursorBehindStream
    <3>3. \A i \in stream[w] : /\ nodeIndex[x] < nodeIndex[i]
                               /\ \A j \in Invoices : stored[j] < nodeIndex[i]
      BY <1>2, <1>3, <2>1, <3>1 DEF InstanceOK, CursorBehindStream
    <3> QED
      BY <1>3, <1>4, <1>7, <3>1, <3>2, <3>3 DEF CursorBehindStream
  <2> QED
    BY <2>4, <2>5, <2>6, <2>7 DEF InstanceOK
<1>14. NoSilentLoss'
  <2>1. \A i \in Uncredited' : i # x /\ i \in Uncredited
    BY <1>6, <1>7, <1>8 DEF Uncredited
  <2>2. \A v \in Instances, i \in Invoices : i # x /\ Due(v, i) => Due(v, i)'
    BY <1>2, <1>3, <1>4 DEF Due, HasOpen
  <2>3. Uncredited \subseteq Invoices
    BY DEF Uncredited
  <2> QED
    BY <1>3, <2>1, <2>2, <2>3 DEF NoSilentLoss
<1>15. raced' # {} => \E v, u \in Instances : v # u
  BY <1>3 DEF IInv
<1>16. AloneOK'
  BY <1>3 DEF IInv, AloneOK
<1> QED
  BY <1>10, <1>11, <1>12, <1>13, <1>14, <1>15, <1>16 DEF IInv, InstanceOK

\* UpdateByOthers (balance/mod.rs:22) preserves the invariant, and loses nothing silently.
LEMMA UpdateByOthersStep ==
    ASSUME IInv, NoSilentLoss, NEW u \in Users, UpdateByOthers(u)
    PROVE  (IInv /\ NoSilentLoss)'
<1>1. TypeOK
  BY DEF IInv
<1>2. PICK d \in OtherDeltas : /\ balance[u] + d >= 0
                               /\ balance' = [balance EXCEPT ![u] = @ + d]
                               /\ others' = [others EXCEPT ![u] = @ + d]
  BY DEF UpdateByOthers
<1>3. balance[u] + d \in Nat /\ others[u] + d \in Int
  BY <1>1, <1>2 DEF TypeOK
<1>4. UNCHANGED <<stored, creating, nodeIndex, paid, phase, scan, listener, stream, step,
                  current, snapshot, missed, raced, alone>>
  BY DEF UpdateByOthers, rows, node, listening, handling, history
<1>5. TypeOK'
  BY <1>1, <1>2, <1>3, <1>4 DEF UpdateByOthers, TypeOK
<1>6. (RowsAreTheNodes /\ CreatingOK /\ AloneOK)'
  BY <1>4 DEF IInv, RowsAreTheNodes, CreatingOK, AloneOK, Settled
<1>7. \A w \in Instances : InstanceOK(w)'
  BY <1>4
  DEF IInv, InstanceOK, TasksOK, HandlerOK, OpenOrRaced, HasOpen, CursorBehindStream,
      Settled
<1>8. NoSilentLoss'
  BY <1>4 DEF NoSilentLoss, Uncredited, Settled, Due, HasOpen
<1> QED
  BY <1>4, <1>5, <1>6, <1>7, <1>8 DEF IInv, InstanceOK

-------------------------------------------------------------------------------
(* The inductive invariant *)

\* The invariant holds in the initial states.
LEMMA InitIInv == Init => IInv /\ NoSilentLoss
<1> SUFFICES ASSUME Init PROVE IInv /\ NoSilentLoss
  OBVIOUS
<1>1. TypeOK
  BY DEF Init, TypeOK, Nobody, BalanceNew, BalanceSnapshot
<1>2. RowsAreTheNodes /\ CreatingOK /\ AloneOK /\ raced = {}
  BY DEF Init, RowsAreTheNodes, CreatingOK, AloneOK, Settled
<1>3. \A w \in Instances : InstanceOK(w)
  BY DEF Init, InstanceOK, TasksOK, HandlerOK, OpenOrRaced, HasOpen, CursorBehindStream
<1>4. NoSilentLoss
  BY DEF Init, NoSilentLoss, Uncredited
<1> QED
  BY <1>1, <1>2, <1>3, <1>4 DEF IInv, InstanceOK

\* Every step preserves the invariant.
LEMMA NextIInv == IInv /\ NoSilentLoss /\ [Next]_vars => (IInv /\ NoSilentLoss)'
<1> SUFFICES ASSUME IInv, NoSilentLoss, [Next]_vars PROVE (IInv /\ NoSilentLoss)'
  OBVIOUS
<1>1. CASE UNCHANGED vars
  BY <1>1
  DEF vars, IInv, TypeOK, RowsAreTheNodes, CreatingOK, AloneOK, TasksOK, HandlerOK,
      OpenOrRaced, HasOpen, CursorBehindStream, NoSilentLoss, Uncredited, Settled, Due
<1>2. ASSUME NEW w \in Instances, Proceed(w) PROVE (IInv /\ NoSilentLoss)'
  BY <1>2, SkipSettledStep, SettleStep, CommitCreditStep, ConflictDropsCreditStep,
     ServeStep, LookStep, DeliverStep DEF Proceed
<1>3. ASSUME NEW w \in Instances,
             \/ Start(w) \/ Subscribe(w)
             \/ \E i \in Invoices : CreateAtNode(w, i) \/ Store(w, i)
             \/ LoseStream(w) \/ EndStream(w) \/ HandlerPanics(w) \/ Crash(w)
      PROVE  (IInv /\ NoSilentLoss)'
  BY <1>3, StartStep, SubscribeStep, CreateAtNodeStep, StoreStep, LoseStreamStep,
     EndStreamStep, HandlerPanicsStep, CrashStep
<1> QED
  BY <1>1, <1>2, <1>3, PayStep, UpdateByOthersStep DEF Next

\* What IInv says of the rows, the tasks of every instance and the races holds in
\* every reachable state, for any instances, invoices, conflicts and crashes.
THEOREM Invariance == Spec => []IInv
  BY InitIInv, NextIInv, PTL DEF Spec

\* A settlement that is not credited is due in some instance, or a conflict, a
\* fault or the lack of a subscription is on record for it (invoice/mod.rs:47-86).
THEOREM NoSilentLossAlways == Spec => []NoSilentLoss
  BY InitIInv, NextIInv, PTL DEF Spec

-------------------------------------------------------------------------------
(* The ledger *)

\* What the ledger calls credited.
SettledRows == {i \in Invoices : stored[i] > Open}

\* A step that settles no row and leaves every balance is none of the ledger.
LEMMA Stutters ==
    ASSUME UNCHANGED <<balance, paid, others, raced>>, SettledRows' = SettledRows
    PROVE  UNCHANGED Credits!vars
BY DEF Credits!vars, SettledRows

\* The commit of complete credits what was paid: for an invoice whose row was
\* open until then, or once it is raced for (invoice/mod.rs:92-99).
LEMMA CommitCreditRefines ==
    ASSUME IInv, NEW w \in Instances, CommitCredit(w)
    PROVE  Credits!Next
<1>0. TypeOK /\ HandlerOK(w) /\ OpenOrRaced(w)
  BY DEF IInv
<1>1. PICK i \in Invoices : i = current[w].invoice
  BY <1>0 DEF CommitCredit, HandlerOK
<1>2. /\ step[w] = "loaded"
      /\ CanUpdate(balance[Owner[i]], snapshot[w])
      /\ balance' = [balance EXCEPT ![Owner[i]] = Updated(@, snapshot[w])]
      /\ stored' = [stored EXCEPT ![i] = nodeIndex[i]]
      /\ raced' \in {raced, raced \cup {i}}
      /\ UNCHANGED <<paid, others>>
  BY <1>1 DEF CommitCredit, SettleRow, Conflicts, Payee, node, bounds
<1>3. /\ nodeIndex[i] > Open /\ stored[i] # Absent
      /\ snapshot[w].amount = snapshot[w].original + paid[i]
      /\ stored[i] = Open \/ i \in raced
  BY <1>0, <1>1, <1>2 DEF HandlerOK, OpenOrRaced, HasOpen, Settled
<1>4. /\ Owner[i] \in Users /\ balance[Owner[i]] \in Nat /\ paid[i] \in Nat
      /\ snapshot[w].original \in Nat
  BY <1>0, InvoicesAssumption DEF TypeOK, BalanceSnapshot
<1>5. Updated(balance[Owner[i]], snapshot[w]) = balance[Owner[i]] + paid[i]
  BY <1>2, <1>3, <1>4 DEF CanUpdate, Updated, Changed
<1>6. Credits!Pays(i)
  BY <1>2, <1>4, <1>5 DEF Credits!Pays
<1>7. SettledRows' = SettledRows \cup {i}
  BY <1>0, <1>2, <1>3 DEF SettledRows, TypeOK
<1>8. CASE i \notin SettledRows
  <2>1. Credits!CreditItem(i)
    BY <1>2, <1>6, <1>7, <1>8 DEF Credits!CreditItem, SettledRows
  <2> QED
    BY <2>1 DEF Credits!Next
<1>9. CASE i \in SettledRows
  <2>1. i \in raced
    BY <1>3, <1>9 DEF SettledRows
  <2>2. raced' = raced /\ SettledRows' = SettledRows
    BY <1>2, <1>7, <1>9, <2>1
  <2>3. Credits!CreditAgain(i)
    BY <1>2, <1>6, <1>9, <2>1, <2>2 DEF Credits!CreditAgain, SettledRows
  <2> QED
    BY <2>3 DEF Credits!Next
<1> QED
  BY <1>8, <1>9

\* A payer decides what an invoice is worth before its row is settled.
LEMMA PayRefines ==
    ASSUME IInv, NEW i \in Invoices, Pay(i)
    PROVE  Credits!Next
<1>1. PICK amount \in PaidAmounts : paid' = [paid EXCEPT ![i] = amount]
  BY DEF Pay
<1>2. /\ stored[i] = Open \/ i \in Foreign
      /\ UNCHANGED <<balance, stored, others, raced>>
  BY DEF Pay, rows, bounds
<1>3. i \notin SettledRows
  BY <1>2 DEF SettledRows, IInv, RowsAreTheNodes
<1>4. Credits!Value(i)
  BY <1>1, <1>2, <1>3 DEF Credits!Value, SettledRows
<1> QED
  BY <1>4 DEF Credits!Next

\* Every step is a step of the ledger or none.
LEMMA StepRefines == IInv /\ [Next]_vars => [Credits!Next]_(Credits!vars)
<1> SUFFICES ASSUME IInv, [Next]_vars PROVE [Credits!Next]_(Credits!vars)
  OBVIOUS
<1> USE DEF rows, node, bounds, history
<1>1. ASSUME UNCHANGED <<balance, stored, paid, others, raced>>
      PROVE  UNCHANGED Credits!vars
  BY <1>1, Stutters DEF SettledRows
<1>2. ASSUME NEW w \in Instances, NEW i \in Invoices, Store(w, i)
      PROVE  UNCHANGED Credits!vars
  <2>1. stored' = [stored EXCEPT ![i] = Open] /\ stored[i] = Absent
    BY <1>2 DEF Store, IInv, CreatingOK
  <2>2. SettledRows' = SettledRows
    BY <2>1 DEF SettledRows, IInv, TypeOK
  <2> QED
    BY <1>2, <2>2, Stutters DEF Store
<1>3. ASSUME NEW w \in Instances, Proceed(w), ~CommitCredit(w)
      PROVE  UNCHANGED <<balance, stored, paid, others, raced>>
  BY <1>3 DEF Proceed, SkipSettled, Settle, ConflictDropsCredit, Serve, Look, Deliver
<1>4. ASSUME NEW w \in Instances,
             \/ Start(w) \/ Subscribe(w) \/ \E i \in Invoices : CreateAtNode(w, i)
             \/ LoseStream(w) \/ EndStream(w) \/ HandlerPanics(w) \/ Crash(w)
      PROVE  UNCHANGED <<balance, stored, paid, others, raced>>
  BY <1>4 DEF Start, Subscribe, CreateAtNode, LoseStream, EndStream, HandlerPanics, Crash,
     Fault
<1>5. ASSUME NEW u \in Users, UpdateByOthers(u) PROVE Credits!Next
  <2>1. Credits!UpdateByOthers(u)
    BY <1>5 DEF UpdateByOthers, Credits!UpdateByOthers
  <2> QED
    BY <2>1 DEF Credits!Next
<1>6. CASE UNCHANGED vars
  BY <1>1, <1>6 DEF vars
<1> QED
  BY <1>1, <1>2, <1>3, <1>4, <1>5, <1>6, CommitCreditRefines, PayRefines DEF Next

\* Settlements are credited as the ledger says, by any instances: with their row,
\* with what was paid, and again only where instances race (invoice/mod.rs:88-103).
THEOREM Refinement == Spec => ImplementsLedger
<1>1. Init => Credits!Init
  BY DEF Init, Credits!Init
<1> QED
  BY <1>1, Invariance, StepRefines, PTL DEF Spec, ImplementsLedger, Credits!Spec

-------------------------------------------------------------------------------
(* Accounting *)

\* A user's settled invoices are finitely many, and what was paid for them adds
\* up to an integer.
LEMMA PaidIsInteger ==
    ASSUME TypeOK, NEW u \in Users
    PROVE  /\ IsFiniteSet(SettledOf(u)) /\ SettledOf(u) \subseteq Invoices
           /\ \A i \in Invoices : paid[i] \in Int /\ paid[i] >= 0
           /\ SumOf(paid, SettledOf(u)) \in Int
           /\ balance[u] \in Int /\ InitialBalance[u] \in Int /\ others[u] \in Int
<1>1. IsFiniteSet(SettledOf(u)) /\ SettledOf(u) \subseteq Invoices
  BY FS_Subset DEF SettledOf
<1>2. \A i \in Invoices : paid[i] \in Int /\ paid[i] >= 0
  BY DEF TypeOK
<1>3. SumOf(paid, SettledOf(u)) \in Int
  BY <1>1, <1>2, SumIsInteger
<1> QED
  BY <1>1, <1>2, <1>3 DEF TypeOK

\* A step of the ledger keeps balances and settled invoices in agreement, and
\* exceeds them only for an invoice that is raced for.
LEMMA LedgerKeepsExact ==
    ASSUME TypeOK, TypeOK', CreditsAreExact, [Credits!Next]_(Credits!vars)
    PROVE  CreditsAreExact'
<1> DEFINE Exact(u, owed, races) ==
             /\ balance'[u] >= owed
             /\ balance'[u] > owed => \E i \in races : Owner[i] = u
<1> SUFFICES ASSUME NEW u \in Users PROVE Exact(u, Owed(u)', raced')
  BY DEF CreditsAreExact
<1>1. /\ balance[u] >= Owed(u)
      /\ balance[u] > Owed(u) => \E i \in raced : Owner[i] = u
  BY DEF CreditsAreExact
<1>2. /\ IsFiniteSet(SettledOf(u)) /\ SettledOf(u) \subseteq Invoices
      /\ \A i \in Invoices : paid[i] \in Int /\ paid[i] >= 0
      /\ SumOf(paid, SettledOf(u)) \in Int
      /\ balance[u] \in Int /\ InitialBalance[u] \in Int /\ others[u] \in Int
  BY PaidIsInteger
<1>3. SettledOf(u) = {i \in Invoices : Owner[i] = u /\ i \in SettledRows}
  BY DEF SettledOf, SettledRows
<1>4. ASSUME NEW rows1, SettledRows' = rows1
      PROVE  SettledOf(u)' = {i \in Invoices : Owner[i] = u /\ i \in rows1}
  BY <1>4 DEF SettledOf, SettledRows
<1>5. Owed(u) = InitialBalance[u] + others[u] + SumOf(paid, SettledOf(u))
  BY DEF Owed
<1>6. ASSUME NEW S, SettledOf(u)' = S
      PROVE  Owed(u)' = InitialBalance[u] + others'[u] + SumOf(paid', S)
  BY <1>6 DEF Owed
<1>7. ASSUME SettledRows' = SettledRows, paid' = paid
      PROVE  Owed(u)' = InitialBalance[u] + others'[u] + SumOf(paid, SettledOf(u))
  BY <1>3, <1>4, <1>6, <1>7
<1>8. CASE UNCHANGED Credits!vars
  <2>1. SettledRows' = SettledRows /\ UNCHANGED <<balance, paid, others, raced>>
    BY <1>8 DEF Credits!vars, SettledRows
  <2> QED
    BY <1>1, <1>5, <1>7, <2>1
<1>9. ASSUME NEW i \in Invoices, Credits!Value(i) PROVE Exact(u, Owed(u)', raced')
  <2>1. /\ i \notin SettledRows /\ SettledRows' = SettledRows
        /\ UNCHANGED <<balance, others, raced>>
    BY <1>9 DEF Credits!Value, SettledRows
  <2>2. \A j \in Invoices : j # i => paid'[j] = paid[j]
    BY <1>9 DEF Credits!Value, TypeOK
  <2>3. SettledOf(u)' = SettledOf(u) /\ i \notin SettledOf(u)
    BY <1>3, <1>4, <2>1
  <2>4. SumOf(paid', SettledOf(u)) = SumOf(paid, SettledOf(u))
    BY <1>2, <2>2, <2>3, SumOfSameTerms
  <2>5. Owed(u)' = Owed(u)
    BY <1>5, <1>6, <2>1, <2>3, <2>4
  <2> QED
    BY <1>1, <2>1, <2>5
<1>10. ASSUME NEW i \in Invoices, Credits!CreditItem(i) PROVE Exact(u, Owed(u)', raced')
  <2>1. /\ i \notin SettledRows /\ SettledRows' = SettledRows \cup {i}
        /\ balance' = [balance EXCEPT ![Owner[i]] = @ + paid[i]]
        /\ raced \subseteq raced' /\ others' = others /\ paid' = paid
    BY <1>10 DEF Credits!CreditItem, Credits!Pays, SettledRows
  <2>2. CASE Owner[i] = u
    <3> DEFINE S == SettledOf(u)
    <3>1. SettledOf(u)' = S \cup {i} /\ i \notin S
      BY <1>3, <1>4, <2>1, <2>2
    <3>2. IsFiniteSet(S) /\ paid[i] \in Int /\ \A j \in S : paid[j] \in Int
      BY <1>2
    <3>3. SumOf(paid, S \cup {i}) = SumOf(paid, S) + paid[i]
      <4> HIDE DEF S
      <4> QED
        BY <3>1, <3>2, SumOfOneMore
    <3>4. Owed(u)' = InitialBalance[u] + others[u] + (SumOf(paid, S) + paid[i])
      BY <1>6, <2>1, <3>1, <3>3
    <3>5. balance'[u] = balance[u] + paid[i]
      BY <2>1, <2>2 DEF TypeOK
    <3>6. Owed(u)' = Owed(u) + paid[i]
      BY <1>2, <1>5, <3>4
    <3>7. Owed(u) \in Int /\ paid[i] \in Int
      BY <1>2, <1>5
    <3> QED
      BY <1>1, <1>2, <2>1, <3>5, <3>6, <3>7
  <2>3. CASE Owner[i] # u
    <3>1. SettledOf(u)' = SettledOf(u)
      BY <1>3, <1>4, <2>1, <2>3
    <3>2. balance'[u] = balance[u]
      BY <2>1, <2>3 DEF TypeOK
    <3> QED
      BY <1>1, <1>5, <1>6, <2>1, <3>1, <3>2
  <2> QED
    BY <2>2, <2>3
<1>11. ASSUME NEW i \in Invoices, Credits!CreditAgain(i) PROVE Exact(u, Owed(u)', raced')
  <2>1. /\ i \in raced /\ raced' = raced /\ SettledRows' = SettledRows
        /\ balance' = [balance EXCEPT ![Owner[i]] = @ + paid[i]]
        /\ others' = others /\ paid' = paid
    BY <1>11 DEF Credits!CreditAgain, Credits!Pays, SettledRows
  <2>2. Owed(u)' = Owed(u) /\ Owed(u) \in Int
    BY <1>2, <1>5, <1>7, <2>1
  <2>3. balance'[u] = IF Owner[i] = u THEN balance[u] + paid[i] ELSE balance[u]
    BY <2>1 DEF TypeOK
  <2> QED
    BY <1>1, <1>2, <2>1, <2>2, <2>3
<1>12. ASSUME NEW v \in Users, Credits!UpdateByOthers(v)
       PROVE  Exact(u, Owed(u)', raced')
  <2>1. PICK d \in Int : /\ balance' = [balance EXCEPT ![v] = @ + d]
                         /\ others' = [others EXCEPT ![v] = @ + d]
                         /\ raced' = raced /\ SettledRows' = SettledRows
                         /\ paid' = paid
    BY <1>12 DEF Credits!UpdateByOthers, SettledRows
  <2>2. /\ balance'[u] = balance[u] + (IF u = v THEN d ELSE 0)
        /\ others'[u] = others[u] + (IF u = v THEN d ELSE 0)
    BY <1>2, <2>1 DEF TypeOK
  <2>3. Owed(u)' = Owed(u) + (IF u = v THEN d ELSE 0) /\ Owed(u) \in Int
    BY <1>2, <1>5, <1>7, <2>1, <2>2
  <2> QED
    BY <1>1, <1>2, <2>1, <2>2, <2>3
<1> QED
  BY <1>8, <1>9, <1>10, <1>11, <1>12 DEF Credits!Next

\* Every user has been credited what was paid for the invoices stored as settled,
\* and nothing more unless instances have raced for one, for any invoices,
\* instances, conflicts, replays, rescans and crashes (invoice/mod.rs:88-103).
THEOREM CreditsAreExactAlways == Spec => []CreditsAreExact
<1>1. Init => CreditsAreExact
  <2> SUFFICES ASSUME Init, NEW u \in Users
               PROVE  balance[u] = Owed(u) /\ balance[u] \in Int
    BY DEF CreditsAreExact
  <2>1. SettledOf(u) = {}
    BY DEF Init, SettledOf
  <2>2. SumOf(paid, SettledOf(u)) = 0
    BY <2>1, SumOfNothing
  <2> QED
    BY <2>2 DEF Init, Owed
<1>2. IInv /\ IInv' /\ CreditsAreExact /\ [Next]_vars => CreditsAreExact'
  BY StepRefines, LedgerKeepsExact DEF IInv
<1> QED
  BY <1>1, <1>2, Invariance, PTL DEF Spec

\* An instance that has the database to itself credits each settlement once: the
\* balances are exactly what was paid (invoice/mod.rs:88-103).
THEOREM ExactWithoutRaces ==
    Spec => []((\A v, w \in Instances : v = w) => \A u \in Users : balance[u] = Owed(u))
<1>1. ASSUME IInv, CreditsAreExact, \A v, w \in Instances : v = w, NEW u \in Users
      PROVE  balance[u] = Owed(u)
  <2>1. raced = {}
    BY <1>1 DEF IInv
  <2>2. balance[u] >= Owed(u) /\ ~(balance[u] > Owed(u))
    BY <1>1, <2>1 DEF CreditsAreExact
  <2>3. balance[u] \in Int /\ Owed(u) \in Int
    BY <1>1, PaidIsInteger DEF IInv, Owed
  <2> QED
    BY <2>2, <2>3
<1>2. IInv /\ CreditsAreExact
        => ((\A v, w \in Instances : v = w) => \A u \in Users : balance[u] = Owed(u))
  BY <1>1
<1> QED
  BY <1>2, Invariance, CreditsAreExactAlways, PTL
===============================================================================
