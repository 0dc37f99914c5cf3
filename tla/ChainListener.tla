---------------------------- MODULE ChainListener ----------------------------
(***************************************************************************)
(* The chain listener: Worker::run of app/src/chain.rs, started and        *)
(* restarted by app/src/worker.rs, over Node::get_tx_outs of               *)
(* app/src/ln/node.rs and the node's wallet.  It hands transaction outputs *)
(* to a TxListener, whose module extends this one.                         *)
(*                                                                         *)
(* Each instance of the process runs one listener.  Outputs are mined in   *)
(* ever higher blocks; a reorganisation is nothing the code handles.       *)
(***************************************************************************)
EXTENDS Integers

CONSTANTS
    Instances,     \* processes, each with its listener
    Outputs,       \* transaction outputs the wallet may come to know
    NoOutput,      \* the listener is not in process()
    StartHeight,   \* first_block of the configuration
    NumBlocks,     \* blocks a query asks for at first
    MaxHeight,     \* bound on the blocks mined
    MaxFaults      \* bound on crashes and panics

ASSUME ChainAssumption ==
    /\ NoOutput \notin Outputs
    /\ StartHeight \in Nat \ {0}
    /\ NumBlocks \in Nat \ {0}
    /\ MaxHeight \in Nat
    /\ MaxFaults \in Nat

\* An output nobody has seen, and Tx::block_height: None.
Absent == -1
Unconfirmed == 0

VARIABLES
    chain,     \* the block of each output at the node's wallet (external)
    top,       \* the latest block (external)
    stored,    \* tx_outs.block_height, Absent without a row
    phase,     \* the listener: "down", "ask", "askAll" or in a "batch"
    tip,       \* chain_tip
    batch,     \* what get_tx_outs returned: heights, Absent for the others
    todo,      \* outputs of the batch that process() has still to be called for
    current,   \* the output process() is working on
    faults     \* crashes and panics so far

wallet == <<chain, top>>
listening == <<phase, tip, batch, todo, current>>
chainVars == <<chain, top, stored, phase, tip, batch, todo, current, faults>>

Mined(o) == chain[o] > Unconfirmed

NoBatch == [o \in Outputs |-> Absent]

ChainInit ==
    /\ chain = [o \in Outputs |-> Absent]
    /\ top = StartHeight - 1
    /\ stored = [o \in Outputs |-> Absent]
    /\ phase = [w \in Instances |-> "down"]
    /\ tip = [w \in Instances |-> StartHeight]
    /\ batch = [w \in Instances |-> NoBatch]
    /\ todo = [w \in Instances |-> {}]
    /\ current = [w \in Instances |-> NoOutput]
    /\ faults = 0

-------------------------------------------------------------------------------
(* The wallet *)

Broadcast(o) ==
    /\ chain[o] = Absent
    /\ chain' = [chain EXCEPT ![o] = Unconfirmed]
    /\ UNCHANGED <<top, stored, listening, faults>>

\* A transaction is replaced by one that pays somebody else.
Replace(o) ==
    /\ chain[o] = Unconfirmed
    /\ chain' = [chain EXCEPT ![o] = Absent]
    /\ UNCHANGED <<top, stored, listening, faults>>

NewBlock ==
    /\ top < MaxHeight
    /\ top' = top + 1
    /\ \E mined \in SUBSET {o \in Outputs : chain[o] = Unconfirmed} :
         chain' = [o \in Outputs |-> IF o \in mined THEN top + 1 ELSE chain[o]]
    /\ UNCHANGED <<stored, listening, faults>>

-------------------------------------------------------------------------------
(* The listener *)

StoredHeights == {stored[o] : o \in Outputs} \ {Absent, Unconfirmed}

IsHighest(h, heights) == h \in heights /\ \A x \in heights : x <= h

\* get_chain_tip: the highest block in tx_outs, whichever module stored it and
\* for whichever output; the configured one when there is none.
IsChainTip(h) ==
    IF StoredHeights = {} THEN h = StartHeight ELSE IsHighest(h, StoredHeights)

StartListening(w) ==
    /\ phase[w] = "down"
    /\ \E h \in StoredHeights \cup {StartHeight} :
         IsChainTip(h) /\ tip' = [tip EXCEPT ![w] = h]
    /\ phase' = [phase EXCEPT ![w] = "ask"]
    /\ UNCHANGED <<wallet, stored, batch, todo, current, faults>>

EndHeight(w) == tip[w] + NumBlocks - 1

\* The answer holds the outputs of these heights, in whatever order.
Receive(w, heights) ==
    /\ batch' = [batch EXCEPT ![w] =
                   [o \in Outputs |-> IF chain[o] \in heights THEN chain[o] ELSE Absent]]
    /\ todo' = [todo EXCEPT ![w] = {o \in Outputs : chain[o] \in heights}]
    /\ phase' = [phase EXCEPT ![w] = "batch"]

\* An output in the last block asked for: the answer is the batch ...
AskRange(w) ==
    /\ phase[w] = "ask"
    /\ \E o \in Outputs : chain[o] = EndHeight(w)
    /\ Receive(w, tip[w] .. EndHeight(w))
    /\ UNCHANGED <<wallet, stored, tip, current, faults>>

\* ... and without one it is dropped, ...
AskedTooFar(w) ==
    /\ phase[w] = "ask"
    /\ \A o \in Outputs : chain[o] # EndHeight(w)
    /\ phase' = [phase EXCEPT ![w] = "askAll"]
    /\ UNCHANGED <<wallet, stored, tip, batch, todo, current, faults>>

\* ... and a second query asks for all later blocks and what is unconfirmed.
AskAll(w) ==
    /\ phase[w] = "askAll"
    /\ Receive(w, (tip[w] .. top) \cup {Unconfirmed})
    /\ UNCHANGED <<wallet, stored, tip, current, faults>>

\* process() is called for one output after the other.
Deliver(w, o) ==
    /\ current[w] = NoOutput
    /\ o \in todo[w]
    /\ current' = [current EXCEPT ![w] = o]
    /\ todo' = [todo EXCEPT ![w] = @ \ {o}]
    /\ UNCHANGED <<wallet, stored, phase, tip, batch, faults>>

\* process() returns.
Return(w) ==
    /\ current' = [current EXCEPT ![w] = NoOutput]
    /\ UNCHANGED <<wallet, phase, tip, batch, todo, faults>>

BatchHeights(w) == {batch[w][o] : o \in Outputs} \ {Absent, Unconfirmed}

\* The tip moves past the blocks asked for, mined yet or not.
EndRange(w) ==
    /\ phase[w] = "batch" /\ todo[w] = {} /\ current[w] = NoOutput
    /\ tip' = [tip EXCEPT ![w] = EndHeight(w) + 1]
    /\ phase' = [phase EXCEPT ![w] = "ask"]
    /\ batch' = [batch EXCEPT ![w] = NoBatch]
    /\ UNCHANGED <<wallet, stored, todo, current, faults>>

\* The batch is done; the tip moves past its highest block.
EndBatch(w) ==
    /\ phase[w] = "batch" /\ todo[w] = {} /\ current[w] = NoOutput
    /\ IF BatchHeights(w) = {}
       THEN UNCHANGED tip
       ELSE \E h \in BatchHeights(w) :
              IsHighest(h, BatchHeights(w)) /\ tip' = [tip EXCEPT ![w] = h + 1]
    /\ phase' = [phase EXCEPT ![w] = "ask"]
    /\ batch' = [batch EXCEPT ![w] = NoBatch]
    /\ UNCHANGED <<wallet, stored, todo, current, faults>>

\* run panics: worker::start runs it again, with the tip it had.
RunPanics(w) ==
    /\ phase[w] \in {"ask", "askAll", "batch"}
    /\ phase' = [phase EXCEPT ![w] = "ask"]
    /\ batch' = [batch EXCEPT ![w] = NoBatch]
    /\ todo' = [todo EXCEPT ![w] = {}]
    /\ current' = [current EXCEPT ![w] = NoOutput]
    /\ UNCHANGED <<wallet, stored, tip>>

\* The process dies.
Die(w) ==
    /\ phase[w] # "down"
    /\ phase' = [phase EXCEPT ![w] = "down"]
    /\ batch' = [batch EXCEPT ![w] = NoBatch]
    /\ todo' = [todo EXCEPT ![w] = {}]
    /\ current' = [current EXCEPT ![w] = NoOutput]
    /\ UNCHANGED <<wallet, stored, tip>>

Listen(w) == AskRange(w) \/ AskedTooFar(w) \/ AskAll(w) \/ EndBatch(w)

-------------------------------------------------------------------------------

Heights == {Absent, Unconfirmed} \cup Nat

ChainTypeOK ==
    /\ chain \in [Outputs -> Heights]
    /\ top \in Nat
    /\ stored \in [Outputs -> Heights]
    /\ phase \in [Instances -> {"down", "ask", "askAll", "batch"}]
    /\ tip \in [Instances -> Nat]
    /\ batch \in [Instances -> [Outputs -> Heights]]
    /\ todo \in [Instances -> SUBSET Outputs]
    /\ current \in [Instances -> Outputs \cup {NoOutput}]
    /\ faults \in 0 .. MaxFaults

\* Blocks only ever get higher, and what was read of the chain stays true.
ChainOK ==
    /\ StartHeight <= top + 1
    /\ \A o \in Outputs : chain[o] <= top /\ stored[o] \in {Absent, Unconfirmed, chain[o]}
    /\ \A w \in Instances, o \in Outputs :
         batch[w][o] \in {Absent, Unconfirmed, chain[o]}

\* What is left of a batch is part of it, and there is one only in a batch.
BatchOK(w) ==
    /\ \A o \in todo[w] \cup {current[w]} : o = NoOutput \/ batch[w][o] # Absent
    /\ current[w] \notin todo[w]
    /\ phase[w] # "batch" => batch[w] = NoBatch

\* A batch has every output between the tip and its highest block, and the tip
\* is at most one past the latest block.
BatchComplete(w) ==
    /\ tip[w] \in 1 .. top + 1
    /\ \A o, p \in Outputs :
         tip[w] <= chain[o] /\ chain[o] <= batch[w][p] => batch[w][o] = chain[o]
===============================================================================
