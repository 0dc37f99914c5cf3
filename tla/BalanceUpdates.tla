---------------------------- MODULE BalanceUpdates ----------------------------
(***************************************************************************)
(* Optimistic concurrency on one users row: retry_loop of                  *)
(* app/src/concurrency.rs around closures that load a Balance, credit it   *)
(* or reserve from it, and store it with balance::update.  Unlike the      *)
(* closures of payment::send, these build their entities anew in every run *)
(* (withdrawal::start, the deposit listener), so they really retry.        *)
(***************************************************************************)
EXTENDS BalanceOps, FiniteSets

CONSTANTS
    Clients,         \* tasks inside retry_loop, all on the same user's balance
    Delta,           \* what a client adds to the balance, negative to reserve
    InitialBalance,
    MaxRetries       \* MAX_RETRIES

ASSUME UpdatesAssumption ==
    /\ IsFiniteSet(Clients)
    /\ Delta \in [Clients -> Int]
    /\ InitialBalance \in Nat
    /\ MaxRetries \in Nat \ {0}

VARIABLES
    balance,   \* users.balance_msats
    pc,        \* where a client is in retry_loop
    attempt,   \* which run of the closure a client is in
    snapshot   \* the Balance of the current run

vars == <<balance, pc, attempt, snapshot>>

\* A client returns Ok, an error of its own, or the ConflictError it last got.
Returned == {"ok", "insufficient", "conflict"}

Init ==
    /\ balance = InitialBalance
    /\ pc = [c \in Clients |-> "begin"]
    /\ attempt = [c \in Clients |-> 1]
    /\ snapshot = [c \in Clients |-> BalanceNew(0)]

Goto(c, where) == pc' = [pc EXCEPT ![c] = where]

\* The closure begins its transaction and loads the balance.
Load(c) ==
    /\ pc[c] = "begin"
    /\ snapshot' = [snapshot EXCEPT ![c] = BalanceNew(balance)]
    /\ Goto(c, "loaded")
    /\ UNCHANGED <<balance, attempt>>

\* Balance::credit for a positive delta, Balance::reserve for a negative one.
Allowed(c) == Delta[c] >= 0 \/ CanReserve(snapshot[c], -Delta[c])

Mutated(c) ==
    IF Delta[c] >= 0
    THEN Credit(snapshot[c], Delta[c])
    ELSE ReserveFrom(snapshot[c], -Delta[c])

\* InsufficientBalance is no conflict: retry_loop returns it at once.
Refuse(c) ==
    /\ pc[c] = "loaded"
    /\ ~Allowed(c)
    /\ Goto(c, "insufficient")
    /\ UNCHANGED <<balance, attempt, snapshot>>

\* balance::update matched the row; the transaction commits.
Commit(c) ==
    /\ pc[c] = "loaded"
    /\ Allowed(c)
    /\ CanUpdate(balance, Mutated(c))
    /\ balance' = Updated(balance, Mutated(c))
    /\ Goto(c, "ok")
    /\ UNCHANGED <<attempt, snapshot>>

Conflicted(c) ==
    pc[c] = "loaded" /\ Allowed(c) /\ ~CanUpdate(balance, Mutated(c))

RetryTooOften(c) == attempt[c] <= MaxRetries

\* MAX_RETRIES - 1 runs in the for loop and one after it.
MayRetry(c) == attempt[c] < MaxRetries

RetryStale(c) ==
    /\ Conflicted(c)
    /\ MayRetry(c)
    /\ attempt' = [attempt EXCEPT ![c] = @ + 1]
    /\ UNCHANGED <<balance, pc, snapshot>>

Retry(c) ==
    /\ Conflicted(c)
    /\ MayRetry(c)
    /\ attempt' = [attempt EXCEPT ![c] = @ + 1]
    /\ Goto(c, "begin")
    /\ UNCHANGED <<balance, snapshot>>

\* The last run's result is returned as it is, a ConflictError included.
Exhaust(c) ==
    /\ Conflicted(c)
    /\ ~MayRetry(c)
    /\ Goto(c, "conflict")
    /\ UNCHANGED <<balance, attempt, snapshot>>

Next == \E c \in Clients :
    Load(c) \/ Refuse(c) \/ Commit(c) \/ Retry(c) \/ Exhaust(c)

Spec == Init /\ [][Next]_vars

-------------------------------------------------------------------------------
(* Properties *)

TypeOK ==
    /\ balance \in Nat
    /\ pc \in [Clients -> {"begin", "loaded"} \cup Returned]
    /\ attempt \in [Clients -> 1 .. MaxRetries]
    /\ snapshot \in [Clients -> BalanceSnapshot]

Succeeded == {c \in Clients : pc[c] = "ok"}

OthersThan(c) == Succeeded \ {c}

\* A client conflicts only because somebody else got through: it is never in a
\* later run of its closure than one more than the others that succeeded
\* (concurrency.rs:16-27).
ConflictsArePaidFor ==
    \A c \in Clients : attempt[c] <= 1 + Cardinality(OthersThan(c))

\* So whoever is turned away with a ConflictError was outrun by MAX_RETRIES
\* others: as long as no more tasks than that contend for one user's balance,
\* nobody is (concurrency.rs:27).
NoExhaustion ==
    \A c \in Clients :
        pc[c] = "conflict" => Cardinality(OthersThan(c)) >= MaxRetries

\* A stale snapshot means somebody else succeeded since this run began.
StaleIsPaidFor ==
    \A c \in Clients :
        pc[c] = "loaded" /\ snapshot[c].original # balance
            => attempt[c] <= Cardinality(OthersThan(c))

\* Between two steps a snapshot is as it was loaded.
MemoryOK == \A c \in Clients : ~Changed(snapshot[c])

\* The inductive invariant.
IInv == TypeOK /\ ConflictsArePaidFor /\ StaleIsPaidFor /\ MemoryOK /\ NoExhaustion

\* Load, mutate and compare-and-set with retries are one atomic update.
Atomic == INSTANCE AtomicBalance WITH applied <- Succeeded

ImplementsAtomic == Atomic!Spec
===============================================================================
