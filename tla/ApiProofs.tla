------------------------------- MODULE ApiProofs -------------------------------
(***************************************************************************)
(* Proofs about Api, for any users, requests, routes and tokens, any limit *)
(* and any pool.  For the rate limit the argument is that Api touches the  *)
(* counts only through the rate limit's own steps, so what the rate limit  *)
(* keeps alone it keeps in Api; and a count is the number of tasks that    *)
(* will undo it, the one uncounted admission being the oldest.  For the    *)
(* pool it is that a step moves one task, and the pool gives or gets what  *)
(* this task takes or returns.                                             *)
(***************************************************************************)
EXTENDS Api, FiniteSetTheorems, TLAPS

USE RateLimitAssumption DEF Vacant

\* With no request counted yet, each count is what its tasks will undo.
LEMMA RateInitially ==
    ASSUME RateInit
    PROVE  RateIInv
BY DEF RateInit, RateIInv, RateTypeOK, CountIsUndone

\* A step for one user keeps what holds of her, and leaves the others alone.
LEMMA AdmitKeeps ==
    ASSUME RateIInv, NEW u \in Users, Admit(u)
    PROVE  RateIInv'
<1>1. CASE AdmitVacant(u)
  <2>1. RateTypeOK'
    BY <1>1 DEF RateIInv, RateTypeOK, CountIsUndone, AdmitVacant
  <2>2. ASSUME NEW v \in Users PROVE CountIsUndone(v)'
    BY <1>1 DEF RateIInv, RateTypeOK, CountIsUndone, AdmitVacant
  <2> QED
    BY <2>1, <2>2 DEF RateIInv
<1>2. CASE AdmitCounted(u)
  <2>1. RateTypeOK'
    BY <1>2 DEF RateIInv, RateTypeOK, CountIsUndone, AdmitCounted
  <2>2. ASSUME NEW v \in Users PROVE CountIsUndone(v)'
    BY <1>2 DEF RateIInv, RateTypeOK, CountIsUndone, AdmitCounted
  <2> QED
    BY <2>1, <2>2 DEF RateIInv
<1> QED
  BY <1>1, <1>2 DEF Admit

\* An admission that leaves the span is still undone, by its task that wakes.
LEMMA SpanPassesKeeps ==
    ASSUME RateIInv, NEW u \in Users, SpanPasses(u)
    PROVE  RateIInv'
<1>1. RateTypeOK'
  BY DEF RateIInv, RateTypeOK, CountIsUndone, SpanPasses
<1>2. ASSUME NEW v \in Users PROVE CountIsUndone(v)'
  BY DEF RateIInv, RateTypeOK, CountIsUndone, SpanPasses
<1> QED
  BY <1>1, <1>2 DEF RateIInv

\* A decrement takes the count with the task that undoes it (rate_limit.rs).
LEMMA DecrementKeeps ==
    ASSUME RateIInv, NEW u \in Users, Decrement(u)
    PROVE  RateIInv'
<1>1. RateTypeOK'
  BY DEF RateIInv, RateTypeOK, CountIsUndone, Decrement
<1>2. ASSUME NEW v \in Users PROVE CountIsUndone(v)'
  BY DEF RateIInv, RateTypeOK, CountIsUndone, Decrement
<1> QED
  BY <1>1, <1>2 DEF RateIInv

\* No step of the rate limit leaves a count that its tasks will not undo.
LEMMA RateStep ==
    ASSUME RateIInv, [RateNext]_rateVars
    PROVE  RateIInv'
<1>1. CASE UNCHANGED rateVars
  BY <1>1 DEF rateVars, RateIInv, RateTypeOK, CountIsUndone
<1>2. CASE RateNext
  BY <1>2, AdmitKeeps, SpanPassesKeeps, DecrementKeeps DEF RateNext
<1> QED
  BY <1>1, <1>2

\* The handlers and guards use the rate limit by its own steps only.
LEMMA ApiStepIsRateStep ==
    ASSUME [Next]_vars
    PROVE  [RateNext]_rateVars
<1>1. CASE UNCHANGED vars
  BY <1>1 DEF vars
<1>2. ASSUME NEW t \in Tasks, Acquire(t) \/ Serve(t) \/ Retry(t) \/ Fail(t)
      PROVE  UNCHANGED rateVars
  BY <1>2 DEF Acquire, Take, TimesOut, Serve, EndInner, EndUnit, Finish, Retry, Fail,
              End, Drop
<1>3. ASSUME NEW r \in Requests, Arrive(r) \/ NoHeader(r) \/ Deny(r) \/ Limited(r)
                                   \/ RefuseInput(r)
      PROVE  UNCHANGED rateVars
  BY <1>3 DEF Arrive, NoHeader, Deny, Limited, RefuseInput, End, Drop
<1>4. ASSUME NEW r \in Requests, Pass(r)
      PROVE  RateNext
  BY <1>4 DEF Pass, TokenRows, RateNext
<1>5. ASSUME NEW w \in Workers, RunWorker(w)
      PROVE  UNCHANGED rateVars
  BY <1>5 DEF RunWorker
<1>6. ASSUME NEW u \in Users, SpanPasses(u) \/ Decrement(u)
      PROVE  RateNext
  BY <1>6 DEF RateNext
<1>7. CASE Next
  BY <1>2, <1>3, <1>4, <1>5, <1>6, <1>7 DEF Next, Guard
<1> QED
  BY <1>1, <1>7

\* Api implements the specification of the rate limit: no handler, panic or
\* timeout counts a request or loses a count.
THEOREM UsesRateLimit == Spec => RateSpec
<1>1. Init => RateInit
  BY DEF Init
<1> QED
  BY <1>1, ApiStepIsRateStep, PTL DEF Spec, RateSpec

\* What the rate limit keeps holds in Api.
THEOREM RateInvariance == Spec => []RateIInv
<1>1. RateInit => RateIInv
  BY RateInitially
<1>2. RateIInv /\ [RateNext]_rateVars => RateIInv'
  BY RateStep
<1> QED
  BY <1>1, <1>2, UsesRateLimit, PTL DEF RateSpec

\* A task finds the entry it counted in ("this is a bug", rate_limit.rs:55-58).
THEOREM DecrementFindsEntryAlways == Spec => []DecrementFindsEntry
<1>1. RateIInv => DecrementFindsEntry
  BY DEF RateIInv, RateTypeOK, CountIsUndone, DecrementFindsEntry
<1> QED
  BY <1>1, RateInvariance, PTL

\* Within any span a user is admitted at most the limit and one request more.
THEOREM BurstIsBoundedAlways == Spec => []BurstIsBounded
<1>1. RateIInv => BurstIsBounded
  <2> SUFFICES ASSUME RateIInv, NEW u \in Users
               PROVE  uncounted[u] + counted[u] <= Limit + 1
    BY DEF BurstIsBounded
  <2> QED
    BY DEF RateIInv, RateTypeOK, CountIsUndone
<1> QED
  BY <1>1, RateInvariance, PTL

-------------------------------------------------------------------------------
(* The pool *)

\* The tasks that hold more than n connections.
Holding(n) == {t \in Tasks : held[t] > n}

\* The pool with what is held adds up, and finitely many tasks hold something:
\* however many requests there are, each of these took a connection.
PoolOK == IsFiniteSet(Holding(0)) /\ IsFiniteSet(Holding(1)) /\ NothingLeaks

\* A finite set that gains or loses one element, or neither.
LEMMA OneTaskMoves ==
    ASSUME NEW S, NEW T, NEW t, IsFiniteSet(S), S \ {t} = T \ {t}
    PROVE  /\ IsFiniteSet(T) /\ Cardinality(S) \in Nat /\ Cardinality(T) \in Nat
           /\ Cardinality(T) = Cardinality(S) + (IF t \in T THEN 1 ELSE 0)
                                              - (IF t \in S THEN 1 ELSE 0)
<1> DEFINE R == S \ {t}
<1>1. /\ IsFiniteSet(R) /\ Cardinality(R) \in Nat
      /\ Cardinality(S) = Cardinality(R) + (IF t \in S THEN 1 ELSE 0)
  <2>1. IsFiniteSet(R) /\ Cardinality(R) \in Nat /\ Cardinality(S) \in Nat
    BY FS_Subset, FS_CardinalityType
  <2>2. CASE t \in S
    BY <2>1, <2>2, FS_RemoveElement
  <2>3. CASE t \notin S
    <3>1. R = S
      BY <2>3
    <3> QED
      BY <2>1, <2>3, <3>1
  <2> QED
    BY <2>2, <2>3
<1>2. T = R \/ T = R \cup {t}
  OBVIOUS
<1>3. /\ IsFiniteSet(T)
      /\ Cardinality(T) = Cardinality(R) + (IF t \in T THEN 1 ELSE 0)
  BY <1>1, <1>2, FS_AddElement
<1>4. Cardinality(S) \in Nat /\ Cardinality(T) \in Nat
  BY <1>3, FS_CardinalityType
<1> QED
  BY <1>1, <1>3, <1>4

\* A task that takes from the pool what it holds more, or gives back what it
\* holds less, keeps the sum.
LEMMA HeldMoves ==
    ASSUME TypeOK, PoolOK, NEW t \in Tasks, NEW n \in 0 .. 2,
           held' = [held EXCEPT ![t] = n],
           free' = free + held[t] - n, free' >= 0
    PROVE  PoolOK' /\ free' \in 0 .. PoolSize
<1>1. held[t] \in 0 .. 2 /\ free \in Int /\ PoolSize \in Int
  BY ApiAssumption DEF TypeOK
<1>2. ASSUME NEW k \in 0 .. 1
      PROVE  /\ Holding(k) \ {t} = Holding(k)' \ {t}
             /\ t \in Holding(k) <=> held[t] > k
             /\ t \in Holding(k)' <=> n > k
  BY DEF Holding, TypeOK
<1>3. ASSUME NEW k \in 0 .. 1
      PROVE  /\ IsFiniteSet(Holding(k)')
             /\ Cardinality(Holding(k)) \in Nat /\ Cardinality(Holding(k)') \in Nat
             /\ Cardinality(Holding(k)') = Cardinality(Holding(k))
                    + (IF n > k THEN 1 ELSE 0) - (IF held[t] > k THEN 1 ELSE 0)
  <2>1. IsFiniteSet(Holding(k))
    BY DEF PoolOK
  <2> QED
    BY <1>2, <2>1, OneTaskMoves
<1>4. free + Cardinality(Holding(0)) + Cardinality(Holding(1)) = PoolSize
  BY DEF PoolOK, NothingLeaks, Holding
<1>5. free' + Cardinality(Holding(0)') + Cardinality(Holding(1)') = PoolSize
  BY <1>1, <1>3, <1>4
<1>6. free' \in 0 .. PoolSize
  BY <1>1, <1>3, <1>5
<1> QED
  BY <1>3, <1>5, <1>6 DEF PoolOK, NothingLeaks, Holding

\* Every handler has one unit at least and four at most, and the only ones that
\* ask for a second connection are the last of a payment, of a confirmation and
\* of a scan (payment/mod.rs:50, withdrawal/mod.rs:101, invoice/mod.rs:46).
LEMMA HandlerUnits ==
    ASSUME NEW r \in Routes \cup Works
    PROVE  /\ Len(Handler(r)) \in 1 .. 4
           /\ \A k \in 1 .. Len(Handler(r)) :
                IsNested(Handler(r)[k]) => \/ r = "payment" /\ k = Len(PostPayment)
                                           \/ r = "confirm" /\ k = Len(ConfirmWithdrawal)
                                           \/ r = "scan" /\ k = Len(CompleteUnsettled)
BY RoutesAssumption
   DEF AllRoutes, AllWorks, Handler, IsNested, PostPayment, PostInvoice, PostAddress,
       PostWithdrawal, GetUser, GetOne, List, ConfirmWithdrawal, SendWithdrawal,
       ProcessDeposit, SettleInvoice, CompleteUnsettled

\* The inductive invariant of the whole module.
PoolIInv == TypeOK /\ RateIInv /\ HandlersOK /\ PoolOK

\* Task t goes to route r, stage s and unit k with n connections held, and what
\* it takes or gives back is the pool's.
Moves(t, r, s, k, n, b, a) ==
    /\ route' = [route EXCEPT ![t] = r]
    /\ stage' = [stage EXCEPT ![t] = s]
    /\ unit' = [unit EXCEPT ![t] = k]
    /\ held' = [held EXCEPT ![t] = n]
    /\ inner' = [inner EXCEPT ![t] = b]
    /\ attempt' = [attempt EXCEPT ![t] = a]
    /\ free' = free + held[t] - n

\* A task that goes to a unit of a handler of its own keeps the invariant,
\* which is about one task at a time but for the pool.
LEMMA OneTaskKeeps ==
    ASSUME PoolIInv, RateIInv', NEW t \in Tasks,
           NEW r \in Routes \cup Works \cup {NoRoute}, NEW s \in {"idle", "guard", "run"},
           NEW k \in 1 .. 4, NEW n \in 0 .. 2, NEW b \in BOOLEAN,
           NEW a \in 1 .. MaxRetries,
           Moves(t, r, s, k, n, b, a), free' >= 0,
           s = "idle" => k = 1,
           s # "idle" => r # NoRoute /\ k <= Len(Handler(r))
    PROVE  PoolIInv'
<1>1. TypeOK /\ PoolOK /\ HandlersOK
  BY DEF PoolIInv
<1>2. PoolOK' /\ free' \in 0 .. PoolSize
  BY <1>1, HeldMoves DEF Moves
<1>3. TypeOK'
  BY <1>1, <1>2 DEF TypeOK, RateIInv, Moves
<1>4. HandlersOK'
  <2> SUFFICES ASSUME NEW v \in Tasks
               PROVE  /\ stage'[v] = "idle" => unit'[v] = 1
                      /\ stage'[v] # "idle" => /\ route'[v] # NoRoute
                                               /\ unit'[v] <= Len(Handler(route'[v]))
    BY DEF HandlersOK, Handler
  <2>1. CASE v = t
    BY <1>1, <2>1 DEF TypeOK, Moves
  <2>2. CASE v # t
    BY <1>1, <2>2 DEF TypeOK, HandlersOK, Moves
  <2> QED
    BY <2>1, <2>2
<1> QED
  BY <1>2, <1>3, <1>4 DEF PoolIInv

\* What is known of one task.
TaskOK(t) ==
    /\ route[t] \in Routes \cup Works \cup {NoRoute}
    /\ stage[t] \in {"idle", "guard", "run"} /\ unit[t] \in 1 .. 4
    /\ held[t] \in 0 .. 2 /\ inner[t] \in BOOLEAN /\ attempt[t] \in 1 .. MaxRetries
    /\ stage[t] = "idle" => unit[t] = 1
    /\ stage[t] # "idle" => route[t] # NoRoute /\ unit[t] <= Len(Handler(route[t]))
    /\ free \in Nat /\ 1 \in 1 .. MaxRetries /\ MaxRetries \in Nat
    /\ TypeOK

\* Each task is in one of the states the invariant allows (api/src/routes).
LEMMA TaskFacts == ASSUME PoolIInv, NEW t \in Tasks PROVE TaskOK(t)
BY ApiAssumption DEF TaskOK, PoolIInv, TypeOK, HandlersOK

\* Taking a connection, from a pool that has one.
LEMMA TakeStep ==
    ASSUME PoolIInv, RateIInv', NEW t \in Tasks, Take(t)
    PROVE  PoolIInv'
<1>0. TaskOK(t)
  BY TaskFacts
<1>1. held[t] \in 0 .. 1 /\ free >= 1
  BY <1>0 DEF TaskOK, Take, Wants
<1>2. Moves(t, route[t], stage[t], unit[t], held[t] + 1, inner[t], attempt[t])
      /\ free' >= 0 /\ held[t] + 1 \in 0 .. 2
  BY <1>0, <1>1 DEF TaskOK, Take, Moves, TypeOK
<1> QED
  BY <1>0, <1>1, <1>2, OneTaskKeeps DEF TaskOK

\* However a task ends, it gives back all it holds.
LEMMA EndStep ==
    ASSUME PoolIInv, RateIInv', NEW t \in Tasks, End(t)
    PROVE  PoolIInv'
<1>0. TaskOK(t)
  BY TaskFacts
<1>1. /\ Moves(t, NoRoute, "idle", 1, 0, FALSE, 1) /\ free' >= 0
      /\ "idle" \in {"idle", "guard", "run"} /\ 1 \in 1 .. 4 /\ 0 \in 0 .. 2
      /\ NoRoute \in Routes \cup Works \cup {NoRoute} /\ FALSE \in BOOLEAN
  BY <1>0 DEF TaskOK, End, Drop, Moves
<1> QED
  BY <1>0, <1>1, OneTaskKeeps DEF TaskOK

\* A query inside a transaction, the end of a unit, a retry and a guard that is
\* passed give back one connection and stay on the handler.
LEMMA ServeStep ==
    ASSUME PoolIInv, RateIInv', NEW t \in Tasks,
           EndInner(t) \/ EndUnit(t) \/ Retry(t) \/ Pass(t)
    PROVE  PoolIInv'
<1>0. TaskOK(t)
  BY TaskFacts
<1>1. CASE EndInner(t)
  <2>1. /\ Moves(t, route[t], stage[t], unit[t], 1, TRUE, attempt[t]) /\ free' >= 0
        /\ 1 \in 0 .. 2 /\ TRUE \in BOOLEAN
    BY <1>0, <1>1 DEF TaskOK, EndInner, Moves, TypeOK
  <2> QED
    BY <1>0, <2>1, OneTaskKeeps DEF TaskOK
<1>2. CASE EndUnit(t)
  <2> DEFINE L == Len(Handler(route[t]))
  <2>1. /\ Moves(t, route[t], stage[t], unit[t] + 1, 0, FALSE, 1) /\ free' >= 0
        /\ 0 \in 0 .. 2 /\ FALSE \in BOOLEAN
    BY <1>0, <1>2 DEF TaskOK, EndUnit, AtEnd, Moves, TypeOK
  <2>2. /\ stage[t] = "run" /\ route[t] \in Routes \cup Works
        /\ unit[t] < L /\ L \in 1 .. 4
    BY <1>0, <1>2, HandlerUnits DEF TaskOK, EndUnit, AtEnd
  <2>3. unit[t] + 1 \in 1 .. 4 /\ unit[t] + 1 <= L
    <3>1. unit[t] \in 1 .. 4
      BY <1>0 DEF TaskOK
    <3> HIDE DEF L
    <3> QED
      BY <2>2, <3>1
  <2> QED
    BY <1>0, <2>1, <2>2, <2>3, OneTaskKeeps DEF TaskOK
<1>3. CASE Retry(t)
  <2>1. /\ Moves(t, route[t], stage[t], unit[t], 0, FALSE, attempt[t] + 1) /\ free' >= 0
        /\ attempt[t] + 1 \in 1 .. MaxRetries /\ 0 \in 0 .. 2 /\ FALSE \in BOOLEAN
    BY <1>0, <1>3 DEF TaskOK, Retry, AtEnd, Moves, TypeOK
  <2> QED
    BY <1>0, <2>1, OneTaskKeeps DEF TaskOK
<1>4. CASE Pass(t)
  <2>1. /\ Moves(t, route[t], "run", unit[t], 0, inner[t], attempt[t]) /\ free' >= 0
        /\ stage[t] # "idle" /\ 0 \in 0 .. 2 /\ "run" \in {"idle", "guard", "run"}
    BY <1>0, <1>4 DEF TaskOK, Pass, Answered, Moves, TypeOK
  <2> QED
    BY <1>0, <2>1, OneTaskKeeps DEF TaskOK
<1> QED
  BY <1>1, <1>2, <1>3, <1>4

\* A request arrives, or a worker runs: it holds nothing yet.
LEMMA BeginStep ==
    ASSUME PoolIInv, RateIInv', NEW t \in Tasks,
           \/ t \in Requests /\ Arrive(t)
           \/ t \in Workers /\ RunWorker(t)
    PROVE  PoolIInv'
<1>0. TaskOK(t)
  BY TaskFacts
<1>1. PICK r \in Routes \cup Works, s \in {"guard", "run"} :
         Moves(t, r, s, unit[t], held[t], inner[t], attempt[t])
  BY <1>0 DEF TaskOK, Arrive, RunWorker, Moves, TypeOK
<1>2. stage[t] = "idle" /\ unit[t] = 1 /\ free' = free /\ free' >= 0
  BY <1>0 DEF TaskOK, Arrive, RunWorker
<1>3. r # NoRoute /\ 1 <= Len(Handler(r))
  BY HandlerUnits, RoutesAssumption DEF NoRoute, AllRoutes, AllWorks
<1> QED
  BY <1>0, <1>1, <1>2, <1>3, OneTaskKeeps DEF TaskOK

\* Steps of the rate limit alone touch no handler.
LEMMA HandlersRest ==
    ASSUME PoolIInv, RateIInv', UNCHANGED handlers
    PROVE  PoolIInv'
<1>1. TypeOK'
  BY DEF PoolIInv, TypeOK, RateIInv, handlers
<1>2. HandlersOK'
  BY DEF PoolIInv, HandlersOK, handlers, Handler
<1>3. PoolOK'
  BY DEF PoolIInv, PoolOK, NothingLeaks, Holding, handlers
<1> QED
  BY <1>1, <1>2, <1>3 DEF PoolIInv

\* Every step keeps the invariant.
THEOREM NextPoolIInv == PoolIInv /\ [Next]_vars => PoolIInv'
<1> SUFFICES ASSUME PoolIInv, [Next]_vars PROVE PoolIInv'
  OBVIOUS
<1>1. RateIInv'
  BY ApiStepIsRateStep, RateStep DEF PoolIInv
<1>2. ASSUME NEW t \in Tasks, Acquire(t) \/ Serve(t) \/ Retry(t) \/ Fail(t)
      PROVE  PoolIInv'
  BY <1>1, <1>2, TakeStep, EndStep, ServeStep
     DEF Acquire, TimesOut, Serve, Finish, Fail
<1>3. ASSUME NEW r \in Requests, Arrive(r) \/ NoHeader(r) \/ Guard(r) \/ RefuseInput(r)
      PROVE  PoolIInv'
  BY <1>1, <1>3, BeginStep, EndStep, ServeStep
     DEF Tasks, NoHeader, Guard, Deny, Limited, RefuseInput
<1>4. ASSUME NEW w \in Workers, RunWorker(w) PROVE PoolIInv'
  BY <1>1, <1>4, BeginStep DEF Tasks
<1>5. CASE UNCHANGED handlers
  BY <1>1, <1>5, HandlersRest
<1>6. CASE UNCHANGED vars
  BY <1>5, <1>6 DEF vars, handlers
<1> QED
  BY <1>2, <1>3, <1>4, <1>5, <1>6 DEF Next

\* At first nobody holds a connection.
THEOREM InitPoolIInv == Init => PoolIInv
<1> SUFFICES ASSUME Init PROVE PoolIInv
  OBVIOUS
<1>1. TypeOK /\ RateIInv
  BY RateInitially, ApiAssumption DEF Init, TypeOK, RateIInv
<1>2. HandlersOK
  BY DEF Init, HandlersOK
<1>3. Holding(0) = {} /\ Holding(1) = {}
  BY DEF Init, Holding
<1>4. PoolOK
  BY <1>3, FS_EmptySet, ApiAssumption DEF Init, PoolOK, NothingLeaks, Holding
<1> QED
  BY <1>1, <1>2, <1>4 DEF PoolIInv

\* However handlers end, panic, time out or retry, the pool gets every
\* connection back (app/src/database/mod.rs), for any pool, requests and workers.
THEOREM Invariance == Spec => []IInv
<1>1. PoolIInv => IInv
  BY DEF PoolIInv, IInv, PoolOK
<1> QED
  BY <1>1, InitPoolIInv, NextPoolIInv, PTL DEF Spec

\* The pool is stuck only by as many payments being sent, withdrawals confirmed
\* and invoices completed by a scan at once as it has connections
\* (payment/mod.rs:50, withdrawal/mod.rs:101, invoice/mod.rs:46), for any pool,
\* routes, requests and workers.
THEOREM StuckOnlyByNestingAlways == Spec => []StuckOnlyByNesting
<1>1. PoolIInv => StuckOnlyByNesting
  <2> DEFINE Nests(t) == \/ route[t] = "payment" /\ unit[t] = Len(PostPayment)
                         \/ route[t] = "confirm" /\ unit[t] = Len(ConfirmWithdrawal)
                         \/ route[t] = "scan" /\ unit[t] = Len(CompleteUnsettled)
             Waiting == {t \in Tasks : held[t] = 1 /\ Nests(t)}
  <2> SUFFICES ASSUME PoolIInv, Stuck PROVE Cardinality(Waiting) >= PoolSize
    BY DEF StuckOnlyByNesting
  <2>1. ASSUME NEW t \in Tasks, held[t] > 0 PROVE held[t] = 1 /\ Nests(t)
    <3>1. /\ stage[t] = "run" /\ held[t] = 1 /\ IsNested(Handler(route[t])[unit[t]])
      BY <2>1, TaskFacts DEF TaskOK, Stuck, Wants, Current
    <3>2. route[t] \in Routes \cup Works /\ unit[t] \in 1 .. Len(Handler(route[t]))
      BY <3>1, TaskFacts, HandlerUnits DEF TaskOK
    <3> QED
      BY <3>1, <3>2, HandlerUnits
  <2>2. Waiting = Holding(0) /\ Holding(1) = {}
    BY <2>1, TaskFacts DEF TaskOK, Holding
  <2>3. free + Cardinality(Holding(0)) + Cardinality(Holding(1)) = PoolSize /\ free = 0
    BY DEF PoolIInv, PoolOK, NothingLeaks, Stuck, Holding
  <2>4. Cardinality(Holding(0)) \in Nat /\ Cardinality(Holding(1)) = 0
    BY <2>2, FS_CardinalityType, FS_EmptySet DEF PoolIInv, PoolOK
  <2> HIDE DEF Waiting
  <2> QED
    BY <2>2, <2>3, <2>4, ApiAssumption
<1> QED
  BY <1>1, InitPoolIInv, NextPoolIInv, PTL DEF Spec
===============================================================================
