---------------------------------- MODULE Api ----------------------------------
(***************************************************************************)
(* The HTTP interface: the guards of api/src/access.rs over the grants of  *)
(* app/src/auth and the rate limit, the handlers of api/src/routes, and    *)
(* the connection pool (app/src/database/mod.rs) they share with the       *)
(* workers of the process.  Of a handler this module keeps what it does    *)
(* with connections; what it does to the database is in the other modules. *)
(***************************************************************************)
EXTENDS RateLimit, Sequences, FiniteSets

CONSTANTS
    Requests,      \* requests served at once
    Workers,       \* workers that run beside them
    Routes,        \* the routes that are asked for: AllRoutes or fewer
    Works,         \* what workers do: AllWorks or less
    PoolSize,      \* max_connections of the pool, sqlx's default (external)
    MaxRetries     \* MAX_RETRIES

ASSUME ApiAssumption ==
    /\ Requests \cap Workers = {}
    /\ PoolSize \in Nat \ {0}
    /\ MaxRetries \in Nat \ {0}

Tasks == Requests \cup Workers

VARIABLES
    route,         \* the route of a request, the work of a worker
    stage,         \* "idle", "guard" or "run"
    unit,          \* which of its queries and transactions a handler is at
    held,          \* connections a task holds
    inner,         \* it has made the query inside its transaction
    attempt,       \* which run of the closure in retry_loop this is
    free           \* connections in the pool

handlers == <<route, stage, unit, held, inner, attempt, free>>
vars == <<rateVars, handlers>>

-------------------------------------------------------------------------------
(* What the handlers do with connections: a "query" of its own takes one and *)
(* gives it back; a transaction ("tx") keeps one until it ends, a "retried"  *)
(* one runs in retry_loop, and a "nested" one needs a second connection      *)
(* before it ends, for a query or a transaction within it.                   *)

\* payments::post, payment::send: daily_total, three transactions, and the
\* last one reads the reservation from the pool.
PostPayment == <<"query", "tx", "retried", "nested">>

\* invoices::post, invoice::create: daily_total and the insert.
PostInvoice == <<"query", "tx">>

ReadInTransaction == <<"nestedOnce">>

\* deposits::post_address, deposit::create_address.
PostAddress == <<"tx">>

\* withdrawals::post, withdrawal::start.
PostWithdrawal == <<"retried">>

\* user::get.
GetUser == <<"query">>

\* payments::get and the other three like it.
GetOne == <<"query">>

\* payments::list and the other four like it.
List == <<"query">>

\* withdrawal::Listener::process: the row, then a transaction that reads the
\* reservation from the pool.
ConfirmWithdrawal == <<"query", "nestedOnce">>

\* WithdrawalSender::run.
SendWithdrawal == <<"query", "tx">>

\* deposit::Listener::process.
ProcessDeposit == <<"retried">>

\* InvoiceListener::run.
SettleInvoice == <<"query", "retried">>

\* invoice::start_worker: the stream of unsettled invoices keeps a connection
\* while complete takes one for its transaction; here for one invoice of them.
CompleteUnsettled == <<"nestedOnce">>

AllRoutes == {"payment", "invoice", "address", "withdrawal", "user", "one", "list"}
AllWorks == {"confirm", "send", "deposit", "settle", "scan"}

ASSUME RoutesAssumption == Routes \subseteq AllRoutes /\ Works \subseteq AllWorks

NoRoute == "none"

Handler(r) ==
    CASE r = "payment" -> PostPayment
      [] r = "invoice" -> PostInvoice
      [] r = "address" -> PostAddress
      [] r = "withdrawal" -> PostWithdrawal
      [] r = "user" -> GetUser
      [] r = "one" -> GetOne
      [] r = "list" -> List
      [] r = "confirm" -> ConfirmWithdrawal
      [] r = "send" -> SendWithdrawal
      [] r = "deposit" -> ProcessDeposit
      [] r = "settle" -> SettleInvoice
      [] r = "scan" -> CompleteUnsettled

\* The guard in the signature of each route.
Needs(r) ==
    CASE r \in {"payment", "withdrawal"} -> "spend"
      [] r \in {"invoice", "address"} -> "receive"
      [] r \in {"user", "one", "list"} -> "read"

IsNested(what) == what \in {"nested", "nestedOnce"}
IsRetried(what) == what \in {"retried", "nested"}

Current(t) == Handler(route[t])[unit[t]]

Init ==
    /\ RateInit
    /\ route = [t \in Tasks |-> NoRoute]
    /\ stage = [t \in Tasks |-> "idle"]
    /\ unit = [t \in Tasks |-> 1]
    /\ held = [t \in Tasks |-> 0]
    /\ inner = [t \in Tasks |-> FALSE]
    /\ attempt = [t \in Tasks |-> 1]
    /\ free = PoolSize

-------------------------------------------------------------------------------
(* The pool *)

\* A task that asks the pool for a connection.
Wants(t) ==
    \/ stage[t] \in {"guard", "run"} /\ held[t] = 0
    \/ stage[t] = "run" /\ held[t] = 1 /\ IsNested(Current(t)) /\ ~inner[t]

Take(t) ==
    /\ Wants(t)
    /\ free > 0
    /\ held' = [held EXCEPT ![t] = @ + 1]
    /\ free' = free - 1
    /\ UNCHANGED <<rateVars, route, stage, unit, inner, attempt>>

\* The task ends: with it goes what it holds.
Drop(t, given) ==
    /\ stage' = [stage EXCEPT ![t] = "idle"]
    /\ route' = [route EXCEPT ![t] = NoRoute]
    /\ unit' = [unit EXCEPT ![t] = 1]
    /\ held' = [held EXCEPT ![t] = 0]
    /\ inner' = [inner EXCEPT ![t] = FALSE]
    /\ attempt' = [attempt EXCEPT ![t] = 1]
    /\ free' = free + given
    /\ UNCHANGED rateVars

EndKeepsInner(t) == Drop(t, IF held[t] > 0 THEN 1 ELSE 0)

End(t) == Drop(t, held[t])

NeverTimesOut(t) == Wants(t) /\ free < 0 /\ End(t)

\* The pool gives up (external), and every caller unwraps what it answers.
TimesOut(t) == Wants(t) /\ free = 0 /\ End(t)

-------------------------------------------------------------------------------
(* Guards *)

\* start_server scans for settled invoices before it starts their listener and
\* registers the API; the workers of withdrawals and deposits run already.
Scanning == \E w \in Workers : route[w] = "scan"

Registered == \E t \in Tasks : route[t] \in Routes \cup {"settle"}

Arrive(r) ==
    /\ stage[r] = "idle"
    /\ ~Scanning
    /\ \E to \in Routes : route' = [route EXCEPT ![r] = to]
    /\ stage' = [stage EXCEPT ![r] = "guard"]
    /\ UNCHANGED <<rateVars, unit, held, inner, attempt, free>>

\* The request has no token: nothing is asked, nothing counted.
NoHeader(r) == stage[r] = "guard" /\ held[r] = 0 /\ End(r)

Permissions == {"spend", "receive", "read"}

\* What get_token may find: the rows of auth_tokens are written elsewhere.
TokenRows == [user : Users, permissions : SUBSET Permissions, disabled : BOOLEAN]

\* spend_grant, receive_grant and read_grant.
Granted(row, r) == ~row.disabled /\ Needs(route[r]) \in row.permissions

Answered(r) == stage[r] = "guard" /\ held[r] = 1

\* No such token, or none that grants this: nothing is counted.
Deny(r) == Answered(r) /\ End(r)

Limited(r) ==
    /\ Answered(r)
    /\ \E row \in TokenRows : Granted(row, r) /\ IsLimited(row.user)
    /\ End(r)

\* The guard is passed; the connection it asked with is back in the pool.
Pass(r) ==
    /\ Answered(r)
    /\ \E row \in TokenRows : Granted(row, r) /\ Admit(row.user)
    /\ stage' = [stage EXCEPT ![r] = "run"]
    /\ held' = [held EXCEPT ![r] = 0]
    /\ free' = free + 1
    /\ UNCHANGED <<route, unit, inner, attempt>>

-------------------------------------------------------------------------------
(* Handlers *)

\* Range::query_range, Uuid::from_str, Address::from_str or an amount's
\* try_into ends the request before it asks for a connection; the guard has
\* counted it.
RefuseInput(r) ==
    /\ stage[r] = "run" /\ unit[r] = 1 /\ held[r] = 0
    /\ route[r] \in {"payment", "invoice", "withdrawal", "one", "list"}
    /\ End(r)

\* What is done with the second connection ends and gives it back.
EndInner(t) ==
    /\ held[t] = 2
    /\ held' = [held EXCEPT ![t] = 1]
    /\ inner' = [inner EXCEPT ![t] = TRUE]
    /\ free' = free + 1
    /\ UNCHANGED <<rateVars, route, stage, unit, attempt>>

AtEnd(t) ==
    stage[t] = "run" /\ held[t] = 1 /\ (IsNested(Current(t)) => inner[t])

\* A query is answered, a transaction commits: on to the next.
EndUnit(t) ==
    /\ AtEnd(t)
    /\ unit[t] < Len(Handler(route[t]))
    /\ unit' = [unit EXCEPT ![t] = @ + 1]
    /\ held' = [held EXCEPT ![t] = 0]
    /\ inner' = [inner EXCEPT ![t] = FALSE]
    /\ attempt' = [attempt EXCEPT ![t] = 1]
    /\ free' = free + 1
    /\ UNCHANGED <<rateVars, route, stage>>

\* A conflict: the transaction is dropped, retry_loop sleeps with nothing held.
Retry(t) ==
    /\ AtEnd(t)
    /\ IsRetried(Current(t)) /\ attempt[t] < MaxRetries
    /\ attempt' = [attempt EXCEPT ![t] = @ + 1]
    /\ held' = [held EXCEPT ![t] = 0]
    /\ inner' = [inner EXCEPT ![t] = FALSE]
    /\ free' = free + 1
    /\ UNCHANGED <<rateVars, route, stage, unit>>

\* The last of them: the handler returns.
Finish(t) == AtEnd(t) /\ unit[t] = Len(Handler(route[t])) /\ End(t)

\* The handler returns an error, or the database or the node panics it.
Fail(t) == stage[t] # "idle" /\ End(t)

\* worker::start runs its worker again, however it ended; there is one worker of
\* a kind.  The scan is made again by the next process, before anything is
\* registered there.
RunWorker(w) ==
    /\ stage[w] = "idle"
    /\ \E work \in Works :
        /\ \A other \in Workers : route[other] # work
        /\ work = "settle" => ~Scanning
        /\ work = "scan" => ~Registered
        /\ route' = [route EXCEPT ![w] = work]
    /\ stage' = [stage EXCEPT ![w] = "run"]
    /\ UNCHANGED <<rateVars, unit, held, inner, attempt, free>>

Acquire(t) == Take(t) \/ TimesOut(t)

Serve(t) == EndInner(t) \/ EndUnit(t) \/ Finish(t)

Guard(r) == Deny(r) \/ Limited(r) \/ Pass(r)

Next ==
    \/ \E t \in Tasks : Acquire(t) \/ Serve(t) \/ Retry(t) \/ Fail(t)
    \/ \E r \in Requests : Arrive(r) \/ NoHeader(r) \/ Guard(r) \/ RefuseInput(r)
    \/ \E w \in Workers : RunWorker(w)
    \/ /\ \E u \in Users : SpanPasses(u) \/ Decrement(u)
       /\ UNCHANGED handlers

Spec == Init /\ [][Next]_vars

\* The pool answers or times out, the database and the node answer, time goes
\* on and spawned tasks run.  Nothing makes clients send requests.
FairSpec ==
    /\ Spec
    /\ \A t \in Tasks : WF_vars(Acquire(t)) /\ WF_vars(Serve(t))
    /\ \A r \in Requests : WF_vars(Guard(r))
    /\ RateFairness

-------------------------------------------------------------------------------
(* Properties *)

TypeOK ==
    /\ RateTypeOK
    /\ route \in [Tasks -> Routes \cup Works \cup {NoRoute}]
    /\ stage \in [Tasks -> {"idle", "guard", "run"}]
    /\ unit \in [Tasks -> 1 .. 4]
    /\ held \in [Tasks -> 0 .. 2]
    /\ inner \in [Tasks -> BOOLEAN]
    /\ attempt \in [Tasks -> 1 .. MaxRetries]
    /\ free \in 0 .. PoolSize

\* However handlers end, the pool gets every connection back: what is not held
\* is free.
NothingLeaks ==
    free + Cardinality({t \in Tasks : held[t] > 0})
         + Cardinality({t \in Tasks : held[t] > 1}) = PoolSize

\* A task that has ended starts over, and one that has not is at a unit of its
\* handler.
HandlersOK ==
    \A t \in Tasks :
        /\ stage[t] = "idle" => unit[t] = 1
        /\ stage[t] # "idle" => /\ route[t] # NoRoute
                                /\ unit[t] <= Len(Handler(route[t]))

\* The inductive invariant.
IInv == TypeOK /\ RateIInv /\ HandlersOK /\ NothingLeaks

\* Every connection is held by a task that waits for another one.
Stuck == free = 0 /\ \A t \in Tasks : held[t] > 0 => Wants(t)

\* The tasks wait for one another only when as many payments being sent,
\* withdrawals confirmed and unsettled invoices completed at once as the pool has
\* connections ask for a second one: these read a reservation from the pool in
\* the middle of their transactions (payment/mod.rs:50, withdrawal/mod.rs:101),
\* or begin one with a stream open (invoice/mod.rs:46).
StuckOnlyByNesting ==
    LET Nests(t) ==
            \/ route[t] = "payment" /\ unit[t] = Len(PostPayment)
            \/ route[t] = "confirm" /\ unit[t] = Len(ConfirmWithdrawal)
            \/ route[t] = "scan" /\ unit[t] = Len(CompleteUnsettled)
    IN  Stuck => Cardinality({t \in Tasks : held[t] = 1 /\ Nests(t)}) >= PoolSize

\* Every request is answered and every run of a worker ends, although they may
\* all wait for one another's connections (payment/mod.rs:50, withdrawal/mod.rs:101,
\* invoice/mod.rs:46): the pool times out for one of them.
TasksEnd == \A t \in Tasks : stage[t] # "idle" ~> stage[t] = "idle"
===============================================================================
