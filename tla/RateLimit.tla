------------------------------- MODULE RateLimit -------------------------------
(***************************************************************************)
(* The rate limit of api/src/rate_limit.rs: a count for each user in a map *)
(* that the requests and the tasks that undo their counts share.  Each     *)
(* access holds the lock of the map's entry and is one step.               *)
(*                                                                         *)
(* Time is kept only as which admissions are within the last span.  Spans  *)
(* are equally long, so the oldest admission leaves its span first.        *)
(***************************************************************************)
EXTENDS Integers

CONSTANTS
    Users,
    Limit          \* RateLimit::limit

ASSUME RateLimitAssumption == Limit \in Nat

VARIABLES
    count,         \* counter: the count of a user, or Vacant
    uncounted,     \* admissions within the span that inserted the entry
    counted,       \* admissions within the span whose task sleeps
    due            \* tasks past their sleep that have still to decrement

rateVars == <<count, uncounted, counted, due>>

Vacant == -1

RateInit ==
    /\ count = [u \in Users |-> Vacant]
    /\ uncounted = [u \in Users |-> 0]
    /\ counted = [u \in Users |-> 0]
    /\ due = [u \in Users |-> 0]

\* The first request of a user inserts a count of zero, and no task.
AdmitVacant(u) ==
    /\ count[u] = Vacant
    /\ count' = [count EXCEPT ![u] = 0]
    /\ uncounted' = [uncounted EXCEPT ![u] = @ + 1]
    /\ UNCHANGED <<counted, due>>

AdmitAnyway(u) ==
    /\ count[u] # Vacant
    /\ count' = [count EXCEPT ![u] = @ + 1]
    /\ counted' = [counted EXCEPT ![u] = @ + 1]
    /\ UNCHANGED <<uncounted, due>>

AdmitForGood(u) ==
    /\ count[u] # Vacant
    /\ count[u] < Limit
    /\ count' = [count EXCEPT ![u] = @ + 1]
    /\ UNCHANGED <<uncounted, counted, due>>

\* A later one is counted, and a task spawned to undo that.
AdmitCounted(u) ==
    /\ count[u] # Vacant
    /\ count[u] < Limit
    /\ count' = [count EXCEPT ![u] = @ + 1]
    /\ counted' = [counted EXCEPT ![u] = @ + 1]
    /\ UNCHANGED <<uncounted, due>>

Admit(u) == AdmitVacant(u) \/ AdmitCounted(u)

IsLimited(u) == count[u] # Vacant /\ count[u] >= Limit

\* The oldest admission is a span ago; its task, if it has one, wakes up.
SpanPasses(u) ==
    \/ /\ uncounted[u] > 0
       /\ uncounted' = [uncounted EXCEPT ![u] = @ - 1]
       /\ UNCHANGED <<count, counted, due>>
    \/ /\ uncounted[u] = 0 /\ counted[u] > 0
       /\ counted' = [counted EXCEPT ![u] = @ - 1]
       /\ due' = [due EXCEPT ![u] = @ + 1]
       /\ UNCHANGED <<count, uncounted>>

DecrementEarly(u) ==
    /\ due[u] > 0
    /\ due' = [due EXCEPT ![u] = @ - 1]
    /\ count' = [count EXCEPT ![u] = IF @ \in {Vacant, 1, 2} THEN Vacant ELSE @ - 1]
    /\ UNCHANGED <<uncounted, counted>>

\* The task of decrement_later; the entry goes with its last count.  Of a
\* vacant entry it logs an error.
Decrement(u) ==
    /\ due[u] > 0
    /\ due' = [due EXCEPT ![u] = @ - 1]
    /\ count' = [count EXCEPT ![u] = IF @ \in {Vacant, 1} THEN Vacant ELSE @ - 1]
    /\ UNCHANGED <<uncounted, counted>>

RateNext == \E u \in Users : Admit(u) \/ SpanPasses(u) \/ Decrement(u)

RateSpec == RateInit /\ [][RateNext]_rateVars

\* Time goes on and spawned tasks run.
RateFairness == \A u \in Users : WF_rateVars(SpanPasses(u)) /\ WF_rateVars(Decrement(u))

-------------------------------------------------------------------------------
(* Properties *)

RateTypeOK ==
    /\ count \in [Users -> Nat \cup {Vacant}]
    /\ uncounted \in [Users -> {0, 1}]
    /\ counted \in [Users -> Nat]
    /\ due \in [Users -> Nat]

\* A count is what its tasks will undo; the admission that is not counted is
\* older than all that are.
CountIsUndone(u) ==
    /\ count[u] = Vacant => uncounted[u] = 0 /\ counted[u] = 0 /\ due[u] = 0
    /\ count[u] # Vacant => count[u] = counted[u] + due[u] /\ count[u] <= Limit
    /\ due[u] > 0 => uncounted[u] = 0

\* The inductive invariant.
RateIInv == RateTypeOK /\ \A u \in Users : CountIsUndone(u)

\* "entry should not be vacant, this is a bug" (rate_limit.rs:55-58): a task
\* finds the entry it counted in, with a count it can take one from.
DecrementFindsEntry == \A u \in Users : due[u] > 0 => count[u] > 0

\* Within any span a user is admitted the limit and one request more: the
\* first inserts a count of zero (rate_limit.rs:36-40).
BurstIsBounded == \A u \in Users : uncounted[u] + counted[u] <= Limit + 1

\* Nobody is refused for ever, given a limit that is not zero.
LimitLifts == \A u \in Users : Limit > 0 /\ IsLimited(u) ~> ~IsLimited(u)
===============================================================================
