--------------------------- MODULE PoolAdmission ---------------------------
(***************************************************************************)
(* What the admission scheduler promises, with no queue order, no ledger   *)
(* and no reservation: requests ask to run a model, and a request is let   *)
(* in only while its model's cap, its pool's budget and, in an exclusive   *)
(* pool, the one-member rule allow it.  Capacity is measured on the        *)
(* requests that really run, never on a counter, so a scheduler whose      *)
(* counters drift does not implement this module.                          *)
(*                                                                         *)
(* Budget and costs are whole numbers of units; Scheduler says why.        *)
(***************************************************************************)
EXTENDS Integers, FiniteSets

CONSTANTS
  Requests,    \* identities of requests; one is used again once it is done
  Models,      \* model names
  Pools,       \* resource pools
  PoolOf,      \* the pool of a model
  Cap,         \* max_parallel_requests of a model, 0 when it declares none
  Budget,      \* the units of a pool
  Exclusive,   \* the pools where one distinct model runs at a time
  NoJob        \* the job of a request that neither asks nor runs

VARIABLES
  asking,      \* the requests that wait for admission
  running,     \* the requests that run
  job          \* the model and the cost of an asking or running request

avars == <<asking, running, job>>

-----------------------------------------------------------------------------
\* The running requests of a model, and of a pool.
RunningOf(m) == {r \in running : job[r].model = m}
RunningIn(p) == {r \in running : PoolOf[job[r].model] = p}

\* One token for each unit that a running request of pool p holds: their
\* number is the sum of the costs.
UnitsHeld(p) == UNION {{r} \X (1 .. job[r].cost) : r \in RunningIn(p)}

\* One more run of job j respects the cap, the one-member rule and the budget.
Room(j) ==
  LET p == PoolOf[j.model] IN
  /\ Cap[j.model] # 0 => Cardinality(RunningOf(j.model)) < Cap[j.model]
  /\ p \in Exclusive => RunningIn(p) = RunningOf(j.model)
  /\ Cardinality(UnitsHeld(p)) + j.cost <= Budget[p]

-----------------------------------------------------------------------------
AInit ==
  /\ asking = {}
  /\ running = {}
  /\ job = [r \in Requests |-> NoJob]

\* A request asks to run model m at cost c.
Ask(r, m, c) ==
  /\ r \notin asking \cup running
  /\ asking' = asking \cup {r}
  /\ job' = [job EXCEPT ![r] = [model |-> m, cost |-> c]]
  /\ UNCHANGED running

\* An asking request gives up.
Leave(r) ==
  /\ r \in asking
  /\ asking' = asking \ {r}
  /\ job' = [job EXCEPT ![r] = NoJob]
  /\ UNCHANGED running

\* An asking request is let in.
Grant(r) ==
  /\ r \in asking
  /\ Room(job[r])
  /\ asking' = asking \ {r}
  /\ running' = running \cup {r}
  /\ UNCHANGED job

\* A running request ends and gives back all it held.
Finish(r) ==
  /\ r \in running
  /\ running' = running \ {r}
  /\ job' = [job EXCEPT ![r] = NoJob]
  /\ UNCHANGED asking

\* Nothing asks for more than its pool has: such a request could never run.
ANext ==
  \E r \in Requests :
    \/ \E m \in Models : \E c \in 0 .. Budget[PoolOf[m]] : Ask(r, m, c)
    \/ Leave(r)
    \/ Grant(r)
    \/ Finish(r)

ASpec == AInit /\ [][ANext]_avars

-----------------------------------------------------------------------------
\* The capacity that what runs never exceeds: the cap of every model, the
\* budget of every pool, and the one-member rule of every exclusive pool.
WithinCaps    == \A m \in Models : Cap[m] # 0 => Cardinality(RunningOf(m)) <= Cap[m]
WithinBudgets == \A p \in Pools : Cardinality(UnitsHeld(p)) <= Budget[p]
OneResident   == \A p \in Exclusive : \A r, s \in RunningIn(p) : job[r].model = job[s].model
=============================================================================
