----------------------------- MODULE Scheduler -----------------------------
(***************************************************************************)
(* The cost-weighted admission scheduler (overlaat/scheduler.py).          *)
(*                                                                         *)
(* One list of waiters is ordered by effective priority and packed into    *)
(* named pools, each with a budget.  Every handler of the code (enqueue,   *)
(* withdraw, release) changes the state and then runs pump, which admits   *)
(* one waiter per pass until none fits.  pump has no await: a handler and  *)
(* all the passes it starts run without interruption.  Here a handler sets *)
(* pumping, and while pumping holds only passes of pump are enabled.       *)
(*                                                                         *)
(* Abstractions.                                                           *)
(*   - Costs and budgets are whole units; Unit of them are 1.0.  The code  *)
(*     adds floats and compares with EPS so that sums of 1/cap do not      *)
(*     overflow a budget they fill exactly; unit sums are exact.           *)
(*   - The clock moves in ticks up to MaxTime.  It only matters to aging   *)
(*     and to ties: waiters are appended in the order of enqueued_at.      *)
(*   - A request identity stands for one Waiter object at a time and is    *)
(*     used again when its caller is done with it.                         *)
(***************************************************************************)
EXTENDS Integers, Sequences, FiniteSets, SequencesExt

CONSTANTS
  Requests, Models, Pools, PoolOf, Cap, Budget, Exclusive,   \* see PoolAdmission
  Unit,            \* the units of cost 1.0
  CostOverride,    \* overlaat_cost of a model in units, 0 when it has none
  DefaultCost,     \* the cost of a model with neither override nor cap
  FullPool,        \* the pools with heavy_max = full_pool; leave_room is the default
  Weights,         \* the prompt-size multipliers of the tier table
  Priorities,      \* the priorities a request may ask for
  DefaultPriority, \* the ceiling of a key that declares none
  AgingRate,       \* priority gained per tick waited
  MaxTime,         \* bound of the clock
  Keys,            \* API keys
  Ceilings,        \* the ceilings an operator may grant a key
  CeilingSource,   \* whether per-key ceilings are configured at all
  NoWaiter,        \* no Waiter object
  NoCeiling        \* a key without a ceiling

ASSUME PoolAssumption ==
  /\ PoolOf \in [Models -> Pools]
  /\ Cap \in [Models -> Nat]
  /\ Budget \in [Pools -> Nat]
  /\ Exclusive \subseteq Pools
  /\ FullPool \subseteq Pools

\* Every cap divides Unit, so that 1/cap is a whole number of units.
ASSUME CostAssumption ==
  /\ Unit \in Nat
  /\ CostOverride \in [Models -> Nat]
  /\ DefaultCost \in Nat
  /\ Weights \subseteq Nat
  /\ \A m \in Models : Cap[m] # 0 => Unit % Cap[m] = 0

ASSUME PriorityAssumption ==
  /\ Priorities \subseteq Int
  /\ DefaultPriority \in Int
  /\ AgingRate \in Nat
  /\ MaxTime \in Nat
  /\ Ceilings \subseteq Int
  /\ CeilingSource \in BOOLEAN
  /\ NoCeiling \notin Int

ASSUME NoWaiterAssumption == NoWaiter \notin Requests

VARIABLES
  waiters,     \* Scheduler.waiters: the queued requests in the order of arrival
  used,        \* Scheduler._used: the committed budget of each pool
  inFlight,    \* Scheduler.in_flight: the runs of each model
  reserved,    \* Scheduler._reserved: the waiter each pool's budget is held for
  pumping,     \* a handler has run and its pump has not returned yet
  status,      \* what the caller of a request knows from the future
  req,         \* the fields of a Waiter that are fixed when it is made
  mark,        \* the fields of a Waiter that pump writes
  ceilings,    \* the cached per-key ceilings
  now          \* the monotonic clock

vars == <<waiters, used, inFlight, reserved, pumping, status, req, mark, ceilings, now>>

Waiter == [model : Models, cost : Nat, basePriority : Priorities, key : Keys,
           enqueuedAt : 0 .. MaxTime]

Causes  == {"none", "model_cap", "exclusive", "budget_full"}
Reasons == Causes \cup {"reserved", "aged_in", "cost_exceeds_pool_budget"}

Mark  == [waited : BOOLEAN, wasReserved : BOOLEAN, waitCause : Causes, reason : Reasons]
Fresh == [waited |-> FALSE, wasReserved |-> FALSE, waitCause |-> "none", reason |-> "none"]

-----------------------------------------------------------------------------
\* Costs.  An override wins over 1/cap, which wins over the default.
BaseCost(m) ==
  IF CostOverride[m] # 0 THEN CostOverride[m]
  ELSE IF Cap[m] # 0 THEN Unit \div Cap[m]
  ELSE DefaultCost

Lesser(a, b)  == IF a <= b THEN a ELSE b

GreaterSecond(a, b) == b   \* mutant: the lower bound of a clamp is dropped
Greater(a, b) == IF a >= b THEN a ELSE b

\* What one weighted request may take of its pool at most.
HeavyMax(m) ==
  LET p == PoolOf[m] IN IF p \in FullPool THEN Budget[p] ELSE Budget[p] - BaseCost(m)

WeightedCost(m, weight) ==
  IF weight <= 1 THEN BaseCost(m)
  ELSE Greater(BaseCost(m), Lesser(BaseCost(m) * weight, HeavyMax(m)))

\* The cost given back when r ends: the one it was charged, not BaseCost.
RefundBase(r) == BaseCost(req[r].model)   \* mutant: a refund per model
Refund(r) == req[r].cost

-----------------------------------------------------------------------------
\* Priorities.
Ceiling(k) == IF ceilings[k] = NoCeiling THEN DefaultPriority ELSE ceilings[k]

Clamped(r) ==
  IF CeilingSource THEN Lesser(req[r].basePriority, Ceiling(req[r].key))
  ELSE req[r].basePriority

Aged(r) == AgingRate * (now - req[r].enqueuedAt)

EffectivePriority(r) == Clamped(r) + Aged(r)

\* The order of pump's stable sort, on positions in the list of waiters.
PrecedesLifo(i, j) ==   \* mutant: ties go to the latest arrival
  LET a == waiters[i]  b == waiters[j] IN
  \/ EffectivePriority(a) > EffectivePriority(b)
  \/ EffectivePriority(a) = EffectivePriority(b) /\ i > j

Precedes(i, j) ==
  LET a == waiters[i]  b == waiters[j] IN
  \/ EffectivePriority(a) > EffectivePriority(b)
  \/ /\ EffectivePriority(a) = EffectivePriority(b)
     /\ \/ req[a].enqueuedAt < req[b].enqueuedAt
        \/ req[a].enqueuedAt = req[b].enqueuedAt /\ i < j

-----------------------------------------------------------------------------
\* The three constraints on an admission.
PoolOfReq(r) == PoolOf[req[r].model]

ActiveMembers(p) == {m \in Models : PoolOf[m] = p /\ inFlight[m] > 0}

ExclusionNever(r) == FALSE   \* mutant: no mutex
ExclusionBlocks(r) ==
  LET p == PoolOfReq(r) IN
  /\ p \in Exclusive
  /\ ActiveMembers(p) # {}
  /\ req[r].model \notin ActiveMembers(p)

CapFullLate(r) == LET m == req[r].model IN Cap[m] # 0 /\ inFlight[m] > Cap[m]   \* mutant: off by one
CapFull(r) == LET m == req[r].model IN Cap[m] # 0 /\ inFlight[m] >= Cap[m]

OverBudget(r) == used[PoolOfReq(r)] + req[r].cost > Budget[PoolOfReq(r)]

CostFitsAny(m, cost)  == TRUE   \* mutant: nothing is refused
CostFitsPool(m, cost) == cost <= Budget[PoolOf[m]]

\* The positions of the waiters of pool p, and those that are its head.
InPool(p) == {i \in DOMAIN waiters : PoolOfReq(waiters[i]) = p}
IsHead(i) == \A j \in InPool(PoolOfReq(waiters[i])) : j = i \/ Precedes(i, j)

\* The head of pool p when only the budget blocks it.
BlockedHead(p, i) ==
  /\ i \in InPool(p)
  /\ IsHead(i)
  /\ ~CapFull(waiters[i])
  /\ ~ExclusionBlocks(waiters[i])
  /\ OverBudget(waiters[i])

\* The reservations that a pass of pump makes.
NoReservation(p) == NoWaiter   \* mutant: nothing is reserved
ToReserve(p) ==
  IF \E i \in DOMAIN waiters : BlockedHead(p, i)
  THEN waiters[CHOOSE i \in DOMAIN waiters : BlockedHead(p, i)]
  ELSE NoWaiter

\* What a pool with reservation h leaves to its other waiters.
ReservableAll(p, h) == Budget[p]   \* mutant: the reservation holds nothing back
Reservable(p, h) == IF h = NoWaiter THEN Budget[p] ELSE Budget[p] - req[h].cost

Fits(r, h) ==
  LET p == PoolOfReq(r) IN
  /\ ~CapFull(r)
  /\ ~ExclusionBlocks(r)
  /\ used[p] + req[r].cost <= Reservable(p, h)

-----------------------------------------------------------------------------
\* Bookkeeping of the reasons why a waiter waited.

\* _was_reserved of waiter r after a pass that makes the reservations rsv: a
\* waiter that is no longer the head of its pool loses the latch.
LatchSticky(r, rsv) == rsv[PoolOfReq(r)] = r \/ mark[r].wasReserved   \* mutant: never displaced
Latch(r, rsv) ==
  \/ rsv[PoolOfReq(r)] = r
  \/ /\ mark[r].wasReserved
     /\ reserved[PoolOfReq(r)] = r => \E i \in DOMAIN waiters : waiters[i] = r /\ IsHead(i)

ReasonFor(r, rsv) ==
  CASE ~mark[r].waited                 -> "none"
    [] mark[r].waited /\ Latch(r, rsv) -> "reserved"
    [] OTHER ->
         IF AgingRate > 0 /\ Aged(r) > 0 THEN "aged_in"
         ELSE IF mark[r].waitCause = "none" THEN "budget_full"
         ELSE mark[r].waitCause

WaitReason(r, rsv) ==
  CASE rsv[PoolOfReq(r)] = r -> "reserved"
    [] rsv[PoolOfReq(r)] # r /\ CapFull(r) -> "model_cap"
    [] rsv[PoolOfReq(r)] # r /\ ~CapFull(r) /\ ExclusionBlocks(r) -> "exclusive"
    [] OTHER -> "budget_full"

\* A waiter that a pass leaves in the queue; the reserved head keeps the cause
\* that was latched before.
Parked(r, rsv) ==
  [waited      |-> TRUE,
   wasReserved |-> Latch(r, rsv),
   waitCause   |-> IF rsv[PoolOfReq(r)] = r THEN mark[r].waitCause ELSE WaitReason(r, rsv),
   reason      |-> WaitReason(r, rsv)]

\* The call of pump at the end of a handler.
StartPumpNotOnWithdraw(handler) == pumping' = (handler # "withdraw")   \* mutant
StartPump(handler) == pumping' = TRUE

-----------------------------------------------------------------------------
Init ==
  /\ waiters = <<>>
  /\ used = [p \in Pools |-> 0]
  /\ inFlight = [m \in Models |-> 0]
  /\ reserved = [p \in Pools |-> NoWaiter]
  /\ pumping = FALSE
  /\ status = [r \in Requests |-> "idle"]
  /\ req = [r \in Requests |-> NoWaiter]
  /\ mark = [r \in Requests |-> Fresh]
  /\ ceilings \in [Keys -> Ceilings \cup {NoCeiling}]
  /\ now = 0

\* The Waiter of r is no longer referred to by its caller.
Drop(r) ==
  /\ status' = [status EXCEPT ![r] = "idle"]
  /\ req' = [req EXCEPT ![r] = NoWaiter]
  /\ mark' = [mark EXCEPT ![r] = Fresh]

\* enqueue: a cost above the pool's whole budget is refused for good; any other
\* waiter joins the list and pump runs.
Enqueue(r, w) ==
  /\ ~pumping
  /\ status[r] = "idle"
  /\ req' = [req EXCEPT ![r] = w]
  /\ \/ /\ CostFitsPool(w.model, w.cost)
        /\ waiters' = Append(waiters, r)
        /\ status' = [status EXCEPT ![r] = "waiting"]
        /\ StartPump("enqueue")
        /\ UNCHANGED mark
     \/ /\ ~CostFitsPool(w.model, w.cost)
        /\ status' = [status EXCEPT ![r] = "rejected"]
        /\ mark' = [mark EXCEPT ![r].reason = "cost_exceeds_pool_budget"]
        /\ UNCHANGED <<waiters, pumping>>
  /\ UNCHANGED <<used, inFlight, reserved, ceilings, now>>

\* The caller of a refused request answers 503 and is done with it.
Forget(r) ==
  /\ ~pumping
  /\ status[r] = "rejected"
  /\ Drop(r)
  /\ UNCHANGED <<waiters, used, inFlight, reserved, pumping, ceilings, now>>

\* withdraw: the waiter was cancelled while queued.
Withdraw(i) ==
  LET r == waiters[i]  p == PoolOfReq(r) IN
  /\ ~pumping
  /\ waiters' = RemoveAt(waiters, i)
  /\ reserved' = IF reserved[p] = r THEN [reserved EXCEPT ![p] = NoWaiter] ELSE reserved
  /\ Drop(r)
  /\ StartPump("withdraw")
  /\ UNCHANGED <<used, inFlight, ceilings, now>>

\* release: a run ended, whatever its outcome.
Release(r) ==
  LET m == req[r].model  p == PoolOf[m] IN
  /\ ~pumping
  /\ status[r] = "running"
  /\ used' = [used EXCEPT ![p] = Greater(0, used[p] - Refund(r))]
  /\ inFlight' = [inFlight EXCEPT ![m] = Greater(0, inFlight[m] - 1)]
  /\ Drop(r)
  /\ StartPump("release")
  /\ UNCHANGED <<waiters, reserved, ceilings, now>>

\* One pass of pump that admits the first waiter, in order, that fits.
PumpAdmit(i) ==
  LET r   == waiters[i]
      m   == req[r].model
      p   == PoolOf[m]
      rsv == [q \in Pools |-> ToReserve(q)]
  IN
  /\ pumping
  /\ Fits(r, rsv[p])
  /\ \A j \in DOMAIN waiters :
       Precedes(j, i) => ~Fits(waiters[j], rsv[PoolOfReq(waiters[j])])
  /\ used' = [used EXCEPT ![p] = used[p] + req[r].cost]
  /\ inFlight' = [inFlight EXCEPT ![m] = inFlight[m] + 1]
  /\ waiters' = RemoveAt(waiters, i)
  /\ reserved' = [q \in Pools |-> IF rsv[q] = r THEN NoWaiter ELSE rsv[q]]
  /\ status' = [status EXCEPT ![r] = "running"]
  /\ mark' = [s \in Requests |->
                IF s = r THEN [mark[r] EXCEPT !.wasReserved = Latch(r, rsv), !.reason = ReasonFor(r, rsv)]
                ELSE IF status[s] = "waiting" THEN [mark[s] EXCEPT !.wasReserved = Latch(s, rsv)]
                ELSE mark[s]]
  /\ UNCHANGED <<pumping, req, ceilings, now>>

\* The pass that admits nobody: every waiter is told why and pump returns.
PumpPark ==
  LET rsv == [q \in Pools |-> ToReserve(q)] IN
  /\ pumping
  /\ waiters # <<>>
  /\ \A i \in DOMAIN waiters : ~Fits(waiters[i], rsv[PoolOfReq(waiters[i])])
  /\ reserved' = rsv
  /\ mark' = [s \in Requests |-> IF status[s] = "waiting" THEN Parked(s, rsv) ELSE mark[s]]
  /\ pumping' = FALSE
  /\ UNCHANGED <<waiters, used, inFlight, status, req, ceilings, now>>

\* pump finds nobody queued.
PumpEmpty ==
  /\ pumping
  /\ waiters = <<>>
  /\ reserved' = [p \in Pools |-> NoWaiter]
  /\ pumping' = FALSE
  /\ UNCHANGED <<waiters, used, inFlight, status, req, mark, ceilings, now>>

Pump == (\E i \in DOMAIN waiters : PumpAdmit(i)) \/ PumpPark \/ PumpEmpty

\* The refresher swaps the cached ceilings and does not run pump.
RefreshCeilings(c) ==
  /\ ~pumping
  /\ CeilingSource
  /\ ceilings' = c
  /\ UNCHANGED <<waiters, used, inFlight, reserved, pumping, status, req, mark, now>>

Tick ==
  /\ ~pumping
  /\ now < MaxTime
  /\ now' = now + 1
  /\ UNCHANGED <<waiters, used, inFlight, reserved, pumping, status, req, mark, ceilings>>

\* The Waiters the proxy makes: a cost weighted by the prompt's size.
Arrivals == {[model |-> m, cost |-> WeightedCost(m, weight), basePriority |-> b,
              key |-> k, enqueuedAt |-> now] :
               m \in Models, weight \in Weights, b \in Priorities, k \in Keys}

Next ==
  \/ \E r \in Requests : \/ \E w \in Arrivals : Enqueue(r, w)
                         \/ Forget(r)
                         \/ Release(r)
  \/ \E i \in DOMAIN waiters : Withdraw(i)
  \/ Pump
  \/ \E c \in [Keys -> Ceilings \cup {NoCeiling}] : RefreshCeilings(c)
  \/ Tick

Spec == Init /\ [][Next]_vars

\* A started pump runs on.  Every run ends (the backend answers, fails or times
\* out) and its release is then a callback in the event loop's queue: other
\* handlers may run before it, but not for ever, hence strong fairness.
FairSpec == Spec /\ WF_vars(Pump) /\ \A r \in Requests : SF_vars(Release(r))

-----------------------------------------------------------------------------
\* Costs stay whole and no lower than zero, counters too, and the marks of a
\* waiter are among the reasons that pump documents.
TypeOK ==
  /\ waiters \in Seq(Requests)
  /\ used \in [Pools -> Nat]
  /\ inFlight \in [Models -> Nat]
  /\ reserved \in [Pools -> Requests \cup {NoWaiter}]
  /\ pumping \in BOOLEAN
  /\ status \in [Requests -> {"idle", "waiting", "running", "rejected"}]
  /\ req \in [Requests -> Waiter \cup {NoWaiter}]
  /\ mark \in [Requests -> Mark]
  /\ ceilings \in [Keys -> Ceilings \cup {NoCeiling}]
  /\ now \in 0 .. MaxTime

Waiting == {r \in Requests : status[r] = "waiting"}
Running == {r \in Requests : status[r] = "running"}

\* The scheduler as its callers see it: who waits, who runs, at what cost.
Callers == INSTANCE PoolAdmission WITH
             asking  <- Waiting,
             running <- Running,
             job     <- [r \in Requests |->
                           IF r \in Waiting \cup Running
                           THEN [model |-> req[r].model, cost |-> req[r].cost]
                           ELSE NoWaiter],
             NoJob   <- NoWaiter

\* The scheduler implements the abstract admission control: it lets nobody in
\* for whom the requests that really run leave no room.
ImplementsPoolAdmission == Callers!ASpec

\* The committed budget of a pool is at every moment the sum of the costs that
\* the running requests were charged, and in_flight their number: refunds are
\* exact under any interleaving of heavy and light runs (issue #24).
LedgerExact ==
  /\ \A p \in Pools  : used[p] = Cardinality(Callers!UnitsHeld(p))
  /\ \A m \in Models : inFlight[m] = Cardinality(Callers!RunningOf(m))

\* What runs never exceeds a cap or a pool's budget, and one member at a time
\* is resident in an exclusive pool.
CapacityRespected ==
  /\ Callers!WithinCaps
  /\ Callers!WithinBudgets
  /\ Callers!OneResident

\* No pool deadlocks (issue #36): when pump has returned, a pool that has a
\* waiter has a run, whose release pumps again.
NoStall ==
  ~pumping => \A r \in Waiting : \E s \in Running : PoolOfReq(s) = PoolOfReq(r)

\* Between two pumps a reservation is held by a queued request of that pool
\* that the budget alone keeps out, and the _was_reserved latch of a waiter
\* says exactly whether it holds one.
ReservationSound ==
  ~pumping =>
    /\ \A p \in Pools : reserved[p] # NoWaiter =>
         /\ reserved[p] \in Waiting
         /\ PoolOfReq(reserved[p]) = p
         /\ OverBudget(reserved[p]) /\ ~CapFull(reserved[p]) /\ ~ExclusionBlocks(reserved[p])
    /\ \A r \in Waiting : mark[r].wasReserved <=> reserved[PoolOfReq(r)] = r

\* Between two pumps nobody waits for whom there is room, unless its pool's
\* budget is reserved for another request.
NoMissedAdmission ==
  ~pumping => \A r \in Waiting :
    \/ CapFull(r) \/ ExclusionBlocks(r) \/ OverBudget(r)
    \/ reserved[PoolOfReq(r)] \notin {NoWaiter, r}

Admitted(r) == status[r] = "waiting" /\ status'[r] = "running"

\* While a pool's budget is reserved nobody is admitted to it.
FrozenWhileReserved ==
  [][\A p \in Pools : reserved'[p] # NoWaiter => used'[p] <= used[p]]_vars

\* The head of a pool is passed over only while its model's cap is full or
\* another member is resident, never for want of budget (the starvation guard).
HeadNotOvertaken ==
  [][\A i \in DOMAIN waiters : \A r \in Requests :
       /\ IsHead(i)
       /\ Admitted(r)
       /\ r # waiters[i]
       /\ PoolOfReq(r) = PoolOfReq(waiters[i])
       => CapFull(waiters[i]) \/ ExclusionBlocks(waiters[i])]_vars

\* Of two requests for one model, the later of no higher priority is not let
\* in before the earlier, unless the earlier costs more.
SameModelInOrder ==
  [][\A i, j \in DOMAIN waiters :
       /\ i < j
       /\ req[waiters[i]].model = req[waiters[j]].model
       /\ req[waiters[i]].cost <= req[waiters[j]].cost
       /\ Clamped(waiters[i]) >= Clamped(waiters[j])
       => ~Admitted(waiters[j])]_vars

\* Every waiter is eventually admitted or withdrawn.
EveryWaiterServed == \A r \in Requests : status[r] = "waiting" ~> status[r] # "waiting"

\* Outside the exclusive pools, whose mutex lets the resident model go first,
\* every waiter is eventually admitted or withdrawn.
SharedWaitersServed ==
  \A r \in Requests :
    (status[r] = "waiting" /\ PoolOfReq(r) \notin Exclusive) ~> status[r] # "waiting"
=============================================================================
