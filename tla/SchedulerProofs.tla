-------------------------- MODULE SchedulerProofs --------------------------
(***************************************************************************)
(* Proofs about Scheduler, for every set of requests, models and pools and *)
(* every configuration that satisfies its assumptions.                     *)
(***************************************************************************)
EXTENDS Scheduler, CollectionFacts

\* Costs are whole units.
LEMMA BaseCostNat == ASSUME NEW m \in Models PROVE BaseCost(m) \in Nat
<1>1. CASE CostOverride[m] # 0
  BY <1>1, CostAssumption DEF BaseCost
<1>2. CASE CostOverride[m] = 0 /\ Cap[m] # 0
  <2>1. Unit \in Nat /\ Cap[m] \in Nat /\ Cap[m] > 0
    BY <1>2, CostAssumption, PoolAssumption
  <2>2. Unit \div Cap[m] \in Nat
    BY <2>1
  <2> QED BY <1>2, <2>2 DEF BaseCost
<1>3. CASE CostOverride[m] = 0 /\ Cap[m] = 0
  BY <1>3, CostAssumption DEF BaseCost
<1> QED BY <1>1, <1>2, <1>3, CostAssumption, PoolAssumption

\* A weighted cost is a whole number and no lower than zero, whatever its clamp.
LEMMA WeightedCostNat ==
  ASSUME NEW m \in Models, NEW weight \in Weights
  PROVE  WeightedCost(m, weight) \in Nat
<1>1. BaseCost(m) \in Nat /\ weight \in Nat
  BY BaseCostNat, CostAssumption
<1>2. HeavyMax(m) \in Int
  BY <1>1, PoolAssumption DEF HeavyMax
<1>3. BaseCost(m) * weight \in Int
  BY <1>1
<1>4. Lesser(BaseCost(m) * weight, HeavyMax(m)) \in Int
  BY <1>2, <1>3 DEF Lesser
<1> QED BY <1>1, <1>4 DEF WeightedCost, Greater

-----------------------------------------------------------------------------
(***************************************************************************)
(* The shape of the queue: its positions are exactly the waiting requests, *)
(* each once; a live request has a Waiter; a waiter fits an empty pool.    *)
(***************************************************************************)
Shape ==
  /\ \A i \in DOMAIN waiters : status[waiters[i]] = "waiting"
  /\ \A i, j \in DOMAIN waiters : waiters[i] = waiters[j] => i = j
  /\ \A r \in Waiting : \E i \in DOMAIN waiters : waiters[i] = r
  /\ \A r \in Requests : status[r] # "idle" => req[r] \in Waiter
  /\ \A r \in Waiting : req[r].cost <= Budget[PoolOfReq(r)]

\* The queue is a list of requests.
LEMMA WaitersFacts ==
  ASSUME TypeOK
  PROVE  /\ Len(waiters) \in Nat
         /\ DOMAIN waiters = 1 .. Len(waiters)
         /\ \A i \in DOMAIN waiters : waiters[i] \in Requests
BY LenProperties, ElementOfSeq DEF TypeOK

\* What the proxy enqueues is a Waiter.
LEMMA ArrivalIsWaiter ==
  ASSUME TypeOK, NEW w \in Arrivals
  PROVE  w \in Waiter
BY WeightedCostNat DEF TypeOK, Arrivals, Waiter

\* A pass reserves a pool for nobody or for its head when the budget blocks it.
LEMMA ToReserveFacts ==
  ASSUME TypeOK, NEW p \in Pools
  PROVE  \/ ToReserve(p) = NoWaiter
         \/ \E i \in DOMAIN waiters :
              /\ BlockedHead(p, i)
              /\ ToReserve(p) = waiters[i]
              /\ ToReserve(p) \in Requests
<1>1. CASE \E i \in DOMAIN waiters : BlockedHead(p, i)
  <2> DEFINE k == CHOOSE i \in DOMAIN waiters : BlockedHead(p, i)
  <2>1. k \in DOMAIN waiters /\ BlockedHead(p, k)
    BY <1>1
  <2>2. ToReserve(p) = waiters[k]
    BY <1>1 DEF ToReserve
  <2> HIDE DEF k
  <2> QED BY <2>1, <2>2, WaitersFacts
<1>2. CASE ~ \E i \in DOMAIN waiters : BlockedHead(p, i)
  BY <1>2 DEF ToReserve
<1> QED BY <1>1, <1>2

\* The reasons a pass writes are reasons.
LEMMA MarkTypes ==
  ASSUME TypeOK, NEW r \in Requests, NEW rsv
  PROVE  /\ Latch(r, rsv) \in BOOLEAN
         /\ WaitReason(r, rsv) \in {"reserved", "model_cap", "exclusive", "budget_full"}
         /\ ReasonFor(r, rsv) \in Reasons
         /\ Parked(r, rsv) \in Mark
<1>1. Latch(r, rsv) \in BOOLEAN
  BY DEF Latch
<1>2. WaitReason(r, rsv) \in {"reserved", "model_cap", "exclusive", "budget_full"}
  BY DEF WaitReason
<1>3. mark[r] \in Mark
  BY DEF TypeOK
<1>4. ReasonFor(r, rsv) \in Reasons
  <2>1. mark[r].waitCause \in Causes /\ mark[r].waited \in BOOLEAN
    BY <1>3 DEF Mark
  <2>2. CASE ~mark[r].waited
    BY <2>2 DEF ReasonFor, Reasons, Causes
  <2>3. CASE mark[r].waited /\ Latch(r, rsv)
    BY <2>3 DEF ReasonFor, Reasons, Causes
  <2>4. CASE mark[r].waited /\ ~Latch(r, rsv)
    BY <2>4, <2>1 DEF ReasonFor, Reasons, Causes
  <2> QED BY <2>1, <2>2, <2>3, <2>4
<1>5. rsv[PoolOfReq(r)] # r => WaitReason(r, rsv) \in {"model_cap", "exclusive", "budget_full"}
  BY DEF WaitReason
<1>6. Parked(r, rsv) \in Mark
  BY <1>1, <1>2, <1>3, <1>5 DEF Parked, Mark, Causes, Reasons
<1> QED BY <1>1, <1>2, <1>4, <1>6

-----------------------------------------------------------------------------
\* Each action keeps the types and the shape.
TypeShape == TypeOK /\ Shape

\* A request that is done with leaves no trace, and no other is touched.
LEMMA DropFacts ==
  ASSUME TypeShape, NEW r \in Requests, Drop(r)
  PROVE  /\ status' \in [Requests -> {"idle", "waiting", "running", "rejected"}]
         /\ req' \in [Requests -> Waiter \cup {NoWaiter}]
         /\ mark' \in [Requests -> Mark]
         /\ status'[r] = "idle"
         /\ \A s \in Requests \ {r} : status'[s] = status[s] /\ req'[s] = req[s]
         /\ \A s \in Requests : status'[s] # "idle" => req'[s] \in Waiter
<1>1. Fresh \in Mark
  BY DEF Fresh, Mark, Causes, Reasons
<1> QED BY <1>1 DEF TypeShape, TypeOK, Shape, Drop

\* Taking position i out of the queue leaves the other waiters.
LEMMA RemoveWaiterFacts ==
  ASSUME TypeShape, NEW i \in DOMAIN waiters, waiters' = RemoveAt(waiters, i)
  PROVE  /\ waiters' \in Seq(Requests)
         /\ \A j \in DOMAIN waiters' : waiters'[j] # waiters[i]
         /\ \A j \in DOMAIN waiters' : \E k \in DOMAIN waiters : waiters'[j] = waiters[k]
         /\ \A j, k \in DOMAIN waiters' : waiters'[j] = waiters'[k] => j = k
         /\ \A k \in DOMAIN waiters : k # i => \E j \in DOMAIN waiters' : waiters'[j] = waiters[k]
<1>1. waiters \in Seq(Requests) /\ \A j, k \in DOMAIN waiters : waiters[j] = waiters[k] => j = k
  BY DEF TypeShape, TypeOK, Shape
<1> QED BY <1>1, RemoveItemFacts

\* enqueue: an accepted waiter fits its pool and joins at the end, a refused one
\* is in no position.
LEMMA EnqueueTypeShape ==
  ASSUME TypeShape, NEW r \in Requests, NEW w \in Arrivals, Enqueue(r, w)
  PROVE  TypeShape'
<1> USE DEF TypeShape
<1>1. w \in Waiter /\ PoolOf[w.model] \in Pools
  BY ArrivalIsWaiter, PoolAssumption DEF Waiter
<1>2. req' = [req EXCEPT ![r] = w] /\ status[r] = "idle"
  BY DEF Enqueue
<1>3. req' \in [Requests -> Waiter \cup {NoWaiter}]
  BY <1>1, <1>2 DEF TypeOK
<1>4. CASE /\ CostFitsPool(w.model, w.cost)
           /\ waiters' = Append(waiters, r)
           /\ status' = [status EXCEPT ![r] = "waiting"]
           /\ StartPump("enqueue")
           /\ UNCHANGED mark
  <2>1. /\ waiters' \in Seq(Requests)
        /\ DOMAIN waiters' = 1 .. Len(waiters) + 1
        /\ \A i \in 1 .. Len(waiters) : waiters'[i] = waiters[i]
        /\ waiters'[Len(waiters) + 1] = r
        /\ Len(waiters) \in Nat
        /\ DOMAIN waiters = 1 .. Len(waiters)
    BY <1>4, WaitersFacts DEF TypeOK
  <2>2. TypeOK'
    BY <1>3, <1>4, <2>1 DEF TypeOK, Enqueue, StartPump
  <2>3. \A i \in DOMAIN waiters : waiters[i] # r /\ waiters[i] \in Requests
    BY <1>2, WaitersFacts DEF Shape
  <2>4. \A i \in DOMAIN waiters' : status'[waiters'[i]] = "waiting"
    <3> SUFFICES ASSUME NEW i \in DOMAIN waiters' PROVE status'[waiters'[i]] = "waiting"
      OBVIOUS
    <3>1. CASE i = Len(waiters) + 1
      BY <3>1, <1>4, <2>1 DEF TypeOK
    <3>2. CASE i \in DOMAIN waiters
      BY <3>2, <1>4, <2>1, <2>3 DEF TypeOK, Shape
    <3> QED BY <3>1, <3>2, <2>1
  <2>5. \A i, j \in DOMAIN waiters' : waiters'[i] = waiters'[j] => i = j
    BY <2>1, <2>3 DEF Shape
  <2>6. \A s \in Waiting' : \E i \in DOMAIN waiters' : waiters'[i] = s
    <3> SUFFICES ASSUME NEW s \in Waiting' PROVE \E i \in DOMAIN waiters' : waiters'[i] = s
      OBVIOUS
    <3>1. CASE s = r
      <4>1. Len(waiters) + 1 \in DOMAIN waiters'
        BY <2>1
      <4> QED BY <3>1, <4>1, <2>1
    <3>2. CASE s # r
      <4>1. s \in Waiting
        BY <3>2, <1>4 DEF Waiting, TypeOK
      <4>2. PICK i \in DOMAIN waiters : waiters[i] = s
        BY <4>1 DEF Shape
      <4>3. i \in DOMAIN waiters' /\ waiters'[i] = s
        BY <4>2, <2>1
      <4> QED BY <4>3
    <3> QED BY <3>1, <3>2
  <2>7. \A s \in Requests : status'[s] # "idle" => req'[s] \in Waiter
    BY <1>1, <1>2, <1>4 DEF Shape, TypeOK
  <2>8. \A s \in Waiting' : req'[s].cost <= Budget[PoolOf[req'[s].model]]
    BY <1>1, <1>2, <1>4 DEF Shape, TypeOK, Waiting, CostFitsPool, PoolOfReq
  <2> QED BY <2>2, <2>4, <2>5, <2>6, <2>7, <2>8 DEF Shape, PoolOfReq
<1>5. CASE /\ ~CostFitsPool(w.model, w.cost)
           /\ status' = [status EXCEPT ![r] = "rejected"]
           /\ mark' = [mark EXCEPT ![r].reason = "cost_exceeds_pool_budget"]
           /\ UNCHANGED <<waiters, pumping>>
  <2>1. TypeOK'
    BY <1>3, <1>5, ZenonT(40) DEF TypeOK, Enqueue, Mark, Reasons
  <2>2. \A i \in DOMAIN waiters : waiters[i] # r /\ waiters[i] \in Requests
    BY <1>2, WaitersFacts DEF Shape
  <2>3. Waiting' = Waiting /\ \A s \in Waiting : req'[s] = req[s]
    BY <1>2, <1>5 DEF Waiting, TypeOK
  <2>4. \A s \in Requests : status'[s] # "idle" => req'[s] \in Waiter
    BY <1>1, <1>2, <1>5 DEF Shape, TypeOK
  <2>5. \A i \in DOMAIN waiters' : status'[waiters'[i]] = "waiting"
    BY <1>5, <2>2 DEF Shape, TypeOK
  <2> QED BY <1>5, <2>1, <2>3, <2>4, <2>5 DEF Shape, PoolOfReq
<1> QED BY <1>4, <1>5 DEF Enqueue

\* A refused request is forgotten.
LEMMA ForgetTypeShape ==
  ASSUME TypeShape, NEW r \in Requests, Forget(r)
  PROVE  TypeShape'
<1> USE DEF TypeShape
<1>1. Drop(r) /\ status[r] = "rejected" /\ UNCHANGED <<waiters, used, inFlight, reserved, pumping, ceilings, now>>
  BY DEF Forget
<1>2. TypeOK'
  BY <1>1, DropFacts DEF TypeOK
<1>3. Waiting' = Waiting /\ r \notin Waiting
  BY <1>1, DropFacts DEF Waiting
<1>4. \A i \in DOMAIN waiters : waiters[i] # r /\ waiters[i] \in Requests
  BY <1>1, WaitersFacts DEF Shape
<1>5. \A i \in DOMAIN waiters' : status'[waiters'[i]] = "waiting"
  BY <1>1, <1>4, DropFacts DEF Shape
<1>6. \A s \in Waiting' : req'[s].cost <= Budget[PoolOf[req'[s].model]]
  BY <1>1, <1>3, DropFacts DEF Shape, PoolOfReq, Waiting
<1>7. \A s \in Requests : status'[s] # "idle" => req'[s] \in Waiter
  BY <1>1, DropFacts
<1> QED BY <1>1, <1>2, <1>3, <1>5, <1>6, <1>7 DEF Shape, PoolOfReq

\* withdraw: the request leaves its only position.
LEMMA WithdrawTypeShape ==
  ASSUME TypeShape, NEW i \in DOMAIN waiters, Withdraw(i)
  PROVE  TypeShape'
<1> USE DEF TypeShape
<1> DEFINE r == waiters[i]
<1>1. /\ r \in Requests /\ status[r] = "waiting"
      /\ Drop(r)
      /\ waiters' = RemoveAt(waiters, i)
      /\ UNCHANGED <<used, inFlight, ceilings, now>>
      /\ pumping' = TRUE
  BY WaitersFacts DEF Withdraw, Shape, StartPump
<1>2. reserved' \in [Pools -> Requests \cup {NoWaiter}]
  BY DEF Withdraw, TypeOK
<1> HIDE DEF r
<1>3. /\ waiters' \in Seq(Requests)
      /\ \A j \in DOMAIN waiters' : waiters'[j] # r
      /\ \A j \in DOMAIN waiters' : \E k \in DOMAIN waiters : waiters'[j] = waiters[k]
      /\ \A j, k \in DOMAIN waiters' : waiters'[j] = waiters'[k] => j = k
      /\ \A k \in DOMAIN waiters : k # i => \E j \in DOMAIN waiters' : waiters'[j] = waiters[k]
  BY <1>1, RemoveWaiterFacts DEF r
<1>4. TypeOK'
  BY <1>1, <1>2, <1>3, DropFacts DEF TypeOK
<1>5. Waiting' = Waiting \ {r}
  BY <1>1, DropFacts DEF Waiting
<1>6. \A j \in DOMAIN waiters' : status'[waiters'[j]] = "waiting"
  BY <1>1, <1>3, WaitersFacts, DropFacts DEF Shape
<1>7. \A s \in Waiting' : \E j \in DOMAIN waiters' : waiters'[j] = s
  BY <1>3, <1>5 DEF Shape, r
<1>8. \A s \in Waiting' : req'[s].cost <= Budget[PoolOf[req'[s].model]]
  BY <1>1, <1>5, DropFacts DEF Shape, PoolOfReq, Waiting
<1>9. \A s \in Requests : status'[s] # "idle" => req'[s] \in Waiter
  BY <1>1, DropFacts
<1> QED BY <1>3, <1>4, <1>6, <1>7, <1>8, <1>9 DEF Shape, PoolOfReq

\* release: a run was in no position.
LEMMA ReleaseTypeShape ==
  ASSUME TypeShape, NEW r \in Requests, Release(r)
  PROVE  TypeShape'
<1> USE DEF TypeShape
<1>1. /\ Drop(r) /\ status[r] = "running"
      /\ UNCHANGED <<waiters, reserved, ceilings, now>>
      /\ pumping' = TRUE
      /\ req[r] \in Waiter
  BY DEF Release, Shape, StartPump
<1>2. used' \in [Pools -> Nat] /\ inFlight' \in [Models -> Nat]
  <2>1. req[r].model \in Models /\ req[r].cost \in Nat /\ PoolOf[req[r].model] \in Pools
    BY <1>1, PoolAssumption DEF Waiter
  <2>2. used[PoolOf[req[r].model]] \in Nat /\ inFlight[req[r].model] \in Nat
    BY <2>1 DEF TypeOK
  <2>3. /\ Greater(0, used[PoolOf[req[r].model]] - Refund(r)) \in Nat
        /\ Greater(0, inFlight[req[r].model] - 1) \in Nat
    BY <2>1, <2>2 DEF Greater, Refund
  <2> QED BY <2>3 DEF TypeOK, Release
<1>3. TypeOK'
  BY <1>1, <1>2, DropFacts DEF TypeOK
<1>4. Waiting' = Waiting /\ r \notin Waiting
  BY <1>1, DropFacts DEF Waiting
<1>5. \A i \in DOMAIN waiters : waiters[i] # r /\ waiters[i] \in Requests
  BY <1>1, WaitersFacts DEF Shape
<1>6. \A i \in DOMAIN waiters' : status'[waiters'[i]] = "waiting"
  BY <1>1, <1>5, DropFacts DEF Shape
<1>7. \A s \in Waiting' : req'[s].cost <= Budget[PoolOf[req'[s].model]]
  BY <1>1, <1>4, DropFacts DEF Shape, PoolOfReq, Waiting
<1>8. \A s \in Requests : status'[s] # "idle" => req'[s] \in Waiter
  BY <1>1, DropFacts
<1> QED BY <1>1, <1>3, <1>4, <1>6, <1>7, <1>8 DEF Shape, PoolOfReq

\* An admitting pass: the request leaves its only position and runs.
LEMMA PumpAdmitTypeShape ==
  ASSUME TypeShape, NEW i \in DOMAIN waiters, PumpAdmit(i)
  PROVE  TypeShape'
<1> USE DEF TypeShape
<1> DEFINE r   == waiters[i]
           rsv == [q \in Pools |-> ToReserve(q)]
<1>1. /\ r \in Requests /\ status[r] = "waiting" /\ req[r] \in Waiter
      /\ waiters' = RemoveAt(waiters, i)
      /\ status' = [status EXCEPT ![r] = "running"]
      /\ UNCHANGED <<pumping, req, ceilings, now>>
  BY WaitersFacts DEF PumpAdmit, Shape
<1>2. used' \in [Pools -> Nat] /\ inFlight' \in [Models -> Nat]
  <2>1. req[r].model \in Models /\ req[r].cost \in Nat /\ PoolOf[req[r].model] \in Pools
    BY <1>1, PoolAssumption DEF Waiter
  <2>2. used[PoolOf[req[r].model]] \in Nat /\ inFlight[req[r].model] \in Nat
    BY <2>1 DEF TypeOK
  <2>3. /\ used' = [used EXCEPT ![PoolOf[req[r].model]] = @ + req[r].cost]
        /\ inFlight' = [inFlight EXCEPT ![req[r].model] = @ + 1]
    BY DEF PumpAdmit
  <2> HIDE DEF r, rsv
  <2> QED BY <2>1, <2>2, <2>3 DEF TypeOK
<1>3. reserved' \in [Pools -> Requests \cup {NoWaiter}]
  <2>1. \A q \in Pools : ToReserve(q) \in Requests \cup {NoWaiter}
    BY ToReserveFacts
  <2> QED BY <2>1 DEF PumpAdmit
<1>4. mark' \in [Requests -> Mark]
  <2> HIDE DEF rsv, r
  <2>1. \A s \in Requests : /\ Latch(s, rsv) \in BOOLEAN
                             /\ ReasonFor(s, rsv) \in Reasons
                             /\ mark[s] \in Mark
    BY MarkTypes DEF TypeOK
  <2>2. mark' = [s \in Requests |->
                  IF s = r THEN [mark[r] EXCEPT !.wasReserved = Latch(r, rsv), !.reason = ReasonFor(r, rsv)]
                  ELSE IF status[s] = "waiting" THEN [mark[s] EXCEPT !.wasReserved = Latch(s, rsv)]
                  ELSE mark[s]]
    BY DEF PumpAdmit, r, rsv
  <2> QED BY <2>1, <2>2, <1>1 DEF Mark
<1> HIDE DEF r, rsv
<1>5. /\ waiters' \in Seq(Requests)
      /\ \A j \in DOMAIN waiters' : waiters'[j] # r
      /\ \A j \in DOMAIN waiters' : \E k \in DOMAIN waiters : waiters'[j] = waiters[k]
      /\ \A j, k \in DOMAIN waiters' : waiters'[j] = waiters'[k] => j = k
      /\ \A k \in DOMAIN waiters : k # i => \E j \in DOMAIN waiters' : waiters'[j] = waiters[k]
  BY <1>1, RemoveWaiterFacts DEF r
<1>6. TypeOK'
  BY <1>1, <1>2, <1>3, <1>4, <1>5 DEF TypeOK
<1>7. Waiting' = Waiting \ {r}
  BY <1>1 DEF Waiting, TypeOK
<1>8. \A j \in DOMAIN waiters' : status'[waiters'[j]] = "waiting"
  BY <1>1, <1>5, WaitersFacts DEF Shape, TypeOK
<1>9. \A s \in Waiting' : \E j \in DOMAIN waiters' : waiters'[j] = s
  BY <1>5, <1>7 DEF Shape, r
<1>10. \A s \in Waiting' : req'[s].cost <= Budget[PoolOf[req'[s].model]]
  BY <1>1, <1>7 DEF Shape, PoolOfReq, Waiting
<1>11. \A s \in Requests : status'[s] # "idle" => req'[s] \in Waiter
  BY <1>1 DEF Shape, TypeOK
<1> QED BY <1>5, <1>6, <1>8, <1>9, <1>10, <1>11 DEF Shape, PoolOfReq

\* The actions that leave the queue, the requests and their fields alone.
LEMMA QuietTypeShape ==
  ASSUME TypeShape, UNCHANGED <<waiters, status, req>>, TypeOK'
  PROVE  TypeShape'
BY DEF TypeShape, Shape, Waiting, PoolOfReq

\* The last pass writes reasons and reservations only.
LEMMA PumpParkTypeShape ==
  ASSUME TypeShape, PumpPark
  PROVE  TypeShape'
<1> DEFINE rsv == [q \in Pools |-> ToReserve(q)]
<1>1. reserved' \in [Pools -> Requests \cup {NoWaiter}]
  <2>1. \A q \in Pools : ToReserve(q) \in Requests \cup {NoWaiter}
    BY ToReserveFacts DEF TypeShape
  <2> QED BY <2>1 DEF PumpPark
<1>2. mark' \in [Requests -> Mark]
  <2> HIDE DEF rsv
  <2>1. \A s \in Requests : Parked(s, rsv) \in Mark /\ mark[s] \in Mark
    BY MarkTypes DEF TypeOK, TypeShape
  <2>2. mark' = [s \in Requests |-> IF status[s] = "waiting" THEN Parked(s, rsv) ELSE mark[s]]
    BY DEF PumpPark, rsv
  <2> QED BY <2>1, <2>2
<1>3. TypeOK'
  BY <1>1, <1>2 DEF TypeShape, TypeOK, PumpPark
<1> QED BY <1>3, QuietTypeShape DEF PumpPark

\* Types and shape are inductive.
LEMMA TypeShapeStep == TypeShape /\ [Next]_vars => TypeShape'
<1> SUFFICES ASSUME TypeShape, [Next]_vars PROVE TypeShape'
  OBVIOUS
<1>1. CASE \E r \in Requests : \E w \in Arrivals : Enqueue(r, w)
  BY <1>1, EnqueueTypeShape
<1>2. CASE \E r \in Requests : Forget(r)
  BY <1>2, ForgetTypeShape
<1>3. CASE \E r \in Requests : Release(r)
  BY <1>3, ReleaseTypeShape
<1>4. CASE \E i \in DOMAIN waiters : Withdraw(i)
  BY <1>4, WithdrawTypeShape
<1>5. CASE \E i \in DOMAIN waiters : PumpAdmit(i)
  BY <1>5, PumpAdmitTypeShape
<1>6. CASE PumpPark
  BY <1>6, PumpParkTypeShape
<1>7. CASE PumpEmpty
  <2>1. TypeOK'
    BY <1>7 DEF PumpEmpty, TypeShape, TypeOK
  <2> QED BY <1>7, <2>1, QuietTypeShape DEF PumpEmpty
<1>8. CASE \E c \in [Keys -> Ceilings \cup {NoCeiling}] : RefreshCeilings(c)
  <2>1. TypeOK'
    BY <1>8 DEF RefreshCeilings, TypeShape, TypeOK
  <2> QED BY <1>8, <2>1, QuietTypeShape DEF RefreshCeilings
<1>9. CASE Tick
  <2>1. TypeOK'
    BY <1>9, PriorityAssumption DEF Tick, TypeShape, TypeOK
  <2> QED BY <1>9, <2>1, QuietTypeShape DEF Tick
<1>10. CASE UNCHANGED vars
  <2>1. TypeOK'
    BY <1>10 DEF vars, TypeShape, TypeOK
  <2> QED BY <1>10, <2>1, QuietTypeShape DEF vars
<1> QED BY <1>1, <1>2, <1>3, <1>4, <1>5, <1>6, <1>7, <1>8, <1>9, <1>10 DEF Next, Pump

\* Types and shape hold at the start.
LEMMA TypeShapeInit == Init => TypeShape
<1> SUFFICES ASSUME Init PROVE TypeShape
  OBVIOUS
<1>1. DOMAIN waiters = {} /\ waiters \in Seq(Requests)
  BY EmptySeq DEF Init
<1>2. TypeOK
  <2>1. Fresh \in Mark
    BY DEF Fresh, Mark, Causes, Reasons
  <2>2. now \in 0 .. MaxTime
    BY PriorityAssumption DEF Init
  <2> QED BY <1>1, <2>1, <2>2 DEF Init, TypeOK
<1>3. Waiting = {}
  BY DEF Init, Waiting
<1> QED BY <1>1, <1>2, <1>3 DEF TypeShape, Shape, Init

\* Type correctness: whatever the order of handlers and passes, the state of
\* the scheduler has its type and its queue the shape above.
THEOREM TypeCorrect == Spec => []TypeOK
<1>1. Spec => []TypeShape
  BY TypeShapeInit, TypeShapeStep, PTL DEF Spec
<1>2. TypeShape => TypeOK
  BY DEF TypeShape
<1> QED BY <1>1, <1>2, PTL

-----------------------------------------------------------------------------
(***************************************************************************)
(* The ledger.  A run holds one token for each unit it was charged; the    *)
(* counters of the scheduler are the numbers of tokens and of runs.        *)
(***************************************************************************)
RunsIn(p) == {r \in Running : PoolOfReq(r) = p}
RunsOf(m) == {r \in Running : req[r].model = m}
Tokens(r) == {r} \X (1 .. req[r].cost)
Held(p)   == UNION {Tokens(r) : r \in RunsIn(p)}

Ledger ==
  /\ \A p \in Pools  : IsFiniteSet(Held(p)) /\ used[p] = Cardinality(Held(p))
  /\ \A m \in Models : IsFiniteSet(RunsOf(m)) /\ inFlight[m] = Cardinality(RunsOf(m))

\* The holders that PoolAdmission counts are these.
LEMMA CallersFacts ==
  /\ \A p : Callers!RunningIn(p) = RunsIn(p)
  /\ \A m : Callers!RunningOf(m) = RunsOf(m)
  /\ \A p : Callers!UnitsHeld(p) = Held(p)
<1>1. \A p : Callers!RunningIn(p) = RunsIn(p)
  BY DEF Callers!RunningIn, RunsIn, Running, PoolOfReq
<1>2. \A m : Callers!RunningOf(m) = RunsOf(m)
  BY DEF Callers!RunningOf, RunsOf, Running
<1>3. \A p : Callers!UnitsHeld(p) = Held(p)
  BY <1>1 DEF Callers!UnitsHeld, Held, Tokens, RunsIn, Running
<1> QED BY <1>1, <1>2, <1>3

\* As many tokens as units.
LEMMA IntervalTokens ==
  ASSUME NEW r, NEW c \in Nat
  PROVE  IsFiniteSet({r} \X (1 .. c)) /\ Cardinality({r} \X (1 .. c)) = c
<1>1. IsFiniteSet({r}) /\ Cardinality({r}) = 1
  BY FS_Singleton
<1>2. IsFiniteSet(1 .. c) /\ Cardinality(1 .. c) = c
  BY FS_Interval
<1>3. /\ IsFiniteSet({r} \X (1 .. c))
      /\ Cardinality({r} \X (1 .. c)) = Cardinality({r}) * Cardinality(1 .. c)
  BY <1>1, <1>2, FS_Product
<1> QED BY <1>1, <1>2, <1>3

\* A waiting request starts to run: its pool gains its tokens, its model a run.
LEMMA RunStarts ==
  ASSUME TypeShape, Ledger, NEW r \in Waiting,
         status' = [status EXCEPT ![r] = "running"], req' = req
  PROVE  /\ \A q \in Pools :
              /\ IsFiniteSet(Held(q)')
              /\ Cardinality(Held(q)') =
                   Cardinality(Held(q)) + IF q = PoolOfReq(r) THEN req[r].cost ELSE 0
         /\ \A m \in Models :
              /\ IsFiniteSet(RunsOf(m)')
              /\ Cardinality(RunsOf(m)') =
                   Cardinality(RunsOf(m)) + IF m = req[r].model THEN 1 ELSE 0
<1>1. /\ r \in Requests /\ status[r] = "waiting"
      /\ req[r].cost \in Nat /\ req[r].model \in Models
      /\ Running' = Running \cup {r} /\ r \notin Running
  BY DEF TypeShape, TypeOK, Shape, Waiting, Running, Waiter
<1>2. ASSUME NEW q \in Pools
      PROVE  /\ IsFiniteSet(Held(q)')
             /\ Cardinality(Held(q)') =
                  Cardinality(Held(q)) + IF q = PoolOfReq(r) THEN req[r].cost ELSE 0
  <2>0. IsFiniteSet(Held(q)) /\ Cardinality(Held(q)) \in Nat
    BY FS_CardinalityType DEF Ledger
  <2>1. CASE q = PoolOfReq(r)
    <3>1. RunsIn(q)' = RunsIn(q) \cup {r} /\ r \notin RunsIn(q)
      BY <1>1, <2>1 DEF RunsIn, PoolOfReq
    <3>2. Held(q)' = Held(q) \cup Tokens(r)
      BY <3>1 DEF Held, Tokens
    <3>3. Held(q) \cap Tokens(r) = {}
      BY <3>1 DEF Held, Tokens
    <3>4. IsFiniteSet(Tokens(r)) /\ Cardinality(Tokens(r)) = req[r].cost
      BY <1>1, IntervalTokens DEF Tokens
    <3>5. /\ IsFiniteSet(Held(q) \cup Tokens(r))
          /\ Cardinality(Held(q) \cup Tokens(r)) =
               Cardinality(Held(q)) + Cardinality(Tokens(r)) - Cardinality(Held(q) \cap Tokens(r))
      BY <2>0, <3>4, FS_Union
    <3>6. Cardinality(Held(q) \cap Tokens(r)) = 0
      BY <3>3, FS_EmptySet
    <3> QED BY <1>1, <2>0, <2>1, <3>2, <3>4, <3>5, <3>6
  <2>2. CASE q # PoolOfReq(r)
    <3>1. RunsIn(q)' = RunsIn(q)
      BY <1>1, <2>2 DEF RunsIn, PoolOfReq
    <3>2. Held(q)' = Held(q)
      BY <3>1 DEF Held, Tokens
    <3> QED BY <2>0, <2>2, <3>2
  <2> QED BY <2>1, <2>2
<1>3. ASSUME NEW m \in Models
      PROVE  /\ IsFiniteSet(RunsOf(m)')
             /\ Cardinality(RunsOf(m)') =
                  Cardinality(RunsOf(m)) + IF m = req[r].model THEN 1 ELSE 0
  <2>0. IsFiniteSet(RunsOf(m)) /\ Cardinality(RunsOf(m)) \in Nat
    BY FS_CardinalityType DEF Ledger
  <2>1. CASE m = req[r].model
    <3>1. RunsOf(m)' = RunsOf(m) \cup {r} /\ r \notin RunsOf(m)
      BY <1>1, <2>1 DEF RunsOf
    <3> QED BY <2>0, <2>1, <3>1, FS_AddElement, SMTT(30)
  <2>2. CASE m # req[r].model
    <3>1. RunsOf(m)' = RunsOf(m)
      BY <1>1, <2>2 DEF RunsOf
    <3> QED BY <2>0, <2>2, <3>1
  <2> QED BY <2>1, <2>2
<1> QED BY <1>2, <1>3

\* A running request ends: its pool loses its tokens, its model a run.
LEMMA RunEnds ==
  ASSUME TypeShape, Ledger, NEW r \in Running,
         Running' = Running \ {r}, \A s \in Running \ {r} : req'[s] = req[s]
  PROVE  /\ \A q \in Pools :
              /\ IsFiniteSet(Held(q)')
              /\ Cardinality(Held(q)') =
                   Cardinality(Held(q)) - IF q = PoolOfReq(r) THEN req[r].cost ELSE 0
         /\ \A m \in Models :
              /\ IsFiniteSet(RunsOf(m)')
              /\ Cardinality(RunsOf(m)') =
                   Cardinality(RunsOf(m)) - IF m = req[r].model THEN 1 ELSE 0
<1>1. req[r].cost \in Nat /\ req[r].model \in Models
  BY DEF TypeShape, Shape, Running, Waiter
<1>2. ASSUME NEW q \in Pools
      PROVE  /\ IsFiniteSet(Held(q)')
             /\ Cardinality(Held(q)') =
                  Cardinality(Held(q)) - IF q = PoolOfReq(r) THEN req[r].cost ELSE 0
  <2>0. IsFiniteSet(Held(q)) /\ Cardinality(Held(q)) \in Nat
    BY FS_CardinalityType DEF Ledger
  <2>1. CASE q = PoolOfReq(r)
    <3>1. RunsIn(q)' = RunsIn(q) \ {r} /\ r \in RunsIn(q)
      BY <2>1 DEF RunsIn, PoolOfReq
    <3>2. \A s \in RunsIn(q)' : s \in RunsIn(q) /\ s # r /\ Tokens(s)' = Tokens(s)
      BY <3>1 DEF Tokens, RunsIn
    <3>3. Held(q)' = Held(q) \ Tokens(r)
      BY <3>1, <3>2 DEF Held, Tokens
    <3>4. Held(q) \cap Tokens(r) = Tokens(r)
      BY <3>1 DEF Held
    <3>5. Cardinality(Tokens(r)) = req[r].cost
      BY <1>1, IntervalTokens DEF Tokens
    <3>6. /\ IsFiniteSet(Held(q) \ Tokens(r))
          /\ Cardinality(Held(q) \ Tokens(r)) =
               Cardinality(Held(q)) - Cardinality(Held(q) \cap Tokens(r))
      BY <2>0, FS_Difference
    <3> QED BY <1>1, <2>0, <2>1, <3>3, <3>4, <3>5, <3>6
  <2>2. CASE q # PoolOfReq(r)
    <3>1. RunsIn(q)' = RunsIn(q)
      BY <2>2 DEF RunsIn, PoolOfReq
    <3>2. \A s \in RunsIn(q) : Tokens(s)' = Tokens(s)
      BY <2>2 DEF Tokens, RunsIn
    <3>3. Held(q)' = Held(q)
      BY <3>1, <3>2 DEF Held
    <3> QED BY <2>0, <2>2, <3>3
  <2> QED BY <2>1, <2>2
<1>3. ASSUME NEW m \in Models
      PROVE  /\ IsFiniteSet(RunsOf(m)')
             /\ Cardinality(RunsOf(m)') =
                  Cardinality(RunsOf(m)) - IF m = req[r].model THEN 1 ELSE 0
  <2>0. IsFiniteSet(RunsOf(m)) /\ Cardinality(RunsOf(m)) \in Nat
    BY FS_CardinalityType DEF Ledger
  <2>1. CASE m = req[r].model
    <3>1. RunsOf(m)' = RunsOf(m) \ {r} /\ r \in RunsOf(m)
      BY <2>1 DEF RunsOf
    <3> QED BY <2>0, <2>1, <3>1, FS_RemoveElement
  <2>2. CASE m # req[r].model
    <3>1. RunsOf(m)' = RunsOf(m)
      BY <2>2 DEF RunsOf
    <3> QED BY <2>0, <2>2, <3>1
  <2> QED BY <2>1, <2>2
<1> QED BY <1>2, <1>3

\* Steps that neither start nor end a run leave the ledger alone.
LEMMA LedgerQuiet ==
  ASSUME Ledger, UNCHANGED <<used, inFlight>>, Running' = Running,
         \A s \in Running : req'[s] = req[s]
  PROVE  Ledger'
<1>1. \A q : RunsIn(q)' = RunsIn(q)
  BY DEF RunsIn, PoolOfReq
<1>2. \A m : RunsOf(m)' = RunsOf(m)
  BY DEF RunsOf
<1>3. \A q : Held(q)' = Held(q)
  <2> SUFFICES ASSUME NEW q PROVE Held(q)' = Held(q)
    OBVIOUS
  <2>1. \A s \in RunsIn(q) : Tokens(s)' = Tokens(s)
    BY DEF Tokens, RunsIn
  <2> QED BY <1>1, <2>1 DEF Held
<1> QED BY <1>2, <1>3 DEF Ledger

\* The ledger is kept by every action.
LEMMA LedgerStep == TypeShape /\ Ledger /\ [Next]_vars => Ledger'
<1> SUFFICES ASSUME TypeShape, Ledger, [Next]_vars PROVE Ledger'
  OBVIOUS
<1> USE DEF TypeShape
<1>1. ASSUME NEW r \in Requests, NEW w \in Arrivals, Enqueue(r, w) PROVE Ledger'
  <2>1. Running' = Running /\ r \notin Running
    BY <1>1 DEF Enqueue, Running, TypeOK
  <2>2. \A s \in Running : req'[s] = req[s]
    BY <1>1, <2>1 DEF Enqueue, TypeOK, Running
  <2> QED BY <1>1, <2>1, <2>2, LedgerQuiet DEF Enqueue
<1>2. ASSUME NEW r \in Requests, Forget(r) PROVE Ledger'
  <2>1. Running' = Running /\ r \notin Running
    BY <1>2 DEF Forget, Drop, Running, TypeOK
  <2>2. \A s \in Running : req'[s] = req[s]
    BY <1>2, <2>1 DEF Forget, Drop, TypeOK, Running
  <2> QED BY <1>2, <2>1, <2>2, LedgerQuiet DEF Forget
<1>3. ASSUME NEW r \in Requests, Release(r) PROVE Ledger'
  <2> DEFINE m == req[r].model
             p == PoolOfReq(r)
  <2>1. r \in Running /\ req[r] \in Waiter /\ m \in Models /\ p \in Pools
    BY <1>3, PoolAssumption DEF Release, Running, Shape, Waiter, PoolOfReq
  <2>2. Running' = Running \ {r} /\ \A s \in Running \ {r} : req'[s] = req[s]
    BY <1>3 DEF Release, Drop, Running, TypeOK
  <2>3. /\ \A q \in Pools : /\ IsFiniteSet(Held(q)')
                            /\ Cardinality(Held(q)') =
                                 Cardinality(Held(q)) - IF q = p THEN req[r].cost ELSE 0
        /\ \A n \in Models : /\ IsFiniteSet(RunsOf(n)')
                             /\ Cardinality(RunsOf(n)') =
                                  Cardinality(RunsOf(n)) - IF n = m THEN 1 ELSE 0
    BY <2>1, <2>2, RunEnds
  <2>4. /\ used' = [used EXCEPT ![p] = Greater(0, used[p] - req[r].cost)]
        /\ inFlight' = [inFlight EXCEPT ![m] = Greater(0, inFlight[m] - 1)]
    BY <1>3 DEF Release, Refund, PoolOfReq
  <2>5. req[r].cost \in Nat
    BY <2>1 DEF Waiter
  <2> HIDE DEF m, p
  <2>6. \A q \in Pools : used'[q] = Cardinality(Held(q)')
    <3> SUFFICES ASSUME NEW q \in Pools PROVE used'[q] = Cardinality(Held(q)')
      OBVIOUS
    <3>1. used[q] \in Nat /\ used[q] = Cardinality(Held(q))
      BY DEF TypeOK, Ledger
    <3>2. IsFiniteSet(Held(q)')
      BY <2>3
    <3>3. Cardinality(Held(q)') \in Nat
      BY <3>2, FS_CardinalityType
    <3>4. CASE q = p
      <4>1. Cardinality(Held(q)') = used[q] - req[r].cost
        BY <2>3, <3>1, <3>4
      <4>2. Greater(0, used[q] - req[r].cost) = used[q] - req[r].cost
        BY <2>5, <3>1, <3>3, <4>1 DEF Greater
      <4>3. used'[q] = Greater(0, used[q] - req[r].cost)
        BY <2>4, <3>4 DEF TypeOK
      <4> QED BY <4>1, <4>2, <4>3
    <3>5. CASE q # p
      <4>1. Cardinality(Held(q)') = used[q] - 0
        BY <2>3, <3>1, <3>5
      <4>2. used'[q] = used[q]
        BY <2>4, <3>5 DEF TypeOK
      <4> QED BY <3>1, <4>1, <4>2
    <3> QED BY <3>4, <3>5
  <2>7. \A n \in Models : inFlight'[n] = Cardinality(RunsOf(n)')
    <3> SUFFICES ASSUME NEW n \in Models PROVE inFlight'[n] = Cardinality(RunsOf(n)')
      OBVIOUS
    <3>1. inFlight[n] \in Nat /\ inFlight[n] = Cardinality(RunsOf(n))
      BY DEF TypeOK, Ledger
    <3>2. IsFiniteSet(RunsOf(n)')
      BY <2>3
    <3>3. Cardinality(RunsOf(n)') \in Nat
      BY <3>2, FS_CardinalityType
    <3>4. CASE n = m
      <4>1. Cardinality(RunsOf(n)') = inFlight[n] - 1
        BY <2>3, <3>1, <3>4
      <4>2. Greater(0, inFlight[n] - 1) = inFlight[n] - 1
        BY <3>1, <3>3, <4>1 DEF Greater
      <4>3. inFlight'[n] = Greater(0, inFlight[n] - 1)
        BY <2>4, <3>4 DEF TypeOK
      <4> QED BY <4>1, <4>2, <4>3
    <3>5. CASE n # m
      <4>1. Cardinality(RunsOf(n)') = inFlight[n] - 0
        BY <2>3, <3>1, <3>5
      <4>2. inFlight'[n] = inFlight[n]
        BY <2>4, <3>5 DEF TypeOK
      <4> QED BY <3>1, <4>1, <4>2
    <3> QED BY <3>4, <3>5
  <2> QED BY <2>3, <2>6, <2>7 DEF Ledger
<1>4. ASSUME NEW i \in DOMAIN waiters, Withdraw(i) PROVE Ledger'
  <2>1. waiters[i] \in Requests /\ status[waiters[i]] = "waiting"
    BY WaitersFacts DEF Shape
  <2>2. Running' = Running /\ waiters[i] \notin Running
    BY <1>4, <2>1 DEF Withdraw, Drop, Running, TypeOK
  <2>3. \A s \in Running : req'[s] = req[s]
    BY <1>4, <2>2 DEF Withdraw, Drop, TypeOK, Running
  <2> QED BY <1>4, <2>2, <2>3, LedgerQuiet DEF Withdraw
<1>5. ASSUME NEW i \in DOMAIN waiters, PumpAdmit(i) PROVE Ledger'
  <2> DEFINE r == waiters[i]
             m == req[r].model
             p == PoolOfReq(r)
  <2>1. r \in Waiting /\ req[r] \in Waiter /\ m \in Models /\ p \in Pools
    BY WaitersFacts, PoolAssumption DEF Shape, Waiting, Waiter, PoolOfReq
  <2>2. /\ status' = [status EXCEPT ![r] = "running"]
        /\ req' = req
        /\ used' = [used EXCEPT ![p] = used[p] + req[r].cost]
        /\ inFlight' = [inFlight EXCEPT ![m] = inFlight[m] + 1]
    BY <1>5 DEF PumpAdmit, PoolOfReq
  <2> HIDE DEF r
  <2>3. /\ \A q \in Pools : /\ IsFiniteSet(Held(q)')
                            /\ Cardinality(Held(q)') =
                                 Cardinality(Held(q)) + IF q = p THEN req[r].cost ELSE 0
        /\ \A n \in Models : /\ IsFiniteSet(RunsOf(n)')
                             /\ Cardinality(RunsOf(n)') =
                                  Cardinality(RunsOf(n)) + IF n = m THEN 1 ELSE 0
    BY <2>1, <2>2, RunStarts
  <2> HIDE DEF m, p
  <2>4. \A q \in Pools : used'[q] = Cardinality(Held(q)')
    <3> SUFFICES ASSUME NEW q \in Pools PROVE used'[q] = Cardinality(Held(q)')
      OBVIOUS
    <3>1. used[q] \in Nat /\ used[q] = Cardinality(Held(q))
      BY DEF TypeOK, Ledger
    <3>2. CASE q = p
      BY <3>1, <3>2, <2>2, <2>3 DEF TypeOK
    <3>3. CASE q # p
      BY <3>1, <3>3, <2>2, <2>3 DEF TypeOK
    <3> QED BY <3>2, <3>3
  <2>5. \A n \in Models : inFlight'[n] = Cardinality(RunsOf(n)')
    <3> SUFFICES ASSUME NEW n \in Models PROVE inFlight'[n] = Cardinality(RunsOf(n)')
      OBVIOUS
    <3>1. inFlight[n] \in Nat /\ inFlight[n] = Cardinality(RunsOf(n))
      BY DEF TypeOK, Ledger
    <3>2. CASE n = m
      BY <3>1, <3>2, <2>2, <2>3 DEF TypeOK
    <3>3. CASE n # m
      BY <3>1, <3>3, <2>2, <2>3 DEF TypeOK
    <3> QED BY <3>2, <3>3
  <2> QED BY <2>3, <2>4, <2>5 DEF Ledger
<1>6. CASE PumpPark
  BY <1>6, LedgerQuiet DEF PumpPark, Running
<1>7. CASE PumpEmpty
  BY <1>7, LedgerQuiet DEF PumpEmpty, Running
<1>8. CASE \E c \in [Keys -> Ceilings \cup {NoCeiling}] : RefreshCeilings(c)
  BY <1>8, LedgerQuiet DEF RefreshCeilings, Running
<1>9. CASE Tick
  BY <1>9, LedgerQuiet DEF Tick, Running
<1>10. CASE UNCHANGED vars
  BY <1>10, LedgerQuiet DEF vars, Running
<1> QED BY <1>1, <1>2, <1>3, <1>4, <1>5, <1>6, <1>7, <1>8, <1>9, <1>10 DEF Next, Pump

\* The ledger starts empty.
LEMMA LedgerInit == Init => Ledger
<1> SUFFICES ASSUME Init PROVE Ledger
  OBVIOUS
<1>1. Running = {}
  BY DEF Init, Running
<1>2. \A p : Held(p) = {}
  BY <1>1 DEF Held, RunsIn
<1>3. \A m : RunsOf(m) = {}
  BY <1>1 DEF RunsOf
<1>4. IsFiniteSet({}) /\ Cardinality({}) = 0
  BY FS_EmptySet
<1> QED BY <1>2, <1>3, <1>4 DEF Init, Ledger

\* The committed budget of every pool is the sum of the costs charged to the
\* requests that run in it, and in_flight counts the runs of a model exactly.
THEOREM LedgerCorrect == Spec => []LedgerExact
<1>1. Spec => [](TypeShape /\ Ledger)
  BY TypeShapeInit, TypeShapeStep, LedgerInit, LedgerStep, PTL DEF Spec
<1>2. Ledger => LedgerExact
  BY CallersFacts DEF Ledger, LedgerExact
<1> QED BY <1>1, <1>2, PTL

-----------------------------------------------------------------------------
(***************************************************************************)
(* Capacity.  The counters stay within the caps and the budgets and the    *)
(* runs of an exclusive pool are of one model; with the ledger, so do the  *)
(* runs themselves.                                                        *)
(***************************************************************************)
Capacity ==
  /\ \A p \in Pools : used[p] <= Budget[p]
  /\ \A m \in Models : Cap[m] # 0 => inFlight[m] <= Cap[m]
  /\ \A r, s \in Running :
       PoolOfReq(r) = PoolOfReq(s) /\ PoolOfReq(r) \in Exclusive => req[r].model = req[s].model

\* A reservation only ever lowers what the other waiters of a pool may take.
LEMMA FitsBudget ==
  ASSUME TypeShape, NEW r \in Waiting, Fits(r, ToReserve(PoolOfReq(r)))
  PROVE  /\ used[PoolOfReq(r)] + req[r].cost <= Budget[PoolOfReq(r)]
         /\ req[r].cost \in Nat /\ req[r].model \in Models /\ PoolOfReq(r) \in Pools
<1> DEFINE p == PoolOfReq(r)
           h == ToReserve(p)
<1>1. req[r].cost \in Nat /\ req[r].model \in Models /\ p \in Pools
  BY PoolAssumption DEF TypeShape, Shape, Waiting, Waiter, PoolOfReq
<1>2. used[p] \in Nat /\ Budget[p] \in Nat
  BY <1>1, PoolAssumption DEF TypeShape, TypeOK
<1>3. used[p] + req[r].cost <= Reservable(p, h)
  BY DEF Fits
<1>4. CASE h = NoWaiter
  BY <1>1, <1>3, <1>4 DEF Reservable
<1>5. CASE h # NoWaiter
  <2>1. h \in Waiting
    BY <1>1, <1>5, ToReserveFacts DEF TypeShape, Shape, Waiting
  <2>2. req[h].cost \in Nat
    BY <2>1 DEF TypeShape, Shape, Waiting, Waiter
  <2>3. Reservable(p, h) = Budget[p] - req[h].cost
    BY <1>5 DEF Reservable
  <2> HIDE DEF p, h
  <2> QED BY <1>1, <1>2, <1>3, <2>2, <2>3 DEF p
<1> QED BY <1>1, <1>4, <1>5

\* A model with a run is an active member of its pool, and only such a model.
LEMMA ActiveIsRunning ==
  ASSUME TypeShape, Ledger, NEW m \in Models
  PROVE  inFlight[m] > 0 <=> \E s \in Running : req[s].model = m
<1>1. IsFiniteSet(RunsOf(m)) /\ inFlight[m] = Cardinality(RunsOf(m)) /\ inFlight[m] \in Nat
  BY DEF Ledger, TypeShape, TypeOK
<1>2. Cardinality(RunsOf(m)) = 0 <=> RunsOf(m) = {}
  BY <1>1, FS_EmptySet
<1>3. RunsOf(m) # {} <=> \E s \in Running : req[s].model = m
  BY DEF RunsOf
<1> QED BY <1>1, <1>2, <1>3

\* An admitted request had a free slot of its cap, room in the budget, and found
\* its exclusive pool empty or its own model resident.
LEMMA CapacityAdmit ==
  ASSUME TypeShape, Ledger, Capacity, NEW i \in DOMAIN waiters, PumpAdmit(i)
  PROVE  Capacity'
<1> DEFINE r == waiters[i]
           m == req[r].model
           p == PoolOfReq(r)
<1>1. r \in Waiting
  BY WaitersFacts DEF TypeShape, Shape, Waiting
<1>2. m \in Models /\ p \in Pools /\ p = PoolOf[m]
  BY <1>1, PoolAssumption DEF TypeShape, Shape, Waiting, Waiter, PoolOfReq
<1>3. /\ Fits(r, ToReserve(p))
      /\ status' = [status EXCEPT ![r] = "running"]
      /\ req' = req
      /\ used' = [used EXCEPT ![p] = used[p] + req[r].cost]
      /\ inFlight' = [inFlight EXCEPT ![m] = inFlight[m] + 1]
  BY <1>2 DEF PumpAdmit, PoolOfReq
<1>4. Running' = Running \cup {r}
  BY <1>1, <1>3 DEF Running, Waiting, TypeShape, TypeOK
<1>5. \A q \in Pools : used'[q] <= Budget[q]
  <2>1. used[p] + req[r].cost <= Budget[p]
    BY <1>1, <1>3, FitsBudget
  <2> QED BY <1>2, <1>3, <2>1 DEF Capacity, TypeShape, TypeOK
<1>6. \A n \in Models : Cap[n] # 0 => inFlight'[n] <= Cap[n]
  <2>1. Cap[m] # 0 => inFlight[m] < Cap[m]
    <3>1. inFlight[m] \in Nat /\ Cap[m] \in Nat
      BY <1>2, PoolAssumption DEF TypeShape, TypeOK
    <3>2. ~CapFull(r)
      BY <1>3 DEF Fits
    <3> QED BY <3>1, <3>2 DEF CapFull
  <2>2. \A n \in Models : inFlight'[n] = IF n = m THEN inFlight[n] + 1 ELSE inFlight[n]
    BY <1>2, <1>3 DEF TypeShape, TypeOK
  <2>3. \A n \in Models : inFlight[n] \in Nat /\ Cap[n] \in Nat
    BY PoolAssumption DEF TypeShape, TypeOK
  <2> HIDE DEF m
  <2> QED BY <2>1, <2>2, <2>3 DEF Capacity
<1>7. ASSUME p \in Exclusive, NEW s \in Running, PoolOfReq(s) = p
      PROVE  req[s].model = m
  <2>1. req[s].model \in Models /\ PoolOf[req[s].model] = p
    BY <1>7 DEF TypeShape, Shape, Running, Waiter, PoolOfReq
  <2>2. inFlight[req[s].model] > 0
    BY <1>7, <2>1, ActiveIsRunning
  <2>3. m \in ActiveMembers(p)
    BY <1>3, <1>7, <2>1, <2>2 DEF Fits, ExclusionBlocks, ActiveMembers
  <2>4. PICK t \in Running : req[t].model = m
    BY <1>2, <2>3, ActiveIsRunning DEF ActiveMembers
  <2> QED BY <1>2, <1>7, <2>4 DEF Capacity, PoolOfReq
<1>8. \A s, t \in Running' :
        PoolOf[req[s].model] = PoolOf[req[t].model] /\ PoolOf[req[s].model] \in Exclusive
          => req[s].model = req[t].model
  <2> SUFFICES ASSUME NEW s \in Running', NEW t \in Running',
                      PoolOf[req[s].model] = PoolOf[req[t].model],
                      PoolOf[req[s].model] \in Exclusive
               PROVE  req[s].model = req[t].model
    OBVIOUS
  <2>1. CASE s \in Running /\ t \in Running
    BY <2>1 DEF Capacity, PoolOfReq
  <2>2. CASE s = r /\ t \in Running
    BY <1>2, <1>7, <2>2 DEF PoolOfReq
  <2>3. CASE s \in Running /\ t = r
    BY <1>2, <1>7, <2>3 DEF PoolOfReq
  <2> QED BY <1>4, <2>1, <2>2, <2>3
<1> HIDE DEF r, m, p
<1> QED BY <1>3, <1>5, <1>6, <1>8 DEF Capacity, PoolOfReq

\* Steps that admit nobody keep within capacity.
LEMMA CapacityQuiet ==
  ASSUME Capacity, UNCHANGED <<used, inFlight>>, Running' = Running,
         \A s \in Running : req'[s] = req[s]
  PROVE  Capacity'
BY DEF Capacity, PoolOfReq

\* A release only frees capacity.
LEMMA CapacityRelease ==
  ASSUME TypeShape, Capacity, NEW r \in Requests, Release(r)
  PROVE  Capacity'
<1> DEFINE m == req[r].model
           p == PoolOfReq(r)
<1>1. /\ m \in Models /\ p \in Pools /\ req[r].cost \in Nat
      /\ used' = [used EXCEPT ![p] = Greater(0, used[p] - req[r].cost)]
      /\ inFlight' = [inFlight EXCEPT ![m] = Greater(0, inFlight[m] - 1)]
  BY PoolAssumption DEF Release, Refund, PoolOfReq, TypeShape, Shape, Waiter
<1>2. Running' = Running \ {r} /\ \A s \in Running \ {r} : req'[s] = req[s]
  BY DEF Release, Drop, Running, TypeShape, TypeOK
<1>3. /\ \A q \in Pools : used[q] \in Nat /\ Budget[q] \in Nat
      /\ \A n \in Models : inFlight[n] \in Nat /\ Cap[n] \in Nat
  BY PoolAssumption DEF TypeShape, TypeOK
<1> HIDE DEF m, p
<1>4. \A q \in Pools : used'[q] <= used[q]
  <2>1. \A q \in Pools : used'[q] = IF q = p THEN Greater(0, used[q] - req[r].cost) ELSE used[q]
    BY <1>1 DEF TypeShape, TypeOK
  <2> QED BY <1>1, <1>3, <2>1 DEF Greater
<1>5. \A n \in Models : inFlight'[n] <= inFlight[n]
  <2>1. \A n \in Models : inFlight'[n] = IF n = m THEN Greater(0, inFlight[n] - 1) ELSE inFlight[n]
    BY <1>1 DEF TypeShape, TypeOK
  <2> QED BY <1>3, <2>1 DEF Greater
<1>6. \A q \in Pools : used'[q] \in Int
  BY <1>1, <1>3 DEF Greater, TypeShape, TypeOK
<1>7. \A n \in Models : inFlight'[n] \in Int
  BY <1>1, <1>3 DEF Greater, TypeShape, TypeOK
<1>8. \A q \in Pools : used'[q] <= Budget[q]
  BY <1>3, <1>4, <1>6 DEF Capacity
<1>9. \A n \in Models : Cap[n] # 0 => inFlight'[n] <= Cap[n]
  BY <1>3, <1>5, <1>7 DEF Capacity
<1> QED BY <1>2, <1>8, <1>9 DEF Capacity, PoolOfReq

\* Capacity is kept by every action.
LEMMA CapacityStep == TypeShape /\ Ledger /\ Capacity /\ [Next]_vars => Capacity'
<1> SUFFICES ASSUME TypeShape, Ledger, Capacity, [Next]_vars PROVE Capacity'
  OBVIOUS
<1> USE DEF TypeShape
<1>1. ASSUME NEW r \in Requests, NEW w \in Arrivals, Enqueue(r, w) PROVE Capacity'
  <2>1. Running' = Running /\ r \notin Running
    BY <1>1 DEF Enqueue, Running, TypeOK
  <2>2. \A s \in Running : req'[s] = req[s]
    BY <1>1, <2>1 DEF Enqueue, TypeOK, Running
  <2> QED BY <1>1, <2>1, <2>2, CapacityQuiet DEF Enqueue
<1>2. ASSUME NEW r \in Requests, Forget(r) PROVE Capacity'
  <2>1. Running' = Running /\ r \notin Running
    BY <1>2 DEF Forget, Drop, Running, TypeOK
  <2>2. \A s \in Running : req'[s] = req[s]
    BY <1>2, <2>1 DEF Forget, Drop, TypeOK, Running
  <2> QED BY <1>2, <2>1, <2>2, CapacityQuiet DEF Forget
<1>3. CASE \E r \in Requests : Release(r)
  BY <1>3, CapacityRelease
<1>4. ASSUME NEW i \in DOMAIN waiters, Withdraw(i) PROVE Capacity'
  <2>1. waiters[i] \in Requests /\ status[waiters[i]] = "waiting"
    BY WaitersFacts DEF Shape
  <2>2. Running' = Running /\ waiters[i] \notin Running
    BY <1>4, <2>1 DEF Withdraw, Drop, Running, TypeOK
  <2>3. \A s \in Running : req'[s] = req[s]
    BY <1>4, <2>2 DEF Withdraw, Drop, TypeOK, Running
  <2> QED BY <1>4, <2>2, <2>3, CapacityQuiet DEF Withdraw
<1>5. CASE \E i \in DOMAIN waiters : PumpAdmit(i)
  BY <1>5, CapacityAdmit
<1>6. CASE PumpPark
  BY <1>6, CapacityQuiet DEF PumpPark, Running
<1>7. CASE PumpEmpty
  BY <1>7, CapacityQuiet DEF PumpEmpty, Running
<1>8. CASE \E c \in [Keys -> Ceilings \cup {NoCeiling}] : RefreshCeilings(c)
  BY <1>8, CapacityQuiet DEF RefreshCeilings, Running
<1>9. CASE Tick
  BY <1>9, CapacityQuiet DEF Tick, Running
<1>10. CASE UNCHANGED vars
  BY <1>10, CapacityQuiet DEF vars, Running
<1> QED BY <1>1, <1>2, <1>3, <1>4, <1>5, <1>6, <1>7, <1>8, <1>9, <1>10 DEF Next, Pump

\* Nothing runs at the start.
LEMMA CapacityInit == Init => Capacity
BY PoolAssumption DEF Init, Capacity, Running

\* What really runs never exceeds a cap or a pool's budget, and an exclusive
\* pool runs one model at a time, under any interleaving of handlers.
THEOREM CapacityCorrect == Spec => []CapacityRespected
<1>1. Spec => [](TypeShape /\ Ledger /\ Capacity)
  BY TypeShapeInit, TypeShapeStep, LedgerInit, LedgerStep, CapacityInit, CapacityStep, PTL DEF Spec
<1>2. TypeShape /\ Ledger /\ Capacity => CapacityRespected
  <2> SUFFICES ASSUME TypeShape, Ledger, Capacity PROVE CapacityRespected
    OBVIOUS
  <2>0. \A S : Callers!Cardinality(S) = Cardinality(S)
    BY DEF Callers!Cardinality, Cardinality
  <2>1. Callers!WithinCaps
    BY <2>0, CallersFacts DEF Callers!WithinCaps, Ledger, Capacity
  <2>2. Callers!WithinBudgets
    BY <2>0, CallersFacts DEF Callers!WithinBudgets, Ledger, Capacity
  <2>3. Callers!OneResident
    <3> SUFFICES ASSUME NEW p \in Exclusive, NEW r \in RunsIn(p), NEW s \in RunsIn(p)
                 PROVE  req[r].model = req[s].model
      BY CallersFacts DEF Callers!OneResident, RunsIn, Running
    <3> QED BY DEF Capacity, RunsIn
  <2> QED BY <2>1, <2>2, <2>3 DEF CapacityRespected
<1> QED BY <1>1, <1>2, PTL

-----------------------------------------------------------------------------
\* While a pool's budget is reserved for its head nobody else is admitted to
\* the pool: what the reservation leaves is less than what already runs.
LEMMA FrozenStep == TypeShape /\ [Next]_vars =>
                      \A p \in Pools : reserved'[p] # NoWaiter => used'[p] <= used[p]
<1> SUFFICES ASSUME TypeShape, [Next]_vars, NEW p \in Pools, reserved'[p] # NoWaiter
             PROVE  used'[p] <= used[p]
  OBVIOUS
<1>0. \A q \in Pools : used[q] \in Nat /\ Budget[q] \in Nat
  BY PoolAssumption DEF TypeShape, TypeOK
<1>1. CASE used' = used
  BY <1>0, <1>1
<1>2. CASE \E r \in Requests : Release(r)
  <2>1. PICK r \in Requests : Release(r)
    BY <1>2
  <2>2. req[r].cost \in Nat /\ used' = [used EXCEPT ![PoolOfReq(r)] = Greater(0, @ - req[r].cost)]
    BY <2>1 DEF Release, Refund, PoolOfReq, TypeShape, Shape, Waiter
  <2>3. used'[p] = IF p = PoolOfReq(r) THEN Greater(0, used[p] - req[r].cost) ELSE used[p]
    BY <2>2 DEF TypeShape, TypeOK
  <2> QED BY <1>0, <2>2, <2>3 DEF Greater
<1>3. CASE \E i \in DOMAIN waiters : PumpAdmit(i)
  <2>1. PICK i \in DOMAIN waiters : PumpAdmit(i)
    BY <1>3
  <2> DEFINE r == waiters[i]
             h == ToReserve(p)
  <2>2. r \in Waiting /\ req[r].cost \in Nat
    BY WaitersFacts DEF TypeShape, Shape, Waiting, Waiter
  <2>3. /\ Fits(r, ToReserve(PoolOfReq(r))) \/ PoolOfReq(r) \notin Pools
        /\ used' = [used EXCEPT ![PoolOfReq(r)] = @ + req[r].cost]
        /\ reserved'[p] = IF ToReserve(p) = r THEN NoWaiter ELSE ToReserve(p)
    BY <2>1 DEF PumpAdmit, PoolOfReq
  <2>4. PoolOfReq(r) # p
    <3> SUFFICES ASSUME PoolOfReq(r) = p PROVE FALSE
      OBVIOUS
    <3>1. h # NoWaiter /\ h # r /\ Fits(r, h)
      BY <2>3
    <3>2. OverBudget(h) /\ PoolOfReq(h) = p /\ h \in Waiting
      BY <3>1, ToReserveFacts DEF TypeShape, Shape, Waiting, BlockedHead, InPool
    <3>3. req[h].cost \in Nat
      BY <3>2 DEF TypeShape, Shape, Waiting, Waiter
    <3>4. used[p] + req[h].cost > Budget[p]
      BY <3>2 DEF OverBudget
    <3>5. used[p] + req[r].cost <= Budget[p] - req[h].cost
      BY <3>1 DEF Fits, Reservable
    <3> HIDE DEF r, h
    <3> QED BY <1>0, <2>2, <3>3, <3>4, <3>5
  <2>5. used'[p] = used[p]
    BY <2>3, <2>4 DEF TypeShape, TypeOK
  <2> QED BY <1>0, <2>5
<1> QED BY <1>1, <1>2, <1>3 DEF Next, Enqueue, Forget, Withdraw, Pump, PumpPark, PumpEmpty,
                                RefreshCeilings, Tick, vars

\* The starvation guard is total: no admission to a pool under reservation.
THEOREM FrozenBehindReservation == Spec => FrozenWhileReserved
<1>1. Spec => []TypeShape
  BY TypeShapeInit, TypeShapeStep, PTL DEF Spec
<1> QED BY <1>1, FrozenStep, PTL DEF Spec, FrozenWhileReserved

-----------------------------------------------------------------------------
(***************************************************************************)
(* What a pass that admits nobody establishes, and what holds until the    *)
(* next handler runs.                                                      *)
(***************************************************************************)

\* The steps after which no pump is running: the end of a pump, and handlers
\* that do not touch the queue, the runs or the ledger.
LEMMA QuietOrParked ==
  ASSUME TypeShape, [Next]_vars, ~pumping'
  PROVE  \/ PumpPark
         \/ Waiting' = {}
         \/ /\ ~pumping
            /\ UNCHANGED <<waiters, used, inFlight, reserved>>
            /\ Waiting' = Waiting /\ Running' = Running
            /\ \A r \in Waiting \cup Running : req'[r] = req[r]
<1> USE DEF TypeShape
<1>1. ASSUME NEW r \in Requests, NEW w \in Arrivals, Enqueue(r, w)
      PROVE  /\ ~pumping
             /\ UNCHANGED <<waiters, used, inFlight, reserved>>
             /\ Waiting' = Waiting /\ Running' = Running
             /\ \A s \in Waiting \cup Running : req'[s] = req[s]
  <2>1. /\ ~pumping /\ status[r] = "idle"
        /\ UNCHANGED <<waiters, used, inFlight, reserved>>
        /\ status' = [status EXCEPT ![r] = "rejected"]
        /\ req' = [req EXCEPT ![r] = w]
    BY <1>1 DEF Enqueue, StartPump
  <2>2. Waiting' = Waiting /\ Running' = Running /\ r \notin Waiting \cup Running
    BY <2>1 DEF Waiting, Running, TypeOK
  <2>3. \A s \in Waiting \cup Running : req'[s] = req[s]
    BY <2>1, <2>2 DEF Waiting, Running, TypeOK
  <2> QED BY <2>1, <2>2, <2>3
<1>2. ASSUME NEW r \in Requests, Forget(r)
      PROVE  /\ ~pumping
             /\ UNCHANGED <<waiters, used, inFlight, reserved>>
             /\ Waiting' = Waiting /\ Running' = Running
             /\ \A s \in Waiting \cup Running : req'[s] = req[s]
  <2>1. /\ ~pumping /\ status[r] = "rejected" /\ Drop(r)
        /\ UNCHANGED <<waiters, used, inFlight, reserved>>
    BY <1>2 DEF Forget
  <2>2. Waiting' = Waiting /\ Running' = Running /\ r \notin Waiting \cup Running
    BY <2>1 DEF Waiting, Running, TypeOK, Drop
  <2>3. \A s \in Waiting \cup Running : req'[s] = req[s]
    BY <2>1, <2>2 DEF Waiting, Running, TypeOK, Drop
  <2> QED BY <2>1, <2>2, <2>3
<1>3. CASE PumpEmpty
  <2>1. Waiting = {}
    BY <1>3 DEF PumpEmpty, Shape
  <2> QED BY <1>3, <2>1 DEF PumpEmpty, Waiting
<1>4. CASE \E c \in [Keys -> Ceilings \cup {NoCeiling}] : RefreshCeilings(c)
  BY <1>4 DEF RefreshCeilings, Waiting, Running
<1>5. CASE Tick
  BY <1>5 DEF Tick, Waiting, Running
<1>6. CASE UNCHANGED vars
  BY <1>6 DEF vars, Waiting, Running
<1>7. ASSUME \/ \E r \in Requests : Release(r)
             \/ \E i \in DOMAIN waiters : Withdraw(i)
             \/ \E i \in DOMAIN waiters : PumpAdmit(i)
      PROVE  FALSE
  <2>1. ASSUME NEW r \in Requests, Release(r) PROVE FALSE
    BY <2>1 DEF Release, StartPump
  <2>2. ASSUME NEW i \in DOMAIN waiters, Withdraw(i) PROVE FALSE
    BY <2>2 DEF Withdraw, StartPump
  <2>3. ASSUME NEW i \in DOMAIN waiters, PumpAdmit(i) PROVE FALSE
    <3>1. pumping /\ pumping' = pumping
      BY <2>3 DEF PumpAdmit
    <3> QED BY <3>1
  <2> QED BY <1>7, <2>1, <2>2, <2>3
<1> QED BY <1>1, <1>2, <1>3, <1>4, <1>5, <1>6, <1>7 DEF Next, Pump

\* Of two runs of a request, the passes agree that it waits at some position.
LEMMA WaiterPosition ==
  ASSUME TypeShape, NEW r \in Waiting
  PROVE  /\ \E i \in DOMAIN waiters : waiters[i] = r
         /\ req[r].model \in Models /\ PoolOfReq(r) \in Pools /\ req[r].cost \in Nat
         /\ req[r].cost <= Budget[PoolOfReq(r)]
         /\ r # NoWaiter
BY PoolAssumption, NoWaiterAssumption DEF TypeShape, Shape, Waiting, Waiter, PoolOfReq

\* Parking is no deadlock: in a pool without a run every waiter fits.
LEMMA ParkHasRun ==
  ASSUME TypeShape, Ledger, PumpPark, NEW r \in Waiting
  PROVE  \E s \in Running : PoolOfReq(s) = PoolOfReq(r)
<1> DEFINE p == PoolOfReq(r)
<1> SUFFICES ASSUME \A s \in Running : PoolOfReq(s) # p PROVE FALSE
  OBVIOUS
<1>1. p \in Pools /\ Budget[p] \in Nat /\ req[r].cost \in Nat /\ req[r].cost <= Budget[p]
  BY WaiterPosition, PoolAssumption
<1>2. used[p] = 0
  <2>1. Held(p) = {}
    BY DEF Held, RunsIn
  <2> QED BY <1>1, <2>1, FS_EmptySet DEF Ledger
<1>3. \A m \in Models : PoolOf[m] = p => ~(inFlight[m] > 0)
  BY ActiveIsRunning DEF PoolOfReq
<1>4. \A i \in DOMAIN waiters : ~BlockedHead(p, i)
  <2> SUFFICES ASSUME NEW i \in DOMAIN waiters, BlockedHead(p, i) PROVE FALSE
    OBVIOUS
  <2>1. waiters[i] \in Waiting /\ PoolOfReq(waiters[i]) = p /\ OverBudget(waiters[i])
    BY WaitersFacts DEF BlockedHead, InPool, TypeShape, Shape, Waiting
  <2>2. req[waiters[i]].cost <= Budget[p] /\ req[waiters[i]].cost \in Nat
    BY <2>1, WaiterPosition
  <2>3. used[p] + req[waiters[i]].cost > Budget[p]
    BY <2>1 DEF OverBudget
  <2> HIDE DEF p
  <2> QED BY <1>1, <1>2, <2>2, <2>3
<1>5. ToReserve(p) = NoWaiter
  BY <1>4 DEF ToReserve
<1>6. ~Fits(r, NoWaiter)
  BY <1>1, <1>5, WaiterPosition DEF PumpPark
<1>7. ~CapFull(r)
  <2>1. req[r].model \in Models /\ PoolOf[req[r].model] = p
    BY WaiterPosition DEF PoolOfReq
  <2>2. inFlight[req[r].model] \in Nat /\ Cap[req[r].model] \in Nat
    BY <2>1, PoolAssumption DEF TypeShape, TypeOK
  <2>3. ~(inFlight[req[r].model] > 0)
    BY <1>3, <2>1
  <2> QED BY <2>2, <2>3 DEF CapFull
<1>8. ~ExclusionBlocks(r)
  BY <1>3 DEF ExclusionBlocks, ActiveMembers, PoolOfReq
<1>9. used[p] + req[r].cost <= Reservable(p, NoWaiter)
  BY <1>1, <1>2 DEF Reservable
<1> QED BY <1>6, <1>7, <1>8, <1>9 DEF Fits

\* No pool deadlocks, whatever the costs, caps and mutexes (issue #36): a
\* waiter that is left in the queue has a run of its pool to wait for.
THEOREM NoDeadlock == Spec => []NoStall
<1>1. Init => NoStall
  BY DEF Init, NoStall, Waiting
<1>2. TypeShape /\ Ledger /\ NoStall /\ [Next]_vars => NoStall'
  <2> SUFFICES ASSUME TypeShape, Ledger, NoStall, [Next]_vars, ~pumping', NEW r \in Waiting'
               PROVE  \E s \in Running' : PoolOf[req'[s].model] = PoolOf[req'[r].model]
    BY DEF NoStall, PoolOfReq
  <2>1. CASE PumpPark
    <3>1. Waiting' = Waiting /\ Running' = Running /\ req' = req
      BY <2>1 DEF PumpPark, Waiting, Running
    <3> QED BY <2>1, <3>1, ParkHasRun DEF PoolOfReq
  <2>2. CASE /\ ~pumping
             /\ Waiting' = Waiting /\ Running' = Running
             /\ \A s \in Waiting \cup Running : req'[s] = req[s]
    BY <2>2 DEF NoStall, PoolOfReq
  <2> QED BY <2>1, <2>2, QuietOrParked
<1> QED BY <1>1, <1>2, TypeShapeInit, TypeShapeStep, LedgerInit, LedgerStep, PTL DEF Spec

\* Nobody is overlooked: between two pumps a waiter is kept out by its cap, by
\* the mutex, by the budget, or by another request's reservation.
THEOREM AdmissionsComplete == Spec => []NoMissedAdmission
<1>1. Init => NoMissedAdmission
  BY DEF Init, NoMissedAdmission, Waiting
<1>2. TypeShape /\ NoMissedAdmission /\ [Next]_vars => NoMissedAdmission'
  <2> SUFFICES ASSUME TypeShape, NoMissedAdmission, [Next]_vars, ~pumping', NEW r \in Waiting'
               PROVE  (\/ CapFull(r) \/ ExclusionBlocks(r) \/ OverBudget(r)
                       \/ reserved[PoolOfReq(r)] \notin {NoWaiter, r})'
    BY DEF NoMissedAdmission
  <2>1. CASE PumpPark
    <3> DEFINE p == PoolOfReq(r)
    <3>1. /\ Waiting' = Waiting /\ UNCHANGED <<req, used, inFlight>>
          /\ reserved' = [q \in Pools |-> ToReserve(q)]
      BY <2>1 DEF PumpPark, Waiting
    <3>2. r \in Waiting /\ p \in Pools
      BY <3>1, WaiterPosition
    <3>3. ~Fits(r, ToReserve(p))
      BY <2>1, <3>2, WaiterPosition DEF PumpPark
    <3>4. used[p] \in Nat /\ Budget[p] \in Nat /\ req[r].cost \in Nat
      BY <3>2, WaiterPosition, PoolAssumption DEF TypeShape, TypeOK
    <3>5. CapFull(r) \/ ExclusionBlocks(r) \/ OverBudget(r) \/ ToReserve(p) \notin {NoWaiter, r}
      <4>1. CASE ToReserve(p) = NoWaiter
        <5>1. Reservable(p, ToReserve(p)) = Budget[p]
          BY <4>1 DEF Reservable
        <5> QED BY <3>3, <3>4, <5>1 DEF Fits, OverBudget
      <4>2. CASE ToReserve(p) = r
        BY <3>2, <4>2, WaiterPosition, ToReserveFacts DEF BlockedHead, TypeShape
      <4> QED BY <4>1, <4>2
    <3>6. (CapFull(r) \/ ExclusionBlocks(r) \/ OverBudget(r))' <=>
            (CapFull(r) \/ ExclusionBlocks(r) \/ OverBudget(r))
      BY <3>1 DEF CapFull, ExclusionBlocks, OverBudget, ActiveMembers, PoolOfReq
    <3>7. reserved'[p] = ToReserve(p)
      BY <3>1, <3>2
    <3>8. PoolOfReq(r)' = p
      BY <3>1 DEF PoolOfReq
    <3> QED BY <3>5, <3>6, <3>7, <3>8
  <2>2. CASE /\ ~pumping
             /\ UNCHANGED <<waiters, used, inFlight, reserved>>
             /\ Waiting' = Waiting /\ Running' = Running
             /\ \A s \in Waiting \cup Running : req'[s] = req[s]
    <3>1. r \in Waiting /\ req'[r] = req[r] /\ UNCHANGED <<used, inFlight, reserved>>
      BY <2>2
    <3>2. CapFull(r) \/ ExclusionBlocks(r) \/ OverBudget(r)
            \/ reserved[PoolOfReq(r)] \notin {NoWaiter, r}
      BY <2>2, <3>1 DEF NoMissedAdmission
    <3> QED BY <3>1, <3>2 DEF CapFull, ExclusionBlocks, OverBudget, ActiveMembers, PoolOfReq
  <2> QED BY <2>1, <2>2, QuietOrParked
<1> QED BY <1>1, <1>2, TypeShapeInit, TypeShapeStep, PTL DEF Spec

-----------------------------------------------------------------------------
(***************************************************************************)
(* The order of admissions.                                                *)
(***************************************************************************)

\* Only a pass of pump admits, and only the request at its position.
LEMMA AdmittedByPass ==
  ASSUME TypeShape, [Next]_vars, NEW r \in Requests, Admitted(r)
  PROVE  \E k \in DOMAIN waiters : PumpAdmit(k) /\ waiters[k] = r
<1> USE DEF TypeShape
<1>1. ASSUME NEW s \in Requests, NEW w \in Arrivals, Enqueue(s, w) PROVE FALSE
  BY <1>1 DEF Enqueue, Admitted, TypeOK
<1>2. ASSUME NEW s \in Requests, Drop(s) PROVE FALSE
  BY <1>2 DEF Drop, Admitted, TypeOK
<1>3. ASSUME NEW i \in DOMAIN waiters, Withdraw(i) PROVE FALSE
  BY <1>2, <1>3, WaitersFacts DEF Withdraw
<1>4. ASSUME UNCHANGED status PROVE FALSE
  BY <1>4 DEF Admitted
<1>5. ASSUME NEW k \in DOMAIN waiters, PumpAdmit(k) PROVE waiters[k] = r
  BY <1>5, WaitersFacts DEF PumpAdmit, Admitted, TypeOK
<1> QED BY <1>1, <1>2, <1>3, <1>4, <1>5
        DEF Next, Forget, Release, Pump, PumpPark, PumpEmpty, RefreshCeilings, Tick, vars

\* A pass admits to a pool only when it reserves the pool for nobody.
LEMMA AdmitUnreserved ==
  ASSUME TypeShape, NEW r \in Waiting, Fits(r, ToReserve(PoolOfReq(r)))
  PROVE  ToReserve(PoolOfReq(r)) = NoWaiter
<1> DEFINE p == PoolOfReq(r)
           h == ToReserve(p)
<1> SUFFICES ASSUME h # NoWaiter PROVE FALSE
  OBVIOUS
<1>1. p \in Pools /\ req[r].cost \in Nat
  BY WaiterPosition
<1>2. h \in Waiting /\ PoolOfReq(h) = p /\ OverBudget(h)
  BY <1>1, ToReserveFacts DEF TypeShape, Shape, Waiting, BlockedHead, InPool
<1>3. req[h].cost \in Nat
  BY <1>2, WaiterPosition
<1>4. used[p] \in Nat /\ Budget[p] \in Nat
  BY <1>1, PoolAssumption DEF TypeShape, TypeOK
<1>5. used[p] + req[h].cost > Budget[p]
  BY <1>2 DEF OverBudget
<1>6. used[p] + req[r].cost <= Budget[p] - req[h].cost
  BY DEF Fits, Reservable
<1> HIDE DEF p, h
<1> QED BY <1>1, <1>3, <1>4, <1>5, <1>6

\* The head of a pool is overtaken only while its cap or the mutex blocks it.
THEOREM HeadFirst == Spec => HeadNotOvertaken
<1>1. ASSUME TypeShape, [Next]_vars, NEW i \in DOMAIN waiters, NEW r \in Requests,
             IsHead(i), Admitted(r), r # waiters[i], PoolOfReq(r) = PoolOfReq(waiters[i])
      PROVE  CapFull(waiters[i]) \/ ExclusionBlocks(waiters[i])
  <2> DEFINE h == waiters[i]
             p == PoolOfReq(r)
  <2> SUFFICES ASSUME ~CapFull(h), ~ExclusionBlocks(h) PROVE FALSE
    OBVIOUS
  <2>1. PICK k \in DOMAIN waiters : PumpAdmit(k) /\ waiters[k] = r
    BY <1>1, AdmittedByPass
  <2>2. r \in Waiting /\ h \in Waiting
    BY <1>1, <2>1, WaitersFacts DEF TypeShape, Shape, Waiting
  <2>3. p \in Pools /\ PoolOf[req[r].model] = p
    BY <1>1, <2>2, WaiterPosition DEF PoolOfReq
  <2>4. Fits(r, ToReserve(p))
    BY <2>1, <2>3 DEF PumpAdmit
  <2>5. ToReserve(p) = NoWaiter
    BY <1>1, <2>2, <2>4, AdmitUnreserved
  <2>6. Precedes(i, k)
    BY <1>1, <2>1 DEF IsHead, InPool
  <2>7. ~Fits(h, ToReserve(p))
    BY <1>1, <2>1, <2>3, <2>6 DEF PumpAdmit
  <2>8. OverBudget(h)
    <3>1. used[p] \in Nat /\ Budget[p] \in Nat /\ req[h].cost \in Nat
      BY <1>1, <2>2, <2>3, WaiterPosition, PoolAssumption DEF TypeShape, TypeOK
    <3>2. ~(used[p] + req[h].cost <= Budget[p])
      BY <1>1, <2>5, <2>7 DEF Fits, Reservable
    <3> HIDE DEF h, p
    <3> QED BY <1>1, <3>1, <3>2 DEF OverBudget, h, p
  <2>9. BlockedHead(p, i)
    BY <1>1, <2>8 DEF BlockedHead, InPool
  <2>10. ToReserve(p) # NoWaiter
    <3> DEFINE j == CHOOSE j \in DOMAIN waiters : BlockedHead(p, j)
    <3>1. j \in DOMAIN waiters
      BY <2>9
    <3>2. ToReserve(p) = waiters[j]
      BY <2>9 DEF ToReserve
    <3> HIDE DEF j
    <3> QED BY <1>1, <3>1, <3>2, WaitersFacts, NoWaiterAssumption DEF TypeShape
  <2> QED BY <2>5, <2>10
<1>2. TypeShape /\ [Next]_vars =>
        \A i \in DOMAIN waiters : \A r \in Requests :
          /\ IsHead(i)
          /\ Admitted(r)
          /\ r # waiters[i]
          /\ PoolOfReq(r) = PoolOfReq(waiters[i])
          => CapFull(waiters[i]) \/ ExclusionBlocks(waiters[i])
  BY <1>1
<1>3. Spec => []TypeShape
  BY TypeShapeInit, TypeShapeStep, PTL DEF Spec
<1> QED BY <1>2, <1>3, PTL DEF Spec, HeadNotOvertaken

\* The list of waiters is in the order of arrival.
ArrivalOrder ==
  /\ \A i \in DOMAIN waiters : req[waiters[i]].enqueuedAt <= now
  /\ \A i, j \in DOMAIN waiters : i < j => req[waiters[i]].enqueuedAt <= req[waiters[j]].enqueuedAt

\* Removing a position keeps the order of the others.
LEMMA RemoveKeepsOrder ==
  ASSUME TypeShape, NEW i \in DOMAIN waiters, waiters' = RemoveAt(waiters, i),
         NEW j \in DOMAIN waiters', NEW k \in DOMAIN waiters', j < k
  PROVE  \E m, n \in DOMAIN waiters :
           m < n /\ m # i /\ n # i /\ waiters'[j] = waiters[m] /\ waiters'[k] = waiters[n]
<1>1. waiters \in Seq(Requests) /\ i \in 1 .. Len(waiters) /\ DOMAIN waiters = 1 .. Len(waiters)
      /\ Len(waiters) \in Nat
  BY WaitersFacts DEF TypeShape, TypeOK
<1>2. /\ waiters' \in Seq(Requests)
      /\ Len(waiters') = Len(waiters) - 1
      /\ \A l \in 1 .. Len(waiters) - 1 : waiters'[l] = IF l < i THEN waiters[l] ELSE waiters[l + 1]
  BY <1>1, RemoveAtFacts
<1>3. j \in 1 .. Len(waiters) - 1 /\ k \in 1 .. Len(waiters) - 1
  BY <1>2, LenProperties
<1> DEFINE m == IF j < i THEN j ELSE j + 1
           n == IF k < i THEN k ELSE k + 1
<1>4. m \in DOMAIN waiters /\ n \in DOMAIN waiters /\ m < n /\ m # i /\ n # i
  BY <1>1, <1>3
<1>5. waiters'[j] = waiters[m] /\ waiters'[k] = waiters[n]
  BY <1>2, <1>3
<1> HIDE DEF m, n
<1> QED BY <1>4, <1>5

\* The order of arrival is kept by every action.
LEMMA ArrivalOrderStep == TypeShape /\ ArrivalOrder /\ [Next]_vars => ArrivalOrder'
<1> SUFFICES ASSUME TypeShape, ArrivalOrder, [Next]_vars PROVE ArrivalOrder'
  OBVIOUS
<1>0. /\ \A i \in DOMAIN waiters : /\ waiters[i] \in Requests
                                   /\ status[waiters[i]] = "waiting"
                                   /\ req[waiters[i]].enqueuedAt \in Int
      /\ now \in Int
      /\ Len(waiters) \in Nat /\ DOMAIN waiters = 1 .. Len(waiters)
  BY WaitersFacts, PriorityAssumption DEF TypeShape, TypeOK, Shape, Waiter
<1>1. ASSUME NEW r \in Requests, NEW w \in Arrivals, Enqueue(r, w) PROVE ArrivalOrder'
  <2>1. /\ status[r] = "idle" /\ req' = [req EXCEPT ![r] = w] /\ now' = now
        /\ w.enqueuedAt = now
    BY <1>1 DEF Enqueue, Arrivals
  <2>2. \A i \in DOMAIN waiters : req'[waiters[i]] = req[waiters[i]]
    BY <1>0, <2>1 DEF TypeShape, TypeOK
  <2>3. CASE waiters' = waiters
    BY <2>1, <2>2, <2>3 DEF ArrivalOrder
  <2>4. CASE waiters' = Append(waiters, r)
    <3>1. /\ DOMAIN waiters' = 1 .. Len(waiters) + 1
          /\ \A i \in 1 .. Len(waiters) : waiters'[i] = waiters[i]
          /\ waiters'[Len(waiters) + 1] = r
      BY <2>4 DEF TypeShape, TypeOK
    <3>2. req'[r].enqueuedAt = now
      BY <2>1 DEF TypeShape, TypeOK
    <3>3. \A i \in DOMAIN waiters' : req'[waiters'[i]].enqueuedAt <= now
      <4> SUFFICES ASSUME NEW i \in DOMAIN waiters' PROVE req'[waiters'[i]].enqueuedAt <= now
        OBVIOUS
      <4>1. CASE i = Len(waiters) + 1
        BY <4>1, <3>1, <3>2, <1>0
      <4>2. CASE i \in DOMAIN waiters
        BY <4>2, <2>2, <3>1, <1>0 DEF ArrivalOrder
      <4> QED BY <4>1, <4>2, <3>1, <1>0
    <3>4. \A i, j \in DOMAIN waiters' : i < j =>
            req'[waiters'[i]].enqueuedAt <= req'[waiters'[j]].enqueuedAt
      <4> SUFFICES ASSUME NEW i \in DOMAIN waiters', NEW j \in DOMAIN waiters', i < j
                   PROVE  req'[waiters'[i]].enqueuedAt <= req'[waiters'[j]].enqueuedAt
        OBVIOUS
      <4>1. CASE j = Len(waiters) + 1
        <5>1. req'[waiters'[j]].enqueuedAt = now
          BY <4>1, <3>1, <3>2
        <5> QED BY <5>1, <3>3
      <4>2. CASE j \in DOMAIN waiters
        <5>1. i \in DOMAIN waiters
          BY <4>2, <3>1, <1>0
        <5>2. waiters'[i] = waiters[i] /\ waiters'[j] = waiters[j]
          BY <4>2, <5>1, <3>1, <1>0
        <5> QED BY <4>2, <5>1, <5>2, <2>2 DEF ArrivalOrder
      <4> QED BY <4>1, <4>2, <3>1, <1>0
    <3> QED BY <3>3, <3>4, <2>1 DEF ArrivalOrder
  <2> QED BY <1>1, <2>3, <2>4 DEF Enqueue
<1>2. ASSUME NEW r \in Requests, status[r] # "waiting", Drop(r), UNCHANGED <<waiters, now>>
      PROVE  ArrivalOrder'
  <2>1. \A i \in DOMAIN waiters : req'[waiters[i]] = req[waiters[i]]
    BY <1>0, <1>2 DEF Drop, TypeShape, TypeOK
  <2> QED BY <1>2, <2>1 DEF ArrivalOrder
<1>3. CASE \E r \in Requests : Forget(r) \/ Release(r)
  BY <1>2, <1>3 DEF Forget, Release
<1>4. ASSUME NEW i \in DOMAIN waiters, waiters' = RemoveAt(waiters, i), UNCHANGED now,
             \A j \in DOMAIN waiters : waiters[j] # waiters[i] => req'[waiters[j]] = req[waiters[j]]
      PROVE  ArrivalOrder'
  <2>1. \A j \in DOMAIN waiters' : waiters'[j] # waiters[i]
    BY <1>4, RemoveWaiterFacts
  <2>2. \A j \in DOMAIN waiters' : \E k \in DOMAIN waiters : waiters'[j] = waiters[k]
    BY <1>4, RemoveWaiterFacts
  <2>3. \A j \in DOMAIN waiters' : req'[waiters'[j]].enqueuedAt <= now'
    BY <1>4, <2>1, <2>2 DEF ArrivalOrder
  <2>4. \A j, k \in DOMAIN waiters' : j < k =>
          req'[waiters'[j]].enqueuedAt <= req'[waiters'[k]].enqueuedAt
    <3> SUFFICES ASSUME NEW j \in DOMAIN waiters', NEW k \in DOMAIN waiters', j < k
                 PROVE  req'[waiters'[j]].enqueuedAt <= req'[waiters'[k]].enqueuedAt
      OBVIOUS
    <3>1. PICK m \in DOMAIN waiters, n \in DOMAIN waiters :
            m < n /\ waiters'[j] = waiters[m] /\ waiters'[k] = waiters[n]
      BY <1>4, RemoveKeepsOrder
    <3> QED BY <1>4, <2>1, <3>1 DEF ArrivalOrder
  <2> QED BY <2>3, <2>4 DEF ArrivalOrder
<1>5. ASSUME NEW i \in DOMAIN waiters, Withdraw(i) PROVE ArrivalOrder'
  <2>1. \A j \in DOMAIN waiters : waiters[j] # waiters[i] => req'[waiters[j]] = req[waiters[j]]
    BY <1>0, <1>5 DEF Withdraw, Drop, TypeShape, TypeOK
  <2> QED BY <1>4, <1>5, <2>1 DEF Withdraw
<1>6. ASSUME NEW i \in DOMAIN waiters, PumpAdmit(i) PROVE ArrivalOrder'
  BY <1>4, <1>6 DEF PumpAdmit
<1>7. CASE UNCHANGED <<waiters, req>> /\ now' = now
  BY <1>7 DEF ArrivalOrder
<1>8. CASE Tick
  BY <1>0, <1>8 DEF ArrivalOrder, Tick
<1> QED BY <1>1, <1>3, <1>5, <1>6, <1>7, <1>8
        DEF Next, Pump, PumpPark, PumpEmpty, RefreshCeilings, vars

\* Effective priorities are comparable.
LEMMA PriorityIsInt ==
  ASSUME TypeShape, NEW r \in Waiting
  PROVE  Clamped(r) \in Int /\ Aged(r) \in Int /\ EffectivePriority(r) \in Int
<1>0. req[r] \in Waiter
  BY DEF TypeShape, Shape, Waiting
<1>1. req[r].key \in Keys /\ req[r].basePriority \in Int /\ req[r].enqueuedAt \in Int
  <2>1. req[r].key \in Keys
    BY <1>0 DEF Waiter
  <2>2. req[r].basePriority \in Int
    BY <1>0, PriorityAssumption DEF Waiter
  <2>3. req[r].enqueuedAt \in Int
    BY <1>0, PriorityAssumption DEF Waiter
  <2> QED BY <2>1, <2>2, <2>3
<1>2. ceilings[req[r].key] \in Ceilings \cup {NoCeiling} /\ now \in Int
  BY <1>1, PriorityAssumption DEF TypeShape, TypeOK
<1>3. Ceiling(req[r].key) \in Int
  BY <1>2, PriorityAssumption DEF Ceiling
<1>4. Clamped(r) \in Int
  BY <1>1, <1>3 DEF Clamped, Lesser
<1>5. Aged(r) \in Int
  BY <1>1, <1>2, PriorityAssumption DEF Aged
<1> QED BY <1>4, <1>5 DEF EffectivePriority

\* Of two requests for one model the earlier, unless it costs more or ranks
\* lower, is first, however long they wait and whoever else comes and goes.
THEOREM ModelOrder == Spec => SameModelInOrder
<1>1. ASSUME TypeShape, ArrivalOrder, [Next]_vars,
             NEW i \in DOMAIN waiters, NEW j \in DOMAIN waiters, i < j,
             req[waiters[i]].model = req[waiters[j]].model,
             req[waiters[i]].cost <= req[waiters[j]].cost,
             Clamped(waiters[i]) >= Clamped(waiters[j]),
             Admitted(waiters[j])
      PROVE  FALSE
  <2> DEFINE a == waiters[i]
             b == waiters[j]
             p == PoolOfReq(b)
  <2>1. a \in Waiting /\ b \in Waiting /\ b \in Requests
    BY <1>1, WaitersFacts DEF TypeShape, Shape, Waiting
  <2>2. PICK k \in DOMAIN waiters : PumpAdmit(k) /\ waiters[k] = b
    BY <1>1, <2>1, AdmittedByPass
  <2>3. k = j
    BY <1>1, <2>2 DEF TypeShape, Shape
  <2>4. p \in Pools /\ PoolOf[req[b].model] = p /\ PoolOfReq(a) = p
    BY <1>1, <2>1, WaiterPosition DEF PoolOfReq
  <2>5. Precedes(i, j)
    <3>1. req[a].enqueuedAt \in Int /\ req[b].enqueuedAt \in Int /\ now \in Int /\ AgingRate \in Nat
      BY <1>1, <2>1, PriorityAssumption DEF TypeShape, TypeOK, Shape, Waiting, Waiter
    <3>2. req[a].enqueuedAt <= req[b].enqueuedAt
      BY <1>1 DEF ArrivalOrder
    <3>3. Clamped(a) \in Int /\ Clamped(b) \in Int
      BY <1>1, <2>1, PriorityIsInt
    <3>4. Aged(a) \in Int /\ Aged(b) \in Int /\ Aged(a) >= Aged(b)
      <4>1. now - req[a].enqueuedAt \in Int /\ now - req[b].enqueuedAt \in Int
            /\ now - req[a].enqueuedAt >= now - req[b].enqueuedAt
        BY <3>1, <3>2
      <4>2. \A x, y \in Int : x >= y => AgingRate * x >= AgingRate * y
        BY <3>1
      <4>3. AgingRate * (now - req[a].enqueuedAt) >= AgingRate * (now - req[b].enqueuedAt)
        BY <4>1, <4>2
      <4> QED BY <3>1, <4>1, <4>3 DEF Aged
    <3>5. EffectivePriority(a) \in Int /\ EffectivePriority(b) \in Int
          /\ EffectivePriority(a) >= EffectivePriority(b)
      BY <1>1, <3>3, <3>4 DEF EffectivePriority
    <3> HIDE DEF a, b
    <3>6. \/ EffectivePriority(a) > EffectivePriority(b)
          \/ /\ EffectivePriority(a) = EffectivePriority(b)
             /\ \/ req[a].enqueuedAt < req[b].enqueuedAt
                \/ req[a].enqueuedAt = req[b].enqueuedAt /\ i < j
      BY <1>1, <3>1, <3>2, <3>5
    <3> QED BY <3>6 DEF Precedes, a, b
  <2>6. Fits(b, ToReserve(p)) /\ ~Fits(a, ToReserve(p))
    BY <1>1, <2>2, <2>3, <2>4, <2>5 DEF PumpAdmit
  <2>7. CapFull(a) <=> CapFull(b)
    BY <1>1 DEF CapFull
  <2>8. ExclusionBlocks(a) <=> ExclusionBlocks(b)
    BY <1>1 DEF ExclusionBlocks, PoolOfReq
  <2>9. used[p] \in Nat /\ Budget[p] \in Nat /\ req[a].cost \in Nat /\ req[b].cost \in Nat
    BY <1>1, <2>1, <2>4, WaiterPosition, PoolAssumption DEF TypeShape, TypeOK
  <2>10. ToReserve(p) = NoWaiter
    BY <1>1, <2>1, <2>6, AdmitUnreserved
  <2>11. Reservable(p, ToReserve(p)) = Budget[p]
    BY <2>10 DEF Reservable
  <2>12. used[p] + req[b].cost <= Budget[p]
    BY <2>6, <2>11 DEF Fits
  <2>13. ~(used[p] + req[a].cost <= Budget[p])
    BY <2>4, <2>6, <2>7, <2>8, <2>11 DEF Fits
  <2> HIDE DEF p
  <2> QED BY <1>1, <2>9, <2>12, <2>13
<1>2. TypeShape /\ ArrivalOrder /\ [Next]_vars =>
        \A i, j \in DOMAIN waiters :
          /\ i < j
          /\ req[waiters[i]].model = req[waiters[j]].model
          /\ req[waiters[i]].cost <= req[waiters[j]].cost
          /\ Clamped(waiters[i]) >= Clamped(waiters[j])
          => ~Admitted(waiters[j])
  BY <1>1
<1>3. Init => ArrivalOrder
  BY DEF Init, ArrivalOrder
<1>4. Spec => [](TypeShape /\ ArrivalOrder)
  BY <1>3, TypeShapeInit, TypeShapeStep, ArrivalOrderStep, PTL DEF Spec
<1> QED BY <1>2, <1>4, PTL DEF Spec, SameModelInOrder

-----------------------------------------------------------------------------
(***************************************************************************)
(* Reservations.  A reserved request waits in the pool and only the budget *)
(* keeps it out.  The latch of a waiter stands for a reservation, or for   *)
(* one that a release has just made needless: its holder is then the head, *)
(* fits, and is let in before the pump that runs can return.               *)
(***************************************************************************)
Open(r) == ~CapFull(r) /\ ~ExclusionBlocks(r)

ReadyHead(r) ==
  /\ \E i \in DOMAIN waiters : waiters[i] = r /\ IsHead(i)
  /\ Open(r)
  /\ ~OverBudget(r)

HeldForWaiter(p) ==
  /\ reserved[p] \in Waiting
  /\ PoolOfReq(reserved[p]) = p
  /\ Open(reserved[p])
  /\ mark[reserved[p]].wasReserved
  /\ pumping \/ OverBudget(reserved[p])

Reservations ==
  /\ \A p \in Pools : reserved[p] # NoWaiter => HeldForWaiter(p)
  /\ \A r \in Waiting : mark[r].wasReserved =>
       reserved[PoolOfReq(r)] = r \/ (pumping /\ ReadyHead(r))
  /\ \A r \in Requests : status[r] = "idle" => ~mark[r].wasReserved

\* A pool has one head.
LEMMA OneHead ==
  ASSUME TypeShape, NEW i \in DOMAIN waiters, NEW j \in DOMAIN waiters,
         PoolOfReq(waiters[i]) = PoolOfReq(waiters[j]), IsHead(i), IsHead(j)
  PROVE  i = j
<1> SUFFICES ASSUME i # j PROVE FALSE
  OBVIOUS
<1>1. Precedes(i, j) /\ Precedes(j, i)
  BY DEF IsHead, InPool
<1>2. i \in Int /\ j \in Int
  BY WaitersFacts DEF TypeShape
<1>3. waiters[i] \in Waiting /\ waiters[j] \in Waiting
  BY WaitersFacts DEF TypeShape, Shape, Waiting
<1>4. req[waiters[i]] \in Waiter /\ req[waiters[j]] \in Waiter
  BY <1>3 DEF TypeShape, Shape, Waiting
<1>5. req[waiters[i]].enqueuedAt \in Int /\ req[waiters[j]].enqueuedAt \in Int
  BY <1>4, PriorityAssumption DEF Waiter
<1>6. EffectivePriority(waiters[i]) \in Int /\ EffectivePriority(waiters[j]) \in Int
  BY <1>3, <1>4, PriorityIsInt
<1> HIDE DEF TypeShape
<1> QED BY <1>1, <1>2, <1>5, <1>6 DEF Precedes

\* For a head that fits nothing is reserved in its pool, and no pass can park it.
LEMMA ReadyHeadFits ==
  ASSUME TypeShape, NEW r \in Waiting, ReadyHead(r)
  PROVE  /\ ToReserve(PoolOfReq(r)) = NoWaiter
         /\ Fits(r, NoWaiter)
<1> DEFINE p == PoolOfReq(r)
<1>0. p \in Pools /\ req[r].cost \in Nat /\ used[p] \in Nat /\ Budget[p] \in Nat
  BY WaiterPosition, PoolAssumption DEF TypeShape, TypeOK
<1>1. PICK i \in DOMAIN waiters : waiters[i] = r /\ IsHead(i)
  BY DEF ReadyHead
<1>2. ToReserve(p) = NoWaiter
  <2> SUFFICES ASSUME ToReserve(p) # NoWaiter PROVE FALSE
    OBVIOUS
  <2>1. PICK k \in DOMAIN waiters : BlockedHead(p, k)
    BY <1>0, ToReserveFacts DEF TypeShape
  <2>2. PoolOfReq(waiters[k]) = p /\ IsHead(k) /\ OverBudget(waiters[k])
    BY <2>1 DEF BlockedHead, InPool
  <2>3. k = i
    BY <1>1, <2>2, OneHead
  <2> QED BY <1>1, <2>2, <2>3 DEF ReadyHead
<1>3. used[p] + req[r].cost <= Reservable(p, NoWaiter)
  <2> HIDE DEF p
  <2>1. ~(used[p] + req[r].cost > Budget[p])
    BY DEF ReadyHead, OverBudget, p
  <2> QED BY <1>0, <2>1 DEF Reservable
<1> QED BY <1>2, <1>3 DEF Fits, ReadyHead, Open

\* A reserved request that is still the head keeps its reservation or is ready.
LEMMA HeadReservedOrReady ==
  ASSUME TypeShape, NEW r \in Waiting, Open(r),
         \E i \in DOMAIN waiters : waiters[i] = r /\ IsHead(i)
  PROVE  ToReserve(PoolOfReq(r)) = r \/ ReadyHead(r)
<1> DEFINE p == PoolOfReq(r)
<1>0. p \in Pools
  BY WaiterPosition
<1>1. PICK i \in DOMAIN waiters : waiters[i] = r /\ IsHead(i)
  OBVIOUS
<1>2. CASE OverBudget(r)
  <2>1. BlockedHead(p, i)
    BY <1>1, <1>2 DEF BlockedHead, InPool, Open
  <2> DEFINE k == CHOOSE k \in DOMAIN waiters : BlockedHead(p, k)
  <2>2. k \in DOMAIN waiters /\ BlockedHead(p, k) /\ ToReserve(p) = waiters[k]
    BY <2>1 DEF ToReserve
  <2> HIDE DEF k
  <2>3. k = i
    BY <1>1, <2>2, OneHead DEF BlockedHead, InPool
  <2> QED BY <1>1, <2>2, <2>3
<1>3. CASE ~OverBudget(r)
  BY <1>1, <1>3 DEF ReadyHead
<1> QED BY <1>2, <1>3

\* What the latch says in a pass: the request is reserved, or ready.
LEMMA LatchMeans ==
  ASSUME TypeShape, Reservations, NEW r \in Waiting, NEW rsv,
         rsv[PoolOfReq(r)] = ToReserve(PoolOfReq(r)), Latch(r, rsv)
  PROVE  ToReserve(PoolOfReq(r)) = r \/ ReadyHead(r)
<1> DEFINE p == PoolOfReq(r)
<1>0. p \in Pools /\ r # NoWaiter
  BY WaiterPosition
<1>1. CASE rsv[p] = r
  BY <1>1
<1>2. CASE mark[r].wasReserved /\ reserved[p] = r
                /\ \E i \in DOMAIN waiters : waiters[i] = r /\ IsHead(i)
  <2>1. Open(r)
    BY <1>0, <1>2 DEF Reservations, HeldForWaiter
  <2> QED BY <1>2, <2>1, HeadReservedOrReady
<1>3. CASE mark[r].wasReserved /\ reserved[p] # r
  BY <1>3 DEF Reservations
<1> QED BY <1>1, <1>2, <1>3 DEF Latch

\* What keeps a request out depends on its own pool only.
LEMMA SamePoolSameRoom ==
  ASSUME NEW r, req'[r] = req[r], used'[PoolOfReq(r)] = used[PoolOfReq(r)],
         \A m \in Models \cup {req[r].model} :
           PoolOf[m] = PoolOfReq(r) => inFlight'[m] = inFlight[m]
  PROVE  /\ Open(r)' <=> Open(r)
         /\ OverBudget(r)' <=> OverBudget(r)
<1>1. PoolOfReq(r)' = PoolOfReq(r) /\ PoolOfReq(r) = PoolOf[req[r].model]
  BY DEF PoolOfReq
<1>2. CapFull(r)' <=> CapFull(r)
  BY <1>1 DEF CapFull
<1>3. ActiveMembers(PoolOfReq(r))' = ActiveMembers(PoolOfReq(r))
  BY <1>1 DEF ActiveMembers
<1>4. ExclusionBlocks(r)' <=> ExclusionBlocks(r)
  BY <1>1, <1>3 DEF ExclusionBlocks
<1>5. OverBudget(r)' <=> OverBudget(r)
  BY <1>1 DEF OverBudget
<1> QED BY <1>2, <1>4, <1>5 DEF Open

\* A release closes no cap, and the mutex of a pool only when none is resident.
LEMMA ReleaseKeepsOpen ==
  ASSUME TypeShape, Ledger, Capacity, NEW s \in Requests, Release(s),
         NEW r \in Waiting, Open(r)
  PROVE  Open(r)'
<1> DEFINE m == req[r].model
           p == PoolOfReq(r)
           n == req[s].model
<1>1. /\ status[s] = "running" /\ Drop(s)
      /\ inFlight' = [inFlight EXCEPT ![n] = Greater(0, inFlight[n] - 1)]
  BY DEF Release
<1>2. /\ n \in Models /\ m \in Models /\ PoolOf[m] = p
      /\ \A k \in Models : inFlight[k] \in Nat /\ Cap[k] \in Nat
  BY <1>1, WaiterPosition, PoolAssumption DEF TypeShape, TypeOK, Shape, Waiter, PoolOfReq
<1>3. r # s /\ req'[r] = req[r]
  BY <1>1 DEF Waiting, Drop, TypeShape, TypeOK
<1>4. \A k \in Models : inFlight'[k] = IF k = n THEN Greater(0, inFlight[k] - 1) ELSE inFlight[k]
  BY <1>1, <1>2 DEF TypeShape, TypeOK
<1> HIDE DEF m, n
<1>5. \A k \in Models : inFlight'[k] \in Nat /\ inFlight'[k] <= inFlight[k]
  BY <1>2, <1>4 DEF Greater
<1>6. ~CapFull(r)'
  <2>1. Cap[m] # 0 => inFlight[m] < Cap[m]
    BY <1>2 DEF Open, CapFull, m
  <2>2. Cap[m] # 0 => ~(inFlight'[m] >= Cap[m])
    BY <1>2, <1>5, <2>1
  <2> QED BY <1>3, <2>2 DEF CapFull, m
<1>7. \A k \in ActiveMembers(p)' : k \in ActiveMembers(p)
  <2>1. p' = p
    BY <1>3 DEF PoolOfReq
  <2>2. \A k \in Models : inFlight'[k] > 0 => inFlight[k] > 0
    BY <1>2, <1>5
  <2> HIDE DEF p
  <2> QED BY <2>1, <2>2 DEF ActiveMembers
<1>8. ASSUME p \in Exclusive, NEW k \in ActiveMembers(p)' PROVE m \in ActiveMembers(p)'
  <2>1. k \in ActiveMembers(p)
    BY <1>7, <1>8
  <2>2. m \in ActiveMembers(p)
    BY <1>8, <2>1 DEF Open, ExclusionBlocks, m
  <2>3. PICK t \in Running : req[t].model = m
    BY <1>2, <2>2, ActiveIsRunning DEF ActiveMembers
  <2>4. PICK u \in Running : req[u].model = k
    BY <1>2, <2>1, ActiveIsRunning DEF ActiveMembers
  <2>5. k = m
    BY <1>2, <1>8, <2>1, <2>3, <2>4 DEF Capacity, PoolOfReq, ActiveMembers
  <2> QED BY <1>8, <2>5
<1>9. ~ExclusionBlocks(r)'
  <2>1. PoolOfReq(r)' = p /\ req'[r].model = m
    BY <1>3 DEF PoolOfReq, m
  <2> QED BY <1>8, <2>1 DEF ExclusionBlocks
<1> QED BY <1>6, <1>9 DEF Open

\* The other requests of the queue keep their order when one is let in.
LEMMA AdmitKeepsHead ==
  ASSUME TypeShape, NEW i \in DOMAIN waiters, PumpAdmit(i),
         NEW j \in DOMAIN waiters, j # i, IsHead(j)
  PROVE  \E k \in DOMAIN waiters' : waiters'[k] = waiters[j] /\ IsHead(k)'
<1>1. waiters' = RemoveAt(waiters, i) /\ UNCHANGED <<req, ceilings, now>>
  BY DEF PumpAdmit
<1>2. PICK k \in DOMAIN waiters' : waiters'[k] = waiters[j]
  BY <1>1, RemoveWaiterFacts
<1>3. ASSUME NEW l \in DOMAIN waiters', l # k, PoolOfReq(waiters'[l]) = PoolOfReq(waiters[j])
      PROVE  Precedes(k, l)'
  <2>1. PICK n \in DOMAIN waiters : waiters'[l] = waiters[n]
    BY <1>1, RemoveWaiterFacts
  <2>2. n # j
    BY <1>1, <1>2, <1>3, <2>1, RemoveWaiterFacts
  <2>3. Precedes(j, n)
    BY <1>3, <2>1, <2>2 DEF IsHead, InPool
  <2>4. j < n => k < l
    <3> SUFFICES ASSUME j < n, ~(k < l) PROVE FALSE
      OBVIOUS
    <3>1. k \in Int /\ l \in Int /\ j \in Int /\ n \in Int
      BY <1>1, RemoveWaiterFacts, WaitersFacts, LenProperties DEF TypeShape
    <3>2. l < k
      BY <1>3, <3>1
    <3>3. PICK a \in DOMAIN waiters, b \in DOMAIN waiters :
            a < b /\ waiters'[l] = waiters[a] /\ waiters'[k] = waiters[b]
      BY <1>1, <3>2, RemoveKeepsOrder
    <3>4. a = n /\ b = j
      BY <1>2, <2>1, <3>3 DEF TypeShape, Shape
    <3> QED BY <3>1, <3>3, <3>4
  <2>5. \A r : EffectivePriority(r)' = EffectivePriority(r)
    BY <1>1 DEF EffectivePriority, Clamped, Ceiling, Aged
  <2> QED BY <1>1, <1>2, <2>1, <2>3, <2>4, <2>5 DEF Precedes
<1>4. IsHead(k)'
  BY <1>1, <1>2, <1>3 DEF IsHead, InPool, PoolOfReq
<1> QED BY <1>2, <1>4

\* An admission of another request of the pool comes after its ready head.
LEMMA ReadyHeadStays ==
  ASSUME TypeShape, NEW i \in DOMAIN waiters, PumpAdmit(i),
         NEW r \in Waiting, r # waiters[i], ReadyHead(r)
  PROVE  /\ PoolOfReq(waiters[i]) # PoolOfReq(r)
         /\ ReadyHead(r)'
<1>1. PICK j \in DOMAIN waiters : waiters[j] = r /\ IsHead(j)
  BY DEF ReadyHead
<1>2. waiters[i] \in Waiting
  BY WaitersFacts DEF TypeShape, Shape, Waiting
<1>3. /\ PoolOfReq(r) \in Pools /\ req[r].model \in Models
      /\ PoolOfReq(waiters[i]) \in Pools /\ req[waiters[i]].model \in Models
  BY <1>2, WaiterPosition
<1>4. PoolOfReq(waiters[i]) # PoolOfReq(r)
  <2> SUFFICES ASSUME PoolOfReq(waiters[i]) = PoolOfReq(r) PROVE FALSE
    OBVIOUS
  <2>1. Precedes(j, i)
    BY <1>1 DEF IsHead, InPool
  <2>2. ~Fits(r, ToReserve(PoolOfReq(r)))
    BY <1>1, <1>3, <2>1 DEF PumpAdmit
  <2> QED BY <2>2, ReadyHeadFits
<1>5. /\ req' = req
      /\ used' = [used EXCEPT ![PoolOfReq(waiters[i])] = @ + req[waiters[i]].cost]
      /\ inFlight' = [inFlight EXCEPT ![req[waiters[i]].model] = @ + 1]
  BY DEF PumpAdmit, PoolOfReq
<1>6. used'[PoolOfReq(r)] = used[PoolOfReq(r)]
  BY <1>3, <1>4, <1>5 DEF TypeShape, TypeOK
<1>7. \A m \in Models : PoolOf[m] = PoolOfReq(r) => inFlight'[m] = inFlight[m]
  BY <1>3, <1>4, <1>5 DEF TypeShape, TypeOK, PoolOfReq
<1>8. Open(r)' /\ ~OverBudget(r)'
  BY <1>3, <1>5, <1>6, <1>7, SamePoolSameRoom DEF ReadyHead
<1>9. \E k \in DOMAIN waiters' : waiters'[k] = r /\ IsHead(k)'
  BY <1>1, AdmitKeepsHead
<1> QED BY <1>4, <1>8, <1>9 DEF ReadyHead

\* A pass reserves for queued requests that only the budget keeps out.
LEMMA ReservedByPass ==
  ASSUME TypeShape, NEW p \in Pools, ToReserve(p) # NoWaiter
  PROVE  /\ ToReserve(p) \in Waiting
         /\ PoolOfReq(ToReserve(p)) = p
         /\ Open(ToReserve(p))
         /\ OverBudget(ToReserve(p))
<1>1. PICK i \in DOMAIN waiters : BlockedHead(p, i) /\ ToReserve(p) = waiters[i]
  BY ToReserveFacts DEF TypeShape
<1>2. waiters[i] \in Waiting
  BY WaitersFacts DEF TypeShape, Shape, Waiting
<1> QED BY <1>1, <1>2 DEF BlockedHead, InPool, Open

\* An admitting pass leaves no reservation in the pool it admits to; a latch it
\* leaves stands for a reservation or for a head that a later pass lets in.
LEMMA ReservationsAdmit ==
  ASSUME TypeShape, Reservations, NEW i \in DOMAIN waiters, PumpAdmit(i)
  PROVE  Reservations'
<1> DEFINE r   == waiters[i]
           rsv == [q \in Pools |-> ToReserve(q)]
<1>1. /\ pumping /\ pumping' = pumping /\ req' = req
      /\ status' = [status EXCEPT ![r] = "running"]
      /\ reserved' = [q \in Pools |-> IF rsv[q] = r THEN NoWaiter ELSE rsv[q]]
      /\ used' = [used EXCEPT ![PoolOfReq(r)] = @ + req[r].cost]
      /\ inFlight' = [inFlight EXCEPT ![req[r].model] = @ + 1]
      /\ mark' = [s \in Requests |->
                    IF s = r THEN [mark[r] EXCEPT !.wasReserved = Latch(r, rsv), !.reason = ReasonFor(r, rsv)]
                    ELSE IF status[s] = "waiting" THEN [mark[s] EXCEPT !.wasReserved = Latch(s, rsv)]
                    ELSE mark[s]]
  BY DEF PumpAdmit, PoolOfReq
<1>2. r \in Waiting /\ r \in Requests
  BY WaitersFacts DEF TypeShape, Shape, Waiting
<1>3. PoolOfReq(r) \in Pools /\ req[r].model \in Models /\ PoolOfReq(r) = PoolOf[req[r].model]
  BY <1>2, WaiterPosition DEF PoolOfReq
<1>4. ToReserve(PoolOfReq(r)) = NoWaiter
  <2>1. Fits(r, ToReserve(PoolOfReq(r)))
    BY <1>3 DEF PumpAdmit
  <2> QED BY <1>2, <2>1, AdmitUnreserved
<1>5. \A q \in Pools : rsv[q] = ToReserve(q) /\ reserved'[q] = ToReserve(q)
  <2> SUFFICES ASSUME NEW q \in Pools, ToReserve(q) = r PROVE FALSE
    BY <1>1
  <2>1. PoolOfReq(r) = q
    BY <1>2, ReservedByPass, WaiterPosition
  <2> QED BY <1>2, <1>4, <2>1, WaiterPosition
<1> HIDE DEF r, rsv
<1>6. Waiting' = Waiting \ {r}
  BY <1>1, <1>2 DEF Waiting, TypeShape, TypeOK
<1>7. \A s \in Waiting' : mark'[s].wasReserved = Latch(s, rsv)
  <2> SUFFICES ASSUME NEW s \in Waiting' PROVE mark'[s].wasReserved = Latch(s, rsv)
    OBVIOUS
  <2>1. s \in Requests /\ s # r /\ status[s] = "waiting" /\ mark[s] \in Mark
    BY <1>6 DEF Waiting, TypeShape, TypeOK
  <2>2. mark'[s] = [mark[s] EXCEPT !.wasReserved = Latch(s, rsv)]
    BY <1>1, <2>1
  <2> QED BY <2>1, <2>2 DEF Mark
<1>8. ASSUME NEW p \in Pools, reserved'[p] # NoWaiter PROVE HeldForWaiter(p)'
  <2>1. PICK h \in Waiting : h = ToReserve(p) /\ h # NoWaiter
    BY <1>5, <1>8, ReservedByPass
  <2>2. reserved'[p] = h /\ rsv[p] = h /\ PoolOfReq(h) = p /\ Open(h)
    BY <1>5, <2>1, ReservedByPass
  <2>3. p # PoolOfReq(r)
    BY <1>4, <2>1
  <2>4. h \in Waiting'
    BY <1>6, <2>2, <2>3
  <2>5. mark'[h].wasReserved
    BY <1>7, <2>1, <2>2, <2>4 DEF Latch
  <2>6. Open(h)'
    <3>1. used'[p] = used[p]
      BY <1>1, <1>3, <2>3 DEF TypeShape, TypeOK
    <3>2. \A m \in Models : PoolOf[m] = p => inFlight'[m] = inFlight[m]
      BY <1>1, <1>3, <2>3 DEF TypeShape, TypeOK
    <3>3. req[h].model \in Models
      BY <2>2, WaiterPosition
    <3> QED BY <1>1, <2>2, <3>1, <3>2, <3>3, SamePoolSameRoom
  <2>7. PoolOfReq(h)' = p
    BY <1>1, <2>2 DEF PoolOfReq
  <2> QED BY <1>1, <2>2, <2>4, <2>5, <2>6, <2>7 DEF HeldForWaiter
<1>9. ASSUME NEW s \in Waiting', mark'[s].wasReserved
      PROVE  reserved'[PoolOf[req'[s].model]] = s \/ (pumping' /\ ReadyHead(s)')
  <2>1. s \in Waiting /\ s # r /\ Latch(s, rsv)
    BY <1>6, <1>7, <1>9
  <2>2. PoolOfReq(s) \in Pools
    BY <2>1, WaiterPosition
  <2>3. CASE ToReserve(PoolOfReq(s)) = s
    BY <1>1, <1>5, <2>2, <2>3 DEF PoolOfReq
  <2>4. CASE ReadyHead(s)
    BY <1>1, <2>1, <2>4, ReadyHeadStays DEF r
  <2> QED BY <1>5, <2>1, <2>2, <2>3, <2>4, LatchMeans
<1>10. \A s \in Requests : status'[s] = "idle" => ~mark'[s].wasReserved
  BY <1>1, <1>2 DEF Reservations, TypeShape, TypeOK
<1> QED BY <1>8, <1>9, <1>10 DEF Reservations, PoolOfReq

\* The pass that parks the queue leaves no latch without a reservation: a ready
\* head would have been let in.
LEMMA ReservationsPark ==
  ASSUME TypeShape, Reservations, PumpPark
  PROVE  Reservations'
<1> DEFINE rsv == [q \in Pools |-> ToReserve(q)]
<1>1. /\ UNCHANGED <<waiters, used, inFlight, status, req>>
      /\ pumping' = FALSE
      /\ reserved' = rsv
      /\ \A i \in DOMAIN waiters : ~Fits(waiters[i], rsv[PoolOfReq(waiters[i])])
      /\ mark' = [s \in Requests |-> IF status[s] = "waiting" THEN Parked(s, rsv) ELSE mark[s]]
  BY DEF PumpPark
<1>2. \A q \in Pools : rsv[q] = ToReserve(q)
  OBVIOUS
<1> HIDE DEF rsv
<1>3. Waiting' = Waiting
  BY <1>1 DEF Waiting
<1>4. \A s \in Waiting : mark'[s].wasReserved = Latch(s, rsv)
  BY <1>1 DEF Waiting, Parked
<1>5. ASSUME NEW p \in Pools, reserved'[p] # NoWaiter PROVE HeldForWaiter(p)'
  <2>1. PICK h \in Waiting : h = rsv[p] /\ PoolOfReq(h) = p /\ Open(h) /\ OverBudget(h)
    BY <1>1, <1>2, <1>5, ReservedByPass
  <2>2. mark'[h].wasReserved
    BY <1>4, <2>1 DEF Latch
  <2>3. reserved'[p] = h
    BY <1>1, <2>1
  <2>4. PoolOfReq(h)' = p /\ Open(h)' /\ OverBudget(h)'
    BY <1>1, <2>1 DEF PoolOfReq, Open, OverBudget, CapFull, ExclusionBlocks, ActiveMembers
  <2> QED BY <1>3, <2>1, <2>2, <2>3, <2>4 DEF HeldForWaiter
<1>6. ASSUME NEW s \in Waiting', mark'[s].wasReserved
      PROVE  reserved'[PoolOf[req'[s].model]] = s
  <2>1. s \in Waiting /\ Latch(s, rsv)
    BY <1>3, <1>4, <1>6
  <2>2. PoolOfReq(s) \in Pools /\ \E i \in DOMAIN waiters : waiters[i] = s
    BY <2>1, WaiterPosition
  <2>3. CASE ToReserve(PoolOfReq(s)) = s
    BY <1>1, <1>2, <2>2, <2>3 DEF PoolOfReq
  <2>4. CASE ReadyHead(s)
    BY <1>1, <1>2, <2>1, <2>2, <2>4, ReadyHeadFits
  <2> QED BY <1>2, <2>1, <2>2, <2>3, <2>4, LatchMeans
<1>7. \A s \in Requests : status'[s] = "idle" => ~mark'[s].wasReserved
  BY <1>1 DEF Reservations
<1> QED BY <1>5, <1>6, <1>7 DEF Reservations, PoolOfReq

\* Steps that leave the queue, the ledger and the reservations alone.
LEMMA ReservationsQuiet ==
  ASSUME TypeShape, Reservations,
         UNCHANGED <<waiters, used, inFlight, reserved, pumping>>, ~pumping,
         Waiting' = Waiting,
         \A r \in Waiting : req'[r] = req[r],
         \A r \in Requests : mark'[r].wasReserved => mark[r].wasReserved,
         \A r \in Waiting : mark'[r].wasReserved = mark[r].wasReserved,
         \A r \in Requests : status'[r] = "idle" => status[r] = "idle" \/ ~mark'[r].wasReserved
  PROVE  Reservations'
<1>1. ASSUME NEW p \in Pools, reserved'[p] # NoWaiter PROVE HeldForWaiter(p)'
  <2>1. HeldForWaiter(p)
    BY <1>1 DEF Reservations
  <2>2. PICK h \in Waiting : h = reserved[p]
    BY <2>1 DEF HeldForWaiter
  <2>3. req'[h] = req[h]
    BY <2>2
  <2>4. /\ PoolOfReq(h)' = PoolOfReq(h)
        /\ Open(h)' <=> Open(h)
        /\ OverBudget(h)' <=> OverBudget(h)
    BY <2>3, SamePoolSameRoom DEF PoolOfReq
  <2> QED BY <2>1, <2>2, <2>4 DEF HeldForWaiter
<1>2. ASSUME NEW r \in Waiting', mark'[r].wasReserved
      PROVE  reserved'[PoolOf[req'[r].model]] = r
  BY <1>2 DEF Reservations, PoolOfReq
<1>3. \A r \in Requests : status'[r] = "idle" => ~mark'[r].wasReserved
  BY DEF Reservations
<1> QED BY <1>1, <1>2, <1>3 DEF Reservations, PoolOfReq

\* A handler that makes pump run: reservations may be given up but none is made,
\* and what still holds one was not closed to it.
LEMMA ReservationsHandled ==
  ASSUME TypeShape, Reservations, ~pumping, pumping',
         \A p \in Pools : reserved'[p] \in {NoWaiter, reserved[p]},
         \A p \in Pools : reserved'[p] # NoWaiter =>
           reserved[p] \in Waiting' /\ req'[reserved[p]] = req[reserved[p]],
         \A h \in Waiting : h \in Waiting' /\ Open(h) => Open(h)',
         \A r \in Waiting \cap Waiting' :
           /\ req'[r] = req[r] /\ mark'[r].wasReserved = mark[r].wasReserved
           /\ reserved[PoolOfReq(r)] = r => reserved'[PoolOfReq(r)] = r,
         \A r \in Waiting' \ Waiting : ~mark'[r].wasReserved,
         \A r \in Requests : status'[r] = "idle" => ~mark'[r].wasReserved
  PROVE  Reservations'
<1>1. ASSUME NEW p \in Pools, reserved'[p] # NoWaiter PROVE HeldForWaiter(p)'
  <2>1. reserved'[p] = reserved[p] /\ HeldForWaiter(p)
    BY <1>1 DEF Reservations
  <2>2. PICK h \in Waiting : h = reserved[p] /\ h \in Waiting'
    BY <1>1, <2>1 DEF HeldForWaiter
  <2>3. PoolOfReq(h) = p /\ Open(h) /\ mark[h].wasReserved
    BY <2>1, <2>2 DEF HeldForWaiter
  <2>4. PoolOfReq(h)' = p /\ Open(h)' /\ mark'[h].wasReserved
    BY <2>2, <2>3 DEF PoolOfReq
  <2> QED BY <2>1, <2>2, <2>4 DEF HeldForWaiter
<1>2. ASSUME NEW r \in Waiting', mark'[r].wasReserved
      PROVE  reserved'[PoolOf[req'[r].model]] = r
  BY <1>2 DEF Reservations, PoolOfReq
<1> QED BY <1>1, <1>2 DEF Reservations, PoolOfReq

\* Reservations are kept honest by every action.
LEMMA ReservationsStep ==
  TypeShape /\ Ledger /\ Capacity /\ Reservations /\ [Next]_vars => Reservations'
<1> SUFFICES ASSUME TypeShape, Ledger, Capacity, Reservations, [Next]_vars
             PROVE  Reservations'
  OBVIOUS
<1>0. ASSUME NEW r, req'[r] = req[r], UNCHANGED inFlight, Open(r) PROVE Open(r)'
  BY <1>0 DEF Open, CapFull, ExclusionBlocks, ActiveMembers, PoolOfReq
<1>1. ASSUME NEW r \in Requests, NEW w \in Arrivals, Enqueue(r, w) PROVE Reservations'
  <2>1. /\ ~pumping /\ status[r] = "idle" /\ req' = [req EXCEPT ![r] = w]
        /\ UNCHANGED <<used, inFlight, reserved>>
        /\ r \notin Waiting /\ ~mark[r].wasReserved
    BY <1>1 DEF Enqueue, Waiting, Reservations
  <2>2. \A s \in Waiting : s # r /\ req'[s] = req[s]
    BY <2>1 DEF TypeShape, TypeOK, Waiting
  <2>3. CASE /\ status' = [status EXCEPT ![r] = "waiting"]
             /\ pumping' = TRUE
             /\ UNCHANGED mark
    <3>1. Waiting' = Waiting \cup {r}
      BY <2>1, <2>3 DEF Waiting, TypeShape, TypeOK
    <3>2. \A p \in Pools : reserved[p] # NoWaiter => reserved[p] \in Waiting
      BY DEF Reservations, HeldForWaiter
    <3>3. \A s \in Requests : status'[s] = "idle" => ~mark'[s].wasReserved
      BY <2>3 DEF Reservations, TypeShape, TypeOK
    <3>4. \A h \in Waiting : Open(h) => Open(h)'
      BY <1>0, <2>1, <2>2
    <3> QED BY <2>1, <2>2, <2>3, <3>1, <3>2, <3>3, <3>4, ReservationsHandled
  <2>4. CASE /\ status' = [status EXCEPT ![r] = "rejected"]
             /\ mark' = [mark EXCEPT ![r].reason = "cost_exceeds_pool_budget"]
             /\ UNCHANGED <<waiters, pumping>>
    <3>1. Waiting' = Waiting
      BY <2>1, <2>4 DEF Waiting, TypeShape, TypeOK
    <3>2. \A s \in Requests : mark'[s].wasReserved = mark[s].wasReserved
      BY <2>4 DEF TypeShape, TypeOK, Mark
    <3>3. \A s \in Requests : status'[s] = "idle" => status[s] = "idle"
      BY <2>4 DEF TypeShape, TypeOK
    <3> QED BY <2>1, <2>2, <2>4, <3>1, <3>2, <3>3, ReservationsQuiet DEF Waiting
  <2> QED BY <1>1, <2>3, <2>4 DEF Enqueue, StartPump
<1>2. ASSUME NEW r \in Requests, Drop(r)
      PROVE  /\ Waiting' = Waiting \ {r}
             /\ \A s \in Waiting' : req'[s] = req[s] /\ mark'[s] = mark[s]
             /\ ~mark'[r].wasReserved
             /\ \A s \in Requests \ {r} : mark'[s] = mark[s] /\ status'[s] = status[s]
             /\ \A s \in Requests : status'[s] = "idle" => ~mark'[s].wasReserved
  <2>1. ~Fresh.wasReserved
    BY DEF Fresh
  <2>2. Waiting' = Waiting \ {r}
    BY <1>2 DEF Drop, Waiting, TypeShape, TypeOK
  <2>3. mark'[r] = Fresh /\ \A s \in Requests \ {r} : mark'[s] = mark[s] /\ status'[s] = status[s] /\ req'[s] = req[s]
    BY <1>2 DEF Drop, TypeShape, TypeOK
  <2> QED BY <2>1, <2>2, <2>3 DEF Reservations, Waiting
<1>3. ASSUME NEW r \in Requests, Forget(r) PROVE Reservations'
  <2>1. /\ ~pumping /\ Drop(r) /\ r \notin Waiting
        /\ UNCHANGED <<waiters, used, inFlight, reserved, pumping>>
    BY <1>3 DEF Forget, Waiting
  <2> QED BY <1>2, <2>1, ReservationsQuiet DEF Waiting
<1>4. ASSUME NEW r \in Requests, Release(r) PROVE Reservations'
  <2>1. /\ ~pumping /\ pumping' = TRUE /\ Drop(r) /\ r \notin Waiting
        /\ reserved' = reserved
    BY <1>4 DEF Release, Waiting, StartPump
  <2>2. \A h \in Waiting : Open(h) => Open(h)'
    BY <1>4, ReleaseKeepsOpen
  <2>3. \A p \in Pools : reserved[p] # NoWaiter => reserved[p] \in Waiting
    BY DEF Reservations, HeldForWaiter
  <2> QED BY <1>2, <2>1, <2>2, <2>3, ReservationsHandled
<1>5. ASSUME NEW i \in DOMAIN waiters, Withdraw(i) PROVE Reservations'
  <2>1. PICK r \in Waiting : r = waiters[i]
    BY WaitersFacts DEF TypeShape, Shape, Waiting
  <2>2. /\ ~pumping /\ pumping' = TRUE /\ Drop(r) /\ r \in Requests
        /\ reserved' = IF reserved[PoolOfReq(r)] = r
                       THEN [reserved EXCEPT ![PoolOfReq(r)] = NoWaiter] ELSE reserved
        /\ UNCHANGED inFlight
    BY <1>5, <2>1 DEF Withdraw, StartPump, Waiting
  <2>3. \A p \in Pools : reserved[p] # NoWaiter => reserved[p] \in Waiting /\ PoolOfReq(reserved[p]) = p
    BY DEF Reservations, HeldForWaiter
  <2>4. \A p \in Pools :
          /\ reserved'[p] \in {NoWaiter, reserved[p]}
          /\ reserved'[p] # NoWaiter => reserved[p] # r
          /\ reserved[p] # r => reserved'[p] = reserved[p]
    BY <2>1, <2>2, <2>3, WaiterPosition DEF TypeShape, TypeOK
  <2>5. Waiting' = Waiting \ {r} /\ \A s \in Waiting' : req'[s] = req[s]
    BY <1>2, <2>2
  <2>6. \A h \in Waiting : h \in Waiting' /\ Open(h) => Open(h)'
    BY <1>0, <2>2, <2>5
  <2>7. \A s \in Waiting \cap Waiting' : reserved[PoolOfReq(s)] = s => reserved'[PoolOfReq(s)] = s
    <3> SUFFICES ASSUME NEW s \in Waiting, s \in Waiting', reserved[PoolOfReq(s)] = s
                 PROVE  reserved'[PoolOfReq(s)] = s
      OBVIOUS
    <3>1. s # r /\ PoolOfReq(s) \in Pools
      BY <2>5, WaiterPosition
    <3> QED BY <2>4, <3>1
  <2>8. /\ \A s \in Waiting \cap Waiting' : req'[s] = req[s] /\ mark'[s].wasReserved = mark[s].wasReserved
        /\ \A s \in Requests : status'[s] = "idle" => ~mark'[s].wasReserved
        /\ Waiting' \ Waiting = {}
    BY <1>2, <2>2, <2>5
  <2>9. \A p \in Pools : reserved'[p] # NoWaiter =>
          reserved[p] \in Waiting' /\ req'[reserved[p]] = req[reserved[p]]
    <3> SUFFICES ASSUME NEW p \in Pools, reserved'[p] # NoWaiter
                 PROVE  reserved[p] \in Waiting' /\ req'[reserved[p]] = req[reserved[p]]
      OBVIOUS
    <3>1. reserved[p] # r /\ reserved[p] # NoWaiter
      BY <2>4
    <3>2. reserved[p] \in Waiting'
      BY <2>3, <2>5, <3>1
    <3> QED BY <2>5, <3>2
  <2> QED BY <2>2, <2>4, <2>6, <2>7, <2>8, <2>9, ReservationsHandled
<1>6. CASE PumpEmpty
  <2>1. /\ waiters = <<>> /\ reserved' = [p \in Pools |-> NoWaiter]
        /\ UNCHANGED <<status, mark>>
    BY <1>6 DEF PumpEmpty
  <2>2. Waiting' = {}
    BY <2>1 DEF TypeShape, Shape, Waiting
  <2> QED BY <2>1, <2>2 DEF Reservations
<1>7. CASE UNCHANGED <<waiters, used, inFlight, reserved, pumping, status, req, mark>> /\ ~pumping
  BY <1>7, ReservationsQuiet DEF Waiting
<1>8. CASE UNCHANGED vars
  <2>1. \A i : IsHead(i)' <=> IsHead(i)
    BY <1>8 DEF vars, IsHead, InPool, Precedes, EffectivePriority, Clamped, Ceiling, Aged, PoolOfReq
  <2>2. \A r : ReadyHead(r)' <=> ReadyHead(r)
    BY <1>8, <2>1 DEF vars, ReadyHead, Open, CapFull, ExclusionBlocks, OverBudget, ActiveMembers, PoolOfReq
  <2>3. \A p : HeldForWaiter(p)' <=> HeldForWaiter(p)
    BY <1>8 DEF vars, HeldForWaiter, Waiting, Open, CapFull, ExclusionBlocks, OverBudget, ActiveMembers, PoolOfReq
  <2> QED BY <1>8, <2>2, <2>3 DEF vars, Reservations, Waiting, PoolOfReq
<1> QED BY <1>1, <1>3, <1>4, <1>5, <1>6, <1>7, <1>8, ReservationsAdmit, ReservationsPark
        DEF Next, Pump, RefreshCeilings, Tick

\* A reservation is always for a request that still waits and that only the
\* budget keeps out, and nobody is told it was reserved who is not: pump may be
\* started by any handler and take any number of passes.
THEOREM ReservationsHonest == Spec => []ReservationSound
<1>1. Init => Reservations
  BY DEF Init, Reservations, Waiting, Fresh
<1>2. TypeShape /\ Reservations => ReservationSound
  <2> SUFFICES ASSUME TypeShape, Reservations, ~pumping PROVE ReservationSound
    BY DEF ReservationSound
  <2>1. \A r \in Waiting : PoolOfReq(r) \in Pools /\ r # NoWaiter
    BY WaiterPosition
  <2> QED BY <2>1 DEF Reservations, ReservationSound, HeldForWaiter, Open
<1> QED BY <1>1, <1>2, TypeShapeInit, TypeShapeStep, LedgerInit, LedgerStep,
           CapacityInit, CapacityStep, ReservationsStep, PTL DEF Spec

-----------------------------------------------------------------------------
(***************************************************************************)
(* Refinement.  Every handler and every pass is a step of PoolAdmission or *)
(* leaves what the callers see unchanged.                                  *)
(***************************************************************************)
JobOf == [r \in Requests |->
            IF r \in Waiting \cup Running
            THEN [model |-> req[r].model, cost |-> req[r].cost]
            ELSE NoWaiter]

\* What an admission relies on: the runs leave room for the request.
LEMMA AdmitHasRoom ==
  ASSUME TypeShape, Ledger, Capacity, NEW r \in Waiting, Fits(r, ToReserve(PoolOfReq(r)))
  PROVE  Callers!Room([model |-> req[r].model, cost |-> req[r].cost])
<1> DEFINE m == req[r].model
           p == PoolOf[m]
<1>0. m \in Models /\ p \in Pools /\ PoolOfReq(r) = p /\ req[r].cost \in Nat
  BY WaiterPosition DEF PoolOfReq
<1>1. \A S : Callers!Cardinality(S) = Cardinality(S)
  BY DEF Callers!Cardinality, Cardinality
<1>2. Cap[m] # 0 => Cardinality(RunsOf(m)) < Cap[m]
  <2>1. inFlight[m] = Cardinality(RunsOf(m)) /\ inFlight[m] \in Nat /\ Cap[m] \in Nat
    BY <1>0, PoolAssumption DEF Ledger, TypeShape, TypeOK
  <2> QED BY <2>1 DEF Fits, CapFull
<1>3. Cardinality(Held(p)) + req[r].cost <= Budget[p]
  BY <1>0, FitsBudget DEF Ledger
<1>4. p \in Exclusive => RunsIn(p) = RunsOf(m)
  <2> SUFFICES ASSUME p \in Exclusive PROVE RunsIn(p) = RunsOf(m)
    OBVIOUS
  <2>1. RunsOf(m) \subseteq RunsIn(p)
    BY DEF RunsOf, RunsIn, PoolOfReq
  <2>2. ASSUME NEW s \in RunsIn(p) PROVE req[s].model = m
    <3>1. s \in Running /\ req[s].model \in Models /\ PoolOf[req[s].model] = p
      BY DEF TypeShape, Shape, Running, Waiter, RunsIn, PoolOfReq
    <3>2. inFlight[req[s].model] > 0
      BY <3>1, ActiveIsRunning
    <3>3. m \in ActiveMembers(p)
      BY <1>0, <3>1, <3>2 DEF Fits, ExclusionBlocks, ActiveMembers
    <3>4. PICK t \in Running : req[t].model = m
      BY <1>0, <3>3, ActiveIsRunning DEF ActiveMembers
    <3> QED BY <3>1, <3>4 DEF Capacity, PoolOfReq
  <2> QED BY <2>1, <2>2 DEF RunsOf, RunsIn
<1> QED BY <1>1, <1>2, <1>3, <1>4, CallersFacts DEF Callers!Room

\* The initial states map to the abstract initial state.
LEMMA RefinementInit == Init => Callers!AInit
<1> SUFFICES ASSUME Init PROVE Callers!AInit
  OBVIOUS
<1>1. Waiting = {} /\ Running = {}
  BY DEF Init, Waiting, Running
<1> QED BY <1>1 DEF Callers!AInit

\* Every step maps to an abstract step or to a stutter.
LEMMA RefinementStep ==
  TypeShape /\ TypeShape' /\ Ledger /\ Capacity /\ [Next]_vars => [Callers!ANext]_Callers!avars
<1> SUFFICES ASSUME TypeShape, TypeShape', Ledger, Capacity, [Next]_vars
             PROVE  [Callers!ANext]_Callers!avars
  OBVIOUS
<1> USE DEF TypeShape
<1>0. ASSUME Waiting' = Waiting, Running' = Running,
             \A s \in Waiting \cup Running : req'[s] = req[s]
      PROVE  UNCHANGED Callers!avars
  <2>1. JobOf' = JobOf
    BY <1>0 DEF JobOf
  <2> QED BY <1>0, <2>1 DEF Callers!avars, JobOf
<1>1. ASSUME NEW r \in Requests, NEW w \in Arrivals, Enqueue(r, w)
      PROVE  [Callers!ANext]_Callers!avars
  <2>1. r \notin Waiting \cup Running /\ req' = [req EXCEPT ![r] = w]
        /\ w \in Waiter /\ w.model \in Models /\ w.cost \in Nat
    BY <1>1, ArrivalIsWaiter DEF Enqueue, Waiting, Running, Waiter
  <2>2. req'[r] = w /\ \A s \in Waiting \cup Running : req'[s] = req[s]
    BY <2>1 DEF TypeOK, Waiting, Running
  <2>3. CASE status' = [status EXCEPT ![r] = "waiting"] /\ CostFitsPool(w.model, w.cost)
    <3>1. Waiting' = Waiting \cup {r} /\ Running' = Running
      BY <2>1, <2>3 DEF Waiting, Running, TypeOK
    <3>2. w.cost \in 0 .. Budget[PoolOf[w.model]]
      BY <2>1, <2>3, PoolAssumption DEF CostFitsPool
    <3>3. JobOf' = [JobOf EXCEPT ![r] = [model |-> w.model, cost |-> w.cost]]
      BY <2>1, <2>2, <3>1 DEF JobOf
    <3>4. Callers!Ask(r, w.model, w.cost)
      BY <2>1, <3>1, <3>3 DEF Callers!Ask, JobOf
    <3> QED BY <2>1, <3>2, <3>4 DEF Callers!ANext
  <2>4. CASE status' = [status EXCEPT ![r] = "rejected"]
    <3>1. Waiting' = Waiting /\ Running' = Running
      BY <2>1, <2>4 DEF Waiting, Running, TypeOK
    <3> QED BY <1>0, <2>2, <3>1
  <2> QED BY <1>1, <2>3, <2>4 DEF Enqueue
<1>2. ASSUME NEW r \in Requests, Forget(r) PROVE [Callers!ANext]_Callers!avars
  <2>1. Waiting' = Waiting /\ Running' = Running /\ r \notin Waiting \cup Running
    BY <1>2 DEF Forget, Drop, Waiting, Running, TypeOK
  <2>2. \A s \in Waiting \cup Running : req'[s] = req[s]
    BY <1>2, <2>1 DEF Forget, Drop, TypeOK, Waiting, Running
  <2> QED BY <1>0, <2>1, <2>2
<1>3. ASSUME NEW r \in Requests, Release(r) PROVE [Callers!ANext]_Callers!avars
  <2>1. r \in Running /\ Running' = Running \ {r} /\ Waiting' = Waiting /\ r \notin Waiting
    BY <1>3 DEF Release, Drop, Waiting, Running, TypeOK
  <2>2. \A s \in (Waiting \cup Running) \ {r} : req'[s] = req[s]
    BY <1>3 DEF Release, Drop, TypeOK, Waiting, Running
  <2>3. JobOf' = [JobOf EXCEPT ![r] = NoWaiter]
    BY <2>1, <2>2 DEF JobOf
  <2>4. Callers!Finish(r)
    BY <2>1, <2>3 DEF Callers!Finish, JobOf
  <2> QED BY <2>4 DEF Callers!ANext
<1>4. ASSUME NEW i \in DOMAIN waiters, Withdraw(i) PROVE [Callers!ANext]_Callers!avars
  <2>0. PICK r \in Requests : r \in Waiting /\ Drop(r)
    BY <1>4, WaitersFacts DEF Withdraw, Shape, Waiting
  <2>1. Waiting' = Waiting \ {r} /\ Running' = Running /\ r \notin Running
    BY <2>0 DEF Drop, Waiting, Running, TypeOK
  <2>2. \A s \in (Waiting \cup Running) \ {r} : req'[s] = req[s]
    BY <2>0 DEF Drop, TypeOK, Waiting, Running
  <2>3. JobOf' = [JobOf EXCEPT ![r] = NoWaiter]
    BY <2>0, <2>1, <2>2 DEF JobOf
  <2>4. Callers!Leave(r)
    BY <2>0, <2>1, <2>3 DEF Callers!Leave, JobOf
  <2> QED BY <2>4 DEF Callers!ANext
<1>5. ASSUME NEW i \in DOMAIN waiters, PumpAdmit(i) PROVE [Callers!ANext]_Callers!avars
  <2> DEFINE r == waiters[i]
  <2>0. r \in Requests /\ r \in Waiting
    BY WaitersFacts DEF Shape, Waiting
  <2>1. PoolOfReq(r) \in Pools /\ PoolOfReq(r) = PoolOf[req[r].model]
    BY <2>0, WaiterPosition DEF PoolOfReq
  <2>2. Fits(r, ToReserve(PoolOfReq(r))) /\ req' = req /\ status' = [status EXCEPT ![r] = "running"]
    BY <1>5, <2>1 DEF PumpAdmit
  <2> HIDE DEF r
  <2>3. Waiting' = Waiting \ {r} /\ Running' = Running \cup {r}
    BY <2>0, <2>2 DEF Waiting, Running, TypeOK
  <2>4. JobOf' = JobOf
    BY <2>0, <2>2, <2>3 DEF JobOf
  <2>5. Callers!Room(JobOf[r])
    BY <2>0, <2>2, AdmitHasRoom DEF JobOf
  <2>6. Callers!Grant(r)
    BY <2>0, <2>3, <2>4, <2>5 DEF Callers!Grant, JobOf
  <2> QED BY <2>0, <2>6 DEF Callers!ANext
<1>6. CASE UNCHANGED <<status, req>>
  BY <1>0, <1>6 DEF Waiting, Running
<1> QED BY <1>1, <1>2, <1>3, <1>4, <1>5, <1>6
        DEF Next, Pump, PumpPark, PumpEmpty, RefreshCeilings, Tick, vars

\* The scheduler implements the abstract admission control: whoever it lets in
\* has room among the requests that really run, and whoever ends gives back all.
THEOREM Implementation == Spec => ImplementsPoolAdmission
<1>1. Spec => [](TypeShape /\ Ledger /\ Capacity)
  BY TypeShapeInit, TypeShapeStep, LedgerInit, LedgerStep, CapacityInit, CapacityStep, PTL DEF Spec
<1> QED BY <1>1, RefinementInit, RefinementStep, PTL
        DEF Spec, ImplementsPoolAdmission, Callers!ASpec
=============================================================================
