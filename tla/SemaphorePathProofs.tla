------------------------ MODULE SemaphorePathProofs ------------------------
(***************************************************************************)
(* Proofs about SemaphorePath, for any set of requests, finite or not, and *)
(* any cap: slots are neither leaked nor given back twice, a cancelled     *)
(* request is never sent, and the path admits as PoolAdmission allows.     *)
(***************************************************************************)
EXTENDS SemaphorePath, CollectionFacts

-----------------------------------------------------------------------------
(***************************************************************************)
(* The inductive invariant: what a request's handler does determines which *)
(* states its task can be in, and the waiters of the semaphore are exactly *)
(* the tasks that wait in it, each once.                                   *)
(***************************************************************************)
InSemaphore == {"parked", "woken", "parkedCut", "wokenCut"}

Fits(c, t) ==
  /\ c.phase = "idle"        => t = "none" /\ ~c.cancelled
  /\ c.phase = "waiting"     => t \in {"new", "parked", "woken", "got"}
  /\ c.phase = "withdrawing" => t \in {"newCut", "parkedCut", "wokenCut", "gone"}
  /\ c.phase = "running"     => t = "got" /\ ~c.cancelled
  /\ c.phase = "done"        => t \in {"got", "gone"}

\* The requests whose task waits in the semaphore, each once.
AreWaiters(list, tasks) ==
  /\ \A i \in DOMAIN list : tasks[list[i]] \in InSemaphore
  /\ \A i, j \in DOMAIN list : list[i] = list[j] => i = j
  /\ \A r \in Requests : tasks[r] \in InSemaphore => \E i \in DOMAIN list : list[i] = r

\* The requests whose slot was given and not yet taken up, and those that have one.
GivenIn(tasks) == {r \in Requests : tasks[r] \in {"woken", "wokenCut"}}
HeldIn(calls, tasks) ==
  {r \in Requests : tasks[r] = "got" /\ calls[r].phase \in {"waiting", "withdrawing", "running"}}

\* Calls, free slots, waiters and tasks that go together.
Consistent(calls, value, list, tasks) ==
  /\ calls \in [Requests -> Call] /\ value \in Nat
  /\ list \in Seq(Requests) /\ tasks \in [Requests -> TaskStates]
  /\ \A r \in Requests : Fits(calls[r], tasks[r])
  /\ AreWaiters(list, tasks)
  /\ Cap = value + Cardinality(GivenIn(tasks)) + Cardinality(HeldIn(calls, tasks))

\* The requests that the proxy knows of are finitely many at any time.
Active == {r \in Requests : call[r].phase # "idle"}

Counted ==
  metrics = [inFlight   |-> Cardinality(InPhase({"running"})),
             queueDepth |-> Cardinality(InPhase({"waiting"}))]

SInv ==
  /\ sem = [value |-> sem.value, waiters |-> sem.waiters]
  /\ Consistent(call, sem.value, sem.waiters, task)
  /\ IsFiniteSet(Active) /\ Counted

-----------------------------------------------------------------------------
(***************************************************************************)
(* The semaphore.                                                          *)
(***************************************************************************)

\* Waking up gives at most the free slots away, to tasks that wait, and changes
\* nothing else: the slots that are free or given stay as many.
LEMMA WakeUpFacts ==
  ASSUME NEW value \in Nat, NEW list \in Seq(Requests), NEW n \in Nat,
         NEW tasks \in [Requests -> TaskStates], WakeUp(value, list, n, tasks),
         IsFiniteSet(GivenIn(tasks))
  PROVE  /\ task' \in [Requests -> TaskStates]
         /\ \A r \in Requests : \/ task'[r] = tasks[r]
                                \/ tasks[r] = "parked" /\ task'[r] = "woken"
         /\ sem' = [value |-> sem'.value, waiters |-> list]
         /\ sem'.value \in Nat
         /\ sem'.value + Cardinality(GivenIn(task')) = value + Cardinality(GivenIn(tasks))
<1> DEFINE asking == {i \in DOMAIN list : tasks[list[i]] = "parked"}
           chosen == {j \in asking : /\ Cardinality({k \in asking : k <= j}) <= n
                                     /\ Cardinality({k \in asking : k <= j}) <= value}
           lucky  == {list[i] : i \in chosen}
<1>1. /\ sem' = [value |-> value - Cardinality(lucky), waiters |-> list]
      /\ task' = [r \in Requests |-> IF r \in lucky THEN "woken" ELSE tasks[r]]
  BY DEF WakeUp
<1>2. IsFiniteSet(lucky) /\ Cardinality(lucky) \in Nat /\ Cardinality(lucky) <= value
  <2>1. Len(list) \in Nat /\ DOMAIN list = 1 .. Len(list)
    BY LenProperties
  <2>2. IsFiniteSet(asking) /\ asking \in SUBSET Nat /\ asking \in SUBSET (DOMAIN list)
    <3>1. IsFiniteSet(1 .. Len(list))
      BY <2>1, FS_Interval
    <3>2. asking \in SUBSET (1 .. Len(list))
      BY <2>1
    <3>3. asking \in SUBSET Nat /\ asking \in SUBSET (DOMAIN list)
      BY <2>1
    <3> HIDE DEF asking
    <3>4. IsFiniteSet(asking)
      BY <3>1, <3>2, FS_Subset, Zenon
    <3> QED BY <3>3, <3>4
  <2>3. IsFiniteSet(chosen) /\ Cardinality(chosen) \in Nat /\ Cardinality(chosen) <= value
    <3> HIDE DEF asking
    <3>1. chosen \in SUBSET asking
      OBVIOUS
    <3>2. \A i \in chosen : Cardinality({k \in asking : k <= i}) <= value
      OBVIOUS
    <3> HIDE DEF chosen
    <3> QED BY <2>2, <3>1, <3>2, RankedFew, Zenon
  <2>4. chosen \in SUBSET (DOMAIN list)
    OBVIOUS
  <2> HIDE DEF asking, chosen
  <2>5. IsFiniteSet(lucky) /\ Cardinality(lucky) \in Nat /\ Cardinality(lucky) <= Cardinality(chosen)
    BY <2>3, <2>4, ItemsFew, Zenon
  <2> QED BY <2>3, <2>5
<1>3. \A r \in lucky : r \in Requests /\ tasks[r] = "parked"
  <2>1. \A i \in DOMAIN list : list[i] \in Requests
    OBVIOUS
  <2> QED BY <2>1
<1> HIDE DEF lucky
<1>4. task' \in [Requests -> TaskStates]
  BY <1>1 DEF TaskStates
<1>5. \A r \in Requests : IF r \in lucky THEN task'[r] = "woken" /\ tasks[r] = "parked"
                                         ELSE task'[r] = tasks[r]
  BY <1>1, <1>3
<1>6. GivenIn(task') = GivenIn(tasks) \cup lucky /\ GivenIn(tasks) \cap lucky = {}
  BY <1>3, <1>5 DEF GivenIn
<1>7. Cardinality(GivenIn(task')) = Cardinality(GivenIn(tasks)) + Cardinality(lucky)
  BY <1>2, <1>6, DisjointSizes, Zenon
<1>8. Cardinality(GivenIn(tasks)) \in Nat
  BY FS_CardinalityType
<1>9. /\ sem' = [value |-> sem'.value, waiters |-> list]
      /\ sem'.value \in Nat
      /\ sem'.value + Cardinality(GivenIn(task')) = value + Cardinality(GivenIn(tasks))
  BY <1>1, <1>2, <1>7, <1>8
<1> QED BY <1>4, <1>5, <1>9

-----------------------------------------------------------------------------
(***************************************************************************)
(* Counting the requests of a phase.                                       *)
(***************************************************************************)

\* The sets that are counted are finite.
LEMMA FiniteParts ==
  ASSUME IsFiniteSet(Active)
  PROVE  /\ IsFiniteSet(InPhase({"running"})) /\ Cardinality(InPhase({"running"})) \in Nat
         /\ IsFiniteSet(InPhase({"waiting"})) /\ Cardinality(InPhase({"waiting"})) \in Nat
<1>1. InPhase({"running"}) \in SUBSET Active /\ InPhase({"waiting"}) \in SUBSET Active
  BY DEF InPhase, Active
<1> QED BY <1>1, FS_Subset, FS_CardinalityType

LEMMA FiniteSlots ==
  ASSUME IsFiniteSet(Active), NEW tasks, \A r \in Requests : Fits(call[r], tasks[r])
  PROVE  /\ IsFiniteSet(GivenIn(tasks)) /\ Cardinality(GivenIn(tasks)) \in Nat
         /\ IsFiniteSet(HeldIn(call, tasks)) /\ Cardinality(HeldIn(call, tasks)) \in Nat
<1>1. GivenIn(tasks) \in SUBSET Active /\ HeldIn(call, tasks) \in SUBSET Active
  BY DEF GivenIn, HeldIn, Active, Fits
<1> QED BY <1>1, FS_Subset, FS_CardinalityType

\* One request goes on to another phase.
LEMMA PhaseMoves ==
  ASSUME SInv, NEW r \in Requests, call' \in [Requests -> Call],
         \A s \in Requests \ {r} : call'[s] = call[s],
         NEW phase \in {"waiting", "running"}
  PROVE  /\ IsFiniteSet(Active')
         /\ Cardinality(InPhase({phase})') =
              Cardinality(InPhase({phase}))
                + (IF call'[r].phase = phase THEN 1 ELSE 0) - (IF call[r].phase = phase THEN 1 ELSE 0)
<1>1. Active' \in SUBSET (Active \cup {r}) /\ IsFiniteSet(Active \cup {r})
  BY FS_AddElement DEF SInv, Active
<1>2. IsFiniteSet(Active')
  BY <1>1, FS_Subset
<1> DEFINE A == InPhase({phase})
<1>3. IsFiniteSet(A) /\ Cardinality(A) \in Nat
  BY FiniteParts DEF SInv
<1>4. r \in A <=> call[r].phase = phase
  BY DEF InPhase
<1>5. A' = IF call'[r].phase = phase THEN A \cup {r} ELSE A \ {r}
  BY DEF InPhase
<1> HIDE DEF A
<1>6. CASE call'[r].phase = phase
  <2>1. Cardinality(A') = IF r \in A THEN Cardinality(A) ELSE Cardinality(A) + 1
    BY <1>3, <1>5, <1>6, FS_AddElement
  <2> QED BY <1>2, <1>3, <1>4, <1>6, <2>1 DEF A
<1>7. CASE call'[r].phase # phase
  <2>1. Cardinality(A') = IF r \in A THEN Cardinality(A) - 1 ELSE Cardinality(A)
    BY <1>3, <1>5, <1>7, FS_RemoveElement
  <2> QED BY <1>2, <1>3, <1>4, <1>7, <2>1 DEF A
<1> QED BY <1>6, <1>7

\* The counters follow a request that goes on to another phase.
LEMMA CountersMove ==
  ASSUME SInv, NEW r \in Requests, call' \in [Requests -> Call],
         \A s \in Requests \ {r} : call'[s] = call[s],
         metrics' = [inFlight |-> metrics.inFlight
                       + (IF call'[r].phase = "running" THEN 1 ELSE 0)
                       - (IF call[r].phase = "running" THEN 1 ELSE 0),
                     queueDepth |-> metrics.queueDepth
                       + (IF call'[r].phase = "waiting" THEN 1 ELSE 0)
                       - (IF call[r].phase = "waiting" THEN 1 ELSE 0)]
  PROVE  IsFiniteSet(Active') /\ Counted'
<1>1. /\ IsFiniteSet(Active')
      /\ Cardinality(InPhase({"running"})') =
              Cardinality(InPhase({"running"}))
                + (IF call'[r].phase = "running" THEN 1 ELSE 0) - (IF call[r].phase = "running" THEN 1 ELSE 0)
  BY PhaseMoves
<1>2. Cardinality(InPhase({"waiting"})') =
              Cardinality(InPhase({"waiting"}))
                + (IF call'[r].phase = "waiting" THEN 1 ELSE 0) - (IF call[r].phase = "waiting" THEN 1 ELSE 0)
  BY PhaseMoves
<1> QED BY <1>1, <1>2 DEF SInv, Counted

-----------------------------------------------------------------------------
(***************************************************************************)
(* The waiters of the semaphore.                                           *)
(***************************************************************************)

\* Whoever stays in the semaphore keeps its place.
LEMMA WaitersStay ==
  ASSUME NEW list \in Seq(Requests), NEW before, NEW after, AreWaiters(list, before),
         \A r \in Requests : after[r] \in InSemaphore <=> before[r] \in InSemaphore
  PROVE  AreWaiters(list, after)
<1>1. \A i \in DOMAIN list : list[i] \in Requests
  OBVIOUS
<1> QED BY ONLY <1>1, AreWaiters(list, before),
           \A r \in Requests : after[r] \in InSemaphore <=> before[r] \in InSemaphore DEF AreWaiters

LEMMA WaiterJoins ==
  ASSUME NEW list \in Seq(Requests), NEW before \in [Requests -> TaskStates], AreWaiters(list, before),
         NEW r \in Requests, before[r] \notin InSemaphore,
         NEW after, after = [before EXCEPT ![r] = "parked"]
  PROVE  Append(list, r) \in Seq(Requests) /\ AreWaiters(Append(list, r), after)
<1> DEFINE longer == Append(list, r)
           n == Len(list)
<1>1. /\ longer \in Seq(Requests) /\ n \in Nat
      /\ DOMAIN list = 1 .. n /\ DOMAIN longer = 1 .. n + 1
      /\ longer[n + 1] = r
      /\ \A i \in 1 .. n : longer[i] = list[i] /\ list[i] \in Requests
  BY AppendFacts
<1>2. /\ after[r] = "parked"
      /\ \A s \in Requests : s # r => after[s] = before[s]
      /\ before[r] \notin InSemaphore /\ AreWaiters(list, before)
  OBVIOUS
<1> HIDE DEF longer, n
<1>3. AreWaiters(longer, after)
  <2>1. \A i \in 1 .. n : list[i] # r
    BY ONLY <1>1, <1>2 DEF AreWaiters
  <2>2. \A i \in 1 .. n + 1 : i \in 1 .. n \/ i = n + 1
    BY ONLY <1>1
  <2>3. 1 .. n \subseteq 1 .. n + 1 /\ n + 1 \in 1 .. n + 1
    BY ONLY <1>1
  <2>4. \A i \in DOMAIN longer : after[longer[i]] \in InSemaphore
    BY ONLY <1>1, <1>2, <2>1, <2>2 DEF AreWaiters, InSemaphore
  <2>5. \A i, j \in DOMAIN longer : longer[i] = longer[j] => i = j
    BY ONLY <1>1, <1>2, <2>1, <2>2 DEF AreWaiters
  <2>6. \A s \in Requests : after[s] \in InSemaphore => \E i \in DOMAIN longer : longer[i] = s
    <3> SUFFICES ASSUME NEW s \in Requests, after[s] \in InSemaphore
                 PROVE  \E i \in DOMAIN longer : longer[i] = s
      OBVIOUS
    <3>1. CASE s = r
      BY ONLY <1>1, <2>3, <3>1
    <3>2. CASE s # r
      <4>1. before[s] \in InSemaphore
        BY <1>2, <3>2
      <4>2. PICK i \in 1 .. n : list[i] = s
        BY ONLY <1>1, <1>2, <4>1, s \in Requests DEF AreWaiters
      <4> QED BY ONLY <1>1, <2>3, <4>2
    <3> QED BY <3>1, <3>2
  <2> QED BY ONLY <2>4, <2>5, <2>6 DEF AreWaiters
<1> QED BY <1>1, <1>3 DEF longer

LEMMA WaiterLeaves ==
  ASSUME NEW list \in Seq(Requests), NEW before \in [Requests -> TaskStates], AreWaiters(list, before),
         NEW i \in DOMAIN list, NEW end \in TaskStates \ InSemaphore,
         NEW after, after = [before EXCEPT ![list[i]] = end]
  PROVE  RemoveAt(list, i) \in Seq(Requests) /\ AreWaiters(RemoveAt(list, i), after)
<1> DEFINE rest == RemoveAt(list, i)
           r == list[i]
<1>1. \A j, k \in DOMAIN list : list[j] = list[k] => j = k
  BY DEF AreWaiters
<1>2. /\ rest \in Seq(Requests)
      /\ \A j \in DOMAIN rest : rest[j] # r
      /\ \A j \in DOMAIN rest : \E k \in DOMAIN list : rest[j] = list[k]
      /\ \A j, k \in DOMAIN rest : rest[j] = rest[k] => j = k
      /\ \A k \in DOMAIN list : k # i => \E j \in DOMAIN rest : rest[j] = list[k]
  BY <1>1, RemoveItemFacts, Zenon
<1>3. /\ \A k \in DOMAIN list : list[k] \in Requests
      /\ after[r] \notin InSemaphore
      /\ \A s \in Requests : s # r => after[s] = before[s]
      /\ AreWaiters(list, before) /\ r = list[i]
  OBVIOUS
<1> HIDE DEF rest, r
<1>4. \A j \in DOMAIN rest : after[rest[j]] \in InSemaphore
  BY ONLY <1>2, <1>3 DEF AreWaiters
<1>5. \A s \in Requests : after[s] \in InSemaphore => \E j \in DOMAIN rest : rest[j] = s
  BY ONLY <1>2, <1>3, SMTT(30) DEF AreWaiters
<1>6. AreWaiters(rest, after)
  BY ONLY <1>2, <1>4, <1>5 DEF AreWaiters
<1> QED BY <1>2, <1>6 DEF rest

-----------------------------------------------------------------------------
(***************************************************************************)
(* The steps.  Each leaves tasks, waiters and free slots behind, which the *)
(* semaphore then gives away or not (SlotsSettle).                         *)
(***************************************************************************)
LEMMA SlotsSettle ==
  ASSUME NEW value, NEW list, NEW tasks, Consistent(call', value, list, tasks),
         \/ sem' = [value |-> value, waiters |-> list] /\ task' = tasks
         \/ \E n \in Nat : WakeUp(value, list, n, tasks),
         IsFiniteSet(Active'), Counted'
  PROVE  SInv'
<1>0. /\ value \in Nat /\ list \in Seq(Requests) /\ tasks \in [Requests -> TaskStates]
      /\ call' \in [Requests -> Call]
      /\ \A r \in Requests : Fits(call'[r], tasks[r])
      /\ AreWaiters(list, tasks)
      /\ Cap = value + Cardinality(GivenIn(tasks)) + Cardinality(HeldIn(call', tasks))
  BY DEF Consistent
<1>1. /\ task' \in [Requests -> TaskStates]
      /\ \A r \in Requests : \/ task'[r] = tasks[r]
                             \/ tasks[r] = "parked" /\ task'[r] = "woken"
      /\ sem' = [value |-> sem'.value, waiters |-> list]
      /\ sem'.value \in Nat
      /\ sem'.value + Cardinality(GivenIn(task')) = value + Cardinality(GivenIn(tasks))
  <2>1. CASE sem' = [value |-> value, waiters |-> list] /\ task' = tasks
    BY <1>0, <2>1
  <2>2. ASSUME NEW n \in Nat, WakeUp(value, list, n, tasks) PROVE <1>1!:
    <3>1. GivenIn(tasks) \in SUBSET Active'
      BY <1>0 DEF GivenIn, Active, Fits
    <3>2. IsFiniteSet(GivenIn(tasks))
      BY <3>1, FS_Subset
    <3> QED BY <1>0, <2>2, <3>2, WakeUpFacts
  <2> QED BY <2>1, <2>2
<1>2. \A r \in Requests : Fits(call'[r], task'[r])
  <2> SUFFICES ASSUME NEW r \in Requests PROVE Fits(call'[r], task'[r])
    OBVIOUS
  <2>1. call'[r].phase \in {"idle", "waiting", "withdrawing", "running", "done"}
    BY <1>0 DEF Call
  <2> QED BY <1>0, <1>1, <2>1 DEF Fits
<1>3. AreWaiters(list, task')
  <2>1. \A r \in Requests : task'[r] \in InSemaphore <=> tasks[r] \in InSemaphore
    BY <1>1 DEF InSemaphore
  <2> QED BY <1>0, <2>1, WaitersStay
<1>4. HeldIn(call', task') = HeldIn(call', tasks)
  BY <1>1 DEF HeldIn
<1>5. Cap = sem'.value + Cardinality(GivenIn(task')) + Cardinality(HeldIn(call', task'))
  BY <1>0, <1>1, <1>4
<1>6. sem'.waiters = list /\ sem'.waiters \in Seq(Requests)
  BY <1>0, <1>1
<1>7. Consistent(call', sem'.value, sem'.waiters, task')
  BY <1>0, <1>1, <1>2, <1>3, <1>5, <1>6 DEF Consistent
<1>8. sem' = [value |-> sem'.value, waiters |-> sem'.waiters]
  BY <1>1, <1>6
<1> QED BY <1>7, <1>8 DEF SInv

\* What the invariant says of slots and counters, in one place.
LEMMA SlotFacts ==
  ASSUME SInv
  PROVE  /\ sem.value \in Nat /\ sem.waiters \in Seq(Requests) /\ Cap \in Nat /\ Cap # 0
         /\ task \in [Requests -> TaskStates] /\ call \in [Requests -> Call]
         /\ IsFiniteSet(GivenIn(task)) /\ Cardinality(GivenIn(task)) \in Nat
         /\ IsFiniteSet(HeldIn(call, task)) /\ Cardinality(HeldIn(call, task)) \in Nat
         /\ Cap = sem.value + Cardinality(GivenIn(task)) + Cardinality(HeldIn(call, task))
         /\ \A r \in Requests : Fits(call[r], task[r])
         /\ AreWaiters(sem.waiters, task)
         /\ metrics.inFlight \in Int /\ metrics.queueDepth \in Int
         /\ metrics = [inFlight |-> metrics.inFlight, queueDepth |-> metrics.queueDepth]
BY FiniteParts, FiniteSlots, SemaphoreAssumption DEF SInv, Consistent, Counted

\* The slots in numbers.
LEMMA SlotNumbers ==
  ASSUME SInv
  PROVE  /\ sem.value \in Nat /\ IsFiniteSet(GivenIn(task)) /\ IsFiniteSet(HeldIn(call, task))
         /\ Cardinality(GivenIn(task)) \in Nat /\ Cardinality(HeldIn(call, task)) \in Nat
         /\ Cap = sem.value + Cardinality(GivenIn(task)) + Cardinality(HeldIn(call, task))
BY SlotFacts

\* A request arrives: it waits, and its task is yet to run.
LEMMA ArriveInv == ASSUME SInv, NEW r \in Requests, Arrive(r) PROVE SInv'
<1>1. /\ call[r].phase = "idle"
      /\ call' = [call EXCEPT ![r].phase = "waiting"]
      /\ task' = [task EXCEPT ![r] = "new"]
      /\ metrics' = [metrics EXCEPT !.queueDepth = @ + 1]
      /\ sem' = sem
  BY DEF Arrive
<1>2. /\ call' \in [Requests -> Call]
      /\ \A s \in Requests \ {r} : call'[s] = call[s] /\ task'[s] = task[s]
      /\ call'[r].phase = "waiting" /\ task'[r] = "new" /\ task[r] = "none"
      /\ task' \in [Requests -> TaskStates]
  BY <1>1, SlotFacts DEF Call, Fits, TaskStates
<1>3. IsFiniteSet(Active') /\ Counted'
  <2>1. metrics' = [inFlight |-> metrics.inFlight
                       + (IF call'[r].phase = "running" THEN 1 ELSE 0)
                       - (IF call[r].phase = "running" THEN 1 ELSE 0),
                     queueDepth |-> metrics.queueDepth
                       + (IF call'[r].phase = "waiting" THEN 1 ELSE 0)
                       - (IF call[r].phase = "waiting" THEN 1 ELSE 0)]
    BY <1>1, <1>2, SlotFacts
  <2> QED BY <1>2, <2>1, CountersMove
<1>4. \A s \in Requests : Fits(call'[s], task'[s])
  BY <1>2, SlotFacts DEF Fits
<1>5. AreWaiters(sem.waiters, task')
  BY <1>2, SlotFacts, WaitersStay DEF InSemaphore
<1>6. GivenIn(task') = GivenIn(task) /\ HeldIn(call', task') = HeldIn(call, task)
  BY <1>1, <1>2 DEF GivenIn, HeldIn
<1>7. Consistent(call', sem.value, sem.waiters, task')
  BY <1>2, <1>4, <1>5, <1>6, SlotFacts DEF Consistent
<1> QED BY <1>1, <1>3, <1>7, SlotsSettle DEF SInv

\* A task runs for the first time: it takes a free slot, or waits at the end.
LEMMA StartInv == ASSUME SInv, NEW r \in Requests, Start(r) PROVE SInv'
<1>1. task[r] = "new" /\ UNCHANGED <<call, metrics>>
  BY DEF Start
<1>2. IsFiniteSet(Active') /\ Counted'
  BY <1>1 DEF SInv, Active, Counted, InPhase
<1>3. call[r].phase = "waiting"
  BY <1>1, SlotFacts DEF Fits, Call
<1>4. CASE /\ ~Locked
           /\ sem' = [sem EXCEPT !.value = @ - 1]
           /\ task' = [task EXCEPT ![r] = "got"]
  <2>1. sem.value > 0 /\ sem' = [value |-> sem.value - 1, waiters |-> sem.waiters]
    BY <1>4, SlotFacts DEF Locked, SInv
  <2>2. /\ task' \in [Requests -> TaskStates] /\ task'[r] = "got"
        /\ \A s \in Requests \ {r} : task'[s] = task[s]
    BY <1>4, SlotFacts DEF TaskStates
  <2>3. \A s \in Requests : Fits(call[s], task'[s])
    BY <1>3, <2>2, SlotFacts DEF Fits
  <2>4. AreWaiters(sem.waiters, task')
    BY <1>1, <2>2, SlotFacts, WaitersStay DEF InSemaphore
  <2>5. GivenIn(task') = GivenIn(task)
    BY <1>1, <2>2 DEF GivenIn
  <2>6. HeldIn(call, task') = HeldIn(call, task) \cup {r} /\ r \notin HeldIn(call, task)
    BY <1>1, <1>3, <2>2 DEF HeldIn
  <2>7. Cardinality(HeldIn(call, task')) = Cardinality(HeldIn(call, task)) + 1
    BY ONLY <2>6, SInv, SlotNumbers, FS_AddElement
  <2>8. Cap = (sem.value - 1) + Cardinality(GivenIn(task')) + Cardinality(HeldIn(call, task'))
        /\ sem.value - 1 \in Nat
    BY ONLY <2>1, <2>5, <2>7, SInv, SlotNumbers
  <2>9. Consistent(call', sem.value - 1, sem.waiters, task')
    BY <1>1, <2>2, <2>3, <2>4, <2>8, SlotFacts DEF Consistent
  <2> QED BY <1>2, <2>1, <2>9, SlotsSettle
<1>5. CASE /\ Locked
           /\ sem' = [sem EXCEPT !.waiters = Append(@, r)]
           /\ task' = [task EXCEPT ![r] = "parked"]
  <2> DEFINE list == Append(sem.waiters, r)
  <2>1. sem' = [value |-> sem.value, waiters |-> list]
    BY <1>5 DEF SInv
  <2>2. /\ task' \in [Requests -> TaskStates] /\ task'[r] = "parked"
        /\ \A s \in Requests \ {r} : task'[s] = task[s]
    BY <1>5, SlotFacts DEF TaskStates
  <2>3. list \in Seq(Requests) /\ AreWaiters(list, task')
    BY <1>1, <1>5, SlotFacts, WaiterJoins DEF InSemaphore
  <2> HIDE DEF list
  <2>4. \A s \in Requests : Fits(call[s], task'[s])
    BY <1>3, <2>2, SlotFacts DEF Fits
  <2>5. GivenIn(task') = GivenIn(task) /\ HeldIn(call, task') = HeldIn(call, task)
    BY <1>1, <2>2 DEF GivenIn, HeldIn
  <2>6. Consistent(call', sem.value, list, task')
    BY <1>1, <2>2, <2>3, <2>4, <2>5, SlotFacts DEF Consistent
  <2> QED BY <1>2, <2>1, <2>6, SlotsSettle
<1> QED BY <1>4, <1>5 DEF Start

\* A task ends its wait: with its slot, or without, in which case the slot is free.
LEMMA LeaveInv == ASSUME SInv, NEW r \in Requests, Leave(r) PROVE SInv'
<1> DEFINE value == IF task[r] = "wokenCut" THEN sem.value + 1 ELSE sem.value
           end   == IF task[r] = "woken" THEN "got" ELSE "gone"
           tasks == [task EXCEPT ![r] = end]
<1>1. /\ task[r] \in {"woken", "newCut", "parkedCut", "wokenCut"}
      /\ UNCHANGED <<call, metrics>>
      /\ \/ /\ task[r] = "newCut"
            /\ task' = tasks
            /\ UNCHANGED sem
         \/ /\ task[r] # "newCut"
            /\ \E i \in DOMAIN sem.waiters :
                 sem.waiters[i] = r /\ WakeUp(value, RemoveAt(sem.waiters, i), value, tasks)
  BY DEF Leave
<1>2. IsFiniteSet(Active') /\ Counted'
  BY <1>1 DEF SInv, Active, Counted, InPhase
<1>3. call[r].phase = IF task[r] = "woken" THEN "waiting" ELSE "withdrawing"
  BY <1>1, SlotFacts DEF Fits, Call
<1>4. /\ tasks \in [Requests -> TaskStates] /\ tasks[r] = end
      /\ end \in TaskStates \ InSemaphore
      /\ \A s \in Requests \ {r} : tasks[s] = task[s]
      /\ end = IF task[r] = "woken" THEN "got" ELSE "gone"
      /\ value = IF task[r] = "wokenCut" THEN sem.value + 1 ELSE sem.value
      /\ value \in Nat
  BY SlotFacts DEF TaskStates, InSemaphore
<1> HIDE DEF value, end, tasks
<1>5. \A s \in Requests : Fits(call[s], tasks[s])
  BY <1>1, <1>3, <1>4, SlotFacts DEF Fits
<1>6. Cap = value + Cardinality(GivenIn(tasks)) + Cardinality(HeldIn(call, tasks))
  <2>1. GivenIn(tasks) = GivenIn(task) \ {r}
    BY <1>4 DEF GivenIn
  <2>2. r \in GivenIn(task) <=> task[r] \in {"woken", "wokenCut"}
    BY DEF GivenIn
  <2>3. Cardinality(GivenIn(tasks)) =
          IF task[r] \in {"woken", "wokenCut"} THEN Cardinality(GivenIn(task)) - 1
          ELSE Cardinality(GivenIn(task))
    BY ONLY <2>1, <2>2, SInv, SlotNumbers, FS_RemoveElement
  <2>4. /\ HeldIn(call, tasks) = IF task[r] = "woken" THEN HeldIn(call, task) \cup {r}
                                                      ELSE HeldIn(call, task)
        /\ r \notin HeldIn(call, task)
    BY <1>1, <1>3, <1>4 DEF HeldIn
  <2>5. Cardinality(HeldIn(call, tasks)) =
          IF task[r] = "woken" THEN Cardinality(HeldIn(call, task)) + 1 ELSE Cardinality(HeldIn(call, task))
    BY ONLY <2>4, SInv, SlotNumbers, FS_AddElement
  <2> QED BY ONLY <1>4, <2>3, <2>5, SInv, SlotNumbers
<1>7. CASE task[r] = "newCut" /\ task' = tasks /\ UNCHANGED sem
  <2>1. value = sem.value
    BY <1>7 DEF value
  <2>2. AreWaiters(sem.waiters, tasks)
    BY <1>4, <1>7, SlotFacts, WaitersStay DEF InSemaphore
  <2>3. Consistent(call', value, sem.waiters, tasks)
    BY <1>1, <1>4, <1>5, <1>6, <2>2, SlotFacts DEF Consistent
  <2> QED BY <1>2, <1>7, <2>1, <2>3, SlotsSettle DEF SInv
<1>8. ASSUME NEW i \in DOMAIN sem.waiters, sem.waiters[i] = r,
             WakeUp(value, RemoveAt(sem.waiters, i), value, tasks)
      PROVE  SInv'
  <2> DEFINE rest == RemoveAt(sem.waiters, i)
  <2>1. rest \in Seq(Requests) /\ AreWaiters(rest, tasks)
    <3>1. tasks = [task EXCEPT ![sem.waiters[i]] = end]
      BY <1>8 DEF tasks
    <3> QED BY <1>4, <3>1, SlotFacts, WaiterLeaves
  <2> HIDE DEF rest
  <2>2. Consistent(call', value, rest, tasks)
    BY <1>1, <1>4, <1>5, <1>6, <2>1, SlotFacts DEF Consistent
  <2>3. \E n \in Nat : WakeUp(value, rest, n, tasks)
    BY <1>4, <1>8 DEF rest
  <2> QED BY <1>2, <2>2, <2>3, SlotsSettle
<1> QED BY <1>1, <1>7, <1>8

\* A cancellation marks requests and moves none.
LEMMA CancelInv == ASSUME SInv, NEW S \in SUBSET Requests, Cancel(S) PROVE SInv'
<1>1. /\ \A r \in S : call[r].phase = "waiting"
      /\ call' = [r \in Requests |-> IF r \in S THEN [call[r] EXCEPT !.cancelled = TRUE] ELSE call[r]]
      /\ UNCHANGED <<task, sem, metrics>>
  BY DEF Cancel
<1>2. /\ call' \in [Requests -> Call]
      /\ \A r \in Requests : /\ call'[r].phase = call[r].phase
                             /\ call[r].phase # "waiting" => call'[r] = call[r]
  BY <1>1, SlotFacts DEF Call
<1>3. IsFiniteSet(Active') /\ Counted'
  <2>1. Active' = Active /\ InPhase({"running"})' = InPhase({"running"})
        /\ InPhase({"waiting"})' = InPhase({"waiting"})
    BY <1>2 DEF Active, InPhase
  <2> QED BY <1>1, <2>1 DEF SInv, Counted
<1>4. HeldIn(call', task) = HeldIn(call, task)
  BY <1>2 DEF HeldIn
<1>5. \A r \in Requests : Fits(call'[r], task[r])
  BY <1>2, SlotFacts DEF Fits
<1>6. Consistent(call', sem.value, sem.waiters, task)
  BY <1>2, <1>4, <1>5, SlotFacts DEF Consistent
<1> QED BY <1>1, <1>3, <1>6, SlotsSettle DEF SInv

\* A request that has a slot gives it back and is done.
LEMMA GiveBackInv ==
  ASSUME SInv, NEW r \in Requests, r \in HeldIn(call, task), Release,
         call' = [call EXCEPT ![r].phase = "done"], IsFiniteSet(Active'), Counted'
  PROVE  SInv'
<1>1. /\ call' \in [Requests -> Call] /\ call'[r].phase = "done" /\ task[r] = "got"
      /\ \A s \in Requests \ {r} : call'[s] = call[s]
  BY SlotFacts DEF Call, HeldIn
<1>2. HeldIn(call', task) = HeldIn(call, task) \ {r}
  BY <1>1 DEF HeldIn
<1>3. Cardinality(HeldIn(call', task)) = Cardinality(HeldIn(call, task)) - 1
  BY ONLY <1>2, r \in HeldIn(call, task), SInv, SlotNumbers, FS_RemoveElement
<1>4. \A s \in Requests : Fits(call'[s], task[s])
  BY <1>1, SlotFacts DEF Fits
<1>5. sem.value + 1 \in Nat
      /\ Cap = (sem.value + 1) + Cardinality(GivenIn(task)) + Cardinality(HeldIn(call', task))
  BY ONLY <1>3, SInv, SlotNumbers
<1>6. Consistent(call', sem.value + 1, sem.waiters, task)
  BY <1>1, <1>4, <1>5, SlotFacts DEF Consistent
<1>7. \E n \in Nat : WakeUp(sem.value + 1, sem.waiters, n, task)
  BY DEF Release
<1> QED BY <1>6, <1>7, SlotsSettle

\* A request goes on: it withdraws its task, gives its slot back, or runs.
LEMMA ResumeInv == ASSUME SInv, NEW r \in Requests, Resume(r) PROVE SInv'
<1>1. /\ call[r].phase = "waiting" /\ (task[r] = "got" \/ call[r].cancelled)
      /\ \/ /\ \/ call' = [call EXCEPT ![r].phase = "withdrawing"]
               \/ call' = [call EXCEPT ![r].phase = "done"]
            /\ metrics' = Dequeued(r)
         \/ /\ call' = [call EXCEPT ![r].phase = "running"]
            /\ metrics' = [Dequeued(r) EXCEPT !.inFlight = @ + 1]
  BY DEF Resume
<1>2. /\ call' \in [Requests -> Call] /\ call'[r].phase \in {"withdrawing", "done", "running"}
      /\ call'[r].cancelled = call[r].cancelled
      /\ \A s \in Requests \ {r} : call'[s] = call[s]
      /\ metrics' = IF call'[r].phase = "running" THEN [Dequeued(r) EXCEPT !.inFlight = @ + 1]
                                                  ELSE Dequeued(r)
  BY <1>1, SlotFacts DEF Call
<1>3. IsFiniteSet(Active') /\ Counted'
  <2>0. metrics' = [inFlight   |-> IF call'[r].phase = "running" THEN metrics.inFlight + 1
                                                                ELSE metrics.inFlight,
                     queueDepth |-> metrics.queueDepth - 1]
    BY <1>2, SlotFacts DEF Dequeued
  <2>1. metrics' = [inFlight |-> metrics.inFlight
                       + (IF call'[r].phase = "running" THEN 1 ELSE 0)
                       - (IF call[r].phase = "running" THEN 1 ELSE 0),
                     queueDepth |-> metrics.queueDepth
                       + (IF call'[r].phase = "waiting" THEN 1 ELSE 0)
                       - (IF call[r].phase = "waiting" THEN 1 ELSE 0)]
    BY <1>1, <1>2, <2>0, SlotFacts, SMTT(30)
  <2> QED BY <1>2, <2>1, CountersMove
<1>4. CASE /\ task[r] # "got"
           /\ task' = [task EXCEPT ![r] = Cut(@)]
           /\ call' = [call EXCEPT ![r].phase = "withdrawing"]
           /\ UNCHANGED sem
  <2>0. Fits(call[r], task[r]) /\ call'[r].phase = "withdrawing"
    BY <1>4, SlotFacts
  <2>1. task[r] \in {"new", "parked", "woken"} /\ call'[r].phase = "withdrawing"
    BY ONLY <1>1, <1>4, <2>0 DEF Fits
  <2>2. Cut(task[r]) = IF task[r] = "new" THEN "newCut" ELSE IF task[r] = "parked" THEN "parkedCut" ELSE "wokenCut"
    BY <2>1 DEF Cut
  <2>3. /\ task'[r] = Cut(task[r])
        /\ \A s \in Requests \ {r} : task'[s] = task[s]
        /\ task' \in [Requests -> TaskStates]
    BY <1>4, <2>2, SlotFacts DEF TaskStates
  <2>4. \A s \in Requests : Fits(call'[s], task'[s])
    BY <1>2, <2>1, <2>2, <2>3, SlotFacts DEF Fits
  <2>5. AreWaiters(sem.waiters, task')
    BY <2>1, <2>2, <2>3, SlotFacts, WaitersStay DEF InSemaphore
  <2>6. GivenIn(task') = GivenIn(task)
    BY <2>1, <2>2, <2>3 DEF GivenIn
  <2>7. HeldIn(call', task') = HeldIn(call, task)
    BY <1>2, <2>1, <2>2, <2>3 DEF HeldIn
  <2>8. Consistent(call', sem.value, sem.waiters, task')
    BY <1>2, <2>3, <2>4, <2>5, <2>6, <2>7, SlotFacts DEF Consistent
  <2> QED BY <1>3, <1>4, <2>8, SlotsSettle DEF SInv
<1>5. CASE task[r] = "got" /\ Release /\ call' = [call EXCEPT ![r].phase = "done"]
  <2>1. r \in HeldIn(call, task)
    BY <1>1, <1>5 DEF HeldIn
  <2> QED BY <1>3, <1>5, <2>1, GiveBackInv
<1>6. CASE /\ task[r] = "got" /\ ~call[r].cancelled
           /\ call' = [call EXCEPT ![r].phase = "running"]
           /\ UNCHANGED <<sem, task>>
  <2>1. call'[r].phase = "running" /\ ~call'[r].cancelled
    BY <1>2, <1>6, SlotFacts
  <2>2. \A s \in Requests : Fits(call'[s], task[s])
    BY <1>2, <1>6, <2>1, SlotFacts DEF Fits
  <2>3. HeldIn(call', task) = HeldIn(call, task)
    BY <1>1, <1>2, <2>1 DEF HeldIn
  <2>4. Consistent(call', sem.value, sem.waiters, task)
    BY <1>2, <2>2, <2>3, SlotFacts DEF Consistent
  <2> QED BY <1>3, <1>6, <2>4, SlotsSettle DEF SInv
<1> QED BY <1>4, <1>5, <1>6 DEF Resume, GivesBack, CancelSeen

\* A withdrawn task has ended: never with a slot, so none is given back.
LEMMA WithdrawInv == ASSUME SInv, NEW r \in Requests, Withdraw(r) PROVE SInv'
<1>1. call[r].phase = "withdrawing" /\ task[r] = "gone"
  BY SlotFacts DEF Withdraw, Fits
<1>2. call' = [call EXCEPT ![r].phase = "done"] /\ UNCHANGED <<sem, task, metrics>>
  BY <1>1 DEF Withdraw, TaskAwaited
<1>3. /\ call' \in [Requests -> Call] /\ call'[r].phase = "done"
      /\ \A s \in Requests \ {r} : call'[s] = call[s]
  BY <1>2, SlotFacts DEF Call
<1>4. IsFiniteSet(Active') /\ Counted'
  <2>1. metrics' = [inFlight |-> metrics.inFlight
                       + (IF call'[r].phase = "running" THEN 1 ELSE 0)
                       - (IF call[r].phase = "running" THEN 1 ELSE 0),
                     queueDepth |-> metrics.queueDepth
                       + (IF call'[r].phase = "waiting" THEN 1 ELSE 0)
                       - (IF call[r].phase = "waiting" THEN 1 ELSE 0)]
    BY <1>1, <1>2, <1>3, SlotFacts
  <2> QED BY <1>3, <2>1, CountersMove
<1>5. \A s \in Requests : Fits(call'[s], task[s])
  BY <1>1, <1>3, SlotFacts DEF Fits
<1>6. HeldIn(call', task) = HeldIn(call, task)
  BY <1>1, <1>3 DEF HeldIn
<1>7. Consistent(call', sem.value, sem.waiters, task)
  BY <1>3, <1>5, <1>6, SlotFacts DEF Consistent
<1> QED BY <1>2, <1>4, <1>7, SlotsSettle DEF SInv

\* An attempt is over.
LEMMA EndInv == ASSUME SInv, NEW r \in Requests, End(r) PROVE SInv'
<1>1. /\ call[r].phase = "running" /\ Release
      /\ call' = [call EXCEPT ![r].phase = "done"]
      /\ metrics' = [metrics EXCEPT !.inFlight = @ - 1]
  BY DEF End, Released
<1>2. /\ call' \in [Requests -> Call] /\ call'[r].phase = "done"
      /\ \A s \in Requests \ {r} : call'[s] = call[s]
  BY <1>1, SlotFacts DEF Call
<1>3. IsFiniteSet(Active') /\ Counted'
  <2>1. metrics' = [inFlight |-> metrics.inFlight
                       + (IF call'[r].phase = "running" THEN 1 ELSE 0)
                       - (IF call[r].phase = "running" THEN 1 ELSE 0),
                     queueDepth |-> metrics.queueDepth
                       + (IF call'[r].phase = "waiting" THEN 1 ELSE 0)
                       - (IF call[r].phase = "waiting" THEN 1 ELSE 0)]
    BY <1>1, <1>2, SlotFacts
  <2> QED BY <1>2, <2>1, CountersMove
<1>4. r \in HeldIn(call, task)
  BY <1>1, SlotFacts DEF HeldIn, Fits
<1> QED BY <1>1, <1>3, <1>4, GiveBackInv

\* An identity is used again.
LEMMA ReuseInv == ASSUME SInv, NEW r \in Requests, Reuse(r) PROVE SInv'
<1>1. /\ call[r].phase = "done"
      /\ call' = [call EXCEPT ![r] = [phase |-> "idle", cancelled |-> FALSE]]
      /\ task' = [task EXCEPT ![r] = "none"]
      /\ UNCHANGED <<sem, metrics>>
  BY DEF Reuse
<1>2. /\ call' \in [Requests -> Call] /\ call'[r] = [phase |-> "idle", cancelled |-> FALSE]
      /\ task' \in [Requests -> TaskStates] /\ task'[r] = "none" /\ task[r] \in {"got", "gone"}
      /\ \A s \in Requests \ {r} : call'[s] = call[s] /\ task'[s] = task[s]
  BY <1>1, SlotFacts DEF Call, TaskStates, Fits
<1>3. IsFiniteSet(Active') /\ Counted'
  <2>1. metrics' = [inFlight |-> metrics.inFlight
                       + (IF call'[r].phase = "running" THEN 1 ELSE 0)
                       - (IF call[r].phase = "running" THEN 1 ELSE 0),
                     queueDepth |-> metrics.queueDepth
                       + (IF call'[r].phase = "waiting" THEN 1 ELSE 0)
                       - (IF call[r].phase = "waiting" THEN 1 ELSE 0)]
    BY <1>1, <1>2, SlotFacts
  <2> QED BY <1>2, <2>1, CountersMove
<1>4. \A s \in Requests : Fits(call'[s], task'[s])
  BY <1>2, SlotFacts DEF Fits
<1>5. AreWaiters(sem.waiters, task')
  BY <1>2, SlotFacts, WaitersStay DEF InSemaphore
<1>6. GivenIn(task') = GivenIn(task) /\ HeldIn(call', task') = HeldIn(call, task)
  BY <1>1, <1>2 DEF GivenIn, HeldIn
<1>7. Consistent(call', sem.value, sem.waiters, task')
  BY <1>2, <1>4, <1>5, <1>6, SlotFacts DEF Consistent
<1> QED BY <1>1, <1>3, <1>7, SlotsSettle DEF SInv

-----------------------------------------------------------------------------
LEMMA InitInv == SInit => SInv
<1> SUFFICES ASSUME SInit PROVE SInv
  OBVIOUS
<1>1. /\ call \in [Requests -> Call] /\ task \in [Requests -> TaskStates]
      /\ sem.value = Cap /\ sem.waiters = <<>> /\ sem = [value |-> sem.value, waiters |-> sem.waiters]
      /\ \A r \in Requests : Fits(call[r], task[r])
  BY DEF SInit, Call, TaskStates, Fits
<1>2. GivenIn(task) = {} /\ HeldIn(call, task) = {} /\ Active = {}
      /\ InPhase({"running"}) = {} /\ InPhase({"waiting"}) = {}
  BY DEF SInit, GivenIn, HeldIn, Active, InPhase
<1>3. IsFiniteSet({}) /\ Cardinality({}) = 0
  BY FS_EmptySet
<1>4. AreWaiters(sem.waiters, task)
  BY <1>1 DEF AreWaiters, SInit, InSemaphore
<1>5. Cap = sem.value + Cardinality(GivenIn(task)) + Cardinality(HeldIn(call, task)) /\ sem.value \in Nat
  BY ONLY <1>1, <1>2, <1>3, SemaphoreAssumption
<1>6. Consistent(call, sem.value, sem.waiters, task)
  BY <1>1, <1>4, <1>5 DEF Consistent
<1>7. Counted
  BY <1>2, <1>3 DEF SInit, Counted
<1> QED BY <1>1, <1>2, <1>3, <1>6, <1>7 DEF SInv

LEMMA StepInv == SInv /\ [SNext]_svars => SInv'
<1> SUFFICES ASSUME SInv, [SNext]_svars PROVE SInv'
  OBVIOUS
<1>1. ASSUME NEW r \in Requests, Arrive(r) \/ Turn(r) \/ End(r) \/ Reuse(r) PROVE SInv'
  BY <1>1, ArriveInv, StartInv, LeaveInv, ResumeInv, WithdrawInv, EndInv, ReuseInv DEF Turn
<1>2. ASSUME NEW S \in SUBSET Requests, Cancel(S) PROVE SInv'
  BY <1>2, CancelInv
<1>3. CASE UNCHANGED svars
  BY <1>3 DEF svars, SInv, Consistent, AreWaiters, Active, Counted, InPhase
<1> QED BY <1>1, <1>2, <1>3 DEF SNext

LEMMA SInvariance == SSpec => []SInv
BY InitInv, StepInv, PTL DEF SSpec

\* The state has its type, and the counters that operators are shown are the
\* requests that queue and that run.
THEOREM SemaphoreTyping == SSpec => []STypeOK
<1>1. SInv => STypeOK
  BY DEF SInv, Consistent, Counted, STypeOK
<1> QED BY <1>1, SInvariance, PTL

\* Slots are neither leaked nor given back twice, wherever a request is
\* cancelled between the release that chose it and its own next step.
THEOREM SlotsNeverLeak == SSpec => []SlotsExact
<1>1. SInv => SlotsExact
  BY DEF SInv, Consistent, SlotsExact, GivenIn, HeldIn, InTask, Unanswered, InPhase
<1> QED BY <1>1, SInvariance, PTL

\* Only a request that was not cancelled begins to run.
LEMMA OnlyUncancelledRun ==
  ASSUME SInv, [SNext]_svars, NEW r \in Requests, call[r].cancelled
  PROVE  call'[r].phase # "running"
<1>0. call \in [Requests -> Call] /\ Fits(call[r], task[r]) /\ call[r].phase # "running"
  BY SlotFacts DEF Fits
<1>1. ASSUME NEW s \in Requests, Arrive(s) \/ Turn(s) \/ End(s) \/ Reuse(s)
      PROVE  call'[r].phase # "running"
  <2>1. CASE s # r
    <3>1. call'[r] = call[r]
      BY <1>0, <1>1, <2>1 DEF Arrive, Turn, Start, Leave, Resume, Withdraw, End, Reuse
    <3> QED BY <1>0, <3>1
  <2>2. CASE s = r
    <3>1. ~(call[r].phase = "running" /\ End(r)) /\ CancelSeen(r)
      BY <1>0 DEF CancelSeen
    <3>2. CASE Resume(r)
      <4>1. \/ call' = [call EXCEPT ![r].phase = "withdrawing"]
            \/ call' = [call EXCEPT ![r].phase = "done"]
        BY <3>1, <3>2 DEF Resume
      <4> QED BY <1>0, <4>1 DEF Call
    <3>3. CASE ~Resume(r)
      BY <1>0, <1>1, <2>2, <3>3 DEF Arrive, Turn, Start, Leave, Withdraw, End, Reuse, Call
    <3> QED BY <3>2, <3>3
  <2> QED BY <2>1, <2>2
<1>2. ASSUME NEW S \in SUBSET Requests, Cancel(S) PROVE call'[r].phase # "running"
  <2>1. call'[r].phase = call[r].phase
    BY <1>0, <1>2 DEF Cancel, Call
  <2> QED BY <1>0, <2>1
<1>3. CASE UNCHANGED svars
  BY <1>0, <1>3 DEF svars
<1> QED BY <1>1, <1>2, <1>3 DEF SNext

\* A cancelled request is never sent.
THEOREM CancelledNeverRuns == SSpec => CancelHonoured
<1>1. SInv /\ [SNext]_svars => \A r \in Requests : call[r].cancelled => call'[r].phase # "running"
  BY OnlyUncancelledRun
<1> QED BY <1>1, SInvariance, PTL DEF SSpec, CancelHonoured

-----------------------------------------------------------------------------
(***************************************************************************)
(* The path implements PoolAdmission: a request asks when it waits, runs   *)
(* when its task has the slot, and leaves or finishes when it is answered. *)
(***************************************************************************)
asking == Unanswered \ HasSlot
job == [r \in Requests |-> IF r \in Unanswered THEN [model |-> Model, cost |-> 0] ELSE NoJob]

\* While not all slots are held there is room for one more run.
LEMMA RoomForOne ==
  ASSUME SInv, NEW r \in Requests, r \in asking,
         sem.value # 0 \/ task[r] = "woken"
  PROVE  Slots!Room(job[r])
<1>1. HasSlot = HeldIn(call, task) /\ HasSlot \subseteq Unanswered /\ Unanswered \subseteq Requests
  BY DEF HasSlot, HeldIn, InTask, Unanswered, InPhase
<1>2. job[r] = [model |-> Model, cost |-> 0] /\ \A s \in HasSlot : job[s] = [model |-> Model, cost |-> 0]
  BY <1>1 DEF job, asking
<1>3. Cardinality(HasSlot) < Cap
  <2>1. task[r] = "woken" => Cardinality(GivenIn(task)) # 0
    <3>1. task[r] = "woken" => GivenIn(task) # {}
      BY DEF GivenIn
    <3> QED BY <3>1, SlotNumbers, FS_EmptySet
  <2> QED BY ONLY <1>1, <2>1, SInv, SlotNumbers, sem.value # 0 \/ task[r] = "woken"
<1>4. Slots!RunningOf(Model) = HasSlot
  BY <1>2 DEF Slots!RunningOf, job
<1>5. Slots!UnitsHeld(Model) = {}
  <2>1. \A s \in Slots!RunningIn(Model) : s \in HasSlot
    BY DEF Slots!RunningIn
  <2>2. \A s \in Slots!RunningIn(Model) : {s} \X (1 .. job[s].cost) = {}
    BY <1>2, <2>1
  <2> QED BY <2>2, Zenon DEF Slots!UnitsHeld, job
<1>6. Slots!Cardinality({}) = 0 /\ Slots!Cardinality(HasSlot) < Cap
  <2>1. \A S : Slots!Cardinality(S) = Cardinality(S)
    BY DEF Slots!Cardinality, Cardinality
  <2> QED BY <1>3, <2>1, FS_EmptySet
<1> QED BY <1>2, <1>4, <1>5, <1>6 DEF Slots!Room, job

\* What the abstract specification sees of a request.
Known == {"waiting", "withdrawing", "running"}
Asks(c, t) == c.phase \in Known /\ t # "got"
Has(c, t)  == c.phase \in Known /\ t = "got"

\* A step that the abstract specification sees at one request only.
LEMMA OneRequestMoves ==
  ASSUME NEW r \in Requests,
         \A s \in Requests \ {r} : /\ call'[s].phase = call[s].phase
                                   /\ task'[s] = "got" <=> task[s] = "got"
  PROVE  /\ ~Asks(call[r], task[r]) /\ ~Has(call[r], task[r]) /\ Asks(call'[r], task'[r])
              => Slots!Ask(r, Model, 0)
         /\ Asks(call[r], task[r]) /\ ~Asks(call'[r], task'[r]) /\ ~Has(call'[r], task'[r])
              => Slots!Leave(r)
         /\ Asks(call[r], task[r]) /\ Has(call'[r], task'[r]) /\ Slots!Room(job[r])
              => Slots!Grant(r)
         /\ Has(call[r], task[r]) /\ ~Asks(call'[r], task'[r]) /\ ~Has(call'[r], task'[r])
              => Slots!Finish(r)
         /\ (/\ Asks(call'[r], task'[r]) <=> Asks(call[r], task[r])
             /\ Has(call'[r], task'[r]) <=> Has(call[r], task[r]))
              => UNCHANGED Slots!avars
<1>1. /\ asking = {s \in Requests : Asks(call[s], task[s])}
      /\ HasSlot = {s \in Requests : Has(call[s], task[s])}
      /\ Unanswered = asking \cup HasSlot
      /\ asking' = {s \in Requests : Asks(call'[s], task'[s])}
      /\ HasSlot' = {s \in Requests : Has(call'[s], task'[s])}
      /\ Unanswered' = asking' \cup HasSlot'
  BY DEF asking, HasSlot, Unanswered, InTask, InPhase, Asks, Has, Known
<1>2. \A s \in Requests \ {r} : /\ Asks(call'[s], task'[s]) <=> Asks(call[s], task[s])
                                /\ Has(call'[s], task'[s]) <=> Has(call[s], task[s])
  BY DEF Asks, Has
<1>3. ~(Asks(call[r], task[r]) /\ Has(call[r], task[r]))
      /\ ~(Asks(call'[r], task'[r]) /\ Has(call'[r], task'[r]))
  BY DEF Asks, Has
<1>4. /\ asking' = IF Asks(call'[r], task'[r]) THEN asking \cup {r} ELSE asking \ {r}
      /\ HasSlot' = IF Has(call'[r], task'[r]) THEN HasSlot \cup {r} ELSE HasSlot \ {r}
      /\ r \in asking <=> Asks(call[r], task[r])
      /\ r \in HasSlot <=> Has(call[r], task[r])
  BY ONLY <1>1, <1>2, r \in Requests
<1>5. job' = [job EXCEPT ![r] = IF r \in asking' \cup HasSlot' THEN [model |-> Model, cost |-> 0] ELSE NoJob]
  BY ONLY <1>1, <1>4, r \in Requests DEF job
<1>6. (r \in asking \cup HasSlot <=> r \in asking' \cup HasSlot') => job' = job
  BY ONLY <1>1, <1>4, r \in Requests DEF job
<1>7. ~Asks(call[r], task[r]) /\ ~Has(call[r], task[r]) /\ Asks(call'[r], task'[r])
        => Slots!Ask(r, Model, 0)
  BY ONLY <1>1, <1>3, <1>4, <1>5 DEF Slots!Ask, asking, job
<1>8. Asks(call[r], task[r]) /\ ~Asks(call'[r], task'[r]) /\ ~Has(call'[r], task'[r])
        => Slots!Leave(r)
  BY ONLY <1>1, <1>3, <1>4, <1>5 DEF Slots!Leave, asking, job
<1>9. Asks(call[r], task[r]) /\ Has(call'[r], task'[r]) /\ Slots!Room(job[r])
        => Slots!Grant(r)
  BY ONLY <1>1, <1>3, <1>4, <1>6 DEF Slots!Grant, asking, job
<1>10. Has(call[r], task[r]) /\ ~Asks(call'[r], task'[r]) /\ ~Has(call'[r], task'[r])
        => Slots!Finish(r)
  BY ONLY <1>1, <1>3, <1>4, <1>5 DEF Slots!Finish, asking, job
<1>11. (/\ Asks(call'[r], task'[r]) <=> Asks(call[r], task[r])
        /\ Has(call'[r], task'[r]) <=> Has(call[r], task[r]))
         => UNCHANGED Slots!avars
  BY ONLY <1>1, <1>3, <1>4, <1>6 DEF Slots!avars, asking, job
<1> QED BY <1>7, <1>8, <1>9, <1>10, <1>11

\* Waking up moves nobody into or out of the hands of the abstract specification.
LEMMA WakeUpUnseen ==
  ASSUME NEW value, NEW list \in Seq(Requests), NEW n, NEW tasks, WakeUp(value, list, n, tasks)
  PROVE  \A r \in Requests : task'[r] = "got" <=> tasks[r] = "got"
<1> DEFINE parked == {i \in DOMAIN list : tasks[list[i]] = "parked"}
           rank(i) == Cardinality({j \in parked : j <= i})
           lucky  == {list[i] : i \in {j \in parked : rank(j) <= n /\ rank(j) <= value}}
<1>1. task' = [r \in Requests |-> IF r \in lucky THEN "woken" ELSE tasks[r]]
  BY DEF WakeUp
<1>2. \A r \in lucky : tasks[r] = "parked"
  OBVIOUS
<1> HIDE DEF lucky
<1> QED BY ONLY <1>1, <1>2

LEMMA RefinementStep == SInv /\ [SNext]_svars => [Slots!ANext]_(Slots!avars)
<1> SUFFICES ASSUME SInv, [SNext]_svars PROVE [Slots!ANext]_(Slots!avars)
  OBVIOUS
<1>0. /\ call \in [Requests -> Call] /\ task \in [Requests -> TaskStates]
      /\ sem.waiters \in Seq(Requests)
      /\ \A r \in Requests : Fits(call[r], task[r])
  BY SlotFacts
<1> DEFINE Others(r) == \A s \in Requests \ {r} : /\ call'[s].phase = call[s].phase
                                                  /\ task'[s] = "got" <=> task[s] = "got"
<1>1. ASSUME NEW r \in Requests, Arrive(r) PROVE Slots!ANext
  <2>1. /\ Others(r)
        /\ call[r].phase = "idle" /\ call'[r].phase = "waiting" /\ task'[r] = "new"
    BY <1>0, <1>1 DEF Arrive, Call
  <2>2. Slots!Ask(r, Model, 0)
    BY <2>1, OneRequestMoves DEF Asks, Has, Known
  <2> QED BY <2>2 DEF Slots!ANext
<1>2. ASSUME NEW r \in Requests, Start(r) PROVE [Slots!ANext]_(Slots!avars)
  <2>1. /\ Others(r) /\ call' = call
        /\ task[r] = "new" /\ call[r].phase = "waiting"
        /\ \/ task'[r] = "got" /\ sem.value # 0
           \/ task'[r] = "parked"
    <3>1. call[r].phase \in {"idle", "waiting", "withdrawing", "running", "done"} /\ Fits(call[r], task[r])
      BY <1>0 DEF Call
    <3> QED BY <1>0, <1>2, <3>1 DEF Start, Locked, Fits
  <2>2. CASE task'[r] = "got" /\ sem.value # 0
    <3>1. Asks(call[r], task[r]) /\ Has(call'[r], task'[r]) /\ r \in asking
      BY <2>1, <2>2 DEF Asks, Has, Known, asking, Unanswered, HasSlot, InPhase, InTask
    <3>2. Slots!Grant(r)
      BY <2>1, <2>2, <3>1, RoomForOne, OneRequestMoves
    <3> QED BY <3>2 DEF Slots!ANext
  <2>3. CASE task'[r] = "parked"
    <3>1. UNCHANGED Slots!avars
      BY <2>1, <2>3, OneRequestMoves DEF Asks, Has
    <3> QED BY <3>1
  <2> QED BY <2>1, <2>2, <2>3
<1>3. ASSUME NEW r \in Requests, Leave(r) PROVE [Slots!ANext]_(Slots!avars)
  <2> DEFINE end   == IF task[r] = "woken" THEN "got" ELSE "gone"
             tasks == [task EXCEPT ![r] = end]
  <2>1. /\ call' = call /\ task[r] \in {"woken", "newCut", "parkedCut", "wokenCut"}
        /\ \/ task' = tasks
           \/ \E value, n : \E i \in DOMAIN sem.waiters :
                WakeUp(value, RemoveAt(sem.waiters, i), n, tasks)
    BY <1>3 DEF Leave
  <2>2. /\ \A s \in Requests \ {r} : tasks[s] = task[s]
        /\ tasks[r] = end
    BY <1>0
  <2> HIDE DEF tasks
  <2>3. \A s \in Requests : task'[s] = "got" <=> tasks[s] = "got"
    <3>1. ASSUME NEW value, NEW n, NEW i \in DOMAIN sem.waiters,
                 WakeUp(value, RemoveAt(sem.waiters, i), n, tasks)
          PROVE  \A s \in Requests : task'[s] = "got" <=> tasks[s] = "got"
      <4>1. RemoveAt(sem.waiters, i) \in Seq(Requests)
        BY <1>0, RemoveAtFacts, LenProperties
      <4> QED BY <3>1, <4>1, WakeUpUnseen
    <3> QED BY <2>1, <3>1
  <2>4. Others(r) /\ (task'[r] = "got" <=> task[r] = "woken")
    BY <2>1, <2>2, <2>3
  <2>5. CASE task[r] = "woken"
    <3>1. call[r].phase = "waiting"
      BY <1>0, <2>5 DEF Fits, Call
    <3>2. Asks(call[r], task[r]) /\ Has(call'[r], task'[r]) /\ r \in asking
      BY <2>1, <2>4, <2>5, <3>1 DEF Asks, Has, Known, asking, Unanswered, HasSlot, InPhase, InTask
    <3>3. Slots!Grant(r)
      BY <2>4, <2>5, <3>2, RoomForOne, OneRequestMoves
    <3> QED BY <3>3 DEF Slots!ANext
  <2>6. CASE task[r] # "woken"
    <3>1. UNCHANGED Slots!avars
      BY <2>1, <2>4, <2>6, OneRequestMoves DEF Asks, Has
    <3> QED BY <3>1
  <2> QED BY <2>5, <2>6
<1>4. ASSUME NEW r \in Requests, task[r] = "got", call[r].phase \in {"waiting", "running"},
             Release, call' = [call EXCEPT ![r].phase = "done"]
      PROVE  Slots!ANext
  <2>1. \A s \in Requests : task'[s] = "got" <=> task[s] = "got"
    BY <1>0, <1>4, WakeUpUnseen DEF Release
  <2>2. Others(r) /\ call'[r].phase = "done"
    BY <1>0, <1>4, <2>1 DEF Call
  <2>3. Slots!Finish(r)
    BY <1>4, <2>2, OneRequestMoves DEF Asks, Has, Known
  <2> QED BY <2>3 DEF Slots!ANext
<1>5. ASSUME NEW r \in Requests, Resume(r) PROVE [Slots!ANext]_(Slots!avars)
  <2>1. CASE /\ task[r] # "got"
             /\ task' = [task EXCEPT ![r] = Cut(@)]
             /\ call' = [call EXCEPT ![r].phase = "withdrawing"]
    <3>1. Fits(call[r], task[r]) /\ call[r].phase = "waiting"
      BY <1>0, <1>5 DEF Resume
    <3>2. task[r] \in {"new", "parked", "woken"}
      BY ONLY <2>1, <3>1 DEF Fits
    <3>3. Cut(task[r]) # "got"
      BY <3>2 DEF Cut
    <3>4. Others(r) /\ call'[r].phase = "withdrawing" /\ task'[r] # "got"
      BY <1>0, <2>1, <3>3 DEF Call
    <3>5. UNCHANGED Slots!avars
      BY <2>1, <3>1, <3>4, OneRequestMoves DEF Asks, Has, Known
    <3> QED BY <3>5
  <2>2. CASE task[r] = "got" /\ Release /\ call' = [call EXCEPT ![r].phase = "done"]
    BY <1>4, <1>5, <2>2 DEF Resume
  <2>3. CASE /\ task[r] = "got" /\ call' = [call EXCEPT ![r].phase = "running"] /\ task' = task
    <3>1. Others(r) /\ call[r].phase = "waiting" /\ call'[r].phase = "running"
      BY <1>0, <1>5, <2>3 DEF Call, Resume
    <3>2. UNCHANGED Slots!avars
      BY <2>3, <3>1, OneRequestMoves DEF Asks, Has, Known
    <3> QED BY <3>2
  <2> QED BY <1>5, <2>1, <2>2, <2>3 DEF Resume, GivesBack
<1>6. ASSUME NEW r \in Requests, Withdraw(r) PROVE Slots!ANext
  <2>1. call[r].phase = "withdrawing" /\ task[r] = "gone"
    BY <1>0, <1>6 DEF Withdraw, Fits
  <2>2. call' = [call EXCEPT ![r].phase = "done"] /\ task' = task
    BY <1>6, <2>1 DEF Withdraw, TaskAwaited
  <2>3. Others(r) /\ call'[r].phase = "done"
    BY <1>0, <2>2 DEF Call
  <2>4. Slots!Leave(r)
    BY <2>1, <2>3, OneRequestMoves DEF Asks, Has, Known
  <2> QED BY <2>4 DEF Slots!ANext
<1>7. ASSUME NEW r \in Requests, End(r) PROVE Slots!ANext
  BY <1>0, <1>4, <1>7 DEF End, Released, Fits
<1>8. ASSUME NEW r \in Requests, Reuse(r) PROVE UNCHANGED Slots!avars
  <2>1. Others(r) /\ call[r].phase = "done" /\ call'[r].phase = "idle"
    BY <1>0, <1>8 DEF Reuse, Call
  <2> QED BY <2>1, OneRequestMoves DEF Asks, Has, Known
<1>9. ASSUME NEW S \in SUBSET Requests, Cancel(S) PROVE UNCHANGED Slots!avars
  <2>1. task' = task /\ \A r \in Requests : call'[r].phase = call[r].phase
    BY <1>0, <1>9 DEF Cancel, Call
  <2>2. Unanswered' = Unanswered /\ HasSlot' = HasSlot
    BY <2>1 DEF Unanswered, HasSlot, InPhase, InTask
  <2> QED BY <2>2 DEF Slots!avars
<1>10. CASE UNCHANGED svars
  BY <1>10 DEF svars, Slots!avars, Unanswered, HasSlot, InPhase, InTask
<1> QED BY <1>1, <1>2, <1>3, <1>5, <1>6, <1>7, <1>8, <1>9, <1>10 DEF SNext, Turn

\* With the scheduler switched off, the path admits as PoolAdmission allows: never
\* more requests at once than the cap of the model.
THEOREM PathImplementsAdmission == SSpec => ImplementsPoolAdmission
<1>1. SInit => Slots!AInit
  <2> SUFFICES ASSUME SInit PROVE Slots!AInit
    OBVIOUS
  <2>1. Unanswered = {} /\ HasSlot = {}
    BY DEF SInit, Unanswered, HasSlot, InPhase, InTask
  <2> QED BY <2>1 DEF Slots!AInit
<1> QED BY <1>1, RefinementStep, SInvariance, PTL DEF SSpec, ImplementsPoolAdmission, Slots!ASpec

=============================================================================
