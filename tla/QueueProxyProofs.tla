-------------------------- MODULE QueueProxyProofs --------------------------
(***************************************************************************)
(* Proofs about QueueProxy, for every set of requests, models and pools:   *)
(* its type, that slots are neither leaked nor given back twice, that each *)
(* request is reported once, that a cancel is honoured, and that the       *)
(* request path uses the admission control as PoolAdmission allows.        *)
(*                                                                         *)
(* The inductive invariant has three parts: what is true of one request in *)
(* each phase (Lives), what the counters are sums of (Tallied), and what a *)
(* closed breaker has counted (Breakers).  An action changes one request,  *)
(* so each counter moves by that request's share of it.                    *)
(***************************************************************************)
EXTENDS QueueProxy, CollectionFacts

AttemptPhases == {"sending", "streaming", "draining"}

\* A request holds a slot from its admission to its end.
Holds(c) == c.phase \in AttemptPhases \/ (c.phase = "queued" /\ c.fut = "admitted")

\* What one request contributes to the counters of pool p and model m.
Units(c, r, p)   == IF Holds(c) /\ PoolOf[c.model] = p THEN {r} \X (1 .. c.cost) ELSE {}
UnitShare(c, p)  == IF Holds(c) /\ PoolOf[c.model] = p THEN c.cost ELSE 0
RunShare(c, m)   == IF Holds(c) /\ c.model = m THEN 1 ELSE 0
SentShare(c, m)  == IF c.phase \in AttemptPhases /\ c.model = m THEN 1 ELSE 0
QueueShare(c, m) == IF c.phase = "queued" /\ c.model = m THEN 1 ELSE 0

\* What the counters count, when the requests are as calls says.
UnitsIn(calls, p)  == UNION {Units(calls[r], r, p) : r \in Requests}
RunsIn(calls, m)   == {r \in Requests : Holds(calls[r]) /\ calls[r].model = m}
SentIn(calls, m)   == {r \in Requests : calls[r].phase \in AttemptPhases /\ calls[r].model = m}
QueuedIn(calls, m) == {r \in Requests : calls[r].phase = "queued" /\ calls[r].model = m}

Tallied(calls, counters, shown) ==
  /\ \A p \in Pools  : IsFiniteSet(UnitsIn(calls, p)) /\ counters.used[p] = Cardinality(UnitsIn(calls, p))
  /\ \A m \in Models : IsFiniteSet(RunsIn(calls, m)) /\ counters.runs[m] = Cardinality(RunsIn(calls, m))
  /\ \A m \in Models : IsFiniteSet(SentIn(calls, m)) /\ shown.inFlight[m] = Cardinality(SentIn(calls, m))
  /\ \A m \in Models : IsFiniteSet(QueuedIn(calls, m)) /\ shown.queueDepth[m] = Cardinality(QueuedIn(calls, m))

\* The life of a request: a live one has a model, a queued one has a place in its
\* pool or was refused, one that is being sent was admitted and not cancelled, and
\* exactly the answered ones are reported, once.
Lives(c) ==
  /\ c.phase # "idle" => c.model \in Models
  /\ c.cancelled => c.phase = "queued"
  /\ c.phase # "done" => c.events = <<>> /\ c.fed = <<>> /\ ~c.released /\ ~c.emitted
  /\ c.phase = "queued" /\ c.fut # "refused" => c.cost <= Budget[PoolOf[c.model]]
  /\ c.phase \in {"streaming", "draining"} => c.base # "none"
  /\ c.phase = "done" =>
       \E outcome \in Outcomes :
         /\ c.events = <<outcome>>
         /\ c.fed = IF outcome \in AttemptOutcomes THEN <<outcome>> ELSE <<>>

\* A closed breaker has counted fewer failures than trip it.
Breakers ==
  /\ brk \in [Models -> ModelState]
  /\ \A m \in Models : brk[m].state = "closed" => brk[m].consecutiveFails < Fails

QInv ==
  /\ call \in [Requests -> Call]
  /\ \A r \in Requests : Lives(call[r])
  /\ sched \in [used : [Pools -> Nat], runs : [Models -> Nat]]
  /\ metrics \in [inFlight : [Models -> Nat], queueDepth : [Models -> Nat]]
  /\ Tallied(call, sched, metrics)
  /\ Breakers

-----------------------------------------------------------------------------
(***************************************************************************)
(* Counting.                                                               *)
(***************************************************************************)

\* The units of one request are as many as its share.
LEMMA UnitsCount ==
  ASSUME NEW c, c.cost \in Nat, NEW r, NEW p
  PROVE  /\ IsFiniteSet(Units(c, r, p)) /\ Cardinality(Units(c, r, p)) = UnitShare(c, p)
         /\ UnitShare(c, p) \in Nat
<1>1. CASE Holds(c) /\ PoolOf[c.model] = p
  <2>1. IsFiniteSet({r}) /\ Cardinality({r}) = 1
    BY FS_Singleton
  <2>2. IsFiniteSet(1 .. c.cost) /\ Cardinality(1 .. c.cost) = c.cost
    BY FS_Interval
  <2>3. /\ IsFiniteSet({r} \X (1 .. c.cost))
        /\ Cardinality({r} \X (1 .. c.cost)) = Cardinality({r}) * Cardinality(1 .. c.cost)
    BY <2>1, <2>2, FS_Product
  <2> QED BY <1>1, <2>1, <2>2, <2>3 DEF Units, UnitShare
<1>2. CASE ~(Holds(c) /\ PoolOf[c.model] = p)
  BY <1>2, FS_EmptySet DEF Units, UnitShare
<1> QED BY <1>1, <1>2

\* One request changes: the units of a pool change by its share.
LEMMA UnitsMove ==
  ASSUME NEW calls, NEW after, NEW r \in Requests, NEW p,
         \A s \in Requests \ {r} : after[s] = calls[s],
         calls[r].cost \in Nat, after[r].cost \in Nat, IsFiniteSet(UnitsIn(calls, p))
  PROVE  /\ IsFiniteSet(UnitsIn(after, p))
         /\ Cardinality(UnitsIn(after, p)) =
              Cardinality(UnitsIn(calls, p)) - UnitShare(calls[r], p) + UnitShare(after[r], p)
         /\ UnitShare(calls[r], p) <= Cardinality(UnitsIn(calls, p))
<1> DEFINE all  == UnitsIn(calls, p)
           gone == Units(calls[r], r, p)
           come == Units(after[r], r, p)
           rest == all \ gone
<1>1. /\ IsFiniteSet(gone) /\ Cardinality(gone) = UnitShare(calls[r], p)
      /\ IsFiniteSet(come) /\ Cardinality(come) = UnitShare(after[r], p)
      /\ UnitShare(calls[r], p) \in Nat /\ UnitShare(after[r], p) \in Nat
  BY UnitsCount
<1>2. \A s \in Requests : \A c : \A t \in Units(c, s, p) : t[1] = s
  BY DEF Units
<1>3. gone \subseteq all
  BY DEF UnitsIn
<1>4. UnitsIn(after, p) = rest \cup come
  <2>1. ASSUME NEW t \in UnitsIn(after, p) PROVE t \in rest \cup come
    <3>1. PICK s \in Requests : t \in Units(after[s], s, p)
      BY DEF UnitsIn
    <3>2. CASE s = r
      BY <3>1, <3>2
    <3>3. CASE s # r
      <4>1. t \in Units(calls[s], s, p)
        BY <3>1, <3>3
      <4>2. t \in all
        BY <4>1 DEF UnitsIn
      <4>3. t \notin gone
        BY <1>2, <3>3, <4>1
      <4> QED BY <4>2, <4>3
    <3> QED BY <3>2, <3>3
  <2>2. ASSUME NEW t \in rest PROVE t \in UnitsIn(after, p)
    <3>1. PICK s \in Requests : t \in Units(calls[s], s, p)
      BY <2>2 DEF UnitsIn
    <3>2. s # r
      BY <2>2, <3>1
    <3>3. t \in Units(after[s], s, p)
      BY <3>1, <3>2
    <3> QED BY <3>3 DEF UnitsIn
  <2>3. come \subseteq UnitsIn(after, p)
    BY DEF UnitsIn
  <2> QED BY <2>1, <2>2, <2>3
<1>5. rest \cap come = {}
  <2> SUFFICES ASSUME NEW t \in rest, t \in come PROVE FALSE
    OBVIOUS
  <2>1. PICK s \in Requests : t \in Units(calls[s], s, p)
    BY DEF UnitsIn
  <2>2. s = r
    BY <1>2, <2>1
  <2> QED BY <2>1, <2>2
<1> HIDE DEF all, gone, come
<1>6. /\ IsFiniteSet(rest)
      /\ Cardinality(rest) = Cardinality(all) - Cardinality(all \cap gone)
  BY FS_Difference DEF all
<1>7. all \cap gone = gone
  BY <1>3
<1>8. Cardinality(gone) <= Cardinality(all)
  BY <1>3, FS_Subset DEF all
<1> HIDE DEF rest
<1>9. IsFiniteSet(rest \cup come) /\ Cardinality(rest \cup come) = Cardinality(rest) + Cardinality(come)
  BY <1>1, <1>5, <1>6, DisjointSizes
<1>10. Cardinality(all) \in Nat
  BY FS_CardinalityType DEF all
<1>11. /\ IsFiniteSet(UnitsIn(after, p))
       /\ Cardinality(UnitsIn(after, p)) = Cardinality(all) - UnitShare(calls[r], p) + UnitShare(after[r], p)
       /\ UnitShare(calls[r], p) <= Cardinality(all)
  BY ONLY <1>1, <1>4, <1>6, <1>7, <1>8, <1>9, <1>10
<1> QED BY <1>11 DEF all

\* One request changes: every counter moves by its share.
SchedMoves(counters, old, new) ==
  /\ counters \in [used : [Pools -> Int], runs : [Models -> Int]]
  /\ \A p \in Pools  : counters.used[p] = sched.used[p] - UnitShare(old, p) + UnitShare(new, p)
  /\ \A m \in Models : counters.runs[m] = sched.runs[m] - RunShare(old, m) + RunShare(new, m)

ShownMoves(shown, old, new) ==
  /\ shown \in [inFlight : [Models -> Int], queueDepth : [Models -> Int]]
  /\ \A m \in Models : shown.inFlight[m] = metrics.inFlight[m] - SentShare(old, m) + SentShare(new, m)
  /\ \A m \in Models : shown.queueDepth[m] = metrics.queueDepth[m] - QueueShare(old, m) + QueueShare(new, m)

LEMMA TallyMoves ==
  ASSUME QInv, NEW r \in Requests, NEW c \in Call, call' = [call EXCEPT ![r] = c],
         SchedMoves(sched', call[r], c), ShownMoves(metrics', call[r], c)
  PROVE  /\ Tallied(call', sched', metrics')
         /\ sched' \in [used : [Pools -> Nat], runs : [Models -> Nat]]
         /\ metrics' \in [inFlight : [Models -> Nat], queueDepth : [Models -> Nat]]
<1>0. /\ call \in [Requests -> Call] /\ Tallied(call, sched, metrics)
      /\ \A p \in Pools : sched.used[p] \in Nat
      /\ \A m \in Models : sched.runs[m] \in Nat /\ metrics.inFlight[m] \in Nat /\ metrics.queueDepth[m] \in Nat
  BY DEF QInv
<1>1. /\ call'[r] = c /\ \A s \in Requests \ {r} : call'[s] = call[s]
      /\ call[r].cost \in Nat /\ call'[r].cost \in Nat
  BY <1>0 DEF Call
<1>2. ASSUME NEW p \in Pools
      PROVE  /\ IsFiniteSet(UnitsIn(call', p)) /\ sched'.used[p] = Cardinality(UnitsIn(call', p))
             /\ sched'.used[p] \in Nat
  <2>1. IsFiniteSet(UnitsIn(call, p)) /\ sched.used[p] = Cardinality(UnitsIn(call, p))
    BY <1>0 DEF Tallied
  <2>2. /\ IsFiniteSet(UnitsIn(call', p))
        /\ Cardinality(UnitsIn(call', p)) =
             Cardinality(UnitsIn(call, p)) - UnitShare(call[r], p) + UnitShare(call'[r], p)
    <3>1. \A s \in Requests \ {r} : call'[s] = call[s]
      BY <1>1
    <3>2. call[r].cost \in Nat /\ call'[r].cost \in Nat /\ IsFiniteSet(UnitsIn(call, p))
      BY <1>1, <2>1
    <3> QED BY ONLY <3>1, <3>2, r \in Requests, UnitsMove
  <2>3. Cardinality(UnitsIn(call', p)) \in Nat
    BY <2>2, FS_CardinalityType
  <2>4. sched'.used[p] = sched.used[p] - UnitShare(call[r], p) + UnitShare(c, p)
    BY DEF SchedMoves
  <2> QED BY ONLY <1>1, <2>1, <2>2, <2>3, <2>4
<1>3. ASSUME NEW m \in Models
      PROVE  /\ IsFiniteSet(RunsIn(call', m)) /\ sched'.runs[m] = Cardinality(RunsIn(call', m))
             /\ sched'.runs[m] \in Nat
  <2>1. IsFiniteSet(RunsIn(call, m)) /\ sched.runs[m] = Cardinality(RunsIn(call, m))
    BY <1>0 DEF Tallied
  <2>2. RunsIn(call', m) \ {r} = RunsIn(call, m) \ {r}
    BY <1>1 DEF RunsIn
  <2>3. /\ (IF r \in RunsIn(call, m) THEN 1 ELSE 0) = RunShare(call[r], m)
        /\ (IF r \in RunsIn(call', m) THEN 1 ELSE 0) = RunShare(c, m)
    BY <1>1 DEF RunsIn, RunShare
  <2>4. /\ IsFiniteSet(RunsIn(call', m))
        /\ Cardinality(RunsIn(call', m)) =
             Cardinality(RunsIn(call, m)) - RunShare(call[r], m) + RunShare(c, m)
    BY ONLY <2>1, <2>2, <2>3, MemberMoves
  <2>5. Cardinality(RunsIn(call', m)) \in Nat
    BY <2>4, FS_CardinalityType
  <2>6. sched'.runs[m] = sched.runs[m] - RunShare(call[r], m) + RunShare(c, m)
    BY DEF SchedMoves
  <2> QED BY ONLY <2>1, <2>4, <2>5, <2>6
<1>4. ASSUME NEW m \in Models
      PROVE  /\ IsFiniteSet(SentIn(call', m)) /\ metrics'.inFlight[m] = Cardinality(SentIn(call', m))
             /\ metrics'.inFlight[m] \in Nat
  <2>1. IsFiniteSet(SentIn(call, m)) /\ metrics.inFlight[m] = Cardinality(SentIn(call, m))
    BY <1>0 DEF Tallied
  <2>2. SentIn(call', m) \ {r} = SentIn(call, m) \ {r}
    BY <1>1 DEF SentIn
  <2>3. /\ (IF r \in SentIn(call, m) THEN 1 ELSE 0) = SentShare(call[r], m)
        /\ (IF r \in SentIn(call', m) THEN 1 ELSE 0) = SentShare(c, m)
    BY <1>1 DEF SentIn, SentShare
  <2>4. /\ IsFiniteSet(SentIn(call', m))
        /\ Cardinality(SentIn(call', m)) =
             Cardinality(SentIn(call, m)) - SentShare(call[r], m) + SentShare(c, m)
    BY ONLY <2>1, <2>2, <2>3, MemberMoves
  <2>5. Cardinality(SentIn(call', m)) \in Nat
    BY <2>4, FS_CardinalityType
  <2>6. metrics'.inFlight[m] = metrics.inFlight[m] - SentShare(call[r], m) + SentShare(c, m)
    BY DEF ShownMoves
  <2> QED BY ONLY <2>1, <2>4, <2>5, <2>6
<1>5. ASSUME NEW m \in Models
      PROVE  /\ IsFiniteSet(QueuedIn(call', m)) /\ metrics'.queueDepth[m] = Cardinality(QueuedIn(call', m))
             /\ metrics'.queueDepth[m] \in Nat
  <2>1. IsFiniteSet(QueuedIn(call, m)) /\ metrics.queueDepth[m] = Cardinality(QueuedIn(call, m))
    BY <1>0 DEF Tallied
  <2>2. QueuedIn(call', m) \ {r} = QueuedIn(call, m) \ {r}
    BY <1>1 DEF QueuedIn
  <2>3. /\ (IF r \in QueuedIn(call, m) THEN 1 ELSE 0) = QueueShare(call[r], m)
        /\ (IF r \in QueuedIn(call', m) THEN 1 ELSE 0) = QueueShare(c, m)
    BY <1>1 DEF QueuedIn, QueueShare
  <2>4. /\ IsFiniteSet(QueuedIn(call', m))
        /\ Cardinality(QueuedIn(call', m)) =
             Cardinality(QueuedIn(call, m)) - QueueShare(call[r], m) + QueueShare(c, m)
    BY ONLY <2>1, <2>2, <2>3, MemberMoves
  <2>5. Cardinality(QueuedIn(call', m)) \in Nat
    BY <2>4, FS_CardinalityType
  <2>6. metrics'.queueDepth[m] = metrics.queueDepth[m] - QueueShare(call[r], m) + QueueShare(c, m)
    BY DEF ShownMoves
  <2> QED BY ONLY <2>1, <2>4, <2>5, <2>6
<1>6. sched' \in [used : [Pools -> Nat], runs : [Models -> Nat]]
  BY <1>2, <1>3 DEF SchedMoves
<1>7. metrics' \in [inFlight : [Models -> Nat], queueDepth : [Models -> Nat]]
  BY <1>4, <1>5 DEF ShownMoves
<1> QED BY <1>2, <1>3, <1>4, <1>5, <1>6, <1>7 DEF Tallied

\* What every action that changes one request has to show.
LEMMA RequestSteps ==
  ASSUME QInv, NEW r \in Requests, NEW c \in Call, Lives(c), call' = [call EXCEPT ![r] = c],
         SchedMoves(sched', call[r], c), ShownMoves(metrics', call[r], c), Breakers'
  PROVE  QInv'
<1>1. call' \in [Requests -> Call] /\ \A s \in Requests : Lives(call'[s])
  BY DEF QInv
<1>2. /\ Tallied(call', sched', metrics')
      /\ sched' \in [used : [Pools -> Nat], runs : [Models -> Nat]]
      /\ metrics' \in [inFlight : [Models -> Nat], queueDepth : [Models -> Nat]]
  BY TallyMoves
<1>3. \A s \in Requests : Lives(call[s])' 
  BY <1>1 DEF Lives
<1> QED BY <1>1, <1>2, <1>3 DEF QInv, Tallied

\* The counters have their fields.
LEMMA CounterFacts ==
  ASSUME QInv
  PROVE  /\ sched = [used |-> sched.used, runs |-> sched.runs]
         /\ sched.used \in [Pools -> Nat] /\ sched.runs \in [Models -> Nat]
         /\ metrics = [inFlight |-> metrics.inFlight, queueDepth |-> metrics.queueDepth]
         /\ metrics.inFlight \in [Models -> Nat] /\ metrics.queueDepth \in [Models -> Nat]
BY DEF QInv

\* The share of a request is 0 or as expected.
LEMMA ShareFacts ==
  ASSUME NEW c
  PROVE  /\ \A p : UnitShare(c, p) = IF Holds(c) /\ p = PoolOf[c.model] THEN c.cost ELSE 0
         /\ \A m : RunShare(c, m) = IF Holds(c) /\ m = c.model THEN 1 ELSE 0
         /\ \A m : SentShare(c, m) = IF c.phase \in AttemptPhases /\ m = c.model THEN 1 ELSE 0
         /\ \A m : QueueShare(c, m) = IF c.phase = "queued" /\ m = c.model THEN 1 ELSE 0
BY DEF UnitShare, RunShare, SentShare, QueueShare

\* The scheduler's counters stay when a request neither takes nor gives a slot.
LEMMA SchedStays ==
  ASSUME QInv, NEW old \in Call, NEW new \in Call, Holds(old) <=> Holds(new),
         Holds(old) => old.model = new.model /\ old.cost = new.cost
  PROVE  SchedMoves(sched, old, new)
<1>1. /\ \A p : UnitShare(old, p) = UnitShare(new, p) /\ UnitShare(old, p) \in Nat
      /\ \A m : RunShare(old, m) = RunShare(new, m) /\ RunShare(old, m) \in Nat
  BY DEF UnitShare, RunShare, Call
<1> QED BY <1>1, CounterFacts DEF SchedMoves

\* An admission charges the request.
LEMMA SchedCharges ==
  ASSUME QInv, NEW old \in Call, NEW new \in Call, ~Holds(old), Holds(new),
         old.model = new.model, old.cost = new.cost, old.model \in Models
  PROVE  SchedMoves(Charged(old), old, new)
<1> DEFINE p == PoolOf[old.model]
           m == old.model
           used == [sched.used EXCEPT ![p] = @ + old.cost]
           runs == [sched.runs EXCEPT ![m] = @ + 1]
<1>1. p \in Pools /\ m \in Models /\ old.cost \in Nat
  BY ProxyAssumption DEF Call
<1>2. Charged(old) = [used |-> used, runs |-> runs]
  <2> DEFINE half == [sched EXCEPT !.used[p] = @ + old.cost]
  <2>1. half = [used |-> used, runs |-> sched.runs]
    BY CounterFacts
  <2>2. Charged(old) = [half EXCEPT !.runs[m] = @ + 1]
    BY DEF Charged
  <2> HIDE DEF half
  <2> QED BY <2>1, <2>2
<1>3. used \in [Pools -> Int] /\ \A q \in Pools : used[q] = sched.used[q] + IF q = p THEN old.cost ELSE 0
  BY <1>1, CounterFacts
<1>4. runs \in [Models -> Int] /\ \A n \in Models : runs[n] = sched.runs[n] + IF n = m THEN 1 ELSE 0
  BY <1>1, CounterFacts
<1>5. /\ \A q : UnitShare(old, q) = 0 /\ UnitShare(new, q) = IF q = p THEN old.cost ELSE 0
      /\ \A n : RunShare(old, n) = 0 /\ RunShare(new, n) = IF n = m THEN 1 ELSE 0
  BY ShareFacts
<1>6. \A q \in Pools : sched.used[q] \in Nat
  BY CounterFacts
<1>7. \A n \in Models : sched.runs[n] \in Nat
  BY CounterFacts
<1> HIDE DEF used, runs, p, m
<1>8. \A q \in Pools : used[q] = sched.used[q] - UnitShare(old, q) + UnitShare(new, q)
  <2> SUFFICES ASSUME NEW q \in Pools PROVE used[q] = sched.used[q] - UnitShare(old, q) + UnitShare(new, q)
    OBVIOUS
  <2>1. sched.used[q] \in Nat
    BY <1>6
  <2>2. UnitShare(old, q) = 0
    BY <1>5
  <2>3. CASE q = p
    <3>1. used[q] = sched.used[q] + old.cost
      BY <1>3, <2>3
    <3>2. UnitShare(new, q) = old.cost
      BY <1>5, <2>3
    <3>3. old.cost \in Nat
      BY <1>1
    <3> QED BY ONLY <2>1, <2>2, <3>1, <3>2, <3>3
  <2>4. CASE q # p
    <3>1. used[q] = sched.used[q]
      BY <1>3, <2>1, <2>4
    <3>2. UnitShare(new, q) = 0
      BY <1>5, <2>4
    <3> QED BY ONLY <2>1, <2>2, <3>1, <3>2
  <2> QED BY <2>3, <2>4
<1>9. \A n \in Models : runs[n] = sched.runs[n] - RunShare(old, n) + RunShare(new, n)
  <2> SUFFICES ASSUME NEW n \in Models PROVE runs[n] = sched.runs[n] - RunShare(old, n) + RunShare(new, n)
    OBVIOUS
  <2>1. sched.runs[n] \in Nat
    BY <1>7
  <2>2. RunShare(old, n) = 0
    BY <1>5
  <2>3. CASE n = m
    <3>1. runs[n] = sched.runs[n] + 1
      BY <1>4, <2>3
    <3>2. RunShare(new, n) = 1
      BY <1>5, <2>3
    <3> QED BY ONLY <2>1, <2>2, <3>1, <3>2
  <2>4. CASE n # m
    <3>1. runs[n] = sched.runs[n]
      BY <1>4, <2>1, <2>4
    <3>2. RunShare(new, n) = 0
      BY <1>5, <2>4
    <3> QED BY ONLY <2>1, <2>2, <3>1, <3>2
  <2> QED BY <2>3, <2>4
<1> QED BY <1>2, <1>3, <1>4, <1>8, <1>9 DEF SchedMoves

\* An end refunds the request: the floor at zero never bites.
LEMMA SchedRefunds ==
  ASSUME QInv, NEW r \in Requests, NEW new \in Call, Holds(call[r]), ~Holds(new),
         call[r].model \in Models
  PROVE  SchedMoves(Refunded(call[r]), call[r], new)
<1> DEFINE old == call[r]
           p == PoolOf[old.model]
           m == old.model
           used == [sched.used EXCEPT ![p] = AtLeast0(@ - old.cost)]
           runs == [sched.runs EXCEPT ![m] = AtLeast0(@ - 1)]
<1>1. p \in Pools /\ m \in Models /\ old.cost \in Nat
  BY ProxyAssumption DEF QInv, Call
<1>2. Refunded(old) = [used |-> used, runs |-> runs]
  <2> DEFINE half == [sched EXCEPT !.used[p] = AtLeast0(@ - old.cost)]
  <2>1. half = [used |-> used, runs |-> sched.runs]
    BY CounterFacts
  <2>2. Refunded(old) = [half EXCEPT !.runs[m] = AtLeast0(@ - 1)]
    BY DEF Refunded
  <2> HIDE DEF half
  <2> QED BY <2>1, <2>2
<1>3. old.cost <= sched.used[p]
  <2>1. IsFiniteSet(UnitsIn(call, p)) /\ sched.used[p] = Cardinality(UnitsIn(call, p))
    BY <1>1 DEF QInv, Tallied
  <2>2. Units(old, r, p) \subseteq UnitsIn(call, p)
    BY DEF UnitsIn
  <2>3. Cardinality(Units(old, r, p)) = old.cost
    BY <1>1, UnitsCount, ShareFacts
  <2> HIDE DEF p, old
  <2> QED BY <2>1, <2>2, <2>3, FS_Subset
<1>4. 1 <= sched.runs[m]
  <2>1. IsFiniteSet(RunsIn(call, m)) /\ sched.runs[m] = Cardinality(RunsIn(call, m))
    BY <1>1 DEF QInv, Tallied
  <2>2. r \in RunsIn(call, m)
    BY DEF RunsIn
  <2> HIDE DEF m, old
  <2> QED BY <2>1, <2>2, MemberMoves
<1>5. \A q \in Pools : sched.used[q] \in Nat
  BY CounterFacts
<1>6. \A n \in Models : sched.runs[n] \in Nat
  BY CounterFacts
<1>7. used \in [Pools -> Int] /\ \A q \in Pools : used[q] = sched.used[q] - IF q = p THEN old.cost ELSE 0
  <2>1. AtLeast0(sched.used[p] - old.cost) = sched.used[p] - old.cost
    <3> HIDE DEF old, p
    <3> QED BY <1>1, <1>3, <1>5 DEF AtLeast0
  <2> HIDE DEF old, p
  <2> QED BY <1>1, <1>5, <2>1, CounterFacts
<1>8. runs \in [Models -> Int] /\ \A n \in Models : runs[n] = sched.runs[n] - IF n = m THEN 1 ELSE 0
  <2>1. AtLeast0(sched.runs[m] - 1) = sched.runs[m] - 1
    <3> HIDE DEF old, m
    <3> QED BY <1>1, <1>4, <1>6 DEF AtLeast0
  <2> HIDE DEF old, m
  <2> QED BY <1>1, <1>6, <2>1, CounterFacts
<1>9. /\ \A q : UnitShare(new, q) = 0 /\ UnitShare(old, q) = IF q = p THEN old.cost ELSE 0
      /\ \A n : RunShare(new, n) = 0 /\ RunShare(old, n) = IF n = m THEN 1 ELSE 0
  BY ShareFacts
<1> HIDE DEF used, runs, p, m, old
<1>10. \A q \in Pools : used[q] = sched.used[q] - UnitShare(old, q) + UnitShare(new, q)
  <2> SUFFICES ASSUME NEW q \in Pools PROVE used[q] = sched.used[q] - UnitShare(old, q) + UnitShare(new, q)
    OBVIOUS
  <2>1. sched.used[q] \in Nat
    BY <1>5
  <2>2. UnitShare(new, q) = 0
    BY <1>9
  <2>3. CASE q = p
    <3>1. used[q] = sched.used[q] - old.cost
      BY <1>7, <2>3
    <3>2. UnitShare(old, q) = old.cost
      BY <1>9, <2>3
    <3>3. old.cost \in Nat
      BY <1>1
    <3> QED BY ONLY <2>1, <2>2, <3>1, <3>2, <3>3
  <2>4. CASE q # p
    <3>1. used[q] = sched.used[q]
      BY <1>7, <2>1, <2>4
    <3>2. UnitShare(old, q) = 0
      BY <1>9, <2>4
    <3> QED BY ONLY <2>1, <2>2, <3>1, <3>2
  <2> QED BY <2>3, <2>4
<1>11. \A n \in Models : runs[n] = sched.runs[n] - RunShare(old, n) + RunShare(new, n)
  <2> SUFFICES ASSUME NEW n \in Models PROVE runs[n] = sched.runs[n] - RunShare(old, n) + RunShare(new, n)
    OBVIOUS
  <2>1. sched.runs[n] \in Nat
    BY <1>6
  <2>2. RunShare(new, n) = 0
    BY <1>9
  <2>3. CASE n = m
    <3>1. runs[n] = sched.runs[n] - 1
      BY <1>8, <2>3
    <3>2. RunShare(old, n) = 1
      BY <1>9, <2>3
    <3> QED BY ONLY <2>1, <2>2, <3>1, <3>2
  <2>4. CASE n # m
    <3>1. runs[n] = sched.runs[n]
      BY <1>8, <2>1, <2>4
    <3>2. RunShare(old, n) = 0
      BY <1>9, <2>4
    <3> QED BY ONLY <2>1, <2>2, <3>1, <3>2
  <2> QED BY <2>3, <2>4
<1> QED BY <1>2, <1>7, <1>8, <1>10, <1>11 DEF SchedMoves, old

\* The counters shown to operators stay, or follow a request to its next phase.
LEMMA ShownStays ==
  ASSUME QInv, NEW old \in Call, NEW new \in Call,
         old.phase \in AttemptPhases <=> new.phase \in AttemptPhases,
         old.phase = "queued" <=> new.phase = "queued",
         old.phase \in AttemptPhases \cup {"queued"} => old.model = new.model
  PROVE  ShownMoves(metrics, old, new)
<1>1. \A m : /\ SentShare(old, m) = SentShare(new, m) /\ SentShare(old, m) \in Nat
             /\ QueueShare(old, m) = QueueShare(new, m) /\ QueueShare(old, m) \in Nat
  BY DEF SentShare, QueueShare
<1> QED BY <1>1, CounterFacts DEF ShownMoves

LEMMA ShownQueues ==
  ASSUME QInv, NEW old \in Call, NEW new \in Call, new.model \in Models,
         old.phase = "idle", new.phase = "queued"
  PROVE  ShownMoves(Queued(new.model), old, new)
<1> DEFINE m == new.model
           depth == [metrics.queueDepth EXCEPT ![m] = @ + 1]
<1>1. Queued(m) = [inFlight |-> metrics.inFlight, queueDepth |-> depth]
  BY CounterFacts DEF Queued
<1>2. depth \in [Models -> Int] /\ \A n \in Models : depth[n] = metrics.queueDepth[n] + IF n = m THEN 1 ELSE 0
  BY CounterFacts
<1>3. \A n \in Models : metrics.queueDepth[n] \in Nat /\ metrics.inFlight[n] \in Nat
  BY CounterFacts
<1>4. \A n : /\ SentShare(old, n) = 0 /\ SentShare(new, n) = 0
             /\ QueueShare(old, n) = 0 /\ QueueShare(new, n) = IF n = m THEN 1 ELSE 0
  BY ShareFacts DEF AttemptPhases
<1> HIDE DEF depth, m
<1>5. \A n \in Models : depth[n] = metrics.queueDepth[n] - QueueShare(old, n) + QueueShare(new, n)
  <2> SUFFICES ASSUME NEW n \in Models PROVE depth[n] = metrics.queueDepth[n] - QueueShare(old, n) + QueueShare(new, n)
    OBVIOUS
  <2>1. metrics.queueDepth[n] \in Nat
    BY <1>3
  <2>2. QueueShare(old, n) = 0
    BY <1>4
  <2>3. CASE n = m
    <3>1. depth[n] = metrics.queueDepth[n] + 1
      BY <1>2, <2>3
    <3>2. QueueShare(new, n) = 1
      BY <1>4, <2>3
    <3> QED BY ONLY <2>1, <2>2, <3>1, <3>2
  <2>4. CASE n # m
    <3>1. depth[n] = metrics.queueDepth[n]
      BY <1>2, <2>1, <2>4
    <3>2. QueueShare(new, n) = 0
      BY <1>4, <2>4
    <3> QED BY ONLY <2>1, <2>2, <3>1, <3>2
  <2> QED BY <2>3, <2>4
<1>6. \A n \in Models : metrics.inFlight[n] = metrics.inFlight[n] - SentShare(old, n) + SentShare(new, n)
  <2> SUFFICES ASSUME NEW n \in Models PROVE metrics.inFlight[n] = metrics.inFlight[n] - SentShare(old, n) + SentShare(new, n)
    OBVIOUS
  <2>1. metrics.inFlight[n] \in Nat /\ SentShare(old, n) = 0 /\ SentShare(new, n) = 0
    BY <1>3, <1>4
  <2> QED BY ONLY <2>1
<1>7. metrics.inFlight \in [Models -> Int]
  BY CounterFacts
<1> QED BY <1>1, <1>2, <1>5, <1>6, <1>7 DEF ShownMoves, m

LEMMA ShownDequeues ==
  ASSUME QInv, NEW old \in Call, NEW new \in Call, old.model \in Models,
         old.phase = "queued", new.phase = "done"
  PROVE  ShownMoves(Dequeued(old.model), old, new)
<1> DEFINE m == old.model
           depth == [metrics.queueDepth EXCEPT ![m] = @ - 1]
<1>1. Dequeued(m) = [inFlight |-> metrics.inFlight, queueDepth |-> depth]
  BY CounterFacts DEF Dequeued
<1>2. depth \in [Models -> Int] /\ \A n \in Models : depth[n] = metrics.queueDepth[n] - IF n = m THEN 1 ELSE 0
  BY CounterFacts
<1>3. \A n \in Models : metrics.queueDepth[n] \in Nat /\ metrics.inFlight[n] \in Nat
  BY CounterFacts
<1>4. \A n : /\ SentShare(old, n) = 0 /\ SentShare(new, n) = 0
             /\ QueueShare(new, n) = 0 /\ QueueShare(old, n) = IF n = m THEN 1 ELSE 0
  BY ShareFacts DEF AttemptPhases
<1> HIDE DEF depth, m
<1>5. \A n \in Models : depth[n] = metrics.queueDepth[n] - QueueShare(old, n) + QueueShare(new, n)
  <2> SUFFICES ASSUME NEW n \in Models PROVE depth[n] = metrics.queueDepth[n] - QueueShare(old, n) + QueueShare(new, n)
    OBVIOUS
  <2>1. metrics.queueDepth[n] \in Nat
    BY <1>3
  <2>2. QueueShare(new, n) = 0
    BY <1>4
  <2>3. CASE n = m
    <3>1. depth[n] = metrics.queueDepth[n] - 1
      BY <1>2, <2>3
    <3>2. QueueShare(old, n) = 1
      BY <1>4, <2>3
    <3> QED BY ONLY <2>1, <2>2, <3>1, <3>2
  <2>4. CASE n # m
    <3>1. depth[n] = metrics.queueDepth[n]
      BY <1>2, <2>1, <2>4
    <3>2. QueueShare(old, n) = 0
      BY <1>4, <2>4
    <3> QED BY ONLY <2>1, <2>2, <3>1, <3>2
  <2> QED BY <2>3, <2>4
<1>6. \A n \in Models : metrics.inFlight[n] = metrics.inFlight[n] - SentShare(old, n) + SentShare(new, n)
  <2> SUFFICES ASSUME NEW n \in Models PROVE metrics.inFlight[n] = metrics.inFlight[n] - SentShare(old, n) + SentShare(new, n)
    OBVIOUS
  <2>1. metrics.inFlight[n] \in Nat /\ SentShare(old, n) = 0 /\ SentShare(new, n) = 0
    BY <1>3, <1>4
  <2> QED BY ONLY <2>1
<1>7. metrics.inFlight \in [Models -> Int]
  BY CounterFacts
<1> QED BY <1>1, <1>2, <1>5, <1>6, <1>7 DEF ShownMoves, m

LEMMA ShownSends ==
  ASSUME QInv, NEW old \in Call, NEW new \in Call, old.model \in Models, new.model = old.model,
         old.phase = "queued", new.phase = "sending"
  PROVE  ShownMoves([Dequeued(old.model) EXCEPT !.inFlight[old.model] = @ + 1], old, new)
<1> DEFINE m == old.model
           depth == [metrics.queueDepth EXCEPT ![m] = @ - 1]
           sent  == [metrics.inFlight EXCEPT ![m] = @ + 1]
<1>1. [Dequeued(m) EXCEPT !.inFlight[m] = @ + 1] = [inFlight |-> sent, queueDepth |-> depth]
  <2>1. Dequeued(m) = [inFlight |-> metrics.inFlight, queueDepth |-> depth]
    BY CounterFacts DEF Dequeued
  <2> QED BY <2>1
<1>2. /\ depth \in [Models -> Int] /\ \A n \in Models : depth[n] = metrics.queueDepth[n] - IF n = m THEN 1 ELSE 0
      /\ sent \in [Models -> Int] /\ \A n \in Models : sent[n] = metrics.inFlight[n] + IF n = m THEN 1 ELSE 0
  BY CounterFacts
<1>3. \A n \in Models : metrics.queueDepth[n] \in Nat /\ metrics.inFlight[n] \in Nat
  BY CounterFacts
<1>4. \A n : /\ SentShare(old, n) = 0 /\ SentShare(new, n) = IF n = m THEN 1 ELSE 0
             /\ QueueShare(new, n) = 0 /\ QueueShare(old, n) = IF n = m THEN 1 ELSE 0
  BY ShareFacts DEF AttemptPhases
<1> HIDE DEF depth, sent, m
<1>5. \A n \in Models : depth[n] = metrics.queueDepth[n] - QueueShare(old, n) + QueueShare(new, n)
  <2> SUFFICES ASSUME NEW n \in Models PROVE depth[n] = metrics.queueDepth[n] - QueueShare(old, n) + QueueShare(new, n)
    OBVIOUS
  <2>1. metrics.queueDepth[n] \in Nat
    BY <1>3
  <2>2. QueueShare(new, n) = 0
    BY <1>4
  <2>3. CASE n = m
    <3>1. depth[n] = metrics.queueDepth[n] - 1
      BY <1>2, <2>3
    <3>2. QueueShare(old, n) = 1
      BY <1>4, <2>3
    <3> QED BY ONLY <2>1, <2>2, <3>1, <3>2
  <2>4. CASE n # m
    <3>1. depth[n] = metrics.queueDepth[n]
      BY <1>2, <2>1, <2>4
    <3>2. QueueShare(old, n) = 0
      BY <1>4, <2>4
    <3> QED BY ONLY <2>1, <2>2, <3>1, <3>2
  <2> QED BY <2>3, <2>4
<1>6. \A n \in Models : sent[n] = metrics.inFlight[n] - SentShare(old, n) + SentShare(new, n)
  <2> SUFFICES ASSUME NEW n \in Models PROVE sent[n] = metrics.inFlight[n] - SentShare(old, n) + SentShare(new, n)
    OBVIOUS
  <2>1. metrics.inFlight[n] \in Nat
    BY <1>3
  <2>2. SentShare(old, n) = 0
    BY <1>4
  <2>3. CASE n = m
    <3>1. sent[n] = metrics.inFlight[n] + 1
      BY <1>2, <2>3
    <3>2. SentShare(new, n) = 1
      BY <1>4, <2>3
    <3> QED BY ONLY <2>1, <2>2, <3>1, <3>2
  <2>4. CASE n # m
    <3>1. sent[n] = metrics.inFlight[n]
      BY <1>2, <2>1, <2>4
    <3>2. SentShare(new, n) = 0
      BY <1>4, <2>4
    <3> QED BY ONLY <2>1, <2>2, <3>1, <3>2
  <2> QED BY <2>3, <2>4
<1> QED BY <1>1, <1>2, <1>5, <1>6 DEF ShownMoves, m

LEMMA ShownEnds ==
  ASSUME QInv, NEW old \in Call, NEW new \in Call, old.model \in Models,
         old.phase \in AttemptPhases, new.phase = "done"
  PROVE  ShownMoves(RunEnded(old), old, new)
<1> DEFINE m == old.model
           sent == [metrics.inFlight EXCEPT ![m] = @ - 1]
<1>1. RunEnded(old) = [inFlight |-> sent, queueDepth |-> metrics.queueDepth]
  BY CounterFacts DEF RunEnded
<1>2. sent \in [Models -> Int] /\ \A n \in Models : sent[n] = metrics.inFlight[n] - IF n = m THEN 1 ELSE 0
  BY CounterFacts
<1>3. \A n \in Models : metrics.queueDepth[n] \in Nat /\ metrics.inFlight[n] \in Nat
  BY CounterFacts
<1>4. \A n : /\ SentShare(new, n) = 0 /\ SentShare(old, n) = IF n = m THEN 1 ELSE 0
             /\ QueueShare(old, n) = 0 /\ QueueShare(new, n) = 0
  BY ShareFacts DEF AttemptPhases
<1> HIDE DEF sent, m
<1>5. \A n \in Models : sent[n] = metrics.inFlight[n] - SentShare(old, n) + SentShare(new, n)
  <2> SUFFICES ASSUME NEW n \in Models PROVE sent[n] = metrics.inFlight[n] - SentShare(old, n) + SentShare(new, n)
    OBVIOUS
  <2>1. metrics.inFlight[n] \in Nat
    BY <1>3
  <2>2. SentShare(new, n) = 0
    BY <1>4
  <2>3. CASE n = m
    <3>1. sent[n] = metrics.inFlight[n] - 1
      BY <1>2, <2>3
    <3>2. SentShare(old, n) = 1
      BY <1>4, <2>3
    <3> QED BY ONLY <2>1, <2>2, <3>1, <3>2
  <2>4. CASE n # m
    <3>1. sent[n] = metrics.inFlight[n]
      BY <1>2, <2>1, <2>4
    <3>2. SentShare(old, n) = 0
      BY <1>4, <2>4
    <3> QED BY ONLY <2>1, <2>2, <3>1, <3>2
  <2> QED BY <2>3, <2>4
<1>6. \A n \in Models : metrics.queueDepth[n] = metrics.queueDepth[n] - QueueShare(old, n) + QueueShare(new, n)
  <2> SUFFICES ASSUME NEW n \in Models PROVE metrics.queueDepth[n] = metrics.queueDepth[n] - QueueShare(old, n) + QueueShare(new, n)
    OBVIOUS
  <2>1. metrics.queueDepth[n] \in Nat /\ QueueShare(old, n) = 0 /\ QueueShare(new, n) = 0
    BY <1>3, <1>4
  <2> QED BY ONLY <2>1
<1>7. metrics.queueDepth \in [Models -> Int]
  BY CounterFacts
<1> QED BY <1>1, <1>2, <1>5, <1>6, <1>7 DEF ShownMoves, m

-----------------------------------------------------------------------------
(***************************************************************************)
(* The breaker: no call of the proxy leaves a closed one with the failures *)
(* that trip it.                                                           *)
(***************************************************************************)
LEMMA OneBreaker ==
  ASSUME Breakers, NEW m \in Models, NEW s \in ModelState,
         s.state = "closed" => s.consecutiveFails < Fails, brk' = [brk EXCEPT ![m] = s]
  PROVE  Breakers'
BY DEF Breakers

LEMMA BreakerCalls ==
  ASSUME NEW s \in ModelState
  PROVE  /\ Arm(s) \in ModelState /\ Arm(s).state = "half_open"
         /\ Open(s) \in ModelState /\ Open(s).state = "open"
         /\ Close(s) \in ModelState /\ Close(s).consecutiveFails = 0
         /\ [s EXCEPT !.probeInFlight = FALSE] \in ModelState
         /\ \A k \in 0 .. Fails : /\ [s EXCEPT !.consecutiveFails = k] \in ModelState
                                  /\ [s EXCEPT !.consecutiveFails = k].consecutiveFails = k
<1>1. 0 \in 0 .. Cooldown /\ 0 \in 0 .. Fails
  BY BreakerAssumption
<1> QED BY <1>1 DEF ModelState, Arm, Open, Close

LEMMA AllowKeeps ==
  ASSUME Breakers, NEW m \in Models, Allow(m)
  PROVE  Breakers'
<1>1. brk \in [Models -> ModelState] /\ brk[m] \in ModelState
  BY DEF Breakers
<1>2. CASE brk' = [brk EXCEPT ![m] = Arm(brk[m])]
  <2>1. Arm(brk[m]) \in ModelState /\ Arm(brk[m]).state = "half_open"
    BY <1>1, BreakerCalls
  <2> HIDE DEF Arm
  <2> QED BY ONLY <1>2, <2>1, m \in Models, Breakers, OneBreaker
<1>3. CASE brk' = brk
  BY <1>3 DEF Breakers
<1> QED BY <1>2, <1>3 DEF Allow

LEMMA RecordKeeps ==
  ASSUME Breakers, NEW m \in Models, NEW outcome, Record(m, outcome)
  PROVE  Breakers'
<1>1. brk \in [Models -> ModelState] /\ brk[m] \in ModelState /\ 0 < Fails /\ 0 \in 0 .. Fails /\ Fails \in Nat
  BY BreakerAssumption DEF Breakers
<1>2. CASE brk' = brk
  BY <1>2 DEF Breakers
<1>3. ASSUME NEW s \in ModelState, s.state = "closed" => s.consecutiveFails < Fails,
             brk' = [brk EXCEPT ![m] = s]
      PROVE  Breakers'
  BY <1>3, OneBreaker
<1>4. CASE RecordHalfOpen(m, outcome)
  <2>1. CASE brk' = [brk EXCEPT ![m] = Close(brk[m])]
    BY <1>1, <1>3, <2>1, BreakerCalls
  <2>2. CASE brk' = [brk EXCEPT ![m] = Open([brk[m] EXCEPT !.probeInFlight = FALSE])]
    <3> DEFINE s == [brk[m] EXCEPT !.probeInFlight = FALSE]
    <3>1. s \in ModelState
      BY <1>1, BreakerCalls
    <3> HIDE DEF s
    <3>2. Open(s) \in ModelState /\ Open(s).state = "open"
      BY <3>1, BreakerCalls
    <3>3. brk' = [brk EXCEPT ![m] = Open(s)]
      BY <2>2 DEF s
    <3> QED BY <1>3, <3>2, <3>3
  <2> QED BY <1>4, <2>1, <2>2 DEF RecordHalfOpen
<1>5. CASE RecordClosed(m, outcome)
  <2> DEFINE fails == brk[m].consecutiveFails + 1
  <2>1. fails \in 0 .. Fails
    BY <1>1, <1>5 DEF RecordClosed, Breakers, ModelState
  <2> HIDE DEF fails
  <2>2. CASE brk' = [brk EXCEPT ![m] = [brk[m] EXCEPT !.consecutiveFails = 0]]
    BY <1>1, <1>3, <2>2, BreakerCalls
  <2>3. CASE fails < Fails /\ brk' = [brk EXCEPT ![m] = [brk[m] EXCEPT !.consecutiveFails = fails]]
    BY <1>1, <1>3, <2>1, <2>3, BreakerCalls
  <2>4. CASE brk' = [brk EXCEPT ![m] = Open([brk[m] EXCEPT !.consecutiveFails = fails])]
    <3> DEFINE s == [brk[m] EXCEPT !.consecutiveFails = fails]
    <3>1. s \in ModelState
      BY <1>1, <2>1, BreakerCalls
    <3> HIDE DEF s
    <3>2. Open(s) \in ModelState /\ Open(s).state = "open"
      BY <3>1, BreakerCalls
    <3>3. brk' = [brk EXCEPT ![m] = Open(s)]
      BY <2>4 DEF s
    <3> QED BY <1>3, <3>2, <3>3
  <2>5. \/ brk' = [brk EXCEPT ![m] = [brk[m] EXCEPT !.consecutiveFails = 0]]
        \/ fails < Fails /\ brk' = [brk EXCEPT ![m] = [brk[m] EXCEPT !.consecutiveFails = fails]]
        \/ brk' = [brk EXCEPT ![m] = Open([brk[m] EXCEPT !.consecutiveFails = fails])]
    BY <1>5 DEF RecordClosed, fails
  <2> QED BY <2>2, <2>3, <2>4, <2>5
<1> QED BY <1>2, <1>4, <1>5 DEF Record

LEMMA ElapseKeeps ==
  ASSUME Breakers, Elapse
  PROVE  Breakers'
<1> DEFINE older(m) == [brk[m] EXCEPT !.openAge = Older(brk[m].openAge), !.probeAge = Older(brk[m].probeAge)]
<1>1. brk' = [m \in Models |-> older(m)]
  BY DEF Elapse
<1>2. ASSUME NEW m \in Models
      PROVE  /\ older(m) \in ModelState
             /\ older(m).state = "closed" => older(m).consecutiveFails < Fails
  <2>1. brk[m] \in ModelState /\ (brk[m].state = "closed" => brk[m].consecutiveFails < Fails)
    BY DEF Breakers
  <2>2. brk[m].openAge \in 0 .. Cooldown /\ brk[m].probeAge \in 0 .. Cooldown /\ Cooldown \in Nat
    BY <2>1, BreakerAssumption DEF ModelState
  <2>3. Older(brk[m].openAge) \in 0 .. Cooldown /\ Older(brk[m].probeAge) \in 0 .. Cooldown
    BY <2>2 DEF Older
  <2> HIDE DEF Older
  <2> QED BY <2>1, <2>3 DEF ModelState
<1> HIDE DEF older
<1> QED BY <1>1, <1>2 DEF Breakers

-----------------------------------------------------------------------------
(***************************************************************************)
(* The steps keep the invariant.                                           *)
(***************************************************************************)

\* A request that is over.
LEMMA OverFacts ==
  ASSUME NEW c \in Call
  PROVE  /\ Over(c) \in Call
         /\ Over(c).phase = "done" /\ ~Over(c).cancelled /\ ~Holds(Over(c))
         /\ Over(c).model = c.model /\ Over(c).events = c.events /\ Over(c).fed = c.fed
BY DEF Over, Call, Holds, AttemptPhases

LEMMA AnswerIsDone ==
  ASSUME NEW c \in Call, NEW outcome
  PROVE  Answer(c, outcome).phase = "done"
<1>1. Over(c) \in Call /\ Over(c).phase = "done"
  BY OverFacts
<1> QED BY <1>1 DEF Answer, Call

LEMMA AnswerFacts ==
  ASSUME NEW c \in Call, NEW outcome \in Outcomes \ AttemptOutcomes, c.events = <<>>, c.fed = <<>>,
         c.model \in Models
  PROVE  /\ Answer(c, outcome) \in Call
         /\ Answer(c, outcome).phase = "done" /\ ~Holds(Answer(c, outcome))
         /\ Answer(c, outcome).model = c.model
         /\ Lives(Answer(c, outcome))
<1> DEFINE o == Over(c)
           a == [o EXCEPT !.events = <<outcome>>]
<1>1. /\ o \in Call /\ o.phase = "done" /\ ~o.cancelled /\ ~Holds(o)
      /\ o.model = c.model /\ o.events = <<>> /\ o.fed = <<>>
  BY OverFacts
<1>2. Answer(c, outcome) = a
  BY <1>1 DEF Answer
<1> HIDE DEF o
<1>3. <<outcome>> \in Seq(Outcomes)
  OBVIOUS
<1>4. /\ a \in Call /\ a.phase = "done" /\ ~a.cancelled
      /\ a.model = c.model /\ a.events = <<outcome>> /\ a.fed = <<>>
  BY <1>1, <1>3 DEF Call
<1> HIDE DEF a
<1>5. ~Holds(a)
  BY <1>4 DEF Holds, AttemptPhases
<1>6. Lives(a)
  BY <1>4 DEF Lives
<1> QED BY <1>2, <1>4, <1>5, <1>6

LEMMA BreakersStay == ASSUME Breakers, UNCHANGED brk PROVE Breakers'
BY DEF Breakers

\* What the invariant says of one request.
LEMMA RequestFacts ==
  ASSUME QInv, NEW r \in Requests
  PROVE  /\ call[r] \in Call /\ Lives(call[r]) /\ Breakers
         /\ call[r].phase # "idle" => call[r].model \in Models
BY DEF QInv, Lives

\* A request as it arrives.
LEMMA NewFacts ==
  ASSUME NEW m \in Models, NEW cost \in CostsOf[m], NEW c, c = [Unused EXCEPT !.model = m, !.cost = cost]
  PROVE  /\ c \in Call /\ c.phase = "idle" /\ c.model = m /\ c.cost = cost /\ ~c.cancelled
         /\ c.events = <<>> /\ c.fed = <<>> /\ ~c.released /\ ~c.emitted
<1>1. cost \in Nat
  BY ProxyAssumption
<1>2. /\ Unused \in Call /\ Unused.phase = "idle" /\ ~Unused.cancelled
      /\ Unused.events = <<>> /\ Unused.fed = <<>> /\ ~Unused.released /\ ~Unused.emitted
  BY DEF Unused, Call
<1> HIDE DEF Unused
<1> QED BY <1>1, <1>2 DEF Call

LEMMA ArriveKeeps ==
  ASSUME QInv, NEW r \in Requests, NEW m \in Models, NEW cost \in CostsOf[m], NEW big \in BOOLEAN,
         Arrive(r, m, cost, big)
  PROVE  QInv'
<1> DEFINE c == [Unused EXCEPT !.model = m, !.cost = cost]
           q == [c EXCEPT !.phase = "queued",
                          !.fut = IF cost <= Budget[PoolOf[m]] THEN "pending" ELSE "refused"]
<1>1. /\ c \in Call /\ c.phase = "idle" /\ c.model = m /\ c.cost = cost /\ ~c.cancelled
      /\ c.events = <<>> /\ c.fed = <<>> /\ ~c.released /\ ~c.emitted
  BY NewFacts
<1>2. /\ call[r] = Unused /\ call[r] \in Call /\ call[r].phase = "idle" /\ Breakers
  BY RequestFacts DEF Arrive, Unused
<1>3. ~Holds(call[r])
  BY <1>2 DEF Holds, AttemptPhases
<1> HIDE DEF c
<1>4. ASSUME NEW outcome \in Outcomes \ AttemptOutcomes,
             call' = [call EXCEPT ![r] = Answer(c, outcome)], UNCHANGED <<sched, metrics, brk>>
      PROVE  QInv'
  <2> DEFINE a == Answer(c, outcome)
  <2>1. a \in Call /\ a.phase = "done" /\ ~Holds(a) /\ Lives(a)
    BY <1>1, AnswerFacts
  <2> HIDE DEF a
  <2>2. SchedMoves(sched, call[r], a)
    BY <1>2, <1>3, <2>1, SchedStays
  <2>3. ShownMoves(metrics, call[r], a)
    BY <1>2, <2>1, ShownStays DEF AttemptPhases
  <2>4. call' = [call EXCEPT ![r] = a] /\ sched' = sched /\ metrics' = metrics
    BY <1>4 DEF a
  <2>5. Breakers'
    BY <1>2, <1>4, BreakersStay
  <2> QED BY <2>1, <2>2, <2>3, <2>4, <2>5, RequestSteps
<1>5. CASE call' = [call EXCEPT ![r] = q] /\ metrics' = Queued(m) /\ sched' = sched /\ Allow(m)
  <2>1. /\ q \in Call /\ q.phase = "queued" /\ q.fut # "admitted" /\ q.model = m
        /\ q.cost = cost /\ (q.fut # "refused" => cost <= Budget[PoolOf[m]])
        /\ ~q.cancelled /\ q.events = <<>> /\ q.fed = <<>> /\ ~q.released /\ ~q.emitted
    BY <1>1 DEF Call
  <2>2. ~Holds(q) /\ Lives(q)
    BY <2>1 DEF Holds, AttemptPhases, Lives
  <2> HIDE DEF q
  <2>3. SchedMoves(sched, call[r], q)
    BY <1>2, <1>3, <2>1, <2>2, SchedStays
  <2>4. ShownMoves(Queued(m), call[r], q)
    BY <1>2, <2>1, ShownQueues
  <2>5. Breakers'
    BY <1>2, <1>5, AllowKeeps
  <2> QED BY <1>5, <2>1, <2>2, <2>3, <2>4, <2>5, RequestSteps
<1>6. \/ \E outcome \in Outcomes \ AttemptOutcomes :
           call' = [call EXCEPT ![r] = Answer(c, outcome)] /\ UNCHANGED <<sched, metrics, brk>>
      \/ call' = [call EXCEPT ![r] = q] /\ metrics' = Queued(m) /\ sched' = sched /\ Allow(m)
  <2>1. {"rejected_oversized", "rejected_unhealthy"} \subseteq Outcomes \ AttemptOutcomes
    BY DEF Outcomes, AttemptOutcomes
  <2> QED BY <2>1 DEF Arrive, c
<1> QED BY <1>4, <1>5, <1>6

LEMMA AdmitKeeps ==
  ASSUME QInv, NEW r \in Requests, Admit(r)
  PROVE  QInv'
<1> DEFINE old == call[r]
           new == [old EXCEPT !.fut = "admitted"]
<1>1. /\ old \in Call /\ Lives(old) /\ Breakers /\ old.model \in Models
      /\ old.phase = "queued" /\ old.fut = "pending"
  BY RequestFacts DEF Admit
<1>2. /\ new \in Call /\ new.phase = "queued" /\ new.fut = "admitted"
      /\ new.model = old.model /\ new.cost = old.cost
  BY <1>1 DEF Call
<1>3. Lives(new)
  BY <1>1, <1>2 DEF Lives, Call
<1>4. ~Holds(old) /\ Holds(new)
  BY <1>1, <1>2 DEF Holds, AttemptPhases
<1>5. call' = [call EXCEPT ![r] = new] /\ sched' = Charged(old) /\ metrics' = metrics /\ brk' = brk
  BY DEF Admit
<1> HIDE DEF new
<1>6. SchedMoves(Charged(old), old, new)
  BY <1>1, <1>2, <1>4, SchedCharges
<1>7. ShownMoves(metrics, old, new)
  BY <1>1, <1>2, ShownStays DEF AttemptPhases
<1>8. Breakers'
  BY <1>1, <1>5, BreakersStay
<1> QED BY <1>2, <1>3, <1>5, <1>6, <1>7, <1>8, RequestSteps

LEMMA ResumeKeeps ==
  ASSUME QInv, NEW r \in Requests, Resume(r)
  PROVE  QInv'
<1> DEFINE old == call[r]
<1>1. /\ old \in Call /\ Lives(old) /\ Breakers /\ old.model \in Models
      /\ old.phase = "queued" /\ old.events = <<>> /\ old.fed = <<>> /\ brk' = brk
  BY RequestFacts DEF Resume, Lives
<1>2. Breakers'
  BY <1>1, BreakersStay
<1>3. ASSUME NEW outcome \in Outcomes \ AttemptOutcomes, call' = [call EXCEPT ![r] = Answer(old, outcome)],
             metrics' = Dequeued(old.model),
             \/ old.fut # "admitted" /\ sched' = sched
             \/ old.fut = "admitted" /\ sched' = Refunded(old)
      PROVE  QInv'
  <2> DEFINE a == Answer(old, outcome)
  <2>1. a \in Call /\ a.phase = "done" /\ ~Holds(a) /\ Lives(a)
    BY <1>1, AnswerFacts
  <2>2. call' = [call EXCEPT ![r] = a]
    BY <1>3
  <2> HIDE DEF a
  <2>3. SchedMoves(sched', old, a)
    <3>1. CASE old.fut # "admitted" /\ sched' = sched
      <4>1. ~Holds(old)
        BY <1>1, <3>1 DEF Holds, AttemptPhases
      <4> QED BY <1>1, <2>1, <3>1, <4>1, SchedStays
    <3>2. CASE old.fut = "admitted" /\ sched' = Refunded(old)
      <4>1. Holds(old)
        BY <1>1, <3>2 DEF Holds
      <4> QED BY <1>1, <2>1, <3>2, <4>1, SchedRefunds
    <3> QED BY <1>3, <3>1, <3>2
  <2>4. ShownMoves(metrics', old, a)
    BY <1>1, <1>3, <2>1, ShownDequeues
  <2> QED BY <1>2, <2>1, <2>2, <2>3, <2>4, RequestSteps
<1>4. ASSUME old.fut = "admitted", ~old.cancelled,
             call' = [call EXCEPT ![r] = [old EXCEPT !.phase = "sending", !.upstream = "working"]],
             metrics' = [Dequeued(old.model) EXCEPT !.inFlight[old.model] = @ + 1], sched' = sched
      PROVE  QInv'
  <2> DEFINE a == [old EXCEPT !.phase = "sending", !.upstream = "working"]
  <2>1. /\ a \in Call /\ a.phase = "sending" /\ a.model = old.model /\ a.cost = old.cost
        /\ a.cancelled = old.cancelled /\ a.events = old.events /\ a.fed = old.fed
        /\ a.released = old.released /\ a.emitted = old.emitted
    BY <1>1 DEF Call
  <2>2. call' = [call EXCEPT ![r] = a]
    BY <1>4
  <2> HIDE DEF a
  <2>3. Holds(old) /\ Holds(a) /\ Lives(a)
    BY <1>1, <1>4, <2>1 DEF Holds, Lives, AttemptPhases
  <2>4. SchedMoves(sched, old, a)
    BY <1>1, <2>1, <2>3, SchedStays
  <2>5. ShownMoves([Dequeued(old.model) EXCEPT !.inFlight[old.model] = @ + 1], old, a)
    BY <1>1, <2>1, ShownSends
  <2> QED BY <1>2, <1>4, <2>1, <2>2, <2>3, <2>4, <2>5, RequestSteps
<1>5. old.fut \in {"pending", "admitted", "refused"}
  BY <1>1 DEF Call
<1>6. {"cancelled_queued", "rejected_unadmittable"} \subseteq Outcomes \ AttemptOutcomes
  BY DEF Outcomes, AttemptOutcomes
<1>7. CASE old.fut # "admitted"
  BY <1>3, <1>6, <1>7 DEF Resume, Withdrawn
<1>8. CASE old.fut = "admitted" /\ old.cancelled
  BY <1>3, <1>6, <1>8 DEF Resume, CancelSeen, CancelledRefund
<1>9. CASE old.fut = "admitted" /\ ~old.cancelled
  BY <1>1, <1>4, <1>9 DEF Resume, CancelSeen
<1> QED BY <1>7, <1>8, <1>9, <1>5

LEMMA CancelKeeps ==
  ASSUME QInv, NEW S \in SUBSET Requests, Cancel(S)
  PROVE  QInv'
<1> DEFINE cut(r) == [call[r] EXCEPT !.cancelled = TRUE]
<1>1. call' = [r \in Requests |-> IF r \in S THEN cut(r) ELSE call[r]] /\ UNCHANGED <<sched, metrics, brk>>
  BY DEF Cancel
<1>2. ASSUME NEW r \in Requests
      PROVE  /\ call'[r] \in Call /\ Lives(call'[r])
             /\ call'[r].phase = call[r].phase /\ call'[r].fut = call[r].fut
             /\ call'[r].model = call[r].model /\ call'[r].cost = call[r].cost
  <2>1. call[r] \in Call /\ Lives(call[r])
    BY RequestFacts
  <2>2. CASE r \notin S
    BY <1>1, <2>1, <2>2
  <2>3. CASE r \in S
    <3>1. call[r].phase = "queued" /\ call'[r] = cut(r)
      BY <1>1, <2>3 DEF Cancel
    <3>2. /\ cut(r) \in Call /\ cut(r).phase = call[r].phase /\ cut(r).fut = call[r].fut
          /\ cut(r).model = call[r].model /\ cut(r).cost = call[r].cost /\ cut(r).base = call[r].base
          /\ cut(r).events = call[r].events /\ cut(r).fed = call[r].fed
          /\ cut(r).released = call[r].released /\ cut(r).emitted = call[r].emitted
      BY <2>1 DEF Call
    <3> HIDE DEF cut
    <3> QED BY <2>1, <3>1, <3>2 DEF Lives
  <2> QED BY <2>2, <2>3
<1>3. call' \in [Requests -> Call]
  BY <1>1, <1>2
<1>4. /\ \A p : UnitsIn(call', p) = UnitsIn(call, p)
      /\ \A m : RunsIn(call', m) = RunsIn(call, m)
      /\ \A m : SentIn(call', m) = SentIn(call, m)
      /\ \A m : QueuedIn(call', m) = QueuedIn(call, m)
  <2>1. \A r \in Requests : \A p : Units(call'[r], r, p) = Units(call[r], r, p)
    BY <1>2 DEF Units, Holds
  <2>2. \A p : UnitsIn(call', p) = UnitsIn(call, p)
    BY <2>1 DEF UnitsIn
  <2>3. \A m : RunsIn(call', m) = RunsIn(call, m)
    BY <1>2 DEF RunsIn, Holds
  <2>4. \A m : SentIn(call', m) = SentIn(call, m)
    BY <1>2 DEF SentIn
  <2>5. \A m : QueuedIn(call', m) = QueuedIn(call, m)
    BY <1>2 DEF QueuedIn
  <2> QED BY <2>2, <2>3, <2>4, <2>5
<1>5. Tallied(call, sched, metrics) /\ sched' = sched /\ metrics' = metrics
  BY <1>1 DEF QInv
<1>6. Tallied(call', sched', metrics')
  BY <1>4, <1>5 DEF Tallied
<1>7. Breakers'
  BY <1>1, BreakersStay DEF QInv
<1>8. /\ sched' \in [used : [Pools -> Nat], runs : [Models -> Nat]]
      /\ metrics' \in [inFlight : [Models -> Nat], queueDepth : [Models -> Nat]]
  BY <1>5 DEF QInv
<1>9. \A r \in Requests : Lives(call[r])'
  BY <1>2 DEF Lives
<1> QED BY <1>3, <1>6, <1>7, <1>8, <1>9 DEF QInv, Tallied

\* The end of an attempt.
LEMMA EndKeeps ==
  ASSUME QInv, NEW r \in Requests, call[r].phase \in AttemptPhases,
         NEW outcome \in AttemptOutcomes, NEW upstream \in {"ended", "broken", "working", "unread"},
         End(r, outcome, upstream)
  PROVE  /\ QInv'
         /\ call'[r].phase = "done" /\ \A s \in Requests \ {r} : call'[s] = call[s]
<1> DEFINE old  == call[r]
           told == Finished(old, outcome)
           over == Over(told)
           new  == [over EXCEPT !.released = TRUE, !.upstream = upstream]
<1>1. /\ old \in Call /\ Lives(old) /\ Breakers /\ old.model \in Models
      /\ old.phase \in AttemptPhases /\ old.events = <<>> /\ old.fed = <<>>
      /\ ~old.released /\ ~old.emitted
  BY RequestFacts DEF AttemptPhases, Lives
<1>2. outcome \in Outcomes
  BY DEF Outcomes
<1>3. told \in Call /\ told.model = old.model /\ told.events = <<outcome>> /\ told.fed = <<outcome>>
  <2>1. told = [old EXCEPT !.emitted = TRUE, !.events = <<outcome>>, !.fed = <<outcome>>]
    BY <1>1 DEF Finished
  <2>2. <<outcome>> \in Seq(Outcomes) /\ <<outcome>> \in Seq(AttemptOutcomes)
    BY <1>2
  <2> HIDE DEF told
  <2> QED BY <1>1, <2>1, <2>2 DEF Call
<1> HIDE DEF told
<1>4. /\ over \in Call /\ over.phase = "done" /\ ~over.cancelled
      /\ over.model = old.model /\ over.events = <<outcome>> /\ over.fed = <<outcome>>
  BY <1>3, OverFacts
<1> HIDE DEF over
<1>5. /\ new \in Call /\ new.phase = "done" /\ ~new.cancelled
      /\ new.model = old.model /\ new.events = <<outcome>> /\ new.fed = <<outcome>>
  BY <1>4 DEF Call
<1>6. /\ call' = [call EXCEPT ![r] = new] /\ Record(old.model, outcome)
      /\ sched' = Refunded(old) /\ metrics' = RunEnded(old)
  BY <1>1 DEF End, over, told
<1> HIDE DEF new
<1>7. Lives(new) /\ ~Holds(new) /\ Holds(old)
  BY <1>1, <1>2, <1>5 DEF Lives, Holds, AttemptPhases
<1>8. SchedMoves(Refunded(old), old, new)
  BY <1>1, <1>5, <1>7, SchedRefunds
<1>9. ShownMoves(RunEnded(old), old, new)
  BY <1>1, <1>5, ShownEnds
<1>10. Breakers'
  BY <1>1, <1>6, RecordKeeps
<1>11. QInv'
  BY <1>5, <1>6, <1>7, <1>8, <1>9, <1>10, RequestSteps
<1>12. call \in [Requests -> Call]
  BY DEF QInv
<1> QED BY <1>5, <1>6, <1>11, <1>12

\* A request goes on, and keeps its slot and its place.
LEMMA GoesOn ==
  ASSUME QInv, NEW r \in Requests, NEW new \in Call, Lives(new), call' = [call EXCEPT ![r] = new],
         UNCHANGED <<sched, metrics, brk>>,
         new.model = call[r].model, new.cost = call[r].cost,
         \/ call[r].phase \in AttemptPhases /\ new.phase \in AttemptPhases
         \/ call[r].phase = "done" /\ new.phase = "done"
  PROVE  QInv'
<1>1. call[r] \in Call /\ Breakers
  BY RequestFacts
<1>2. Holds(call[r]) <=> Holds(new)
  BY DEF Holds, AttemptPhases
<1>3. SchedMoves(sched, call[r], new)
  BY <1>1, <1>2, SchedStays
<1>4. ShownMoves(metrics, call[r], new)
  BY <1>1, ShownStays DEF AttemptPhases
<1>5. Breakers'
  BY <1>1, BreakersStay
<1> QED BY <1>3, <1>4, <1>5, RequestSteps

\* An attempt ends, or goes on to its next phase.
LEMMA AttemptSteps ==
  ASSUME QInv, NEW r \in Requests, Attempt(r)
  PROVE  /\ call[r].phase \in AttemptPhases
         /\ \/ \E outcome \in AttemptOutcomes, upstream \in {"ended", "broken", "working", "unread"} :
                 End(r, outcome, upstream)
            \/ /\ UNCHANGED <<sched, metrics, brk>>
               /\ \/ /\ call[r].phase = "streaming"
                     /\ call' = [call EXCEPT ![r].phase = "draining"]
                  \/ /\ call[r].phase = "sending"
                     /\ \E base \in {"completed", "upstream_error"} :
                          call' = [call EXCEPT ![r].phase = "streaming", ![r].base = base]
<1>1. call[r] \in Call /\ Lives(call[r])
  BY RequestFacts
<1>2. CutShort(call[r]) \in AttemptOutcomes
  BY DEF CutShort, AttemptOutcomes
<1>3. CASE SendFails(r)
  <2>1. "upstream_error" \in AttemptOutcomes
    BY DEF AttemptOutcomes
  <2> QED BY <1>3, <2>1 DEF SendFails, AttemptPhases
<1>4. CASE \E base \in {"completed", "upstream_error"} : Respond(r, base)
  BY <1>4 DEF Respond, AttemptPhases
<1>5. CASE StreamEnds(r)
  <2>1. call[r].base \in AttemptOutcomes
    BY <1>1, <1>5 DEF StreamEnds, Lives, Call, AttemptOutcomes
  <2> QED BY <1>5, <2>1 DEF StreamEnds, AttemptPhases
<1>6. CASE StreamBreaks(r)
  BY <1>2, <1>6 DEF StreamBreaks, AttemptPhases
<1>7. CASE DisconnectAtYield(r)
  BY <1>2, <1>7 DEF DisconnectAtYield, AttemptPhases
<1>8. CASE DisconnectAtRead(r)
  BY <1>2, <1>8 DEF DisconnectAtRead, AttemptPhases
<1>9. CASE DrainEnds(r)
  BY <1>2, <1>9 DEF DrainEnds, AttemptPhases
<1> QED BY <1>3, <1>4, <1>5, <1>6, <1>7, <1>8, <1>9 DEF Attempt

LEMMA AttemptKeeps ==
  ASSUME QInv, NEW r \in Requests, Attempt(r)
  PROVE  QInv'
<1> DEFINE old == call[r]
<1>1. old \in Call /\ Lives(old) /\ old.phase \in AttemptPhases
  BY RequestFacts, AttemptSteps
<1>2. ASSUME NEW outcome \in AttemptOutcomes, NEW upstream \in {"ended", "broken", "working", "unread"},
             End(r, outcome, upstream)
      PROVE  QInv'
  BY <1>1, <1>2, EndKeeps
<1>3. ASSUME NEW phase \in {"streaming", "draining"}, NEW base \in {"none", "completed", "upstream_error"},
             base # "none", call' = [call EXCEPT ![r] = [old EXCEPT !.phase = phase, !.base = base]],
             UNCHANGED <<sched, metrics, brk>>
      PROVE  QInv'
  <2> DEFINE new == [old EXCEPT !.phase = phase, !.base = base]
  <2>1. /\ new \in Call /\ new.phase = phase /\ new.base = base
        /\ new.model = old.model /\ new.cost = old.cost /\ new.cancelled = old.cancelled
        /\ new.events = old.events /\ new.fed = old.fed
        /\ new.released = old.released /\ new.emitted = old.emitted
    BY <1>1 DEF Call
  <2>2. call' = [call EXCEPT ![r] = new]
    BY <1>3
  <2> HIDE DEF new
  <2>3. Lives(new) /\ new.phase \in AttemptPhases
    BY <1>1, <1>3, <2>1 DEF Lives, AttemptPhases
  <2> QED BY <1>1, <1>3, <2>1, <2>2, <2>3, GoesOn
<1>4. CASE /\ UNCHANGED <<sched, metrics, brk>>
           /\ call[r].phase = "streaming" /\ call' = [call EXCEPT ![r].phase = "draining"]
  <2>1. old.base \in {"none", "completed", "upstream_error"} /\ old.base # "none"
    BY <1>1, <1>4 DEF Lives, Call
  <2>2. [old EXCEPT !.phase = "draining", !.base = old.base] = [old EXCEPT !.phase = "draining"]
    BY <1>1 DEF Call
  <2> QED BY <1>3, <1>4, <2>1, <2>2
<1>5. CASE /\ UNCHANGED <<sched, metrics, brk>>
           /\ \E base \in {"completed", "upstream_error"} :
                call' = [call EXCEPT ![r].phase = "streaming", ![r].base = base]
  BY <1>3, <1>5
<1> QED BY <1>2, <1>4, <1>5, AttemptSteps

LEMMA AfterwardsKeeps ==
  ASSUME QInv, NEW r \in Requests, EngineEnds(r) \/ Reuse(r)
  PROVE  QInv'
<1>1. /\ call[r] \in Call /\ Lives(call[r]) /\ Breakers /\ call[r].phase = "done"
      /\ UNCHANGED <<sched, metrics, brk>>
  BY RequestFacts DEF EngineEnds, Reuse
<1>2. CASE EngineEnds(r)
  <2> DEFINE new == [call[r] EXCEPT !.upstream = "ended"]
  <2>1. /\ new \in Call /\ new.phase = "done" /\ new.base = call[r].base
        /\ new.model = call[r].model /\ new.cost = call[r].cost /\ new.cancelled = call[r].cancelled
        /\ new.events = call[r].events /\ new.fed = call[r].fed
    BY <1>1 DEF Call
  <2>2. call' = [call EXCEPT ![r] = new]
    BY <1>2 DEF EngineEnds
  <2> HIDE DEF new
  <2>3. Lives(new)
    BY <1>1, <2>1 DEF Lives
  <2> QED BY <1>1, <2>1, <2>2, <2>3, GoesOn
<1>3. CASE Reuse(r)
  <2>1. /\ Unused \in Call /\ Unused.phase = "idle" /\ ~Unused.cancelled
        /\ Unused.events = <<>> /\ Unused.fed = <<>> /\ ~Unused.released /\ ~Unused.emitted
    BY DEF Unused, Call
  <2>2. call' = [call EXCEPT ![r] = Unused] /\ sched' = sched /\ metrics' = metrics
    BY <1>3 DEF Reuse
  <2> HIDE DEF Unused
  <2>3. Lives(Unused) /\ ~Holds(Unused) /\ ~Holds(call[r])
    BY <1>1, <2>1 DEF Lives, Holds, AttemptPhases
  <2>4. SchedMoves(sched, call[r], Unused)
    BY <1>1, <2>1, <2>3, SchedStays
  <2>5. ShownMoves(metrics, call[r], Unused)
    BY <1>1, <2>1, ShownStays DEF AttemptPhases
  <2>6. Breakers'
    BY <1>1, BreakersStay
  <2> QED BY <2>1, <2>2, <2>3, <2>4, <2>5, <2>6, RequestSteps
<1> QED BY <1>2, <1>3

LEMMA QInitial == QInit => QInv
<1> SUFFICES ASSUME QInit PROVE QInv
  OBVIOUS
<1>1. \A r \in Requests : call[r] = Unused
  BY DEF QInit
<1>2. /\ Unused \in Call /\ Unused.phase = "idle" /\ ~Unused.cancelled
      /\ Unused.events = <<>> /\ Unused.fed = <<>> /\ ~Unused.released /\ ~Unused.emitted
  BY DEF Unused, Call
<1>3. call \in [Requests -> Call]
  BY <1>2 DEF QInit
<1>4. Lives(Unused) /\ ~Holds(Unused)
  BY <1>2 DEF Lives, Holds, AttemptPhases
<1>5. Breakers
  <2>1. /\ Fails \in Nat /\ 0 < Fails /\ 0 \in 0 .. Fails /\ 0 \in 0 .. Cooldown
    BY BreakerAssumption
  <2> QED BY <2>1 DEF QInit, BreakerInit, Breakers, ModelState
<1>6. /\ \A p : UnitsIn(call, p) = {}
      /\ \A m : RunsIn(call, m) = {} /\ SentIn(call, m) = {} /\ QueuedIn(call, m) = {}
  BY <1>1, <1>2, <1>4 DEF UnitsIn, Units, RunsIn, SentIn, QueuedIn, AttemptPhases
<1>7. /\ \A p \in Pools : sched.used[p] = 0
      /\ \A m \in Models : sched.runs[m] = 0 /\ metrics.inFlight[m] = 0 /\ metrics.queueDepth[m] = 0
  BY DEF QInit
<1>8. Tallied(call, sched, metrics)
  BY <1>6, <1>7, FS_EmptySet DEF Tallied
<1>9. /\ sched \in [used : [Pools -> Nat], runs : [Models -> Nat]]
      /\ metrics \in [inFlight : [Models -> Nat], queueDepth : [Models -> Nat]]
  BY DEF QInit
<1> QED BY <1>1, <1>3, <1>4, <1>5, <1>8, <1>9 DEF QInv

\* Nothing but the breakers changes.
LEMMA IdleCalls ==
  ASSUME QInv, UNCHANGED <<call, sched, metrics>>, Breakers'
  PROVE  QInv'
<1>1. call' \in [Requests -> Call] /\ \A r \in Requests : Lives(call'[r])
  BY DEF QInv
<1>2. \A r \in Requests : Lives(call[r])'
  BY <1>1 DEF Lives
<1>3. Tallied(call, sched, metrics)
  BY DEF QInv
<1>4. Tallied(call', sched', metrics')
  BY <1>3
<1>5. /\ sched' \in [used : [Pools -> Nat], runs : [Models -> Nat]]
      /\ metrics' \in [inFlight : [Models -> Nat], queueDepth : [Models -> Nat]]
  BY DEF QInv
<1> QED BY <1>1, <1>2, <1>4, <1>5 DEF QInv, Tallied

LEMMA QStep == QInv /\ [QNext]_qvars => QInv'
<1> SUFFICES ASSUME QInv, [QNext]_qvars PROVE QInv'
  OBVIOUS
<1>1. ASSUME NEW r \in Requests, NEW m \in Models, NEW cost \in CostsOf[m], NEW big \in BOOLEAN,
             Arrive(r, m, cost, big)
      PROVE  QInv'
  BY <1>1, ArriveKeeps
<1>2. ASSUME NEW r \in Requests, \/ Admit(r) \/ Resume(r) \/ Attempt(r) \/ EngineEnds(r) \/ Reuse(r)
      PROVE  QInv'
  BY <1>2, AdmitKeeps, ResumeKeeps, AttemptKeeps, AfterwardsKeeps
<1>3. ASSUME NEW S \in SUBSET Requests, Cancel(S) PROVE QInv'
  BY <1>3, CancelKeeps
<1>4. CASE Tick
  <2>1. call' = call /\ sched' = sched /\ metrics' = metrics
    BY <1>4 DEF Tick
  <2>2. Breakers'
    BY <1>4, ElapseKeeps DEF Tick, QInv
  <2> QED BY <2>1, <2>2, IdleCalls
<1>5. CASE UNCHANGED qvars
  <2>1. call' = call /\ sched' = sched /\ metrics' = metrics /\ brk' = brk
    BY <1>5 DEF qvars
  <2>2. Breakers'
    BY <2>1, BreakersStay DEF QInv
  <2> QED BY <2>1, <2>2, IdleCalls
<1> QED BY <1>1, <1>2, <1>3, <1>4, <1>5 DEF QNext

LEMMA QInvariance == QSpec => []QInv
BY QInitial, QStep, PTL DEF QSpec

-----------------------------------------------------------------------------
(***************************************************************************)
(* What follows from the invariant.                                        *)
(***************************************************************************)
LEMMA SlotsCardinality == \A S : Slots!Cardinality(S) = Cardinality(S)
BY DEF Slots!Cardinality, Cardinality

\* Who holds what, as PoolAdmission says it.
LEMMA HoldingFacts ==
  /\ Holding = {r \in Requests : Holds(call[r])}
  /\ \A m : Slots!RunningOf(m) = RunsIn(call, m)
  /\ \A p : Slots!RunningIn(p) = {r \in Requests : Holds(call[r]) /\ PoolOf[call[r].model] = p}
  /\ \A p : Slots!UnitsHeld(p) = UnitsIn(call, p)
<1>1. Holding = {r \in Requests : Holds(call[r])}
  BY DEF Holding, Attempts, InPhase, Holds, AttemptPhases
<1> DEFINE job == [r \in Requests |-> IF r \in Asking \cup Holding
                                      THEN [model |-> call[r].model, cost |-> call[r].cost]
                                      ELSE NoJob]
<1>2. \A r \in Holding : job[r].model = call[r].model /\ job[r].cost = call[r].cost
  BY <1>1
<1> HIDE DEF job
<1>3. \A m : Slots!RunningOf(m) = {r \in Holding : job[r].model = m}
  BY DEF Slots!RunningOf, job
<1>4. \A p : Slots!RunningIn(p) = {r \in Holding : PoolOf[job[r].model] = p}
  BY DEF Slots!RunningIn, job
<1>5. \A m : Slots!RunningOf(m) = RunsIn(call, m)
  BY <1>1, <1>2, <1>3 DEF RunsIn
<1>6. \A p : Slots!RunningIn(p) = {r \in Requests : Holds(call[r]) /\ PoolOf[call[r].model] = p}
  BY <1>1, <1>2, <1>4
<1>7. ASSUME NEW p PROVE Slots!UnitsHeld(p) = UnitsIn(call, p)
  <2> DEFINE in == {r \in Requests : Holds(call[r]) /\ PoolOf[call[r].model] = p}
  <2>1. Slots!UnitsHeld(p) = UNION {{r} \X (1 .. job[r].cost) : r \in in}
    BY <1>6 DEF Slots!UnitsHeld, job
  <2>2. \A r \in in : {r} \X (1 .. job[r].cost) = Units(call[r], r, p)
    BY <1>1, <1>2 DEF Units
  <2>3. \A r \in Requests \ in : Units(call[r], r, p) = {}
    BY DEF Units
  <2> HIDE DEF in
  <2>4. in \subseteq Requests
    BY DEF in
  <2>5. UNION {{r} \X (1 .. job[r].cost) : r \in in} = UNION {Units(call[r], r, p) : r \in in}
    BY <2>2
  <2>6. UNION {Units(call[r], r, p) : r \in in} = UNION {Units(call[r], r, p) : r \in Requests}
    BY <2>3, <2>4
  <2> QED BY <2>1, <2>5, <2>6 DEF UnitsIn
<1> QED BY <1>1, <1>5, <1>6, <1>7

\* The state of the proxy has its type: the scheduler's counters never fall below
\* zero, and queue depth and in-flight are the requests that queue and that are
\* being forwarded (queue_proxy.proxy, _forward).
THEOREM ProxyTyping == QSpec => []QTypeOK
<1>1. ASSUME QInv PROVE QTypeOK
  <2> USE <1>1
  <2>1. \A m : {r \in Attempts : call[r].model = m} = SentIn(call, m)
    BY DEF Attempts, InPhase, SentIn, AttemptPhases
  <2>2. \A m : {r \in InPhase({"queued"}) : call[r].model = m} = QueuedIn(call, m)
    BY DEF InPhase, QueuedIn
  <2>3. /\ \A m \in Models : metrics.inFlight[m] = Cardinality(SentIn(call, m))
        /\ \A m \in Models : metrics.queueDepth[m] = Cardinality(QueuedIn(call, m))
    BY DEF QInv, Tallied
  <2>4. /\ metrics = [inFlight |-> metrics.inFlight, queueDepth |-> metrics.queueDepth]
        /\ metrics.inFlight \in [Models -> Nat] /\ metrics.queueDepth \in [Models -> Nat]
    BY CounterFacts
  <2>5. metrics.inFlight = [m \in Models |-> Cardinality({r \in Attempts : call[r].model = m})]
    BY <2>1, <2>3, <2>4
  <2>6. metrics.queueDepth = [m \in Models |-> Cardinality({r \in InPhase({"queued"}) : call[r].model = m})]
    BY <2>2, <2>3, <2>4
  <2>7. metrics = [inFlight   |-> [m \in Models |-> Cardinality({r \in Attempts : call[r].model = m})],
                   queueDepth |-> [m \in Models |-> Cardinality({r \in InPhase({"queued"}) : call[r].model = m})]]
    BY <2>4, <2>5, <2>6
  <2> QED BY <2>7 DEF QTypeOK, QInv, Breakers
<1> QED BY <1>1, QInvariance, PTL

\* Slots are neither leaked nor given back twice, whatever a request dies of
\* (queue_proxy._admit_scheduler, _forward and its release).
THEOREM SlotsNeverDrift == QSpec => []SlotsExact
<1>1. ASSUME QInv PROVE SlotsExact
  <2>1. \A p \in Pools : sched.used[p] = Slots!Cardinality(Slots!UnitsHeld(p))
    BY <1>1, HoldingFacts, SlotsCardinality DEF QInv, Tallied
  <2>2. \A m \in Models : sched.runs[m] = Slots!Cardinality(Slots!RunningOf(m))
    BY <1>1, HoldingFacts, SlotsCardinality DEF QInv, Tallied
  <2> QED BY <2>1, <2>2, SlotsCardinality DEF SlotsExact
<1> QED BY <1>1, QInvariance, PTL

\* Every request is reported by exactly one event, when it is answered, and the
\* breaker is fed with the outcome of an attempt, once, and never with a refusal
\* (_forward's finish, and the refusals of proxy).
THEOREM ReportedOnce == QSpec => []OneEvent
<1>1. ASSUME QInv PROVE OneEvent
  <2> SUFFICES ASSUME NEW r \in Requests
               PROVE  /\ Len(call[r].events) = IF call[r].phase = "done" THEN 1 ELSE 0
                      /\ call[r].fed = IF \E i \in DOMAIN call[r].events : call[r].events[i] \in AttemptOutcomes
                                       THEN call[r].events ELSE <<>>
    BY DEF OneEvent
  <2>1. Lives(call[r])
    BY <1>1, RequestFacts
  <2>2. CASE call[r].phase # "done"
    <3>1. call[r].events = <<>> /\ call[r].fed = <<>>
      BY <2>1, <2>2 DEF Lives
    <3> QED BY <2>2, <3>1
  <2>3. CASE call[r].phase = "done"
    <3>1. PICK outcome \in Outcomes :
            /\ call[r].events = <<outcome>>
            /\ call[r].fed = IF outcome \in AttemptOutcomes THEN <<outcome>> ELSE <<>>
      BY <2>1, <2>3 DEF Lives
    <3>2. Len(<<outcome>>) = 1 /\ DOMAIN <<outcome>> = {1} /\ <<outcome>>[1] = outcome
      OBVIOUS
    <3> QED BY <2>3, <3>1, <3>2
  <2> QED BY <2>2, <2>3
<1> QED BY <1>1, QInvariance, PTL

\* The phases that a step leaves a request in: only its own caller sends it, when
\* it was admitted and not cancelled.
LEMMA SendsOnlyAdmitted ==
  ASSUME QInv, [QNext]_qvars, NEW r \in Requests, call[r].cancelled
  PROVE  call'[r].phase # "sending"
<1>0. /\ call[r] \in Call /\ call[r].phase = "queued" /\ call \in [Requests -> Call]
  BY RequestFacts DEF Lives, QInv
<1>1. ASSUME NEW s \in Requests, s # r, NEW c, call' = [call EXCEPT ![s] = c]
      PROVE  call'[r] = call[r]
  BY <1>0, <1>1
<1>2. ASSUME NEW s \in Requests, NEW m \in Models, NEW cost \in CostsOf[m], NEW big \in BOOLEAN,
             Arrive(s, m, cost, big)
      PROVE  call'[r] = call[r]
  <2>1. s # r
    BY <1>0, <1>2 DEF Arrive, Unused
  <2> QED BY <1>0, <1>2, <2>1 DEF Arrive
<1>3. ASSUME NEW s \in Requests, Admit(s) PROVE call'[r].phase = call[r].phase
  BY <1>0, <1>3 DEF Admit, Call
<1>4. ASSUME NEW s \in Requests, Resume(s) PROVE call'[r].phase # "sending"
  <2>1. CASE s # r
    BY <1>0, <1>4, <2>1 DEF Resume
  <2>2. CASE s = r
    <3>1. \E outcome : call' = [call EXCEPT ![r] = Answer(call[r], outcome)]
      BY <1>4, <2>2 DEF Resume, CancelSeen
    <3>2. \A outcome : Answer(call[r], outcome).phase = "done"
      BY <1>0, AnswerIsDone
    <3> QED BY <1>0, <3>1, <3>2
  <2> QED BY <2>1, <2>2
<1>5. ASSUME NEW s \in Requests, Attempt(s) PROVE call'[r] = call[r]
  <2>1. s # r
    BY <1>0, <1>5, AttemptSteps DEF AttemptPhases
  <2> QED BY <1>0, <1>5, <2>1, AttemptSteps, EndKeeps
<1>6. ASSUME NEW s \in Requests, EngineEnds(s) \/ Reuse(s) PROVE call'[r] = call[r]
  <2>1. s # r
    BY <1>0, <1>6 DEF EngineEnds, Reuse
  <2> QED BY <1>0, <1>6, <2>1 DEF EngineEnds, Reuse
<1>7. ASSUME NEW S \in SUBSET Requests, Cancel(S) PROVE call'[r].phase = call[r].phase
  BY <1>0, <1>7 DEF Cancel, Call
<1>8. CASE Tick \/ UNCHANGED qvars
  BY <1>0, <1>8 DEF Tick, qvars
<1> QED BY <1>0, <1>2, <1>3, <1>4, <1>5, <1>6, <1>7, <1>8 DEF QNext

\* A cancelled request is never sent, even if it is admitted before its caller
\* resumes (queue_proxy._admit_scheduler, the test of cancel_fut after admission).
THEOREM CancelledIsNeverSent == QSpec => CancelHonoured
<1>1. ASSUME QInv, [QNext]_qvars
      PROVE  [\A r \in Requests : call[r].cancelled => call'[r].phase # "sending"]_qvars
  BY <1>1, SendsOnlyAdmitted
<1> QED BY <1>1, QInvariance, PTL DEF QSpec, CancelHonoured

-----------------------------------------------------------------------------
(***************************************************************************)
(* The request path uses the admission control as PoolAdmission allows.    *)
(***************************************************************************)

\* What a request is for the admission control.
Waits(c) == c.phase = "queued" /\ c.fut = "pending"
JobOf(c) == IF Waits(c) \/ Holds(c) THEN [model |-> c.model, cost |-> c.cost] ELSE NoJob

Jobs == [r \in Requests |-> IF r \in Asking \cup Holding
                            THEN [model |-> call[r].model, cost |-> call[r].cost]
                            ELSE NoJob]

LEMMA AdmissionView ==
  /\ Asking = {r \in Requests : Waits(call[r])}
  /\ Holding = {r \in Requests : Holds(call[r])}
  /\ Jobs = [r \in Requests |-> JobOf(call[r])]
<1>1. Asking = {r \in Requests : Waits(call[r])}
  BY DEF Asking, InPhase, Waits
<1>2. Holding = {r \in Requests : Holds(call[r])}
  BY HoldingFacts
<1>3. Jobs = [r \in Requests |-> JobOf(call[r])]
  <2> HIDE DEF Asking, Holding
  <2> QED BY <1>1, <1>2 DEF Jobs, JobOf
<1> QED BY <1>1, <1>2, <1>3

\* One request changes: what the admission control sees of it.
LEMMA OneRequestSeen ==
  ASSUME NEW r \in Requests, call \in [Requests -> Call], NEW c, call' = [call EXCEPT ![r] = c]
  PROVE  /\ ~Waits(call[r]) /\ ~Holds(call[r]) /\ Waits(c) => Slots!Ask(r, c.model, c.cost)
         /\ Waits(call[r]) /\ ~Waits(c) /\ ~Holds(c) => Slots!Leave(r)
         /\ Waits(call[r]) /\ Holds(c) /\ JobOf(c) = JobOf(call[r]) /\ Slots!Room(JobOf(call[r]))
            => Slots!Grant(r)
         /\ Holds(call[r]) /\ ~Waits(c) /\ ~Holds(c) => Slots!Finish(r)
         /\ (Waits(call[r]) <=> Waits(c)) /\ (Holds(call[r]) <=> Holds(c)) /\ JobOf(call[r]) = JobOf(c)
            => UNCHANGED Slots!avars
<1>1. /\ Asking = {s \in Requests : Waits(call[s])}
      /\ Holding = {s \in Requests : Holds(call[s])}
      /\ Jobs = [s \in Requests |-> JobOf(call[s])]
  BY AdmissionView
<1>2. /\ Asking' = {s \in Requests : Waits(call'[s])}
      /\ Holding' = {s \in Requests : Holds(call'[s])}
      /\ Jobs' = [s \in Requests |-> JobOf(call'[s])]
  <2>1. Asking' = {s \in Requests : Waits(call'[s])}
    BY DEF Asking, InPhase, Waits
  <2>2. Holding' = {s \in Requests : Holds(call'[s])}
    BY DEF Holding, Attempts, InPhase, Holds, AttemptPhases
  <2>3. Jobs' = [s \in Requests |-> IF s \in Asking' \cup Holding'
                                   THEN [model |-> call'[s].model, cost |-> call'[s].cost]
                                   ELSE NoJob]
    BY DEF Jobs
  <2>4. Jobs' = [s \in Requests |-> JobOf(call'[s])]
    BY <2>1, <2>2, <2>3 DEF JobOf
  <2> QED BY <2>1, <2>2, <2>4
<1> HIDE DEF Asking, Holding, Jobs
<1>3. call'[r] = c /\ \A s \in Requests \ {r} : call'[s] = call[s]
  OBVIOUS
<1>4. ASSUME ~Waits(call[r]), ~Holds(call[r]), Waits(c) PROVE Slots!Ask(r, c.model, c.cost)
  <2>1. ~Holds(c)
    BY <1>4 DEF Waits, Holds, AttemptPhases
  <2>2. r \notin Asking \cup Holding /\ Asking' = Asking \cup {r} /\ Holding' = Holding
    BY <1>1, <1>2, <1>3, <1>4, <2>1
  <2>3. Jobs' = [Jobs EXCEPT ![r] = [model |-> c.model, cost |-> c.cost]]
    BY <1>1, <1>2, <1>3, <1>4 DEF JobOf
  <2> QED BY <2>2, <2>3 DEF Slots!Ask, Jobs
<1>5. ASSUME Waits(call[r]), ~Waits(c), ~Holds(c) PROVE Slots!Leave(r)
  <2>1. ~Holds(call[r])
    BY <1>5 DEF Waits, Holds, AttemptPhases
  <2>2. r \in Asking /\ Asking' = Asking \ {r} /\ Holding' = Holding
    BY <1>1, <1>2, <1>3, <1>5, <2>1
  <2>3. Jobs' = [Jobs EXCEPT ![r] = NoJob]
    BY <1>1, <1>2, <1>3, <1>5 DEF JobOf
  <2> QED BY <2>2, <2>3 DEF Slots!Leave, Jobs
<1>6. ASSUME Waits(call[r]), Holds(c), JobOf(c) = JobOf(call[r]), Slots!Room(JobOf(call[r]))
      PROVE  Slots!Grant(r)
  <2>1. ~Holds(call[r]) /\ ~Waits(c)
    BY <1>6 DEF Waits, Holds, AttemptPhases
  <2>2. r \in Asking /\ Asking' = Asking \ {r} /\ Holding' = Holding \cup {r}
    BY <1>1, <1>2, <1>3, <1>6, <2>1
  <2>3. Jobs' = Jobs /\ Jobs[r] = JobOf(call[r])
    BY <1>1, <1>2, <1>3, <1>6
  <2> QED BY <1>6, <2>2, <2>3 DEF Slots!Grant, Jobs
<1>7. ASSUME Holds(call[r]), ~Waits(c), ~Holds(c) PROVE Slots!Finish(r)
  <2>1. ~Waits(call[r])
    BY <1>7 DEF Waits, Holds, AttemptPhases
  <2>2. r \in Holding /\ Holding' = Holding \ {r} /\ Asking' = Asking
    BY <1>1, <1>2, <1>3, <1>7, <2>1
  <2>3. Jobs' = [Jobs EXCEPT ![r] = NoJob]
    BY <1>1, <1>2, <1>3, <1>7 DEF JobOf
  <2> QED BY <2>2, <2>3 DEF Slots!Finish, Jobs
<1>8. ASSUME Waits(call[r]) <=> Waits(c), Holds(call[r]) <=> Holds(c), JobOf(call[r]) = JobOf(c)
      PROVE  UNCHANGED Slots!avars
  <2>1. Asking' = Asking /\ Holding' = Holding /\ Jobs' = Jobs
    BY <1>1, <1>2, <1>3, <1>8
  <2> QED BY <2>1 DEF Slots!avars, Jobs
<1> QED BY <1>4, <1>5, <1>6, <1>7, <1>8

\* What the counters allow, the requests that really run allow.
LEMMA RoomIsReal ==
  ASSUME QInv, NEW r \in Requests, Waits(call[r]), HasRoom(call[r])
  PROVE  Slots!Room(JobOf(call[r]))
<1> DEFINE m == call[r].model
           p == PoolOf[m]
           cost == call[r].cost
           j == JobOf(call[r])
<1>1. m \in Models /\ p \in Pools /\ cost \in Nat /\ j.model = m /\ j.cost = cost
  <2>1. call[r] \in Call /\ m \in Models
    BY RequestFacts DEF Waits
  <2> QED BY <2>1, ProxyAssumption DEF Call, JobOf
<1>2. /\ Cap[m] # 0 => sched.runs[m] < Cap[m]
      /\ p \in Exclusive => Active(p) \subseteq {m}
      /\ sched.used[p] + cost <= Budget[p]
  BY DEF HasRoom
<1>3. /\ \A n \in Models : /\ IsFiniteSet(RunsIn(call, n))
                           /\ sched.runs[n] = Cardinality(RunsIn(call, n))
                           /\ sched.runs[n] \in Nat
      /\ \A q \in Pools : sched.used[q] = Cardinality(UnitsIn(call, q))
  BY DEF QInv, Tallied
<1> HIDE DEF m, p, cost, j
<1>4. Cap[m] # 0 => Slots!Cardinality(Slots!RunningOf(m)) < Cap[m]
  BY <1>1, <1>2, <1>3, HoldingFacts, SlotsCardinality
<1>5. Slots!Cardinality(Slots!UnitsHeld(p)) + cost <= Budget[p]
  BY <1>1, <1>2, <1>3, HoldingFacts, SlotsCardinality
<1>6. ASSUME p \in Exclusive PROVE Slots!RunningIn(p) = Slots!RunningOf(m)
  <2>1. ASSUME NEW s \in Requests, Holds(call[s]), PoolOf[call[s].model] = p PROVE call[s].model = m
    <3> DEFINE n == call[s].model
    <3>1. n \in Models
      BY <2>1, RequestFacts DEF Holds, AttemptPhases
    <3>2. s \in RunsIn(call, n)
      BY <2>1 DEF RunsIn
    <3> HIDE DEF n
    <3>3. Cardinality(RunsIn(call, n)) # 0
      BY <1>3, <3>1, <3>2, FS_EmptySet
    <3>4. n \in Active(p)
      BY <1>3, <2>1, <3>1, <3>3 DEF Active, n
    <3> QED BY <1>2, <1>6, <3>4 DEF n
  <2>2. PoolOf[m] = p
    BY DEF p
  <2>3. Slots!RunningIn(p) = {s \in Requests : Holds(call[s]) /\ PoolOf[call[s].model] = p}
    BY HoldingFacts
  <2>4. Slots!RunningOf(m) = {s \in Requests : Holds(call[s]) /\ call[s].model = m}
    BY HoldingFacts DEF RunsIn
  <2> QED BY <2>1, <2>2, <2>3, <2>4
<1>7. PoolOf[j.model] = p
  BY <1>1 DEF p
<1>8. Slots!Room(j)
  BY <1>1, <1>4, <1>5, <1>6, <1>7 DEF Slots!Room
<1> QED BY <1>8 DEF j

LEMMA AdmissionStep == QInv /\ QInv' /\ [QNext]_qvars => [Slots!ANext]_(Slots!avars)
<1> SUFFICES ASSUME QInv, QInv', [QNext]_qvars PROVE [Slots!ANext]_(Slots!avars)
  OBVIOUS
<1>0. /\ call \in [Requests -> Call]
      /\ \A r \in Requests : call[r] \in Call /\ Lives(call[r])
      /\ \A r \in Requests : call'[r] \in Call /\ Lives(call'[r])
  <2>1. call' \in [Requests -> Call] /\ \A r \in Requests : Lives(call[r])'
    BY DEF QInv
  <2>2. \A r \in Requests : Lives(call'[r])
    BY <2>1 DEF Lives
  <2> QED BY <2>1, <2>2 DEF QInv
<1> DEFINE Quiet(r, c) == /\ Waits(call[r]) <=> Waits(c)
                          /\ Holds(call[r]) <=> Holds(c)
                          /\ JobOf(call[r]) = JobOf(c)
<1>1. ASSUME NEW r \in Requests, NEW c, call' = [call EXCEPT ![r] = c]
      PROVE  /\ c = call'[r]
             /\ Slots!Ask(r, c.model, c.cost) /\ Waits(c) => Slots!ANext
             /\ Slots!Leave(r) \/ Slots!Grant(r) \/ Slots!Finish(r) => Slots!ANext
             /\ Quiet(r, c) => UNCHANGED Slots!avars
  <2>1. c = call'[r] /\ c \in Call /\ Lives(c)
    BY <1>0, <1>1
  <2>2. ASSUME Slots!Ask(r, c.model, c.cost), Waits(c) PROVE Slots!ANext
    <3>1. c.model \in Models /\ c.cost <= Budget[PoolOf[c.model]] /\ c.cost \in Nat
      BY <2>1, <2>2 DEF Waits, Lives, Call
    <3>2. Budget[PoolOf[c.model]] \in Nat
      BY <3>1, ProxyAssumption
    <3>3. c.cost \in 0 .. Budget[PoolOf[c.model]]
      BY <3>1, <3>2
    <3> QED BY <2>2, <3>1, <3>3 DEF Slots!ANext
  <2>3. Slots!Leave(r) \/ Slots!Grant(r) \/ Slots!Finish(r) => Slots!ANext
    BY DEF Slots!ANext
  <2>4. Quiet(r, c) => UNCHANGED Slots!avars
    BY <1>0, <1>1, OneRequestSeen
  <2> QED BY <2>1, <2>2, <2>3, <2>4
<1>2. ASSUME NEW c, c.phase \notin AttemptPhases, c.phase # "queued"
      PROVE  ~Waits(c) /\ ~Holds(c) /\ JobOf(c) = NoJob
  BY <1>2 DEF Waits, Holds, JobOf, AttemptPhases
<1>3. ASSUME NEW r \in Requests, NEW m \in Models, NEW cost \in CostsOf[m], NEW big \in BOOLEAN,
             Arrive(r, m, cost, big)
      PROVE  [Slots!ANext]_(Slots!avars)
  <2> DEFINE new == [Unused EXCEPT !.model = m, !.cost = cost]
  <2>1. PICK c : /\ call' = [call EXCEPT ![r] = c]
                 /\ \/ \E outcome : c = Answer(new, outcome)
                    \/ c = [new EXCEPT !.phase = "queued",
                                       !.fut = IF cost <= Budget[PoolOf[m]] THEN "pending" ELSE "refused"]
    BY <1>3 DEF Arrive
  <2>2. new \in Call
    BY NewFacts
  <2>3. ~Waits(call[r]) /\ ~Holds(call[r]) /\ JobOf(call[r]) = NoJob
    BY <1>2, <1>3 DEF Arrive, Unused, AttemptPhases
  <2>4. CASE Waits(c)
    BY <1>0, <1>1, <2>1, <2>3, <2>4, OneRequestSeen
  <2>5. CASE ~Waits(c)
    <3>1. ~Holds(c)
      <4>1. c.phase = "done" \/ (c.phase = "queued" /\ c.fut # "admitted")
        <5> HIDE DEF new
        <5>1. CASE \E outcome : c = Answer(new, outcome)
          BY <2>2, <5>1, AnswerIsDone
        <5>2. CASE c = [new EXCEPT !.phase = "queued",
                                   !.fut = IF cost <= Budget[PoolOf[m]] THEN "pending" ELSE "refused"]
          BY <2>2, <5>2 DEF Call
        <5> QED BY <2>1, <5>1, <5>2 DEF new
      <4> QED BY <4>1 DEF Holds, AttemptPhases
    <3>2. Quiet(r, c)
      BY <2>3, <2>5, <3>1 DEF JobOf
    <3> QED BY <1>1, <2>1, <3>2
  <2> QED BY <2>4, <2>5
<1>4. ASSUME NEW r \in Requests, Admit(r) PROVE Slots!ANext
  <2> DEFINE c == [call[r] EXCEPT !.fut = "admitted"]
  <2>1. /\ call' = [call EXCEPT ![r] = c] /\ Waits(call[r]) /\ HasRoom(call[r])
        /\ c.phase = "queued" /\ c.fut = "admitted" /\ c.model = call[r].model /\ c.cost = call[r].cost
    BY <1>0, <1>4 DEF Admit, Waits, Call
  <2> HIDE DEF c
  <2>2. Holds(c) /\ JobOf(c) = JobOf(call[r])
    BY <2>1 DEF Holds, JobOf
  <2>3. Slots!Room(JobOf(call[r]))
    BY <2>1, RoomIsReal
  <2>4. Slots!Grant(r)
    BY <1>0, <2>1, <2>2, <2>3, OneRequestSeen
  <2> QED BY <1>1, <2>1, <2>4
<1>5. ASSUME NEW r \in Requests, Resume(r) PROVE [Slots!ANext]_(Slots!avars)
  <2>1. PICK c : /\ call' = [call EXCEPT ![r] = c]
                 /\ \/ c = [call[r] EXCEPT !.phase = "sending", !.upstream = "working"]
                       /\ call[r].fut = "admitted"
                    \/ \E outcome : c = Answer(call[r], outcome)
    BY <1>5 DEF Resume
  <2>2. /\ call[r] \in Call /\ call[r].phase = "queued" /\ call[r].fut \in {"pending", "admitted", "refused"}
    BY <1>0, <1>5 DEF Resume, Call
  <2>3. CASE \E outcome : c = Answer(call[r], outcome)
    <3>1. c.phase = "done"
      BY <2>2, <2>3, AnswerIsDone
    <3>2. ~Waits(c) /\ ~Holds(c) /\ JobOf(c) = NoJob
      BY <1>2, <3>1 DEF AttemptPhases
    <3>3. CASE Waits(call[r])
      BY <1>0, <1>1, <2>1, <3>2, <3>3, OneRequestSeen
    <3>4. CASE Holds(call[r])
      BY <1>0, <1>1, <2>1, <3>2, <3>4, OneRequestSeen
    <3>5. CASE ~Waits(call[r]) /\ ~Holds(call[r])
      BY <1>1, <2>1, <3>2, <3>5 DEF JobOf
    <3> QED BY <3>3, <3>4, <3>5
  <2>4. CASE c = [call[r] EXCEPT !.phase = "sending", !.upstream = "working"] /\ call[r].fut = "admitted"
    <3>1. c.phase = "sending" /\ c.model = call[r].model /\ c.cost = call[r].cost
      BY <2>2, <2>4 DEF Call
    <3>2. Quiet(r, c)
      BY <2>2, <2>4, <3>1 DEF Waits, Holds, JobOf, AttemptPhases
    <3> QED BY <1>1, <2>1, <3>2
  <2> QED BY <2>1, <2>3, <2>4
<1>6. ASSUME NEW r \in Requests, Attempt(r) PROVE [Slots!ANext]_(Slots!avars)
  <2>1. call[r] \in Call /\ call[r].phase \in AttemptPhases
    BY <1>0, <1>6, AttemptSteps
  <2>2. ~Waits(call[r]) /\ Holds(call[r])
    BY <2>1 DEF Waits, Holds, AttemptPhases
  <2>3. ASSUME NEW outcome \in AttemptOutcomes, NEW upstream \in {"ended", "broken", "working", "unread"},
               End(r, outcome, upstream)
        PROVE  Slots!ANext
    <3>1. PICK c : call' = [call EXCEPT ![r] = c]
      BY <2>3 DEF End
    <3>2. c = call'[r] /\ c.phase = "done"
      BY <1>0, <2>1, <2>3, <3>1, EndKeeps
    <3>3. ~Waits(c) /\ ~Holds(c)
      BY <1>2, <3>2 DEF AttemptPhases
    <3> QED BY <1>0, <1>1, <2>2, <3>1, <3>3, OneRequestSeen
  <2>4. ASSUME NEW c, call' = [call EXCEPT ![r] = c], c.phase \in AttemptPhases,
               c.model = call[r].model, c.cost = call[r].cost
        PROVE  UNCHANGED Slots!avars
    <3>1. Quiet(r, c)
      BY <2>2, <2>4 DEF Waits, Holds, JobOf, AttemptPhases
    <3> QED BY <1>1, <2>4, <3>1
  <2>5. CASE call' = [call EXCEPT ![r].phase = "draining"]
    BY <2>1, <2>4, <2>5 DEF Call, AttemptPhases
  <2>6. CASE \E base \in {"completed", "upstream_error"} :
               call' = [call EXCEPT ![r].phase = "streaming", ![r].base = base]
    <3>1. PICK base \in {"completed", "upstream_error"} :
            call' = [call EXCEPT ![r] = [call[r] EXCEPT !.phase = "streaming", !.base = base]]
      BY <2>6
    <3> DEFINE c == [call[r] EXCEPT !.phase = "streaming", !.base = base]
    <3>2. c.phase \in AttemptPhases /\ c.model = call[r].model /\ c.cost = call[r].cost
      BY <2>1 DEF Call, AttemptPhases
    <3>3. call' = [call EXCEPT ![r] = c]
      BY <3>1
    <3> HIDE DEF c
    <3> QED BY <2>4, <3>2, <3>3
  <2> QED BY <1>6, <2>3, <2>5, <2>6, AttemptSteps
<1>7. ASSUME NEW r \in Requests, EngineEnds(r) \/ Reuse(r) PROVE UNCHANGED Slots!avars
  <2>1. PICK c : call' = [call EXCEPT ![r] = c] /\ c.phase \in {"done", "idle"}
    BY <1>0, <1>7 DEF EngineEnds, Reuse, Unused, Call
  <2>2. ~Waits(c) /\ ~Holds(c) /\ JobOf(c) = NoJob
    BY <1>2, <2>1 DEF AttemptPhases
  <2>3. ~Waits(call[r]) /\ ~Holds(call[r]) /\ JobOf(call[r]) = NoJob
    BY <1>2, <1>7 DEF EngineEnds, Reuse, AttemptPhases
  <2> QED BY <1>1, <2>1, <2>2, <2>3
<1>8. ASSUME NEW S \in SUBSET Requests, Cancel(S) PROVE UNCHANGED Slots!avars
  <2>1. \A r \in Requests : /\ call'[r].phase = call[r].phase /\ call'[r].fut = call[r].fut
                            /\ call'[r].model = call[r].model /\ call'[r].cost = call[r].cost
    BY <1>0, <1>8 DEF Cancel, Call
  <2>2. Asking' = Asking /\ Holding' = Holding
    BY <2>1 DEF Asking, Holding, Attempts, InPhase
  <2>3. Jobs' = Jobs
    BY <2>1, <2>2 DEF Jobs
  <2> QED BY <2>2, <2>3 DEF Slots!avars, Jobs
<1>9. CASE Tick \/ UNCHANGED qvars
  <2>1. call' = call
    BY <1>9 DEF Tick, qvars
  <2> QED BY <2>1 DEF Slots!avars, Asking, Holding, Attempts, InPhase
<1> QED BY <1>3, <1>4, <1>5, <1>6, <1>7, <1>8, <1>9 DEF QNext

\* The request path asks for, withdraws and gives back slots as PoolAdmission
\* allows, and with counters that are exact it never runs more than the capacity
\* (queue_proxy.proxy with the scheduler on).
THEOREM ProxyUsesAdmission == QSpec => UsesPoolAdmission
<1>1. QInit => Slots!AInit
  <2> SUFFICES ASSUME QInit PROVE Slots!AInit
    OBVIOUS
  <2>1. Asking = {} /\ Holding = {}
    BY DEF QInit, Unused, Asking, Holding, Attempts, InPhase
  <2> QED BY <2>1 DEF Slots!AInit
<1> QED BY <1>1, AdmissionStep, QInvariance, PTL DEF QSpec, UsesPoolAdmission, Slots!ASpec

-----------------------------------------------------------------------------
(***************************************************************************)
(* Capacity: every admission finds room, and no other step takes any.      *)
(***************************************************************************)
WithinCapacity == Slots!WithinCaps /\ Slots!WithinBudgets /\ Slots!OneResident

\* The same of the counters.
CountersFit ==
  /\ \A m \in Models : Cap[m] # 0 => sched.runs[m] <= Cap[m]
  /\ \A p \in Pools : sched.used[p] <= Budget[p]
  /\ \A p \in Exclusive : \A m, n \in Active(p) : m = n

\* A step charges the request it admits, refunds one that held a slot, or leaves
\* the scheduler's counters alone.
LEMMA SchedSteps ==
  ASSUME QInv, [QNext]_qvars
  PROVE  \/ sched' = sched
         \/ \E r \in Requests : Admit(r)
         \/ \E r \in Requests : Holds(call[r]) /\ sched' = Refunded(call[r])
<1>1. ASSUME NEW r \in Requests, NEW m \in Models, NEW cost \in CostsOf[m], NEW big \in BOOLEAN,
             Arrive(r, m, cost, big)
      PROVE  sched' = sched
  BY <1>1 DEF Arrive
<1>2. ASSUME NEW r \in Requests, Resume(r)
      PROVE  sched' = sched \/ (Holds(call[r]) /\ sched' = Refunded(call[r]))
  BY <1>2 DEF Resume, Withdrawn, CancelledRefund, Holds
<1>3. ASSUME NEW r \in Requests, Attempt(r)
      PROVE  sched' = sched \/ (Holds(call[r]) /\ sched' = Refunded(call[r]))
  <2>1. Holds(call[r])
    BY <1>3, AttemptSteps DEF Holds
  <2>2. ASSUME NEW outcome, NEW upstream, End(r, outcome, upstream)
        PROVE  sched' = sched \/ sched' = Refunded(call[r])
    BY <2>2 DEF End
  <2> QED BY <1>3, <2>1, <2>2, AttemptSteps
<1>4. ASSUME NEW r \in Requests, EngineEnds(r) \/ Reuse(r) PROVE sched' = sched
  BY <1>4 DEF EngineEnds, Reuse
<1>5. ASSUME NEW S \in SUBSET Requests, Cancel(S) PROVE sched' = sched
  BY <1>5 DEF Cancel
<1>6. CASE Tick \/ UNCHANGED qvars
  BY <1>6 DEF Tick, qvars
<1> QED BY <1>1, <1>2, <1>3, <1>4, <1>5, <1>6 DEF QNext

\* Counters that do not grow go on fitting.
LEMMA LessFits ==
  ASSUME QInv, QInv', CountersFit,
         \A m \in Models : sched'.runs[m] <= sched.runs[m],
         \A p \in Pools : sched'.used[p] <= sched.used[p]
  PROVE  CountersFit'
<1>1. \A m \in Models : sched.runs[m] \in Nat /\ sched'.runs[m] \in Nat /\ Cap[m] \in Nat
  BY ProxyAssumption DEF QInv
<1>2. \A p \in Pools : sched.used[p] \in Nat /\ sched'.used[p] \in Nat /\ Budget[p] \in Nat
  BY ProxyAssumption DEF QInv
<1>3. \A m \in Models : Cap[m] # 0 => sched'.runs[m] <= Cap[m]
  BY <1>1 DEF CountersFit
<1>4. \A p \in Pools : sched'.used[p] <= Budget[p]
  BY <1>2 DEF CountersFit
<1>5. \A p : Active(p)' \subseteq Active(p)
  BY <1>1 DEF Active
<1>6. \A p \in Exclusive : \A m, n \in Active(p)' : m = n
  BY <1>5 DEF CountersFit
<1> QED BY <1>3, <1>4, <1>6 DEF CountersFit

LEMMA AdmitFits ==
  ASSUME QInv, CountersFit, NEW r \in Requests, Admit(r)
  PROVE  CountersFit'
<1> DEFINE m == call[r].model
           p == PoolOf[m]
           cost == call[r].cost
<1>1. /\ m \in Models /\ p \in Pools /\ cost \in Nat
      /\ sched' = Charged(call[r]) /\ HasRoom(call[r])
  <2>1. call[r] \in Call /\ m \in Models
    BY RequestFacts DEF Admit
  <2> QED BY <2>1, ProxyAssumption DEF Call, Admit
<1>2. /\ \A q \in Pools : sched.used[q] \in Nat /\ Budget[q] \in Nat
      /\ \A n \in Models : sched.runs[n] \in Nat /\ Cap[n] \in Nat
  BY ProxyAssumption, CounterFacts
<1>3. /\ \A q \in Pools : sched'.used[q] = IF q = p THEN sched.used[q] + cost ELSE sched.used[q]
      /\ \A n \in Models : sched'.runs[n] = IF n = m THEN sched.runs[n] + 1 ELSE sched.runs[n]
  <2>1. sched' = [sched EXCEPT !.used[p] = @ + cost, !.runs[m] = @ + 1]
    BY <1>1 DEF Charged
  <2> HIDE DEF p, m, cost
  <2> QED BY <1>1, <2>1, CounterFacts
<1>4. /\ Cap[m] # 0 => sched.runs[m] < Cap[m]
      /\ p \in Exclusive => Active(p) \subseteq {m}
      /\ sched.used[p] + cost <= Budget[p]
  BY <1>1 DEF HasRoom
<1>5. ASSUME NEW q PROVE Active(q)' \subseteq IF q = p THEN Active(q) \cup {m} ELSE Active(q)
  <2>1. Active(q)' = {n \in Models : PoolOf[n] = q /\ sched'.runs[n] > 0}
    BY DEF Active
  <2>2. PoolOf[m] = p
    OBVIOUS
  <2> HIDE DEF p, m
  <2> QED BY <1>2, <1>3, <2>1, <2>2 DEF Active
<1> HIDE DEF p, m, cost
<1>6. \A n \in Models : Cap[n] # 0 => sched'.runs[n] <= Cap[n]
  BY <1>2, <1>3, <1>4 DEF CountersFit
<1>7. \A q \in Pools : sched'.used[q] <= Budget[q]
  BY <1>1, <1>3, <1>4 DEF CountersFit
<1>8. ASSUME NEW q \in Exclusive PROVE \A n, k \in Active(q)' : n = k
  <2>1. CASE q = p
    BY <1>4, <1>5, <2>1
  <2>2. CASE q # p
    BY <1>5, <2>2 DEF CountersFit
  <2> QED BY <2>1, <2>2
<1> QED BY <1>6, <1>7, <1>8 DEF CountersFit

LEMMA FitStep == QInv /\ QInv' /\ CountersFit /\ [QNext]_qvars => CountersFit'
<1> SUFFICES ASSUME QInv, QInv', CountersFit, [QNext]_qvars PROVE CountersFit'
  OBVIOUS
<1>1. CASE sched' = sched
  BY <1>1 DEF CountersFit, Active
<1>2. ASSUME NEW r \in Requests, Holds(call[r]), sched' = Refunded(call[r])
      PROVE  CountersFit'
  <2> DEFINE old == call[r]
             new == Over(old)
  <2>1. old \in Call /\ old.model \in Models /\ new \in Call /\ ~Holds(new)
    BY <1>2, RequestFacts, OverFacts DEF Holds, AttemptPhases
  <2>2. SchedMoves(Refunded(old), old, new)
    BY <1>2, <2>1, SchedRefunds
  <2>3. /\ \A p \in Pools : UnitShare(old, p) \in Nat /\ UnitShare(new, p) = 0
        /\ \A m \in Models : RunShare(old, m) \in Nat /\ RunShare(new, m) = 0
    <3>1. old.cost \in Nat
      BY <2>1 DEF Call
    <3> HIDE DEF old, new
    <3> QED BY <2>1, <3>1, ShareFacts
  <2> HIDE DEF old, new
  <2>4. ASSUME NEW p \in Pools PROVE sched'.used[p] <= sched.used[p]
    <3>1. sched.used[p] \in Nat
      BY CounterFacts
    <3>2. sched'.used[p] = sched.used[p] - UnitShare(old, p) + UnitShare(new, p)
      BY <1>2, <2>2 DEF SchedMoves, old
    <3>3. UnitShare(old, p) \in Nat /\ UnitShare(new, p) = 0
      BY <2>3
    <3> QED BY ONLY <3>1, <3>2, <3>3
  <2>5. ASSUME NEW m \in Models PROVE sched'.runs[m] <= sched.runs[m]
    <3>1. sched.runs[m] \in Nat
      BY CounterFacts
    <3>2. sched'.runs[m] = sched.runs[m] - RunShare(old, m) + RunShare(new, m)
      BY <1>2, <2>2 DEF SchedMoves, old
    <3>3. RunShare(old, m) \in Nat /\ RunShare(new, m) = 0
      BY <2>3
    <3> QED BY ONLY <3>1, <3>2, <3>3
  <2> QED BY <2>4, <2>5, LessFits
<1> QED BY <1>1, <1>2, SchedSteps, AdmitFits

\* The capacity is never exceeded by the requests that really run: the cap of a
\* model, the budget of a pool and the one-member rule of an exclusive pool
\* (queue_proxy.proxy: a request is sent only while it holds a slot).
THEOREM ProxyWithinCapacity == QSpec => []WithinCapacity
<1>1. QInit => CountersFit
  <2> SUFFICES ASSUME QInit PROVE CountersFit
    OBVIOUS
  <2>1. \A p \in Pools : sched.used[p] = 0 /\ Budget[p] \in Nat
    BY ProxyAssumption DEF QInit
  <2>2. \A m \in Models : sched.runs[m] = 0 /\ Cap[m] \in Nat
    BY ProxyAssumption DEF QInit
  <2>3. \A p : Active(p) = {}
    BY <2>2 DEF Active
  <2> QED BY <2>1, <2>2, <2>3 DEF CountersFit
<1>2. ASSUME QInv, CountersFit PROVE WithinCapacity
  <2>1. Slots!WithinCaps
    BY <1>2, HoldingFacts, SlotsCardinality DEF Slots!WithinCaps, CountersFit, QInv, Tallied
  <2>2. Slots!WithinBudgets
    BY <1>2, HoldingFacts, SlotsCardinality DEF Slots!WithinBudgets, CountersFit, QInv, Tallied
  <2>3. Slots!OneResident
    <3>1. ASSUME NEW p \in Exclusive, NEW r \in Requests, NEW m, Holds(call[r]),
                 m = call[r].model, PoolOf[m] = p
          PROVE  m \in Active(p)
      <4>1. m \in Models
        BY <1>2, <3>1, RequestFacts DEF Holds, AttemptPhases
      <4>2. r \in RunsIn(call, m) /\ IsFiniteSet(RunsIn(call, m)) /\ sched.runs[m] = Cardinality(RunsIn(call, m))
        BY <1>2, <3>1, <4>1 DEF RunsIn, QInv, Tallied
      <4>3. sched.runs[m] # 0 /\ sched.runs[m] \in Nat
        BY <1>2, <4>1, <4>2, FS_EmptySet, CounterFacts
      <4> QED BY <3>1, <4>1, <4>3 DEF Active
    <3>2. ASSUME NEW p \in Exclusive, NEW r \in Slots!RunningIn(p), NEW s \in Slots!RunningIn(p)
          PROVE  call[r].model = call[s].model /\ r \in Holding /\ s \in Holding
      <4>1. /\ r \in Requests /\ Holds(call[r]) /\ PoolOf[call[r].model] = p
            /\ s \in Requests /\ Holds(call[s]) /\ PoolOf[call[s].model] = p
        BY HoldingFacts
      <4>2. call[r].model \in Active(p) /\ call[s].model \in Active(p)
        BY <3>1, <4>1
      <4> QED BY <1>2, <4>1, <4>2, HoldingFacts DEF CountersFit
    <3>3. \A r \in Holding : Jobs[r].model = call[r].model
      BY HoldingFacts DEF Jobs
    <3> QED BY <3>2, <3>3 DEF Slots!OneResident, Jobs
  <2> QED BY <2>1, <2>2, <2>3 DEF WithinCapacity
<1> QED BY <1>1, <1>2, FitStep, QInvariance, PTL DEF QSpec
=============================================================================
