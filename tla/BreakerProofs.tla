--------------------------- MODULE BreakerProofs ---------------------------
(***************************************************************************)
(* Proofs about the breaker for every number of models and requests, every *)
(* threshold and every cooldown: its type, that probes are a cooldown      *)
(* apart, and that it trips on a streak of failures only.                  *)
(*                                                                         *)
(* The strengthening relates the ages that the breaker keeps to those of   *)
(* the probes that are under way (ProbeClock) and its counter to the       *)
(* failures that were really recorded in a row (StreakCounted).            *)
(***************************************************************************)
EXTENDS BreakerClients, TLAPS

\* The parts of CTypeOK that do not need StreakCounted.
Shape ==
  /\ brk \in [Models -> ModelState]
  /\ client \in [Requests -> Client]
  /\ streak \in [Models -> Nat]
  /\ healed \in BOOLEAN

\* Half open means that a probe is out; a model without a breaker is never touched.
HalfOpenProbes ==
  \A m \in Models : /\ brk[m].state = "half_open" <=> brk[m].probeInFlight
                    /\ m \notin Gated => brk[m].state = "closed" /\ brk[m].consecutiveFails = 0

\* The counter of a closed breaker is the streak, and it is below the threshold.
StreakCounted ==
  \A m \in Models :
    IF brk[m].state = "closed"
    THEN streak[m] = brk[m].consecutiveFails /\ streak[m] < Fails
    ELSE streak[m] = 0

Fresh(r) == client[r].model # NoModel /\ client[r].probe /\ client[r].age < Cooldown

\* A fresh probe is the one the half-open state waits for, or it is at least as
\* old as the open state.
ProbeClock ==
  \A r \in Requests : Fresh(r) =>
    LET s == brk[client[r].model] IN
    /\ s.state = "half_open" => s.probeAge = client[r].age
    /\ s.state = "open" => s.openAge <= client[r].age

FreshApart ==
  \A r, s \in Requests :
    Fresh(r) /\ Fresh(s) /\ client[r].model = client[s].model => r = s

IInv == Shape /\ HalfOpenProbes /\ StreakCounted /\ ProbeClock /\ FreshApart

-----------------------------------------------------------------------------
\* The inductive invariant holds when the proxy starts.
LEMMA InitIInv == CInit => IInv
  <1>. SUFFICES ASSUME CInit PROVE IInv
    OBVIOUS
  <1>. USE BreakerAssumption, NoModelAssumption DEF CInit, BreakerInit, Gone
  <1>1. Shape
    <2>1. brk \in [Models -> ModelState]
      BY DEF ModelState
    <2>2. client \in [Requests -> Client]
      BY DEF Client
    <2>3. streak \in [Models -> Nat]
      OBVIOUS
    <2>4. healed \in BOOLEAN
      OBVIOUS
    <2>. QED BY <2>1, <2>2, <2>3, <2>4 DEF Shape
  <1>2. HalfOpenProbes /\ StreakCounted
    BY DEF HalfOpenProbes, StreakCounted
  <1>3. ProbeClock /\ FreshApart
    BY DEF ProbeClock, FreshApart, Fresh
  <1>. QED BY <1>1, <1>2, <1>3 DEF IInv

\* What arming, opening and closing leave in the state of a model.
LEMMA Transitions ==
  ASSUME NEW s \in ModelState
  PROVE  /\ Arm(s) \in ModelState /\ Open(s) \in ModelState /\ Close(s) \in ModelState
         /\ [s EXCEPT !.probeInFlight = FALSE] \in ModelState
         /\ \A k \in 0 .. Fails : [s EXCEPT !.consecutiveFails = k] \in ModelState
  <1>1. 0 \in 0 .. Cooldown /\ 0 \in 0 .. Fails
    BY BreakerAssumption
  <1>2. Arm(s) \in ModelState
    BY <1>1 DEF Arm, ModelState
  <1>3. Open(s) \in ModelState
    BY <1>1 DEF Open, ModelState
  <1>4. Close(s) \in ModelState
    BY <1>1 DEF Close, ModelState
  <1>5. [s EXCEPT !.probeInFlight = FALSE] \in ModelState
    BY DEF ModelState
  <1>6. \A k \in 0 .. Fails : [s EXCEPT !.consecutiveFails = k] \in ModelState
    BY DEF ModelState
  <1>. QED BY <1>2, <1>3, <1>4, <1>5, <1>6

\* A model state replaced by another keeps the type.
LEMMA ReplaceModelState ==
  ASSUME NEW m \in Models, NEW s \in ModelState, Shape, brk' = [brk EXCEPT ![m] = s]
  PROVE  brk' \in [Models -> ModelState]
  BY DEF Shape

\* No probe can be armed while a fresh one is under way.
LEMMA NoArmBesideFresh ==
  ASSUME IInv, NEW r \in Requests, Fresh(r)
  PROVE  ~ArmsProbe(client[r].model)
  <1>. DEFINE m == client[r].model
  <1>. USE BreakerAssumption, NoModelAssumption
  <1>1. m \in Models /\ client[r].age \in 0 .. Cooldown /\ client[r].age < Cooldown
    BY DEF IInv, Shape, Client, Fresh
  <1>2. brk[m] \in ModelState
    BY <1>1 DEF IInv, Shape
  <1>3. ASSUME brk[m].state = "open" PROVE ~CooledDown(m)
    BY <1>1, <1>2, <1>3 DEF IInv, ProbeClock, CooledDown, ModelState
  <1>4. ASSUME brk[m].state = "half_open" PROVE ProbeFresh(m)
    BY <1>1, <1>2, <1>4 DEF IInv, ProbeClock, HalfOpenProbes, ProbeFresh, ModelState
  <1>. QED BY <1>3, <1>4 DEF ArmsProbe

\* Letting a request through keeps the invariant.
LEMMA EnterIInv ==
  ASSUME IInv, NEW r \in Requests, NEW m \in Models, Enter(r, m)
  PROVE  IInv'
  <1>. USE BreakerAssumption, NoModelAssumption
  <1>0. Shape /\ HalfOpenProbes /\ StreakCounted /\ ProbeClock /\ FreshApart
    BY DEF IInv
  <1>1. /\ client' = [client EXCEPT ![r] = [model |-> m, probe |-> ArmsProbe(m), age |-> 0]]
        /\ UNCHANGED <<streak, healed>>
        /\ Allow(m)
    BY DEF Enter
  <1>2. ArmsProbe(m) \in BOOLEAN
    BY DEF ArmsProbe, CooledDown, ProbeFresh
  <1>3. CASE ArmsProbe(m)
    <2>1. brk' = [brk EXCEPT ![m] = Arm(brk[m])]
      BY <1>1, <1>3 DEF Allow
    <2>2. m \in Gated /\ brk[m].state # "closed"
      BY <1>3 DEF ArmsProbe
    <2>3. client' = [client EXCEPT ![r] = [model |-> m, probe |-> TRUE, age |-> 0]]
      BY <1>1, <1>2, <1>3
    <2>4. Shape'
      <3>1. brk' \in [Models -> ModelState]
        <4>1. Arm(brk[m]) \in ModelState
          BY <1>0, Transitions DEF Shape
        <4>. QED BY <4>1, <1>0, <2>1, ReplaceModelState
      <3>2. client' \in [Requests -> Client]
        BY <1>0, <2>3 DEF Shape, Client
      <3>3. streak' \in [Models -> Nat] /\ healed' \in BOOLEAN
        BY <1>0, <1>1 DEF Shape
      <3>. QED BY <3>1, <3>2, <3>3 DEF Shape
    <2>5. HalfOpenProbes'
      BY <1>0, <2>1, <2>2 DEF Arm, HalfOpenProbes, Shape, ModelState
    <2>6. StreakCounted'
      BY <1>0, <1>1, <2>1, <2>2 DEF Arm, StreakCounted, Shape, ModelState
    <2>7. ASSUME NEW s \in Requests, s # r, Fresh(s)'
          PROVE  client[s].model # m /\ Fresh(s) /\ client'[s] = client[s]
      <3>1. client'[s] = client[s]
        BY <2>3, <2>7 DEF Shape
      <3>2. Fresh(s)
        BY <3>1, <2>7 DEF Fresh
      <3>. QED BY <3>1, <3>2, <1>3, NoArmBesideFresh
    <2>8. client'[r] = [model |-> m, probe |-> TRUE, age |-> 0]
      BY <1>0, <2>3 DEF Shape
    <2>9. /\ brk'[m].state = "half_open" /\ brk'[m].probeAge = 0
          /\ \A n \in Models \ {m} : brk'[n] = brk[n]
      BY <1>0, <2>1 DEF Arm, Shape, ModelState
    <2>10. ProbeClock'
      <3>. SUFFICES ASSUME NEW s \in Requests, Fresh(s)'
                    PROVE  LET b == brk'[client'[s].model] IN
                           /\ b.state = "half_open" => b.probeAge = client'[s].age
                           /\ b.state = "open" => b.openAge <= client'[s].age
        BY DEF ProbeClock
      <3>1. CASE s = r
        BY <3>1, <2>8, <2>9
      <3>2. CASE s # r
        <4>1. client[s].model \in Models \ {m}
          BY <3>2, <2>7, <1>0 DEF Shape, Client, Fresh
        <4>. QED BY <4>1, <3>2, <2>7, <2>9, <1>0 DEF ProbeClock
      <3>. QED BY <3>1, <3>2
    <2>11. FreshApart'
      <3>. SUFFICES ASSUME NEW s \in Requests, NEW t \in Requests, Fresh(s)', Fresh(t)',
                           client'[s].model = client'[t].model
                    PROVE  s = t
        BY DEF FreshApart
      <3>. QED BY <2>7, <2>8, <1>0 DEF FreshApart
    <2>. QED BY <2>4, <2>5, <2>6, <2>10, <2>11 DEF IInv
  <1>4. CASE ~ArmsProbe(m)
    <2>1. brk' = brk
      BY <1>1, <1>4 DEF Allow
    <2>2. client' = [client EXCEPT ![r] = [model |-> m, probe |-> FALSE, age |-> 0]]
      BY <1>1, <1>2, <1>4
    <2>3. Shape'
      <3>1. brk' \in [Models -> ModelState]
        BY <1>0, <2>1 DEF Shape
      <3>2. client' \in [Requests -> Client]
        BY <1>0, <2>2 DEF Shape, Client
      <3>3. streak' \in [Models -> Nat] /\ healed' \in BOOLEAN
        BY <1>0, <1>1 DEF Shape
      <3>. QED BY <3>1, <3>2, <3>3 DEF Shape
    <2>4. HalfOpenProbes' /\ StreakCounted'
      BY <1>0, <1>1, <2>1 DEF HalfOpenProbes, StreakCounted
    <2>5. \A s \in Requests : Fresh(s)' => Fresh(s) /\ client'[s] = client[s]
      BY <1>0, <2>2 DEF Fresh, Shape
    <2>6. ProbeClock' /\ FreshApart'
      BY <1>0, <2>1, <2>5 DEF ProbeClock, FreshApart
    <2>. QED BY <2>3, <2>4, <2>6 DEF IInv
  <1>. QED BY <1>3, <1>4

\* A request that ends takes its probe with it, whatever became of the breaker.
LEMMA GoneFresh ==
  ASSUME Shape, NEW r \in Requests, client' = [client EXCEPT ![r] = Gone]
  PROVE  /\ client' \in [Requests -> Client]
         /\ \A s \in Requests : Fresh(s)' => Fresh(s) /\ client'[s] = client[s]
  BY BreakerAssumption, NoModelAssumption DEF Shape, Gone, Client, Fresh

\* Recording an outcome keeps the invariant.
LEMMA FinishIInv ==
  ASSUME IInv, NEW r \in Requests, NEW outcome \in Outcomes, Finish(r, outcome)
  PROVE  IInv'
  <1>. DEFINE m == client[r].model
  <1>. USE BreakerAssumption, NoModelAssumption
  <1>0. Shape /\ HalfOpenProbes /\ StreakCounted /\ ProbeClock /\ FreshApart
    BY DEF IInv
  <1>1. m \in Models
    BY <1>0 DEF Finish, Live, Shape, Client
  <1>2. /\ client' = [client EXCEPT ![r] = Gone]
        /\ healed' = healed
        /\ Record(m, outcome)
        /\ outcome = "client_abandoned" => streak' = streak
        /\ outcome # "client_abandoned" /\ StreakGrows(m, outcome)
           => streak' = [streak EXCEPT ![m] = streak[m] + 1]
        /\ outcome # "client_abandoned" /\ ~StreakGrows(m, outcome)
           => streak' = [streak EXCEPT ![m] = 0]
    BY DEF Finish
  <1>3. /\ client' \in [Requests -> Client]
        /\ \A s \in Requests : Fresh(s)' => Fresh(s) /\ client'[s] = client[s]
    BY <1>0, <1>2, GoneFresh
  <1>4. \A s \in Requests : Fresh(s) => client[s].model \in Models /\ client[s].age \in 0 .. Cooldown
    BY <1>0 DEF Fresh, Shape, Client
  <1>5. FreshApart'
    BY <1>0, <1>3 DEF FreshApart
  <1>6. outcome \in {"completed", "upstream_error", "client_abandoned"}
    BY DEF Outcomes
  <1>7. brk[m] \in ModelState /\ streak[m] \in Nat
    BY <1>0, <1>1 DEF Shape
  <1>11. streak' \in [Models -> Nat] /\ healed' \in BOOLEAN
    <2>1. healed' \in BOOLEAN
      BY <1>0, <1>2 DEF Shape
    <2>2. PICK v \in Nat : streak' = streak \/ streak' = [streak EXCEPT ![m] = v]
      BY <1>2, <1>7
    <2>. QED BY <1>0, <2>1, <2>2 DEF Shape
  <1>12. ASSUME brk' \in [Models -> ModelState] PROVE Shape'
    BY <1>3, <1>11, <1>12 DEF Shape
  <1>8. CASE m \in Gated /\ Counted(outcome) /\ RecordHalfOpen(m, outcome)
    <2>1. CASE outcome = "completed"
      <3>1. brk' = [brk EXCEPT ![m] = Close(brk[m])]
        BY <1>8, <2>1 DEF RecordHalfOpen
      <3>2. Shape'
        <4>1. Close(brk[m]) \in ModelState
          BY <1>7, Transitions
        <4>2. brk' \in [Models -> ModelState]
          BY <4>1, <1>0, <1>1, <3>1, ReplaceModelState
        <4>. QED BY <4>2, <1>12
      <3>4. HalfOpenProbes' /\ StreakCounted'
        BY <1>0, <1>1, <1>2, <1>3, <1>7, <2>1, <3>1
           DEF Close, Shape, HalfOpenProbes, StreakCounted, ModelState, StreakGrows
      <3>3. ProbeClock'
        BY <1>0, <1>1, <1>3, <1>4, <1>7, <3>1 DEF Close, ProbeClock, Shape, ModelState
      <3>. QED BY <3>2, <3>3, <3>4, <1>5 DEF IInv
    <2>2. CASE outcome = "upstream_error"
      <3>1. brk' = [brk EXCEPT ![m] = Open([brk[m] EXCEPT !.probeInFlight = FALSE])]
        BY <1>8, <2>2 DEF RecordHalfOpen
      <3>2. Shape'
        <4>1. Open([brk[m] EXCEPT !.probeInFlight = FALSE]) \in ModelState
          <5>1. [brk[m] EXCEPT !.probeInFlight = FALSE] \in ModelState
            BY <1>7, Transitions
          <5>. QED BY <5>1, Transitions
        <4>2. brk' \in [Models -> ModelState]
          BY <4>1, <1>0, <1>1, <3>1, ReplaceModelState
        <4>. QED BY <4>2, <1>12
      <3>4. HalfOpenProbes' /\ StreakCounted'
        BY <1>0, <1>1, <1>2, <1>3, <1>7, <1>8, <2>2, <3>1
           DEF Open, Shape, HalfOpenProbes, StreakCounted, ModelState, StreakGrows, RecordHalfOpen
      <3>3. ProbeClock'
        BY <1>0, <1>1, <1>3, <1>4, <1>7, <3>1 DEF Open, ProbeClock, Shape, ModelState
      <3>. QED BY <3>2, <3>3, <3>4, <1>5 DEF IInv
    <2>. QED BY <1>6, <1>8, <2>1, <2>2 DEF Counted
  <1>9. CASE m \in Gated /\ Counted(outcome) /\ RecordClosed(m, outcome)
    <2>0. brk[m].state = "closed"
      BY <1>9 DEF RecordClosed
    <2>1. CASE outcome = "completed"
      <3>1. brk' = [brk EXCEPT ![m] = [brk[m] EXCEPT !.consecutiveFails = 0]]
        BY <1>9, <2>1 DEF RecordClosed
      <3>2. Shape'
        <4>1. [brk[m] EXCEPT !.consecutiveFails = 0] \in ModelState
          BY <1>0, <1>1, <1>7, <2>0, <2>1, <3>1, <1>0, <1>9, Transitions DEF ModelState
        <4>2. brk' \in [Models -> ModelState]
          BY <4>1, <1>0, <1>1, <3>1, ReplaceModelState
        <4>. QED BY <4>2, <1>12
      <3>4. HalfOpenProbes' /\ StreakCounted'
        BY <1>0, <1>1, <1>2, <1>3, <1>7, <2>0, <2>1, <3>1
           DEF Shape, HalfOpenProbes, StreakCounted, ModelState, StreakGrows
      <3>3. ProbeClock'
        BY <1>0, <1>1, <1>3, <1>4, <1>7, <2>0, <3>1 DEF ProbeClock, Shape, ModelState
      <3>. QED BY <3>2, <3>3, <3>4, <1>5 DEF IInv
    <2>2. CASE outcome = "upstream_error" /\ brk[m].consecutiveFails + 1 < Fails
      <3>1. brk' = [brk EXCEPT ![m] = [brk[m] EXCEPT !.consecutiveFails = brk[m].consecutiveFails + 1]]
        BY <1>9, <2>2 DEF RecordClosed
      <3>2. Shape'
        <4>1. [brk[m] EXCEPT !.consecutiveFails = brk[m].consecutiveFails + 1] \in ModelState
          BY <1>0, <1>1, <1>7, <2>0, <2>2, <3>1, <1>0, <1>9, Transitions DEF ModelState
        <4>2. brk' \in [Models -> ModelState]
          BY <4>1, <1>0, <1>1, <3>1, ReplaceModelState
        <4>. QED BY <4>2, <1>12
      <3>4. HalfOpenProbes' /\ StreakCounted'
        BY <1>0, <1>1, <1>2, <1>3, <1>7, <1>9, <2>0, <2>2, <3>1
           DEF Shape, HalfOpenProbes, StreakCounted, ModelState, StreakGrows
      <3>3. ProbeClock'
        BY <1>0, <1>1, <1>3, <1>4, <1>7, <2>0, <3>1 DEF ProbeClock, Shape, ModelState
      <3>. QED BY <3>2, <3>3, <3>4, <1>5 DEF IInv
    <2>3. CASE outcome = "upstream_error" /\ ~(brk[m].consecutiveFails + 1 < Fails)
      <3>0. brk[m].consecutiveFails + 1 = Fails
        BY <1>0, <1>1, <1>7, <2>0, <2>3 DEF StreakCounted, ModelState, StreakGrows
      <3>1. brk' = [brk EXCEPT ![m] =
                      Open([brk[m] EXCEPT !.consecutiveFails = brk[m].consecutiveFails + 1])]
        BY <1>9, <2>3 DEF RecordClosed
      <3>2. Shape'
        <4>1. Open([brk[m] EXCEPT !.consecutiveFails = brk[m].consecutiveFails + 1]) \in ModelState
          <5>1. [brk[m] EXCEPT !.consecutiveFails = brk[m].consecutiveFails + 1] \in ModelState
            BY <1>0, <1>1, <1>7, <2>0, <2>3, <3>0, <3>1, Transitions DEF ModelState
          <5>. QED BY <5>1, Transitions
        <4>2. brk' \in [Models -> ModelState]
          BY <4>1, <1>0, <1>1, <3>1, ReplaceModelState
        <4>. QED BY <4>2, <1>12
      <3>4. HalfOpenProbes' /\ StreakCounted'
        BY <1>0, <1>1, <1>2, <1>3, <1>7, <1>9, <2>0, <2>3, <3>0, <3>1
           DEF Open, Shape, HalfOpenProbes, StreakCounted, ModelState, StreakGrows
      <3>3. ProbeClock'
        BY <1>0, <1>1, <1>3, <1>4, <1>7, <3>1 DEF Open, ProbeClock, Shape, ModelState
      <3>. QED BY <3>2, <3>3, <3>4, <1>5 DEF IInv
    <2>. QED BY <1>6, <1>9, <2>1, <2>2, <2>3 DEF Counted
  <1>10. CASE (m \notin Gated \/ ~Counted(outcome) \/ brk[m].state = "open") /\ UNCHANGED brk
    <2>1. Shape' /\ HalfOpenProbes'
      BY <1>0, <1>1, <1>2, <1>3, <1>10, <1>7 DEF Shape, HalfOpenProbes
    <2>2. ProbeClock'
      BY <1>0, <1>3, <1>10 DEF ProbeClock
    <2>3. CASE outcome = "client_abandoned"
      <3>1. StreakCounted'
        BY <1>0, <1>2, <1>10, <2>3 DEF StreakCounted
      <3>. QED BY <3>1, <2>1, <2>2, <1>5 DEF IInv
    <2>4. CASE outcome # "client_abandoned"
      <3>1. m \notin Gated \/ brk[m].state = "open"
        BY <1>6, <1>10, <2>4 DEF Counted
      <3>2. streak' = [streak EXCEPT ![m] = 0]
        BY <1>2, <1>10, <2>4, <3>1 DEF StreakGrows
      <3>3. StreakCounted'
        BY <1>0, <1>1, <1>7, <1>10, <3>1, <3>2, BreakerAssumption
           DEF StreakCounted, HalfOpenProbes, Shape
      <3>. QED BY <3>3, <2>1, <2>2, <1>5 DEF IInv
    <2>. QED BY <2>3, <2>4
  <1>. QED BY <1>2, <1>8, <1>9, <1>10 DEF Record

\* A request that ends unrecorded keeps the invariant.
LEMMA VanishIInv ==
  ASSUME IInv, NEW r \in Requests, Vanish(r)
  PROVE  IInv'
  <1>0. Shape /\ HalfOpenProbes /\ StreakCounted /\ ProbeClock /\ FreshApart
    BY DEF IInv
  <1>1. client' = [client EXCEPT ![r] = Gone] /\ UNCHANGED <<brk, streak, healed>>
    BY DEF Vanish
  <1>2. /\ client' \in [Requests -> Client]
        /\ \A s \in Requests : Fresh(s)' => Fresh(s) /\ client'[s] = client[s]
    BY <1>0, <1>1, GoneFresh
  <1>3. Shape' /\ HalfOpenProbes' /\ StreakCounted'
    BY <1>0, <1>1, <1>2 DEF Shape, HalfOpenProbes, StreakCounted
  <1>4. ProbeClock' /\ FreshApart'
    BY <1>0, <1>1, <1>2 DEF ProbeClock, FreshApart
  <1>. QED BY <1>3, <1>4 DEF IInv

\* The clock keeps the invariant: the breaker and its probes age together.
LEMMA PassIInv ==
  ASSUME IInv, Pass
  PROVE  IInv'
  <1>0. Shape /\ HalfOpenProbes /\ StreakCounted /\ ProbeClock /\ FreshApart
    BY DEF IInv
  <1>1. /\ brk' = [m \in Models |-> [brk[m] EXCEPT !.openAge = Older(brk[m].openAge),
                                                 !.probeAge = Older(brk[m].probeAge)]]
        /\ UNCHANGED <<streak, healed>>
    BY DEF Pass, Elapse
  <1>2. client' = [r \in Requests |-> [client[r] EXCEPT
                     !.age = IF r \in Live THEN Older(client[r].age) ELSE client[r].age]]
    BY DEF Pass
  <1>3. \A a \in 0 .. Cooldown : Older(a) \in 0 .. Cooldown
    BY BreakerAssumption DEF Older
  <1>4. \A m \in Models : brk[m] \in ModelState
    BY <1>0 DEF Shape
  <1>5. ASSUME NEW m \in Models
        PROVE  /\ brk'[m] \in ModelState
               /\ brk'[m].state = brk[m].state
               /\ brk'[m].probeInFlight = brk[m].probeInFlight
               /\ brk'[m].consecutiveFails = brk[m].consecutiveFails
               /\ brk'[m].openAge = Older(brk[m].openAge)
               /\ brk'[m].probeAge = Older(brk[m].probeAge)
    BY <1>1, <1>3, <1>4 DEF ModelState
  <1>6. ASSUME NEW r \in Requests
        PROVE  /\ client'[r] \in Client
               /\ client'[r].model = client[r].model /\ client'[r].probe = client[r].probe
               /\ client'[r].age = IF r \in Live THEN Older(client[r].age) ELSE client[r].age
    <2>1. client[r] \in Client
      BY <1>0 DEF Shape
    <2>. QED BY <2>1, <1>2, <1>3 DEF Client
  <1>7. Shape'
    BY <1>0, <1>1, <1>2, <1>5, <1>6 DEF Shape
  <1>8. HalfOpenProbes' /\ StreakCounted'
    <2>1. streak' = streak
      BY <1>1
    <2>2. HalfOpenProbes'
      BY <1>0, <1>5 DEF HalfOpenProbes
    <2>3. StreakCounted'
      BY <1>0, <1>5, <2>1 DEF StreakCounted
    <2>. QED BY <2>2, <2>3
  <1>9. ASSUME NEW r \in Requests, Fresh(r)'
        PROVE  Fresh(r) /\ client'[r].age = client[r].age + 1
    <2>1. client[r].age \in 0 .. Cooldown
      BY <1>0 DEF Shape, Client
    <2>2. r \in Live
      BY <1>6, <1>9 DEF Fresh, Live
    <2>. QED BY <2>1, <2>2, <1>6, <1>9, BreakerAssumption DEF Fresh, Older
  <1>10. FreshApart'
    BY <1>0, <1>6, <1>9 DEF FreshApart
  <1>11. ProbeClock'
    <2>. SUFFICES ASSUME NEW r \in Requests, Fresh(r)'
                  PROVE  LET b == brk'[client'[r].model] IN
                         /\ b.state = "half_open" => b.probeAge = client'[r].age
                         /\ b.state = "open" => b.openAge <= client'[r].age
      BY DEF ProbeClock
    <2>1. client[r].model \in Models /\ client[r].age \in 0 .. Cooldown
      BY <1>0, <1>9 DEF Shape, Client, Fresh
    <2>2. /\ brk[client[r].model].openAge \in 0 .. Cooldown
          /\ brk[client[r].model].probeAge \in 0 .. Cooldown
      BY <2>1, <1>4 DEF ModelState
    <2>3. client'[r].age = client[r].age + 1 /\ client[r].age < Cooldown
      BY <1>9 DEF Fresh
    <2>. QED BY <1>0, <1>5, <1>6, <1>9, <2>1, <2>2, <2>3, BreakerAssumption DEF ProbeClock, Older
  <1>. QED BY <1>7, <1>8, <1>10, <1>11 DEF IInv

\* The inductive invariant is kept by every step.
LEMMA NextIInv == IInv /\ [CNext]_cvars => IInv'
  <1>. SUFFICES ASSUME IInv, [CNext]_cvars PROVE IInv'
    OBVIOUS
  <1>1. ASSUME NEW r \in Requests, NEW m \in Models, Enter(r, m) PROVE IInv'
    BY <1>1, EnterIInv
  <1>2. ASSUME NEW r \in Requests, NEW outcome \in Outcomes, Finish(r, outcome) PROVE IInv'
    BY <1>2, FinishIInv
  <1>3. ASSUME NEW r \in Requests, Vanish(r) PROVE IInv'
    BY <1>3, VanishIInv
  <1>4. CASE Heal
    <2>1. UNCHANGED <<brk, client, streak>> /\ healed' = TRUE
      BY <1>4 DEF Heal
    <2>. QED BY <2>1 DEF IInv, Shape, HalfOpenProbes, StreakCounted, ProbeClock, FreshApart, Fresh
  <1>5. CASE Pass
    BY <1>5, PassIInv
  <1>6. CASE UNCHANGED cvars
    BY <1>6 DEF cvars, IInv, Shape, HalfOpenProbes, StreakCounted, ProbeClock, FreshApart, Fresh
  <1>. QED BY <1>1, <1>2, <1>3, <1>4, <1>5, <1>6 DEF CNext

\* The inductive invariant holds in every reachable state.
LEMMA Invariant == CSpec => []IInv
  BY InitIInv, NextIInv, PTL DEF CSpec

-----------------------------------------------------------------------------
\* The breaker and its clients keep their types, and a breaker is half open
\* exactly while it waits for a probe (breaker.py, _ModelState).
THEOREM BreakerTypes == CSpec => []CTypeOK
  <1>1. IInv => CTypeOK
    <2>. SUFFICES ASSUME IInv PROVE CTypeOK
      OBVIOUS
    <2>1. streak \in [Models -> 0 .. Fails]
      <3>1. \A m \in Models : streak[m] \in 0 .. Fails
        <4>. SUFFICES ASSUME NEW m \in Models PROVE streak[m] \in 0 .. Fails
          OBVIOUS
        <4>1. streak[m] \in Nat /\ Fails \in Nat \ {0}
          BY BreakerAssumption DEF IInv, Shape
        <4>2. streak[m] < Fails \/ streak[m] = 0
          BY DEF IInv, StreakCounted
        <4>. QED BY <4>1, <4>2
      <3>. QED BY <3>1 DEF IInv, Shape
    <2>. QED BY <2>1 DEF IInv, Shape, HalfOpenProbes, CTypeOK
  <1>. QED BY <1>1, Invariant, PTL

\* Whatever the order of outcomes, losses and stale probes, two probes of one
\* model are never both younger than the cooldown (Breaker.allow).
THEOREM OneProbePerCooldown == CSpec => []ProbesApart
  <1>1. IInv => ProbesApart
    BY DEF IInv, FreshApart, Fresh, ProbesApart, Live
  <1>. QED BY <1>1, Invariant, PTL

\* A breaker trips only when it has recorded the threshold of failures in a row
\* since it closed (Breaker.record).
THEOREM TripNeedsStreak == CSpec => TripsOnStreak
  <1>1. ASSUME IInv, [CNext]_cvars, NEW m \in Models,
               brk[m].state = "closed", brk'[m].state = "open"
        PROVE  streak[m] + 1 >= Fails
    <2>. USE BreakerAssumption
    <2>0. brk \in [Models -> ModelState]
      BY <1>1 DEF IInv, Shape
    <2>1. ASSUME NEW r \in Requests, NEW n \in Models, Enter(r, n) PROVE FALSE
      <3>1. ArmsProbe(n) => n # m
        BY <1>1 DEF ArmsProbe
      <3>2. brk'[m] = brk[m]
        BY <2>0, <2>1, <3>1 DEF Enter, Allow
      <3>. QED BY <3>2, <1>1
    <2>2. ASSUME NEW r \in Requests, NEW outcome \in Outcomes, Finish(r, outcome)
          PROVE  brk[m].consecutiveFails + 1 >= Fails
      <3>1. Record(client[r].model, outcome)
        BY <2>2 DEF Finish
      <3>2. CASE RecordHalfOpen(client[r].model, outcome)
        <4>1. brk'[m] = brk[m]
          BY <2>0, <1>1, <3>2 DEF RecordHalfOpen
        <4>. QED BY <4>1, <1>1
      <3>3. CASE RecordClosed(client[r].model, outcome)
        <4>1. client[r].model = m
          BY <2>0, <1>1, <3>3 DEF RecordClosed
        <4>2. CASE outcome = "completed"
          BY <4>1, <4>2, <2>0, <1>1, <3>3 DEF RecordClosed, ModelState
        <4>3. CASE outcome # "completed" /\ brk[m].consecutiveFails + 1 < Fails
          BY <4>1, <4>3, <2>0, <1>1, <3>3 DEF RecordClosed, ModelState
        <4>4. CASE ~(brk[m].consecutiveFails + 1 < Fails)
          BY <4>4, <2>0 DEF ModelState
        <4>. QED BY <4>2, <4>3, <4>4
      <3>. QED BY <1>1, <3>1, <3>2, <3>3 DEF Record
    <2>3. ASSUME Pass PROVE FALSE
      <3>1. brk'[m].state = brk[m].state
        BY <2>0, <2>3 DEF Pass, Elapse, ModelState
      <3>. QED BY <3>1, <1>1
    <2>4. ASSUME UNCHANGED brk PROVE FALSE
      BY <2>4, <1>1
    <2>5. brk[m].consecutiveFails + 1 >= Fails
      BY <1>1, <2>1, <2>2, <2>3, <2>4 DEF CNext, Vanish, Heal, cvars
    <2>. QED BY <2>5, <1>1 DEF IInv, StreakCounted
  <1>2. IInv /\ [CNext]_cvars =>
          [\A m \in Models : brk[m].state = "closed" /\ brk'[m].state = "open"
                              => streak[m] + 1 >= Fails]_cvars
    BY <1>1
  <1>. QED BY <1>2, Invariant, PTL DEF CSpec, TripsOnStreak
=============================================================================
