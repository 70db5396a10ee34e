----------------------------- MODULE QueueProxy -----------------------------
(***************************************************************************)
(* The request path of the proxy with the scheduler on                     *)
(* (overlaat/queue_proxy.py: proxy, _admit_scheduler, _forward, cancel-one *)
(* and cancel-all), composed with the breaker and with an admission        *)
(* control that keeps counters as the scheduler does.                      *)
(*                                                                         *)
(* A handler runs on one event loop from await to await, and so does an    *)
(* action here.  A request arrives (gates, cost, enqueue), waits for its   *)
(* admission or its cancellation, resumes, is sent, and streams.  Between  *)
(* the resolution of a future and the turn in which the caller resumes     *)
(* anything may happen, another resolution included.                       *)
(*                                                                         *)
(* Not here: requests without a model, which pass through and touch none   *)
(* of this state, and the order of admissions, which is Scheduler's: any   *)
(* waiter for whom there is room may be admitted at any time.              *)
(***************************************************************************)
EXTENDS Breaker, Sequences, FiniteSets, SequencesExt

CONSTANTS
  Requests, Pools, PoolOf, Cap, Budget, Exclusive,   \* see PoolAdmission
  CostsOf,     \* the costs in units that a prompt for a model may weigh
  Sized,       \* the models with overlaat_max_prompt_tokens
  Abort,       \* the models with overlaat_abort_on_disconnect
  NoModel, NoJob

ASSUME ProxyAssumption ==
  /\ PoolOf \in [Models -> Pools]
  /\ Cap \in [Models -> Nat]
  /\ Budget \in [Pools -> Nat]
  /\ Exclusive \subseteq Pools
  /\ CostsOf \in [Models -> SUBSET Nat]
  /\ NoModel \notin Models

VARIABLES
  call,      \* what each request is doing
  sched,     \* the scheduler's counters: used of a pool, runs of a model
  metrics    \* METRICS: in_flight and queue_depth of a model

qvars == <<call, sched, metrics, brk>>

AttemptOutcomes == {"completed", "upstream_error", "client_abandoned"}
Outcomes == AttemptOutcomes \cup
  {"rejected_oversized", "rejected_unhealthy", "rejected_unadmittable", "cancelled_queued"}

Call ==
  [phase     : {"idle", "queued", "sending", "streaming", "draining", "done"},
   model     : Models \cup {NoModel},
   cost      : Nat,
   fut       : {"pending", "admitted", "refused"},       \* Waiter.fut
   cancelled : BOOLEAN,                                  \* cancel_fut is done
   base      : {"none", "completed", "upstream_error"},  \* base_outcome
   released  : BOOLEAN,
   emitted   : BOOLEAN,
   upstream  : {"none", "working", "ended", "broken",    \* what the engine does for it,
                "unread"},                               \* unread: nobody reads it to see
   events    : Seq(Outcomes),                            \* the events emitted
   fed       : Seq(AttemptOutcomes)]                     \* the outcomes recorded

Unused == [phase |-> "idle", model |-> NoModel, cost |-> 0, fut |-> "pending",
           cancelled |-> FALSE, base |-> "none", released |-> FALSE, emitted |-> FALSE,
           upstream |-> "none", events |-> <<>>, fed |-> <<>>]

QInit ==
  /\ BreakerInit
  /\ call = [r \in Requests |-> Unused]
  /\ sched = [used |-> [p \in Pools |-> 0], runs |-> [m \in Models |-> 0]]
  /\ metrics = [inFlight |-> [m \in Models |-> 0], queueDepth |-> [m \in Models |-> 0]]

-----------------------------------------------------------------------------
\* The scheduler's counters.
AtLeast0(n) == IF n >= 0 THEN n ELSE 0

Charged(c)  == [sched EXCEPT !.used[PoolOf[c.model]] = @ + c.cost, !.runs[c.model] = @ + 1]
Refunded(c) == [sched EXCEPT !.used[PoolOf[c.model]] = AtLeast0(@ - c.cost),
                             !.runs[c.model] = AtLeast0(@ - 1)]

WithdrawnRefunds(c) == Refunded(c)   \* mutant: a waiter that was never charged is refunded
Withdrawn(c) == sched

CancelledKept(c) == sched            \* mutant: admitted and cancelled at once leaks the charge
CancelledRefund(c) == Refunded(c)

Active(p) == {m \in Models : PoolOf[m] = p /\ sched.runs[m] > 0}
HasRoom(c) ==
  LET p == PoolOf[c.model] IN
  /\ Cap[c.model] # 0 => sched.runs[c.model] < Cap[c.model]
  /\ p \in Exclusive => Active(p) \subseteq {c.model}
  /\ sched.used[p] + c.cost <= Budget[p]

-----------------------------------------------------------------------------
\* The end of a handler: its Waiter and its futures are gone.
Over(c) == [c EXCEPT !.phase = "done", !.cost = 0, !.fut = "pending", !.cancelled = FALSE]

\* Arrival: the size gate, the breaker gate, and the queue.
Answer(c, outcome) == [Over(c) EXCEPT !.events = Append(@, outcome)]

Queued(m) == [metrics EXCEPT !.queueDepth[m] = @ + 1]

Arrive(r, m, cost, big) ==
  LET c == [Unused EXCEPT !.model = m, !.cost = cost] IN
  /\ call[r] = Unused
  /\ \/ /\ big /\ m \in Sized
        /\ call' = [call EXCEPT ![r] = Answer(c, "rejected_oversized")]
        /\ UNCHANGED <<sched, metrics, brk>>
     \/ /\ ~(big /\ m \in Sized)
        /\ ~Allowed(m)
        /\ call' = [call EXCEPT ![r] = Answer(c, "rejected_unhealthy")]
        /\ UNCHANGED <<sched, metrics, brk>>
     \/ /\ ~(big /\ m \in Sized)
        /\ Allow(m)
        /\ call' = [call EXCEPT ![r] = [c EXCEPT !.phase = "queued",
                      !.fut = IF cost <= Budget[PoolOf[m]] THEN "pending" ELSE "refused"]]
        /\ metrics' = Queued(m)
        /\ UNCHANGED sched

\* The scheduler admits a waiter, also one that was cancelled and has not
\* resumed yet.
Admit(r) ==
  /\ call[r].phase = "queued" /\ call[r].fut = "pending"
  /\ HasRoom(call[r])
  /\ sched' = Charged(call[r])
  /\ call' = [call EXCEPT ![r].fut = "admitted"]
  /\ UNCHANGED <<metrics, brk>>

\* The cancel endpoints resolve the cancel futures of queued requests: of one,
\* or of those of a model or a key, and any requests may share a key.
Cancel(S) ==
  /\ S # {}
  /\ \A r \in S : call[r].phase = "queued" /\ ~call[r].cancelled
  /\ call' = [r \in Requests |-> IF r \in S THEN [call[r] EXCEPT !.cancelled = TRUE] ELSE call[r]]
  /\ UNCHANGED <<sched, metrics, brk>>

-----------------------------------------------------------------------------
\* The caller resumes when one of its futures is done.
WakesOnFut(c) == c.fut # "pending"   \* mutant: the cancel future is not waited for
Wakes(c) == c.fut # "pending" \/ c.cancelled

CancelUnseen(c) == FALSE             \* mutant
CancelSeen(c) == c.cancelled

Dequeued(m) == [metrics EXCEPT !.queueDepth[m] = @ - 1]

Resume(r) ==
  LET c == call[r] IN
  /\ c.phase = "queued"
  /\ Wakes(c)
  /\ UNCHANGED brk
  /\ \/ /\ c.fut = "pending"                      \* cancel won: withdraw
        /\ call' = [call EXCEPT ![r] = Answer(c, "cancelled_queued")]
        /\ sched' = Withdrawn(c)
        /\ metrics' = Dequeued(c.model)
     \/ /\ c.fut = "refused"
        /\ call' = [call EXCEPT ![r] = Answer(c, "rejected_unadmittable")]
        /\ metrics' = Dequeued(c.model)
        /\ UNCHANGED sched
     \/ /\ c.fut = "admitted" /\ CancelSeen(c)     \* admitted and cancelled at once
        /\ call' = [call EXCEPT ![r] = Answer(c, "cancelled_queued")]
        /\ sched' = CancelledRefund(c)
        /\ metrics' = Dequeued(c.model)
     \/ /\ c.fut = "admitted" /\ ~CancelSeen(c)
        /\ call' = [call EXCEPT ![r].phase = "sending", ![r].upstream = "working"]
        /\ metrics' = [Dequeued(c.model) EXCEPT !.inFlight[c.model] = @ + 1]
        /\ UNCHANGED sched

-----------------------------------------------------------------------------
\* The end of an attempt: release, then finish, each at most once.
RunEndedUncounted(c) == metrics   \* mutant
RunEnded(c) == [metrics EXCEPT !.inFlight[c.model] = @ - 1]

FinishedUnlessGone(c, outcome) ==   \* mutant: an abandoned call is not reported
  IF c.emitted \/ outcome = "client_abandoned" THEN c
  ELSE [c EXCEPT !.emitted = TRUE, !.events = Append(@, outcome), !.fed = Append(@, outcome)]
Finished(c, outcome) ==
  IF c.emitted THEN c
  ELSE [c EXCEPT !.emitted = TRUE, !.events = Append(@, outcome), !.fed = Append(@, outcome)]

End(r, outcome, upstream) ==
  LET c == call[r] IN
  /\ IF c.released THEN UNCHANGED <<sched, metrics>>
     ELSE sched' = Refunded(c) /\ metrics' = RunEnded(c)
  /\ IF c.emitted THEN UNCHANGED brk ELSE Record(c.model, outcome)
  /\ call' = [call EXCEPT ![r] =
                [Over(Finished(c, outcome)) EXCEPT !.released = TRUE, !.upstream = upstream]]

\* No answer: a connection error or a timeout before the headers.
SendFails(r) ==
  /\ call[r].phase = "sending"
  /\ End(r, "upstream_error", "broken")

\* The headers arrive, with a status below 400 or not.
Respond(r, base) ==
  /\ call[r].phase = "sending"
  /\ call' = [call EXCEPT ![r].phase = "streaming", ![r].base = base]
  /\ UNCHANGED <<sched, metrics, brk>>

\* The outcome of a stream that did not come to its natural end.
CutShort(c) == IF c.base = "upstream_error" THEN "upstream_error" ELSE "client_abandoned"

StreamEnds(r) ==
  /\ call[r].phase = "streaming"
  /\ End(r, call[r].base, "ended")

\* A read from the upstream fails: the iterator is finished, so there is
\* nothing to drain.
StreamBreaks(r) ==
  /\ call[r].phase = "streaming"
  /\ End(r, CutShort(call[r]), "broken")

\* The client goes away while the generator waits for it (at the yield) and is
\* closed later, or while it reads from the upstream: then the cancellation
\* goes through the iterator, which is finished, and the drain finds nothing.
Drains(c) == c.base # "upstream_error" /\ c.model \notin Abort

DisconnectAtYield(r) ==
  /\ call[r].phase = "streaming"
  /\ \/ /\ Drains(call[r])
        /\ call' = [call EXCEPT ![r].phase = "draining"]
        /\ UNCHANGED <<sched, metrics, brk>>
     \/ /\ ~Drains(call[r])
        /\ End(r, CutShort(call[r]), IF call[r].model \in Abort THEN "ended" ELSE "working")

DisconnectAtRead(r) ==
  /\ call[r].phase = "streaming"
  /\ End(r, CutShort(call[r]), IF call[r].model \in Abort THEN "ended" ELSE "working")

\* The drain ends with the upstream, or with a read that fails or times out:
\* the engine may then be at work still, which the proxy has no means to see.
DrainEnds(r) ==
  /\ call[r].phase = "draining"
  /\ \E upstream \in {"ended", "unread"} : End(r, CutShort(call[r]), upstream)

-----------------------------------------------------------------------------
\* An engine without abort that was left alone comes to its end.
EngineEnds(r) ==
  /\ call[r].phase = "done" /\ call[r].upstream = "working"
  /\ call' = [call EXCEPT ![r].upstream = "ended"]
  /\ UNCHANGED <<sched, metrics, brk>>

\* The identity of an answered request is used again.
Reuse(r) ==
  /\ call[r].phase = "done" /\ call[r].upstream # "working"
  /\ call' = [call EXCEPT ![r] = Unused]
  /\ UNCHANGED <<sched, metrics, brk>>

Tick == Elapse /\ UNCHANGED <<call, sched, metrics>>

Attempt(r) ==
  \/ SendFails(r)
  \/ \E base \in {"completed", "upstream_error"} : Respond(r, base)
  \/ StreamEnds(r) \/ StreamBreaks(r)
  \/ DisconnectAtYield(r) \/ DisconnectAtRead(r)
  \/ DrainEnds(r)

QNext ==
  \/ \E r \in Requests :
       \/ \E m \in Models : \E cost \in CostsOf[m], big \in BOOLEAN : Arrive(r, m, cost, big)
       \/ Admit(r)
       \/ Resume(r)
       \/ Attempt(r)
       \/ EngineEnds(r) \/ Reuse(r)
  \/ \E S \in SUBSET Requests : Cancel(S)
  \/ Tick

QSpec == QInit /\ [][QNext]_qvars

\* A caller whose future is done is resumed by the event loop.
FairQSpec == QSpec /\ \A r \in Requests : WF_qvars(Resume(r))

-----------------------------------------------------------------------------
InPhase(phases) == {r \in Requests : call[r].phase \in phases}
Attempts == InPhase({"sending", "streaming", "draining"})
Asking   == {r \in InPhase({"queued"}) : call[r].fut = "pending"}
Holding  == Attempts \cup {r \in InPhase({"queued"}) : call[r].fut = "admitted"}

\* The state of the proxy has its type: no counter of the scheduler falls below
\* zero, and the counters shown to operators are the requests that queue and that
\* are being forwarded.
QTypeOK ==
  /\ call \in [Requests -> Call]
  /\ sched \in [used : [Pools -> Nat], runs : [Models -> Nat]]
  /\ metrics = [inFlight   |-> [m \in Models |-> Cardinality({r \in Attempts : call[r].model = m})],
                queueDepth |-> [m \in Models |-> Cardinality({r \in InPhase({"queued"}) : call[r].model = m})]]
  /\ brk \in [Models -> ModelState]

\* Admission control as the requests see it.
Slots == INSTANCE PoolAdmission WITH
           asking  <- Asking,
           running <- Holding,
           job     <- [r \in Requests |-> IF r \in Asking \cup Holding
                                          THEN [model |-> call[r].model, cost |-> call[r].cost]
                                          ELSE NoJob]

\* The request path uses the scheduler as PoolAdmission allows, and with it
\* never runs more than the capacity.
UsesPoolAdmission == Slots!ASpec

\* Slots are neither leaked nor given back twice: whatever a request dies of,
\* the scheduler's counters are the charges of the requests that hold a slot.
SlotsExact ==
  /\ \A p \in Pools  : sched.used[p] = Cardinality(Slots!UnitsHeld(p))
  /\ \A m \in Models : sched.runs[m] = Cardinality(Slots!RunningOf(m))

\* Each request is reported by exactly one event, when it is answered, and the
\* breaker is fed once with the outcome of an attempt and never with a refusal.
OneEvent ==
  \A r \in Requests :
    /\ Len(call[r].events) = IF call[r].phase = "done" THEN 1 ELSE 0
    /\ call[r].fed = IF \E i \in DOMAIN call[r].events : call[r].events[i] \in AttemptOutcomes
                     THEN call[r].events ELSE <<>>

\* A request that a cancel endpoint reported as cancelled is never sent, even
\* if it is admitted before its caller resumes.
CancelHonoured ==
  [][\A r \in Requests : call[r].cancelled => call'[r].phase # "sending"]_qvars

\* A cancelled request is answered.
CancelAnswered == \A r \in Requests : call[r].cancelled ~> ~call[r].cancelled \/ call[r].phase = "done"

-----------------------------------------------------------------------------
\* "upstream 5xx, connection errors, and read-timeouts all surface as
\* upstream_error" (breaker.py): an attempt that the upstream broke off is
\* reported and recorded as that.
BreaksAreErrors ==
  \A r \in Requests :
    call[r].phase = "done" /\ call[r].upstream = "broken" => call[r].events = <<"upstream_error">>

\* "the slot tracks real backend occupancy" (_forward): the engine without abort
\* works for nobody whose slot was given back (an error response ends at once).
SlotTracksEngine ==
  \A r \in Requests :
    /\ call[r].upstream = "working" /\ call[r].base = "completed"
    /\ call[r].model \notin Abort
    => r \in Holding
=============================================================================
