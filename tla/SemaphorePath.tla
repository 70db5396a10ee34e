---------------------------- MODULE SemaphorePath ----------------------------
(***************************************************************************)
(* The request path with the scheduler switched off                        *)
(* (overlaat/queue_proxy.py: get_semaphore and the last branch of proxy):  *)
(* each capped model has an asyncio.Semaphore, and each request waits in a *)
(* task of its own for it, beside a future that the cancel endpoints       *)
(* resolve.                                                                *)
(*                                                                         *)
(* One capped model: another has its own semaphore, and a request for a    *)
(* model without a cap passes straight through.  asyncio.Semaphore (value, *)
(* waiters and the wake-ups among them) is external to the repository and  *)
(* modelled as the path uses it: a release hands its slot to a waiter,     *)
(* whose task may still be cancelled before it runs.                       *)
(*                                                                         *)
(* The attempt itself (send, stream, disconnect) is QueueProxy's; here it  *)
(* runs, and ends in one release.                                          *)
(***************************************************************************)
EXTENDS Naturals, Sequences, FiniteSets, SequencesExt

CONSTANTS
  Requests,
  Cap,         \* CAPS of the model
  Model, NoJob

ASSUME SemaphoreAssumption == Cap \in Nat \ {0}

VARIABLES
  call,      \* what the handler of each request is doing
  task,      \* the task of each request that acquires the semaphore
  sem,       \* its free slots and its waiters, in order
  metrics    \* METRICS: in_flight and queue_depth

svars == <<call, task, sem, metrics>>

Call == [phase : {"idle", "waiting", "withdrawing", "running", "done"}, cancelled : BOOLEAN]

TaskStates ==
  {"none",
   "new",         \* created and not yet run
   "parked",      \* waits in the semaphore
   "woken",       \* given a slot, and not yet run
   "got",         \* ended with the slot
   \* cancelled, and not yet run:
   "newCut", "parkedCut", "wokenCut",
   "gone"}        \* ended without the slot

SInit ==
  /\ call = [r \in Requests |-> [phase |-> "idle", cancelled |-> FALSE]]
  /\ task = [r \in Requests |-> "none"]
  /\ sem = [value |-> Cap, waiters |-> <<>>]
  /\ metrics = [inFlight |-> 0, queueDepth |-> 0]

-----------------------------------------------------------------------------
\* asyncio.Semaphore.
InTask(states) == {r \in Requests : task[r] \in states}

Locked == sem.value = 0 \/ \E i \in DOMAIN sem.waiters : task[sem.waiters[i]] # "parkedCut"

\* The semaphore with value free slots and these waiters, of whom up to n that
\* wait for a slot are given one, in their order.
WakeUp(value, waiters, n, tasks) ==
  LET asking  == {i \in DOMAIN waiters : tasks[waiters[i]] = "parked"}
      rank(i) == Cardinality({j \in asking : j <= i})
      lucky   == {waiters[i] : i \in {j \in asking : rank(j) <= n /\ rank(j) <= value}}
  IN
  /\ sem' = [value |-> value - Cardinality(lucky), waiters |-> waiters]
  /\ task' = [r \in Requests |-> IF r \in lucky THEN "woken" ELSE tasks[r]]

Release == WakeUp(sem.value + 1, sem.waiters, 1, task)

\* The first step of a task: take a free slot, or wait.
Start(r) ==
  /\ task[r] = "new"
  /\ \/ /\ ~Locked
        /\ sem' = [sem EXCEPT !.value = @ - 1]
        /\ task' = [task EXCEPT ![r] = "got"]
     \/ /\ Locked
        /\ sem' = [sem EXCEPT !.waiters = Append(@, r)]
        /\ task' = [task EXCEPT ![r] = "parked"]
  /\ UNCHANGED <<call, metrics>>

\* The last step of a task that waited, or that was cancelled: it leaves the
\* waiters, a slot it was given in vain becomes free, and free slots go to
\* those who wait.
Leave(r) ==
  /\ task[r] \in {"woken", "newCut", "parkedCut", "wokenCut"}
  /\ LET value == IF task[r] = "wokenCut" THEN sem.value + 1 ELSE sem.value
         tasks == [task EXCEPT ![r] = IF @ = "woken" THEN "got" ELSE "gone"]
     IN \/ /\ task[r] = "newCut"
           /\ task' = tasks
           /\ UNCHANGED sem
        \/ /\ task[r] # "newCut"
           /\ \E i \in DOMAIN sem.waiters :
                sem.waiters[i] = r /\ WakeUp(value, RemoveAt(sem.waiters, i), value, tasks)
  /\ UNCHANGED <<call, metrics>>

\* Task.cancel: a waiter's future is cancelled, unless it has its result.
Cut(state) ==
  CASE state = "new"    -> "newCut"
    [] state = "parked" -> "parkedCut"
    [] state = "woken"  -> "wokenCut"

-----------------------------------------------------------------------------
\* The handler.
Arrive(r) ==
  /\ call[r].phase = "idle"
  /\ call' = [call EXCEPT ![r].phase = "waiting"]
  /\ task' = [task EXCEPT ![r] = "new"]
  /\ metrics' = [metrics EXCEPT !.queueDepth = @ + 1]
  /\ UNCHANGED sem

\* The cancel endpoints, for one request or for many.
Cancel(S) ==
  /\ S # {}
  /\ \A r \in S : call[r].phase = "waiting" /\ ~call[r].cancelled
  /\ call' = [r \in Requests |-> IF r \in S THEN [call[r] EXCEPT !.cancelled = TRUE] ELSE call[r]]
  /\ UNCHANGED <<task, sem, metrics>>

DequeuedWithSlot(r) ==   \* mutant: a cancelled request stays in the depth
  IF call[r].cancelled THEN metrics ELSE [metrics EXCEPT !.queueDepth = @ - 1]
Dequeued(r) == [metrics EXCEPT !.queueDepth = @ - 1]

CancelUnseen(r) == FALSE                            \* mutant: the second look is left out
CancelSeen(r) == call[r].cancelled

KeptSlot(r) == UNCHANGED <<sem, task>>              \* mutant: the slot is not given back
GivesBack(r) == Release

\* asyncio.wait returns: the slot is there, or the cancellation, or both.
Resume(r) ==
  /\ call[r].phase = "waiting"
  /\ task[r] = "got" \/ call[r].cancelled
  /\ \/ /\ task[r] # "got"                          \* cancel won: withdraw the task
        /\ task' = [task EXCEPT ![r] = Cut(@)]
        /\ call' = [call EXCEPT ![r].phase = "withdrawing"]
        /\ metrics' = Dequeued(r)
        /\ UNCHANGED sem
     \/ /\ task[r] = "got" /\ CancelSeen(r)         \* both: give the slot back
        /\ GivesBack(r)
        /\ call' = [call EXCEPT ![r].phase = "done"]
        /\ metrics' = Dequeued(r)
     \/ /\ task[r] = "got" /\ ~CancelSeen(r)
        /\ call' = [call EXCEPT ![r].phase = "running"]
        /\ metrics' = [Dequeued(r) EXCEPT !.inFlight = @ + 1]
        /\ UNCHANGED <<sem, task>>

ReleasedAnyway(r) == Release     \* mutant: a slot is given back that was never taken
TaskAwaited(r) == IF task[r] = "got" THEN Release ELSE UNCHANGED <<sem, task>>

\* The withdrawn task has ended; a slot acquired after all is given back.
Withdraw(r) ==
  /\ call[r].phase = "withdrawing" /\ task[r] \in {"got", "gone"}
  /\ TaskAwaited(r)
  /\ call' = [call EXCEPT ![r].phase = "done"]
  /\ UNCHANGED metrics

NeverReleased(r) == UNCHANGED <<sem, task>>   \* mutant: the attempt keeps its slot
Released(r) == Release

\* The attempt is over, one way or another.
End(r) ==
  /\ call[r].phase = "running"
  /\ Released(r)
  /\ call' = [call EXCEPT ![r].phase = "done"]
  /\ metrics' = [metrics EXCEPT !.inFlight = @ - 1]

\* The identity of an answered request is used again.
Reuse(r) ==
  /\ call[r].phase = "done"
  /\ call' = [call EXCEPT ![r] = [phase |-> "idle", cancelled |-> FALSE]]
  /\ task' = [task EXCEPT ![r] = "none"]
  /\ UNCHANGED <<sem, metrics>>

Turn(r) == Start(r) \/ Leave(r) \/ Resume(r) \/ Withdraw(r)

SNext ==
  \/ \E r \in Requests : Arrive(r) \/ Turn(r) \/ End(r) \/ Reuse(r)
  \/ \E S \in SUBSET Requests : Cancel(S)

SSpec == SInit /\ [][SNext]_svars

\* The event loop gives every task its turn, and attempts end.
FairSSpec == SSpec /\ \A r \in Requests : WF_svars(Turn(r)) /\ WF_svars(End(r))

-----------------------------------------------------------------------------
InPhase(phases) == {r \in Requests : call[r].phase \in phases}
Unanswered == InPhase({"waiting", "withdrawing", "running"})

\* The state of the path has its type, and the counters shown to operators are
\* the requests that queue and that run.
STypeOK ==
  /\ call \in [Requests -> Call]
  /\ task \in [Requests -> TaskStates]
  /\ sem.value \in Nat /\ sem.waiters \in Seq(Requests)
  /\ metrics = [inFlight   |-> Cardinality(InPhase({"running"})),
                queueDepth |-> Cardinality(InPhase({"waiting"}))]

\* Slots are neither leaked nor given back twice: each is free, on its way to a
\* waiter, or in the hands of a request that was not yet answered.
SlotsExact ==
  Cap = sem.value + Cardinality(InTask({"woken", "wokenCut"}))
                  + Cardinality(InTask({"got"}) \cap Unanswered)

\* A cancelled request is never sent.
CancelHonoured == [][\A r \in Requests : call[r].cancelled => call'[r].phase # "running"]_svars

\* Every request is answered, whatever others are cancelled around it.
EveryoneAnswered ==
  \A r \in Requests : call[r].phase = "waiting" ~> call[r].phase = "done"

HasSlot == InTask({"got"}) \cap Unanswered
Slots == INSTANCE PoolAdmission WITH
           Models <- {Model}, Pools <- {Model}, PoolOf <- [m \in {Model} |-> Model],
           Cap <- [m \in {Model} |-> Cap], Budget <- [p \in {Model} |-> 0], Exclusive <- {},
           asking  <- Unanswered \ HasSlot,
           running <- HasSlot,
           job     <- [r \in Requests |-> IF r \in Unanswered THEN [model |-> Model, cost |-> 0]
                                          ELSE NoJob]

\* With the scheduler switched off, the path still admits as PoolAdmission
\* allows: no more requests at once than the cap of the model.
ImplementsPoolAdmission == Slots!ASpec
=============================================================================
