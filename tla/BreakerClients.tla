-------------------------- MODULE BreakerClients --------------------------
(***************************************************************************)
(* The breaker and the requests that consult it.                           *)
(*                                                                         *)
(* Between allow and record a request queues and is forwarded: for as long *)
(* as it likes, beside any number of others.  Its outcome is recorded when *)
(* it ends, or never: a request that is cancelled while it queues, and one *)
(* that allow let through and a later check refuses, never feed it.        *)
(***************************************************************************)
EXTENDS Breaker

CONSTANTS Requests, NoModel

ASSUME NoModelAssumption == NoModel \notin Models

VARIABLES
  client,   \* what each request is doing
  streak,   \* history: failures in a row recorded for a model while it was closed
  healed    \* the upstream has stopped failing, for good

cvars == <<brk, client, streak, healed>>

Client == [model : Models \cup {NoModel}, probe : BOOLEAN, age : 0 .. Cooldown]
Gone   == [model |-> NoModel, probe |-> FALSE, age |-> 0]

Live == {r \in Requests : client[r].model # NoModel}

CInit ==
  /\ BreakerInit
  /\ client = [r \in Requests |-> Gone]
  /\ streak = [m \in Models |-> 0]
  /\ healed = FALSE

\* A request is let through, as the probe if it is the one that armed it.
Enter(r, m) ==
  /\ client[r] = Gone
  /\ Allow(m)
  /\ client' = [client EXCEPT ![r] = [model |-> m, probe |-> ArmsProbe(m), age |-> 0]]
  /\ UNCHANGED <<streak, healed>>

\* A failure is recorded that the closed breaker stands.
StreakGrows(m, outcome) ==
  /\ m \in Gated /\ outcome = "upstream_error"
  /\ brk[m].state = "closed" /\ brk'[m].state = "closed"

\* An attempt ends and its outcome is recorded.
Finish(r, outcome) ==
  LET m == client[r].model IN
  /\ r \in Live
  /\ healed => outcome # "upstream_error"
  /\ Record(m, outcome)
  /\ client' = [client EXCEPT ![r] = Gone]
  /\ streak' = IF outcome = "client_abandoned" THEN streak
               ELSE [streak EXCEPT ![m] = IF StreakGrows(m, outcome) THEN @ + 1 ELSE 0]
  /\ UNCHANGED healed

\* A request ends and no outcome is recorded.
Vanish(r) ==
  /\ r \in Live
  /\ client' = [client EXCEPT ![r] = Gone]
  /\ UNCHANGED <<brk, streak, healed>>

\* The upstream recovers.
Heal ==
  /\ ~healed
  /\ healed' = TRUE
  /\ UNCHANGED <<brk, client, streak>>

\* Time passes for the breaker and for the requests.
Pass ==
  /\ Elapse
  /\ client' = [r \in Requests |-> [client[r] EXCEPT !.age = IF r \in Live THEN Older(@) ELSE @]]
  /\ UNCHANGED <<streak, healed>>

Outcomes == {"completed", "upstream_error", "client_abandoned"}

CNext ==
  \/ \E r \in Requests : \/ \E m \in Models : Enter(r, m)
                         \/ \E outcome \in Outcomes : Finish(r, outcome)
                         \/ Vanish(r)
  \/ Heal
  \/ Pass

CSpec == CInit /\ [][CNext]_cvars

\* Time passes, attempts end, requests keep coming, and not every probe for
\* ever is cancelled or abandoned before it completes.
Probing(m) == \E r \in Live : client[r].model = m /\ client[r].probe
FairCSpec ==
  /\ CSpec
  /\ WF_cvars(Pass)
  /\ \A r \in Requests : WF_cvars(Finish(r, "completed") \/ Vanish(r))
  /\ \A m \in Gated : SF_cvars(\E r \in Requests : Enter(r, m))
  /\ \A m \in Gated : SF_cvars(\E r \in Requests : /\ client[r].probe /\ client[r].model = m
                                                   /\ Finish(r, "completed"))

-----------------------------------------------------------------------------
\* The state of the breaker and its clients has its type; half open means that
\* a probe was sent and not answered.
CTypeOK ==
  /\ brk \in [Models -> ModelState]
  /\ \A m \in Models : brk[m].state = "half_open" <=> brk[m].probeInFlight
  /\ client \in [Requests -> Client]
  /\ streak \in [Models -> 0 .. Fails]
  /\ healed \in BOOLEAN

\* However probes are lost, late or doubled by a stale one, no two requests that
\* were let through as probes of one model are younger than the cooldown: a
\* choking upstream sees one new request per cooldown at most.
ProbesApart ==
  \A r, s \in Live :
    /\ client[r].model = client[s].model
    /\ client[r].probe /\ client[s].probe
    /\ client[r].age < Cooldown /\ client[s].age < Cooldown
    => r = s

\* The breaker trips on consecutive failures only: when a closed breaker opens,
\* Fails failures in a row were recorded since it closed, none of them older.
TripsOnStreak ==
  [][\A m \in Models :
       brk[m].state = "closed" /\ brk'[m].state = "open" => streak[m] + 1 >= Fails]_cvars

\* A breaker never stays open on a healthy upstream, even if probes get lost
\* (the self-heal of a stale probe).
Recovers == \A m \in Gated : healed /\ brk[m].state # "closed" ~> brk[m].state = "closed"

\* "the probe's outcome closes it (success) or re-opens it" and "This is the
\* single probe's result" (breaker.py): the half-open state is left only on the
\* outcome of a probe.
ProbeDecides ==
  [][\A m \in Models :
       brk[m].state = "half_open" /\ brk'[m].state # "half_open"
       => \E r \in Live : client[r].probe /\ client[r].model = m /\ client'[r] = Gone]_cvars
=============================================================================
