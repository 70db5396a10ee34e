------------------------------ MODULE Breaker ------------------------------
(***************************************************************************)
(* The per-model circuit breaker (overlaat/breaker.py).                    *)
(*                                                                         *)
(* The proxy consults it before a request is admitted (allow) and feeds it *)
(* the outcome of every attempt that reached the upstream (record).  Both  *)
(* are synchronous.  This module has the state and those two operations;   *)
(* the modules that extend it say who calls them when.                     *)
(*                                                                         *)
(* The code keeps the times opened_at and probe_started and compares them  *)
(* with the clock; here their ages are kept, counted up to the cooldown,   *)
(* beyond which no comparison of the code tells two ages apart.            *)
(***************************************************************************)
EXTENDS Integers

CONSTANTS
  Models,
  Gated,       \* the models with a well-formed overlaat_breaker
  Fails,       \* consecutive failures that trip the breaker
  Cooldown     \* ticks that it stays open, and after which a probe is stale

ASSUME BreakerAssumption ==
  /\ Gated \subseteq Models
  /\ Fails \in Nat \ {0}
  /\ Cooldown \in Nat \ {0}

VARIABLE brk   \* Breaker._states

ModelState == [state : {"closed", "open", "half_open"}, consecutiveFails : 0 .. Fails,
               openAge : 0 .. Cooldown, probeInFlight : BOOLEAN, probeAge : 0 .. Cooldown]

BreakerInit ==
  brk = [m \in Models |-> [state |-> "closed", consecutiveFails |-> 0, openAge |-> 0,
                           probeInFlight |-> FALSE, probeAge |-> 0]]

-----------------------------------------------------------------------------
\* A probe runs and is not stale.
ProbeNeverStale(m) == brk[m].probeInFlight   \* mutant: a lost probe is waited for
ProbeFresh(m) == brk[m].probeInFlight /\ brk[m].probeAge < Cooldown

CooldownNotAwaited(m) == TRUE   \* mutant
CooledDown(m) == brk[m].openAge >= Cooldown

\* allow arms a probe: the breaker is half open after the call.
ArmsProbe(m) ==
  /\ m \in Gated
  /\ \/ brk[m].state = "open" /\ CooledDown(m)
     \/ brk[m].state = "half_open" /\ ~ProbeFresh(m)

Allowed(m) == m \notin Gated \/ brk[m].state = "closed" \/ ArmsProbe(m)

Arm(s) == [s EXCEPT !.state = "half_open", !.probeInFlight = TRUE, !.probeAge = 0]

\* allow, when it lets the caller through.
Allow(m) ==
  /\ Allowed(m)
  /\ brk' = IF ArmsProbe(m) THEN [brk EXCEPT ![m] = Arm(@)] ELSE brk

-----------------------------------------------------------------------------
Open(s) == [s EXCEPT !.state = "open", !.openAge = 0]

Counted(outcome) == outcome \in {"completed", "upstream_error"}

\* Half open: whatever outcome comes is taken for the probe's.
CloseUnreset(s) == [s EXCEPT !.state = "closed", !.probeInFlight = FALSE]   \* mutant: old failures count on
CloseProbeKept(s) == [s EXCEPT !.state = "closed", !.consecutiveFails = 0]     \* mutant: the probe is still running
Close(s) == [s EXCEPT !.state = "closed", !.probeInFlight = FALSE, !.consecutiveFails = 0]

RecordHalfOpen(m, outcome) ==
  /\ brk[m].state = "half_open"
  /\ brk' = [brk EXCEPT ![m] = IF outcome = "completed" THEN Close(@)
                               ELSE Open([@ EXCEPT !.probeInFlight = FALSE])]

RecordClosed(m, outcome) ==
  LET fails == brk[m].consecutiveFails + 1 IN
  /\ brk[m].state = "closed"
  /\ brk' = [brk EXCEPT ![m] =
               IF outcome = "completed" THEN [@ EXCEPT !.consecutiveFails = 0]
               ELSE IF fails < Fails THEN [@ EXCEPT !.consecutiveFails = fails]
               ELSE Open([@ EXCEPT !.consecutiveFails = fails])]

\* record: a neutral outcome, a model without a breaker, and a late outcome
\* while the breaker is open leave it alone.
Record(m, outcome) ==
  \/ /\ m \in Gated
     /\ Counted(outcome)
     /\ RecordHalfOpen(m, outcome) \/ RecordClosed(m, outcome)
  \/ /\ m \notin Gated \/ ~Counted(outcome) \/ brk[m].state = "open"
     /\ UNCHANGED brk

\* A tick of the clock.
Older(age) == IF age < Cooldown THEN age + 1 ELSE age
Elapse ==
  brk' = [m \in Models |-> [brk[m] EXCEPT !.openAge = Older(@), !.probeAge = Older(@)]]
=============================================================================
