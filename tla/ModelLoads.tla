------------------------------ MODULE ModelLoads ------------------------------
(***************************************************************************)
(* The cold-load tracker of the host logger (overlaat/host_logger.py:      *)
(* poll_slot_server, track_model_loads, write_model_load): it polls a      *)
(* server that swaps models in and out, and writes one row for each load   *)
(* that it saw begin and saw ready.                                        *)
(*                                                                         *)
(* A time is abstracted to where it lies among the loads of the model: in  *)
(* a load, or after it and before the next.  A poll takes its time, asks,  *)
(* and is answered; the server moves before and after the answer, also     *)
(* through several states.                                                 *)
(***************************************************************************)
EXTENDS Naturals, Sequences, FiniteSets

CONSTANTS
  Models,
  MaxLoads     \* bound: loads of a model in a behaviour

ASSUME LoadsAssumption == MaxLoads \in Nat

VARIABLES
  server,      \* what the swap server runs (external)
  asked,       \* now_epoch of the poll that waits for its answer, for each model
  entries,     \* _load_state: the models the logger knows, with state and t_start
  table,       \* the rows of model_loads, a sequence for each model
  lost,        \* history: the loads whose row could not be written
  seen,        \* history: the latest loads this logger saw starting and ready
  gone         \* history: the latest load that an answer with others running showed to be over

mvars == <<server, asked, entries, table, lost, seen, gone>>

\* Times: 0 is none, and the times in load n are before those after it.
InLoad(n) == 2 * n
TimeOf(m) == InLoad(server[m].load) + (IF server[m].state = "absent" THEN 1 ELSE 0)
NoPoll == [m \in Models |-> 0]

NotKnown == [known |-> FALSE, state |-> "absent", tStart |-> 0]
Unseen == [starting |-> 0, ready |-> 0]

MInit ==
  /\ server  = [m \in Models |-> [state |-> "absent", load |-> 0]]
  /\ asked   = NoPoll
  /\ entries = [m \in Models |-> NotKnown]
  /\ table   = [m \in Models |-> <<>>]
  /\ lost    = [m \in Models |-> {}]
  /\ seen    = [m \in Models |-> Unseen]
  /\ gone    = [m \in Models |-> 0]

-----------------------------------------------------------------------------
\* The server: a load begins, ends, and a model is evicted, also while it loads.
Moves(m, from, to, load) ==
  /\ server[m].state \in from
  /\ server' = [server EXCEPT ![m] = [state |-> to, load |-> load]]
  /\ UNCHANGED <<asked, entries, table, lost, seen, gone>>

BeginLoad(m) == server[m].load < MaxLoads /\ Moves(m, {"absent"}, "starting", server[m].load + 1)
LoadEnds(m)  == Moves(m, {"starting"}, "ready", server[m].load)
Evict(m)     == Moves(m, {"starting", "ready"}, "absent", server[m].load)

-----------------------------------------------------------------------------
\* What an answer says of a model, and what it does to the entry.
Running == {m \in Models : server[m].state # "absent"}

FirstSight(m) ==
  [known |-> TRUE, state |-> server[m].state,
   tStart |-> IF server[m].state = "ready" THEN 0 ELSE asked[m]]

\* A load that was armed is over.
Complete(m) ==
  /\ entries[m].known /\ entries[m].tStart # 0
  /\ server[m].state = "ready" /\ entries[m].state # "ready"

NextSightRepeats(m) ==    \* mutant: an entry stays as it is when its load is done
  IF Complete(m) THEN entries[m]
  ELSE [state |-> server[m].state, known |-> TRUE,
        tStart |-> IF entries[m].state = "ready" /\ server[m].state # "ready"
                   THEN asked[m] ELSE entries[m].tStart]
NextSightArmed(m) ==      \* mutant: t_start is not reset when the load is done
  [entries[m] EXCEPT !.state = server[m].state,
     !.tStart = IF @ = 0 /\ server[m].state # "ready" THEN asked[m] ELSE @]
NextSight(m) ==
  [entries[m] EXCEPT !.state = server[m].state,
     !.tStart = IF @ = 0 /\ server[m].state # "ready" /\ entries[m].state # server[m].state
                THEN asked[m]
                ELSE IF Complete(m) THEN 0 ELSE @]

Kept(m) == entries[m]  \* mutant: evicted models are kept
Dropped(m) == NotKnown

\* A poll takes the time and asks the server.  The one before may have failed or
\* found nothing running, which is the same to the logger: it does nothing.
Ask ==
  /\ asked' = [m \in Models |-> TimeOf(m)]
  /\ UNCHANGED <<server, entries, table, lost, seen, gone>>

\* The poll is answered and finds something running; of the rows to write some
\* fail, and of those that fail some are in the table all the same.
Poll(failing, landing) ==
  LET done == {m \in Running : Complete(m)}
      row(m) == [from |-> entries[m].tStart, to |-> asked[m], load |-> server[m].load, gone |-> gone[m]]
  IN
  /\ asked # NoPoll /\ Running # {}
  /\ failing \subseteq done /\ landing \subseteq failing
  /\ entries' = [m \in Models |-> IF m \notin Running THEN Dropped(m)
                                  ELSE IF entries[m].known THEN NextSight(m) ELSE FirstSight(m)]
  /\ table' = [m \in Models |-> IF m \in done \ (failing \ landing)
                                THEN Append(table[m], row(m)) ELSE table[m]]
  /\ lost' = [m \in Models |-> IF m \in failing THEN lost[m] \cup {server[m].load} ELSE lost[m]]
  /\ seen' = [m \in Models |-> CASE server[m].state = "starting" -> [seen[m] EXCEPT !.starting = server[m].load]
                                 [] server[m].state = "ready" -> [seen[m] EXCEPT !.ready = server[m].load]
                                 [] OTHER -> seen[m]]
  /\ gone' = [m \in Models |-> IF m \in Running THEN gone[m]
                               ELSE server[m].load]
  /\ asked' = NoPoll
  /\ UNCHANGED server

\* The logger is started again, with an empty memory.
Restart ==
  /\ asked' = NoPoll
  /\ entries' = [m \in Models |-> NotKnown]
  /\ seen' = [m \in Models |-> Unseen]
  /\ UNCHANGED <<server, table, lost, gone>>

MNext ==
  \/ \E m \in Models : BeginLoad(m) \/ LoadEnds(m) \/ Evict(m)
  \/ \E failing \in SUBSET Models : \E landing \in SUBSET failing : Poll(failing, landing)
  \/ Ask \/ Restart

MSpec == MInit /\ [][MNext]_mvars

-----------------------------------------------------------------------------
\* from and to are the row's t_start and t_ready; load, the one that the answer
\* showed to be ready, and gone are history.
Row == [from : Nat \ {0}, to : Nat \ {0}, load : Nat \ {0}, gone : Nat]

\* The tracker has its type, and a model is armed exactly while it was last seen
\* starting.
MTypeOK ==
  /\ server \in [Models -> [state : {"absent", "starting", "ready"}, load : Nat]]
  /\ asked \in [Models -> Nat]
  /\ entries \in [Models -> [known : BOOLEAN, state : {"absent", "starting", "ready"}, tStart : Nat]]
  /\ \A m \in Models : entries[m].tStart # 0 <=> entries[m].state = "starting"
  /\ table \in [Models -> Seq(Row)]

OneRowPerLoad ==
  \A m \in Models : \A i, j \in DOMAIN table[m] :
    i < j => table[m][i].load < table[m][j].load

SeenLoadsRecorded ==
  \A m \in Models :
    LET n == seen[m].ready IN
    n # 0 /\ n = seen[m].starting
    => n \in lost[m] \/ \E i \in DOMAIN table[m] : table[m][i].load = n

\* load_s is never negative.
RowsRunForward ==
  \A m \in Models : \A i \in DOMAIN table[m] : table[m][i].from <= table[m][i].to

\* A load has at most one row, whatever is evicted, lost or restarted meanwhile,
\* the rows of a model are in the order of its loads, and a load that this logger
\* saw starting and saw ready has its row, unless the write failed.  A row begins
\* before it ends.
RowsMatchLoads == OneRowPerLoad /\ SeenLoadsRecorded /\ RowsRunForward

\* A row does not begin in a load that an answer showed to be over, when that
\* answer showed another model running, though the time of a poll is older than
\* its answer.
ReArmsWhenOthersRun ==
  \A m \in Models : \A i \in DOMAIN table[m] :
    table[m][i].from > InLoad(table[m][i].gone)
=============================================================================
