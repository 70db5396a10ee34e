----------------------------- MODULE EventWriter -----------------------------
(***************************************************************************)
(* The lifecycle events of the proxy on their way to the metrics database  *)
(* (overlaat/queue_proxy.py: emit_event, _event_writer,                    *)
(* _event_writer_sqlite and the shutdown half of lifespan): a bounded      *)
(* queue that never blocks the request path, a background task that takes  *)
(* batches from it, and a stop by sentinel with a timeout.                 *)
(*                                                                         *)
(* A row is the number of its emission.  The writer is one task: between   *)
(* two awaits (the queue, the connection, the insert) it runs alone, so    *)
(* each action below is what happens from one await to the next.           *)
(***************************************************************************)
EXTENDS Naturals, Sequences, FiniteSets

CONSTANTS
  QueueMax,    \* EVENT_QUEUE_MAX
  BatchMax,    \* EVENT_BATCH
  MaxRows      \* bound: rows emitted in a behaviour

ASSUME WriterAssumption ==
  /\ QueueMax \in Nat \ {0}
  /\ BatchMax \in Nat \ {0}
  /\ MaxRows \in Nat

VARIABLES
  backend,   \* db.dialect_for(METRICS_DB_URL)
  queue,     \* EVENT_Q
  stats,     \* EVENT_STATS
  writer,    \* the writer task
  conn,      \* its connection
  table,     \* the rows stored, in the order of their insertion
  app,       \* the lifespan of the application
  mark       \* history: how many rows were emitted before the sentinel was queued

wvars == <<backend, queue, stats, writer, conn, table, app, mark>>

Sentinel == 0
Rows == Nat \ {0}

WInit ==
  /\ backend \in {"postgres", "sqlite"}
  /\ queue = <<>>
  /\ stats = [emitted |-> 0, written |-> 0, dropped |-> 0]
  /\ writer = [phase |-> "idle", batch |-> <<>>, stop |-> FALSE]
  /\ conn = "none"
  /\ table = <<>>
  /\ app = "running"
  /\ mark = 0

-----------------------------------------------------------------------------
\* emit_event: also while the application stops and after, by generators that
\* still drain an upstream.
EmittedOverLimit(row) ==   \* mutant: the limit is looked at too late
  IF Len(queue) <= QueueMax
  THEN queue' = Append(queue, row) /\ stats' = [stats EXCEPT !.emitted = row]
  ELSE UNCHANGED queue /\ stats' = [stats EXCEPT !.emitted = row, !.dropped = @ + 1]
Emitted(row) ==
  IF Len(queue) < QueueMax
  THEN queue' = Append(queue, row) /\ stats' = [stats EXCEPT !.emitted = row]
  ELSE UNCHANGED queue /\ stats' = [stats EXCEPT !.emitted = row, !.dropped = @ + 1]

Emit ==
  /\ stats.emitted < MaxRows
  /\ Emitted(stats.emitted + 1)
  /\ UNCHANGED <<backend, writer, conn, table, app, mark>>

-----------------------------------------------------------------------------
\* The writer takes what is there, up to a batch or the sentinel, and goes on
\* to its database, or stops at a sentinel that comes first.
Ready == Cardinality({n \in 1..BatchMax : n <= Len(queue) /\ \A i \in 1..n : queue[i] # Sentinel})

DiscardsAtStop(n, stop) ==   \* mutant: the writer stops before the insert
  IF stop THEN "stopped" ELSE IF conn = "open" THEN "writing" ELSE "connecting"
AfterTake(n, stop) == IF n = 0 THEN "stopped" ELSE IF conn = "open" THEN "writing" ELSE "connecting"

Take ==
  LET n    == Ready
      stop == n < BatchMax /\ n < Len(queue)    \* the next is the sentinel
  IN
  /\ writer.phase = "idle" /\ queue # <<>>
  /\ queue' = SubSeq(queue, n + (IF stop THEN 2 ELSE 1), Len(queue))
  /\ writer' = [phase |-> AfterTake(n, stop), batch |-> SubSeq(queue, 1, n), stop |-> stop]
  /\ conn' = IF n = 0 THEN "none" ELSE conn
  /\ UNCHANGED <<backend, stats, table, app, mark>>

Connects ==
  /\ writer.phase = "connecting"
  /\ conn' = "open"
  /\ writer' = [writer EXCEPT !.phase = "writing"]
  /\ UNCHANGED <<backend, queue, stats, table, app, mark>>

\* A batch is done with; with a sentinel behind it the writer closes and stops.
BatchDone ==
  writer' = [phase |-> IF writer.stop THEN "stopped" ELSE "idle", batch |-> <<>>, stop |-> writer.stop]

Inserts ==
  /\ writer.phase = "writing"
  /\ table' = table \o writer.batch
  /\ stats' = [stats EXCEPT !.written = @ + Len(writer.batch)]
  /\ conn' = IF writer.stop THEN "none" ELSE conn
  /\ BatchDone
  /\ UNCHANGED <<backend, queue, app, mark>>

\* How many rows of a batch stay in the table when its insert fails: with
\* autocommit any number of them, with a commit at the end none.
KeptAutocommit ==   \* mutant: SQLite without its transaction
  IF writer.phase = "writing" THEN 0..Len(writer.batch) ELSE {0}
Kept == IF writer.phase = "writing" /\ backend = "postgres" THEN 0..Len(writer.batch) ELSE {0}

DroppedBatch == stats.dropped + Len(writer.batch)

RetriedBatch == writer' = [writer EXCEPT !.phase = "connecting"]   \* mutant: a failed batch is tried again
GivenUp == BatchDone

\* The connection or the insert fails: the batch is dropped and the connection
\* closed, and the next batch makes a new one.
Fails(kept) ==
  /\ writer.phase \in {"connecting", "writing"}
  /\ table' = table \o SubSeq(writer.batch, 1, kept)
  /\ stats' = [stats EXCEPT !.dropped = DroppedBatch]
  /\ conn' = "none"
  /\ GivenUp
  /\ UNCHANGED <<backend, queue, app, mark>>

\* The server ends a Postgres session; the writer looks before it writes.
Disconnects ==
  /\ backend = "postgres" /\ conn = "open" /\ writer.phase = "idle"
  /\ conn' = "closed"
  /\ UNCHANGED <<backend, queue, stats, writer, table, app, mark>>

-----------------------------------------------------------------------------
\* The shutdown: the sentinel is put, for which there must be room, and the
\* writer is awaited, but not longer than the timeout.
Stop ==
  /\ app = "running"
  /\ app' = "stopping"
  /\ UNCHANGED <<backend, queue, stats, writer, conn, table, mark>>

PutSentinel ==
  /\ app = "stopping" /\ Len(queue) < QueueMax
  /\ queue' = Append(queue, Sentinel)
  /\ mark' = stats.emitted
  /\ app' = "awaiting"
  /\ UNCHANGED <<backend, stats, writer, conn, table>>

WriterEnded ==
  /\ app = "awaiting" /\ writer.phase = "stopped"
  /\ app' = "down"
  /\ UNCHANGED <<backend, queue, stats, writer, conn, table, mark>>

NeverTimesOut == FALSE   \* mutant: the writer is awaited without a timeout
TimesOut == app = "awaiting" /\ writer.phase # "stopped"

\* wait_for cancels the writer, at whichever await it is: no handler counts the
\* batch that it has in hand.
Timeout ==
  /\ TimesOut
  /\ writer' = [writer EXCEPT !.phase = IF @ = "writing" THEN "cut" ELSE "cancelled"]
  /\ app' = "down"
  /\ UNCHANGED <<backend, queue, stats, conn, table, mark>>

\* An insert that was cut off may still take effect: the server or the worker
\* thread goes on.
Lands(kept) ==
  /\ writer.phase = "cut"
  /\ table' = table \o SubSeq(writer.batch, 1, kept)
  /\ writer' = [writer EXCEPT !.phase = "cancelled"]
  /\ UNCHANGED <<backend, queue, stats, conn, app, mark>>

KeptWhenCut == IF backend = "postgres" THEN 0..Len(writer.batch) ELSE {0, Len(writer.batch)}

WNext ==
  \/ Emit
  \/ Take \/ Connects \/ Inserts \/ \E kept \in Kept : Fails(kept)
  \/ Disconnects
  \/ Stop \/ PutSentinel \/ WriterEnded \/ Timeout
  \/ \E kept \in KeptWhenCut : Lands(kept)

WSpec == WInit /\ [][WNext]_wvars

\* The tasks of the event loop run on and timers fire; nothing is assumed of the
\* database, which may never answer.
FairWSpec ==
  /\ WSpec
  /\ WF_wvars(Take) /\ WF_wvars(PutSentinel) /\ WF_wvars(WriterEnded) /\ WF_wvars(Timeout)

-----------------------------------------------------------------------------
QueuedRows == {i \in DOMAIN queue : queue[i] # Sentinel}

\* The state of the writer has its type: the queue keeps its limit, a sentinel
\* included, and a batch its size.
WTypeOK ==
  /\ queue \in Seq(Rows \cup {Sentinel}) /\ Len(queue) <= QueueMax
  /\ stats \in [emitted : Nat, written : Nat, dropped : Nat]
  /\ writer \in [phase : {"idle", "connecting", "writing", "stopped", "cut", "cancelled"},
                 batch : Seq(Rows), stop : BOOLEAN]
  /\ Len(writer.batch) <= BatchMax
  /\ conn \in {"none", "open", "closed"}
  /\ table \in Seq(Rows)
  /\ app \in {"running", "stopping", "awaiting", "down"}

RowsConserved ==
  stats.emitted = stats.written + stats.dropped + Cardinality(QueuedRows) + Len(writer.batch)

DrainedAtStop ==
  writer.phase = "stopped" =>
    /\ writer.batch = <<>>
    /\ \A i \in QueuedRows : queue[i] > mark
    /\ conn = "none"

\* No row disappears: what was emitted is written, dropped, queued, or in the
\* writer's hands, where one batch at most stays uncounted when the writer is
\* cancelled; and a writer that stops on its own has drained: no row that was
\* emitted before the sentinel is left in its hands or in the queue.
Account == RowsConserved /\ DrainedAtStop

\* The counters tell what the table holds: exactly so with SQLite, which commits
\* a batch as a whole; with autocommit rows that were counted as dropped may be
\* stored, but none that were counted as written are missing.  A cancelled
\* writer adds at most its batch.
StoredAsCounted ==
  LET lost == IF writer.phase = "cancelled" THEN Len(writer.batch) ELSE 0 IN
  /\ Len(table) >= stats.written
  /\ Len(table) <= stats.written + lost + (IF backend = "sqlite" THEN 0 ELSE stats.dropped)

Log == INSTANCE EventLog WITH emitted <- stats.emitted, stored <- table

\* Rows are stored at most once and in the order of their emission.
ImplementsEventLog == Log!LSpec

\* The sentinel has no room, and the database does not answer.
Stuck ==
  /\ app = "stopping" /\ Len(queue) = QueueMax
  /\ writer.phase \in {"connecting", "writing"}

\* A shutdown ends, whether the database answers or not, unless it does not
\* answer while the queue is full: the put of the sentinel has no timeout.
ShutdownEnds == ([]<>~Stuck) => (app = "stopping" ~> app = "down")
=============================================================================
