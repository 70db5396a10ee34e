------------------------- MODULE EventWriterProofs -------------------------
(***************************************************************************)
(* Proofs about EventWriter, for every size of the queue and of a batch    *)
(* and any number of rows.                                                 *)
(***************************************************************************)
EXTENDS EventWriter, CollectionFacts

-----------------------------------------------------------------------------
(***************************************************************************)
(* The inductive invariant.  WTypeOK, the two parts of Account and         *)
(* StoredAsCounted need what ties the phases to the sentinel (Protocol)    *)
(* and to the order in which rows move on (Order).                         *)
(***************************************************************************)
QueueBeyondMark == \A i \in DOMAIN queue : queue[i] > mark

Protocol ==
  /\ backend \in {"postgres", "sqlite"}
  /\ mark \in Nat /\ mark <= stats.emitted
  \* An idle or stopped writer has no batch, and a stopped one no connection.
  /\ writer.phase \in {"idle", "stopped"} => writer.batch = <<>>
  /\ writer.phase = "idle" => ~writer.stop
  /\ writer.phase = "stopped" => writer.stop /\ conn = "none"
  \* There is no sentinel before the shutdown puts it, and only one ever.
  /\ app \in {"running", "stopping"} =>
       /\ ~writer.stop /\ writer.phase \notin {"cut", "cancelled"}
       /\ \A i \in DOMAIN queue : queue[i] # Sentinel
  \* Behind the sentinel are the rows that were emitted after it.
  /\ writer.stop => QueueBeyondMark
  /\ \A i, j \in DOMAIN queue : queue[i] = Sentinel /\ i < j => queue[j] > mark

\* The rows of table, batch and queue, in this order, are in the order of their
\* emission; once the writer is cancelled only the table's matter.
Order ==
  /\ \A i \in DOMAIN table : table[i] <= stats.emitted
  /\ Log!InOrder(table)
  /\ \A i \in DOMAIN queue : queue[i] <= stats.emitted
  /\ \A i, j \in QueuedRows : i < j => queue[i] < queue[j]
  /\ writer.phase # "cancelled" =>
       /\ \A i \in DOMAIN writer.batch : writer.batch[i] <= stats.emitted
       /\ Log!InOrder(writer.batch)
       /\ \A i \in DOMAIN table, j \in DOMAIN writer.batch : table[i] < writer.batch[j]
       /\ \A i \in DOMAIN writer.batch, j \in QueuedRows : writer.batch[i] < queue[j]
       /\ \A i \in DOMAIN table, j \in QueuedRows : table[i] < queue[j]

WInv == WTypeOK /\ Protocol /\ RowsConserved /\ StoredAsCounted /\ Order

-----------------------------------------------------------------------------
\* The queue and the batch as functions, and a history in order.
LEMMA SequenceFacts ==
  ASSUME WTypeOK
  PROVE  /\ Len(queue) \in Nat /\ DOMAIN queue = 1 .. Len(queue)
         /\ \A i \in DOMAIN queue : queue[i] \in Nat
         /\ \A i \in QueuedRows : queue[i] \in Rows
         /\ Len(writer.batch) \in Nat /\ DOMAIN writer.batch = 1 .. Len(writer.batch)
         /\ \A i \in DOMAIN writer.batch : writer.batch[i] \in Rows
         /\ Len(table) \in Nat /\ DOMAIN table = 1 .. Len(table)
         /\ \A i \in DOMAIN table : table[i] \in Rows
<1>1. \A i \in DOMAIN queue : queue[i] \in Rows \cup {Sentinel}
  BY DEF WTypeOK
<1> QED BY <1>1 DEF WTypeOK, QueuedRows, Rows, Sentinel

\* The rows in the queue are finitely many.
LEMMA QueuedFinite ==
  ASSUME WTypeOK
  PROVE  IsFiniteSet(QueuedRows) /\ Cardinality(QueuedRows) \in Nat
<1>1. QueuedRows \subseteq 1 .. Len(queue)
  BY SequenceFacts DEF QueuedRows
<1>2. IsFiniteSet(1 .. Len(queue))
  BY SequenceFacts, FS_Interval
<1> QED BY <1>1, <1>2, FS_Subset, FS_CardinalityType

\* What Take finds: rows up to a full batch, the end of the queue or the sentinel.
LEMMA ReadyFacts ==
  ASSUME WTypeOK
  PROVE  /\ Ready \in 0 .. BatchMax
         /\ Ready <= Len(queue)
         /\ \A i \in 1 .. Ready : queue[i] # Sentinel
         /\ Ready < BatchMax /\ Ready < Len(queue) => queue[Ready + 1] = Sentinel
<1> DEFINE S == {n \in 1 .. BatchMax : n <= Len(queue) /\ \A i \in 1 .. n : queue[i] # Sentinel}
<1>1. Len(queue) \in Nat /\ BatchMax \in Nat
  BY SequenceFacts, WriterAssumption
<1>2. \A i \in S : 1 .. i \subseteq S
  BY <1>1
<1>3. Ready \in 0 .. BatchMax /\ S = 1 .. Ready
  <2>1. Ready = Cardinality(S)
    BY DEF Ready
  <2> HIDE DEF S
  <2>2. S \in SUBSET (1 .. BatchMax)
    BY DEF S
  <2> QED BY <1>1, <1>2, <2>1, <2>2, InitialSegment
<1>4. CASE Ready = 0
  <2>1. 1 \notin S
    BY <1>3, <1>4
  <2> QED BY <1>1, <1>3, <1>4, <2>1
<1>5. CASE Ready # 0
  <2>1. Ready \in S /\ Ready + 1 \notin S
    BY <1>3, <1>5
  <2> QED BY <1>1, <1>3, <2>1
<1> QED BY <1>4, <1>5

\* The rows that a longer or a shorter queue holds.
LEMMA QueuedAfterAppend ==
  ASSUME WTypeOK, NEW e \in Nat, queue' = Append(queue, e)
  PROVE  /\ QueuedRows' = IF e = Sentinel THEN QueuedRows ELSE QueuedRows \cup {Len(queue) + 1}
         /\ Cardinality(QueuedRows') =
              IF e = Sentinel THEN Cardinality(QueuedRows) ELSE Cardinality(QueuedRows) + 1
<1>1. /\ DOMAIN queue' = 1 .. Len(queue) + 1
      /\ queue'[Len(queue) + 1] = e
      /\ \A i \in 1 .. Len(queue) : queue'[i] = queue[i]
  BY DEF WTypeOK, Rows, Sentinel
<1>2. QueuedRows' = IF e = Sentinel THEN QueuedRows ELSE QueuedRows \cup {Len(queue) + 1}
  BY <1>1, SequenceFacts DEF QueuedRows
<1>3. Len(queue) + 1 \notin QueuedRows
  BY SequenceFacts DEF QueuedRows
<1> QED BY <1>2, <1>3, QueuedFinite, FS_AddElement

LEMMA QueuedAfterTake ==
  ASSUME WTypeOK, NEW n \in Nat, NEW k \in n .. Len(queue),
         \A i \in 1 .. n : queue[i] # Sentinel,
         \A i \in n + 1 .. k : queue[i] = Sentinel,
         queue' = SubSeq(queue, k + 1, Len(queue))
  PROVE  /\ Len(queue') = Len(queue) - k
         /\ DOMAIN queue' = 1 .. Len(queue) - k
         /\ \A i \in DOMAIN queue' : i + k \in DOMAIN queue /\ queue'[i] = queue[i + k]
         /\ \A i \in QueuedRows' : i + k \in QueuedRows
         /\ Cardinality(QueuedRows') = Cardinality(QueuedRows) - n
<1>1. Len(queue) \in Nat /\ k \in 0 .. Len(queue) /\ queue \in Seq(Nat)
  BY SequenceFacts DEF WTypeOK, Rows, Sentinel
<1>2. DOMAIN queue = 1 .. Len(queue)
  BY <1>1
<1>3. /\ Len(queue') = Len(queue) - k
      /\ DOMAIN queue' = 1 .. Len(queue) - k
      /\ \A i \in 1 .. Len(queue) - k : i + k \in 1 .. Len(queue) /\ queue'[i] = queue[i + k]
  BY <1>1
<1> DEFINE B == {i \in k + 1 .. Len(queue) : queue[i] # Sentinel}
<1>4. QueuedRows' = {i \in 1 .. Len(queue) - k : queue'[i] # Sentinel}
  BY <1>3 DEF QueuedRows
<1>5. QueuedRows = 1 .. n \cup B /\ 1 .. n \cap B = {}
  BY <1>1, <1>2 DEF QueuedRows
<1>6. Cardinality(QueuedRows) = n + Cardinality(B)
  <2>1. IsFiniteSet(1 .. n) /\ Cardinality(1 .. n) = n
    BY IntervalSize, Zenon
  <2>2. IsFiniteSet(B)
    BY <1>5, QueuedFinite, FS_Subset
  <2> HIDE DEF B
  <2> QED BY <1>5, <2>1, <2>2, DisjointSizes, Zenon
<1>7. \A i \in QueuedRows' : i + k \in B
  BY <1>1, <1>3, <1>4, SMTT(30)
<1>8. \A i \in B : i - k \in QueuedRows'
  BY <1>1, <1>3, <1>4
<1>9. Cardinality(QueuedRows') = Cardinality(B) /\ Cardinality(B) \in Nat
  <2>1. QueuedRows' \in SUBSET Nat /\ B \in SUBSET Nat
    BY <1>1, <1>4
  <2>2. IsFiniteSet(B) /\ Cardinality(B) \in Nat
    BY <1>5, QueuedFinite, FS_Subset, FS_CardinalityType
  <2> HIDE DEF B
  <2>3. k \in Nat
    BY <1>1
  <2> QED BY <1>7, <1>8, <2>1, <2>2, <2>3, ShiftedPositions, Zenon
<1> HIDE DEF B
<1>10. \A i \in QueuedRows' : i + k \in QueuedRows
  BY <1>5, <1>7
<1>11. \A i \in DOMAIN queue' : i + k \in DOMAIN queue /\ queue'[i] = queue[i + k]
  BY <1>2, <1>3, Zenon
<1>12. Cardinality(QueuedRows') = Cardinality(QueuedRows) - n
  BY <1>6, <1>9
<1> QED BY <1>3, <1>10, <1>11, <1>12, Zenon

-----------------------------------------------------------------------------
(***************************************************************************)
(* The steps, one lemma for each that moves a row or the sentinel.         *)
(***************************************************************************)

\* The counters are numbers.
LEMMA CounterFacts ==
  ASSUME WTypeOK
  PROVE  /\ stats.emitted \in Nat /\ stats.written \in Nat /\ stats.dropped \in Nat
         /\ Len(writer.batch) \in Nat /\ Cardinality(QueuedRows) \in Nat
BY QueuedFinite, SequenceFacts DEF WTypeOK

\* The history stays in order when a later row comes last.
LEMMA RowAddedInOrder ==
  ASSUME WTypeOK, Order, NEW row \in Rows, row > stats.emitted, stats'.emitted = row,
         UNCHANGED <<writer, table>>,
         \A i \in DOMAIN queue' : \/ i \in DOMAIN queue /\ queue'[i] = queue[i]
                                  \/ i = Len(queue) + 1 /\ queue'[i] = row
  PROVE  Order'
<1>1. \A n \in Nat : n <= stats.emitted => n < row
  BY CounterFacts DEF Rows
<1>2. \A i \in QueuedRows' : \/ i \in QueuedRows /\ queue'[i] = queue[i]
                             \/ i = Len(queue) + 1 /\ queue'[i] = row
  BY DEF QueuedRows
<1>3. /\ \A i \in DOMAIN table : table[i] < row
      /\ \A i \in DOMAIN queue : queue[i] < row
      /\ writer.phase # "cancelled" => \A i \in DOMAIN writer.batch : writer.batch[i] < row
  BY <1>1, SequenceFacts DEF Order, Rows
<1>4. \A i \in QueuedRows : i \in 1 .. Len(queue) /\ i < Len(queue) + 1
  BY SequenceFacts DEF QueuedRows
<1>5. \A n \in Nat : n < row => n <= row
  BY DEF Rows
<1>6. \A i \in DOMAIN table : table[i] <= row
  BY <1>3, <1>5, SequenceFacts DEF Rows
<1>7. \A i \in DOMAIN queue' : queue'[i] <= row
  BY <1>3, <1>5, SequenceFacts DEF Rows
<1>8. \A i, j \in QueuedRows' : i < j => queue'[i] < queue'[j]
  <2> SUFFICES ASSUME NEW i \in QueuedRows', NEW j \in QueuedRows', i < j
               PROVE  queue'[i] < queue'[j]
    OBVIOUS
  <2>1. i \in QueuedRows /\ queue'[i] = queue[i] /\ i \in DOMAIN queue
    BY <1>2, <1>4, SequenceFacts DEF QueuedRows
  <2>2. CASE j \in QueuedRows /\ queue'[j] = queue[j]
    BY <2>1, <2>2 DEF Order
  <2>3. CASE queue'[j] = row
    BY <1>3, <2>1, <2>3
  <2> QED BY <1>2, <2>2, <2>3
<1>9. writer.phase # "cancelled" =>
        /\ \A i \in DOMAIN writer.batch : writer.batch[i] <= row
        /\ \A i \in DOMAIN writer.batch, j \in QueuedRows' : writer.batch[i] < queue'[j]
        /\ \A i \in DOMAIN table, j \in QueuedRows' : table[i] < queue'[j]
  BY <1>2, <1>3, <1>5, SequenceFacts DEF Order, Rows
<1> QED BY <1>6, <1>7, <1>8, <1>9 DEF Order, Log!InOrder

\* A row that is emitted is put at the end of the queue or counted as dropped.
LEMMA EmitInv == WInv /\ Emit => WInv'
<1> SUFFICES ASSUME WInv, Emit PROVE WInv'
  OBVIOUS
<1>0. WTypeOK /\ Protocol /\ RowsConserved /\ StoredAsCounted /\ Order
  BY DEF WInv
<1>1. PICK row \in Rows : row = stats.emitted + 1
  BY <1>0 DEF WTypeOK, Rows
<1>2. mark \in Nat /\ row > mark /\ row > stats.emitted
  BY <1>0, <1>1, CounterFacts DEF Protocol
<1>3. UNCHANGED <<backend, writer, conn, table, app, mark>>
  BY DEF Emit
<1> DEFINE inHand == Len(writer.batch)
<1>6. /\ stats.emitted \in Nat /\ stats.written \in Nat /\ stats.dropped \in Nat
      /\ Cardinality(QueuedRows) \in Nat /\ inHand \in Nat
  BY <1>0, CounterFacts
<1>7. stats.emitted = stats.written + stats.dropped + Cardinality(QueuedRows) + inHand
  BY <1>0 DEF RowsConserved
<1>8. inHand' = inHand
  BY <1>3
<1>4. CASE Len(queue) < QueueMax
  <2>1. queue' = Append(queue, row) /\ stats' = [stats EXCEPT !.emitted = row]
    BY <1>1, <1>4 DEF Emit, Emitted
  <2>2. /\ queue' \in Seq(Rows \cup {Sentinel})
        /\ Len(queue') = Len(queue) + 1
        /\ DOMAIN queue' = 1 .. Len(queue) + 1
        /\ queue'[Len(queue) + 1] = row
        /\ \A i \in 1 .. Len(queue) : queue'[i] = queue[i]
    BY <1>0, <1>1, <2>1, AppendFacts DEF WTypeOK
  <2>3. stats' \in [emitted : Nat, written : Nat, dropped : Nat]
        /\ stats'.emitted = row /\ stats'.written = stats.written /\ stats'.dropped = stats.dropped
    BY <1>0, <1>1, <2>1 DEF WTypeOK, Rows
  <2>4. row # Sentinel /\ Len(queue) \in Nat
    BY <1>0, SequenceFacts DEF Rows, Sentinel
  <2>5. \A i \in DOMAIN queue' : (i \in DOMAIN queue /\ queue'[i] = queue[i])
                               \/ (i = Len(queue) + 1 /\ queue'[i] = row)
    BY <1>0, <2>2, <2>4, SequenceFacts
  <2>6. WTypeOK'
    BY <1>0, <1>3, <1>4, <2>2, <2>3, <2>4, WriterAssumption DEF WTypeOK
  <2>7. Protocol'
    <3>1. QueueBeyondMark => QueueBeyondMark'
      BY <1>2, <1>3, <2>5 DEF QueueBeyondMark
    <3>2. (\A i \in DOMAIN queue : queue[i] # Sentinel) => \A i \in DOMAIN queue' : queue'[i] # Sentinel
      BY <2>4, <2>5
    <3>3. \A i, j \in DOMAIN queue' : queue'[i] = Sentinel /\ i < j => queue'[j] > mark
      <4> SUFFICES ASSUME NEW i \in DOMAIN queue', NEW j \in DOMAIN queue', queue'[i] = Sentinel, i < j
                   PROVE  queue'[j] > mark
        OBVIOUS
      <4>1. i \in DOMAIN queue /\ queue[i] = Sentinel
        BY <2>4, <2>5
      <4>2. CASE j \in DOMAIN queue /\ queue'[j] = queue[j]
        BY <1>0, <4>1, <4>2 DEF Protocol
      <4>3. CASE queue'[j] = row
        BY <1>2, <4>3
      <4> QED BY <2>5, <4>2, <4>3
    <3>4. mark' <= stats'.emitted
      BY <1>0, <1>2, <1>3, <2>3, CounterFacts DEF Protocol, Rows
    <3> QED BY <1>0, <1>3, <3>1, <3>2, <3>3, <3>4 DEF Protocol
  <2>8. RowsConserved'
    <3>1. Cardinality(QueuedRows') = Cardinality(QueuedRows) + 1
      BY <1>0, <1>1, <2>1, <2>4, QueuedAfterAppend DEF Rows
    <3> HIDE DEF inHand
    <3>2. /\ stats'.emitted = stats.emitted + 1
          /\ stats'.written = stats.written
          /\ stats'.dropped = stats.dropped
      BY <1>1, <2>3
    <3>3. stats'.emitted = stats'.written + stats'.dropped + Cardinality(QueuedRows') + inHand'
      BY <1>6, <1>7, <1>8, <3>1, <3>2
    <3> QED BY <3>3 DEF RowsConserved, inHand
  <2>9. StoredAsCounted'
    BY <1>0, <1>3, <2>3 DEF StoredAsCounted
  <2>10. Order'
    BY <1>0, <1>2, <1>3, <2>3, <2>4, <2>5, RowAddedInOrder
  <2> QED BY <2>6, <2>7, <2>8, <2>9, <2>10 DEF WInv
<1>5. CASE ~(Len(queue) < QueueMax)
  <2>1. queue' = queue /\ stats' = [stats EXCEPT !.emitted = row, !.dropped = @ + 1]
    BY <1>1, <1>5 DEF Emit, Emitted
  <2>2. stats' \in [emitted : Nat, written : Nat, dropped : Nat]
        /\ stats'.emitted = row /\ stats'.written = stats.written /\ stats'.dropped = stats.dropped + 1
    <3>1. stats \in [emitted : Nat, written : Nat, dropped : Nat] /\ row \in Nat /\ stats.dropped + 1 \in Nat
      BY <1>0, CounterFacts DEF WTypeOK, Rows
    <3> QED BY <2>1, <3>1
  <2>3. QueuedRows' = QueuedRows
    BY <2>1 DEF QueuedRows
  <2>4. WTypeOK'
    BY <1>0, <1>3, <2>1, <2>2 DEF WTypeOK
  <2>5. Protocol'
    BY <1>0, <1>2, <1>3, <2>1, <2>2, CounterFacts DEF Protocol, QueueBeyondMark, Rows
  <2>6. RowsConserved'
    <3> HIDE DEF inHand
    <3>1. /\ stats'.emitted = stats.emitted + 1
          /\ stats'.written = stats.written
          /\ stats'.dropped = stats.dropped + 1
      BY <1>1, <2>2
    <3>2. stats'.emitted = stats'.written + stats'.dropped + Cardinality(QueuedRows') + inHand'
      BY <1>6, <1>7, <1>8, <2>3, <3>1
    <3> QED BY <3>2 DEF RowsConserved, inHand
  <2>7. StoredAsCounted'
    BY <1>0, <1>3, <2>2, SequenceFacts, CounterFacts, SMTT(30) DEF StoredAsCounted
  <2>8. Order'
    BY <1>0, <1>2, <1>3, <2>1, <2>2, <2>3, RowAddedInOrder
  <2> QED BY <2>4, <2>5, <2>6, <2>7, <2>8 DEF WInv
<1> QED BY <1>4, <1>5

\* A batch is taken from the front of the queue, with the sentinel if it is next.
LEMMA TakeInv == WInv /\ Take => WInv'
<1> SUFFICES ASSUME WInv, Take PROVE WInv'
  OBVIOUS
<1> DEFINE n    == Ready
           stop == n < BatchMax /\ n < Len(queue)
           k    == n + (IF stop THEN 1 ELSE 0)
           Queued == Cardinality(QueuedRows)
<1>0. WTypeOK /\ Protocol /\ RowsConserved /\ StoredAsCounted /\ Order
  BY DEF WInv
<1>1. /\ writer.phase = "idle" /\ queue # <<>>
      /\ queue' = SubSeq(queue, n + (IF stop THEN 2 ELSE 1), Len(queue))
      /\ writer' = [phase |-> AfterTake(n, stop), batch |-> SubSeq(queue, 1, n), stop |-> stop]
      /\ conn' = IF n = 0 THEN "none" ELSE conn
      /\ UNCHANGED <<backend, stats, table, app, mark>>
  BY DEF Take
<1>2. writer.batch = <<>> /\ ~writer.stop
  BY <1>0, <1>1 DEF Protocol
<1>3. /\ n \in 0 .. BatchMax /\ n \in 0 .. Len(queue)
      /\ \A i \in 1 .. n : queue[i] # Sentinel
      /\ stop => queue[n + 1] = Sentinel /\ n + 1 \in DOMAIN queue
  BY <1>0, ReadyFacts, SequenceFacts, WriterAssumption
<1>4. n = 0 => stop
  BY <1>0, <1>1, WriterAssumption DEF WTypeOK
<1> HIDE DEF n
<1>5. /\ k \in n .. Len(queue)
      /\ \A i \in n + 1 .. k : queue[i] = Sentinel
      /\ queue' = SubSeq(queue, k + 1, Len(queue))
  BY <1>0, <1>1, <1>3, SequenceFacts
<1>6. stop \in BOOLEAN /\ (stop => k = n + 1) /\ n \in Nat /\ k \in Nat
  BY <1>3, WriterAssumption
<1> HIDE DEF stop, k
<1>7. /\ Len(queue') = Len(queue) - k
      /\ \A i \in DOMAIN queue' : i \in Nat /\ i + k \in DOMAIN queue /\ queue'[i] = queue[i + k] /\ i + k > k
      /\ \A i \in QueuedRows' : i \in Nat /\ i + k \in QueuedRows /\ queue'[i] = queue[i + k] /\ i + k > n
      /\ Cardinality(QueuedRows') = Queued - n
  <2>1. /\ Len(queue') = Len(queue) - k
        /\ DOMAIN queue' = 1 .. Len(queue) - k
        /\ \A i \in DOMAIN queue' : i + k \in DOMAIN queue /\ queue'[i] = queue[i + k]
        /\ \A i \in QueuedRows' : i + k \in QueuedRows
        /\ Cardinality(QueuedRows') = Cardinality(QueuedRows) - n
    BY <1>0, <1>3, <1>5, <1>6, QueuedAfterTake
  <2>2. \A i \in DOMAIN queue' : i \in Nat /\ i + k > k
    BY <1>0, <1>6, <2>1, SequenceFacts
  <2>3. \A i \in QueuedRows' : i \in DOMAIN queue'
    BY DEF QueuedRows
  <2>4. \A i \in Nat : i + k > k => i + k > n
    BY <1>3, <1>5, <1>6
  <2> QED BY <2>1, <2>2, <2>3, <2>4
<1>8. /\ writer'.phase = AfterTake(n, stop) /\ writer'.stop = stop
      /\ writer'.batch \in Seq(Rows)
      /\ Len(writer'.batch) = n
      /\ DOMAIN writer'.batch = 1 .. n
      /\ \A i \in 1 .. n : writer'.batch[i] = queue[i] /\ i \in QueuedRows
  <2> DEFINE b == SubSeq(queue, 1, n)
  <2>1. /\ Len(b) = n /\ DOMAIN b = 1 .. n /\ b \in Seq(Rows \cup {Sentinel})
        /\ \A i \in 1 .. n : i \in DOMAIN queue /\ b[i] = queue[i]
    BY <1>0, <1>3, PrefixFacts DEF WTypeOK
  <2> HIDE DEF b
  <2>2. \A i \in 1 .. n : i \in QueuedRows /\ b[i] \in Rows
    BY <1>0, <1>3, <2>1, SequenceFacts DEF QueuedRows
  <2>3. b \in Seq(Rows)
    BY <2>1, <2>2
  <2>4. writer'.phase = AfterTake(n, stop) /\ writer'.stop = stop /\ writer'.batch = b
    BY <1>1 DEF b
  <2> QED BY <2>1, <2>2, <2>3, <2>4
<1>9. /\ n = 0 => writer'.phase = "stopped" /\ conn' = "none"
      /\ n # 0 => writer'.phase \in {"writing", "connecting"} /\ conn' = conn
  BY <1>1, <1>8 DEF AfterTake
<1>10. WTypeOK'
  <2>1. queue' \in Seq(Rows \cup {Sentinel})
    BY <1>0, <1>5, <1>6, SuffixFacts DEF WTypeOK
  <2>2. Len(queue') <= QueueMax
    BY <1>0, <1>6, <1>7, SequenceFacts, WriterAssumption DEF WTypeOK
  <2>3. writer' \in [phase : {"idle", "connecting", "writing", "stopped", "cut", "cancelled"},
                     batch : Seq(Rows), stop : BOOLEAN]
    BY <1>1, <1>6, <1>8 DEF AfterTake
  <2>4. Len(writer'.batch) <= BatchMax
    BY <1>3, <1>8
  <2>5. conn' \in {"none", "open", "closed"}
    BY <1>0, <1>9 DEF WTypeOK
  <2> QED BY <1>0, <1>1, <2>1, <2>2, <2>3, <2>4, <2>5 DEF WTypeOK
<1>11. Protocol'
  <2>1. writer'.phase = "stopped" => writer'.batch = <<>> /\ writer'.stop /\ conn' = "none"
    <3>1. n = 0 => writer'.batch = <<>>
      BY <1>8
    <3> QED BY <1>4, <1>8, <1>9, <3>1
  <2>2. app' \in {"running", "stopping"} =>
          ~writer'.stop /\ \A i \in DOMAIN queue' : queue'[i] # Sentinel
    BY <1>0, <1>1, <1>3, <1>7, <1>8 DEF Protocol
  <2>3. stop => QueueBeyondMark'
    <3> SUFFICES ASSUME stop, NEW i \in DOMAIN queue' PROVE queue'[i] > mark
      BY <1>1 DEF QueueBeyondMark
    <3>1. queue[n + 1] = Sentinel /\ n + 1 \in DOMAIN queue /\ k = n + 1
      BY <1>3, <1>6
    <3>2. i + k \in DOMAIN queue /\ n + 1 < i + k /\ queue'[i] = queue[i + k]
      BY <1>6, <1>7, <3>1
    <3> QED BY <1>0, <3>1, <3>2 DEF Protocol
  <2>4. \A i, j \in DOMAIN queue' : queue'[i] = Sentinel /\ i < j => queue'[j] > mark
    <3> SUFFICES ASSUME NEW i \in DOMAIN queue', NEW j \in DOMAIN queue', queue'[i] = Sentinel, i < j
                 PROVE  queue'[j] > mark
      OBVIOUS
    <3>1. i + k < j + k
      BY <1>6, <1>7
    <3> QED BY <1>0, <1>7, <3>1 DEF Protocol
  <2> QED BY <1>0, <1>1, <1>8, <1>9, <2>1, <2>2, <2>3, <2>4 DEF Protocol
<1>12. RowsConserved'
  <2>1. /\ stats.emitted \in Nat /\ stats.written \in Nat /\ stats.dropped \in Nat /\ Queued \in Nat
    BY <1>0, CounterFacts
  <2>2. stats.emitted = stats.written + stats.dropped + Queued
    BY <1>0, <1>2, <2>1 DEF RowsConserved
  <2> HIDE DEF Queued
  <2>3. stats.emitted = stats.written + stats.dropped + (Queued - n) + n
    BY <1>6, <2>1, <2>2
  <2> QED BY <1>1, <1>7, <1>8, <2>3 DEF RowsConserved
<1>13. StoredAsCounted'
  <2>1. writer'.phase # "cancelled"
    BY <1>9
  <2> QED BY <1>0, <1>1, <2>1 DEF StoredAsCounted
<1>14. Order'
  <2>1. /\ \A i \in DOMAIN queue' : queue'[i] <= stats.emitted
        /\ \A i \in DOMAIN table, j \in QueuedRows' : table[i] < queue'[j]
    BY <1>0, <1>1, <1>7 DEF Order
  <2>2. \A i, j \in QueuedRows' : i < j => queue'[i] < queue'[j]
    <3> SUFFICES ASSUME NEW i \in QueuedRows', NEW j \in QueuedRows', i < j
                 PROVE  queue'[i] < queue'[j]
      OBVIOUS
    <3>1. i + k < j + k
      BY <1>6, <1>7
    <3> QED BY <1>0, <1>7, <3>1 DEF Order
  <2>3. /\ \A i \in 1 .. n : writer'.batch[i] <= stats.emitted
        /\ \A i \in DOMAIN table, j \in 1 .. n : table[i] < writer'.batch[j]
    BY <1>0, <1>1, <1>8 DEF Order, QueuedRows
  <2>4. \A i, j \in 1 .. n : i < j => writer'.batch[i] < writer'.batch[j]
    BY <1>0, <1>8 DEF Order
  <2>5. \A i \in 1 .. n, j \in QueuedRows' : writer'.batch[i] < queue'[j]
    <3> SUFFICES ASSUME NEW i \in 1 .. n, NEW j \in QueuedRows'
                 PROVE  queue[i] < queue[j + k]
      BY <1>7, <1>8
    <3>1. i < j + k
      BY <1>6, <1>7
    <3> QED BY <1>0, <1>7, <1>8, <3>1 DEF Order
  <2> QED BY <1>0, <1>1, <1>8, <2>1, <2>2, <2>3, <2>4, <2>5 DEF Order, Log!InOrder
<1> QED BY <1>10, <1>11, <1>12, <1>13, <1>14 DEF WInv

\* Rows of the batch in hand are stored: the table stays in order and begins as
\* before.
LEMMA StoringKeepsOrder ==
  ASSUME WTypeOK, Order, writer.phase # "cancelled", NEW kept \in 0 .. Len(writer.batch),
         table' = table \o SubSeq(writer.batch, 1, kept)
  PROVE  /\ table' \in Seq(Rows)
         /\ Len(table') = Len(table) + kept
         /\ \A i \in DOMAIN table' : table'[i] <= stats.emitted
         /\ Log!InOrder(table')
         /\ \A i \in DOMAIN table', j \in QueuedRows : table'[i] < queue[j]
         /\ Log!IsPrefix(table, table')
<1> DEFINE b == SubSeq(writer.batch, 1, kept)
<1>1. /\ b \in Seq(Rows) /\ Len(b) = kept /\ DOMAIN b = 1 .. kept
      /\ \A i \in DOMAIN b : i \in Nat /\ i \in DOMAIN writer.batch /\ b[i] = writer.batch[i]
  BY PrefixFacts DEF WTypeOK
<1> HIDE DEF b
<1>2. /\ table' \in Seq(Rows) /\ Len(table') = Len(table) + kept
      /\ \A i \in DOMAIN table' :
           \/ i \in DOMAIN table /\ table'[i] = table[i]
           \/ i > Len(table) /\ i - Len(table) \in DOMAIN b /\ table'[i] = b[i - Len(table)]
  BY <1>1, ConcatFacts, SMTT(30) DEF WTypeOK, b
<1>3. \A i \in DOMAIN table' :
        \/ i \in DOMAIN table /\ table'[i] = table[i]
        \/ \E j \in DOMAIN writer.batch : table'[i] = writer.batch[j]
  BY <1>1, <1>2
<1>4. /\ \A i \in DOMAIN table' : table'[i] <= stats.emitted
      /\ \A i \in DOMAIN table', j \in QueuedRows : table'[i] < queue[j]
  BY <1>3 DEF Order
<1>5. Log!InOrder(table')
  <2> SUFFICES ASSUME NEW i \in DOMAIN table', NEW j \in DOMAIN table', i < j
               PROVE  table'[i] < table'[j]
    BY DEF Log!InOrder
  <2>0. Len(table) \in Nat /\ i \in Nat /\ j \in Nat /\ \A n \in DOMAIN table : n <= Len(table)
    BY <1>2, SequenceFacts
  <2>1. CASE j \in DOMAIN table /\ table'[j] = table[j]
    <3>1. i \in DOMAIN table /\ table'[i] = table[i]
      BY <1>2, <2>0, <2>1
    <3> QED BY <2>1, <3>1 DEF Order, Log!InOrder
  <2>2. CASE j > Len(table) /\ j - Len(table) \in DOMAIN b /\ table'[j] = b[j - Len(table)]
    <3>1. CASE i \in DOMAIN table /\ table'[i] = table[i]
      BY <1>1, <2>2, <3>1 DEF Order
    <3>2. CASE i > Len(table) /\ i - Len(table) \in DOMAIN b /\ table'[i] = b[i - Len(table)]
      <4>1. i - Len(table) < j - Len(table)
        BY <2>0
      <4> QED BY <1>1, <2>2, <3>2, <4>1 DEF Order, Log!InOrder
    <3> QED BY <1>2, <3>1, <3>2
  <2> QED BY <1>2, <2>1, <2>2
<1>6. Log!IsPrefix(table, table')
  <2>1. Len(table) <= Len(table')
    BY <1>2, SequenceFacts
  <2>2. SubSeq(table', 1, Len(table)) = SubSeq(table, 1, Len(table))
    BY <1>1, <1>2 DEF WTypeOK, b
  <2> QED BY <2>1, <2>2 DEF Log!IsPrefix
<1> QED BY <1>2, <1>4, <1>5, <1>6

\* When a batch is done with, the writer has none: what remains is in the table
\* and in the queue.
LEMMA BatchDoneInv ==
  ASSUME WInv, writer.phase \in {"connecting", "writing"}, BatchDone,
         NEW kept \in 0 .. Len(writer.batch), table' = table \o SubSeq(writer.batch, 1, kept),
         conn' \in {"none", conn}, writer.stop => conn' = "none",
         UNCHANGED <<backend, queue, app, mark>>,
         stats' \in [emitted : Nat, written : Nat, dropped : Nat], stats'.emitted = stats.emitted
  PROVE  WTypeOK' /\ Protocol' /\ Order' /\ Len(table') = Len(table) + kept /\ Len(writer'.batch) = 0
<1>0. WTypeOK /\ Protocol /\ RowsConserved /\ StoredAsCounted /\ Order
  BY DEF WInv
<1>1. /\ table' \in Seq(Rows)
      /\ Len(table') = Len(table) + kept
      /\ \A i \in DOMAIN table' : table'[i] <= stats.emitted
      /\ Log!InOrder(table')
      /\ \A i \in DOMAIN table', j \in QueuedRows : table'[i] < queue[j]
  BY <1>0, StoringKeepsOrder
<1>2. /\ writer'.phase = IF writer.stop THEN "stopped" ELSE "idle"
      /\ writer'.batch = <<>> /\ writer'.stop = writer.stop
      /\ writer' \in [phase : {"idle", "stopped"}, batch : Seq(Rows), stop : BOOLEAN]
  BY <1>0 DEF BatchDone, WTypeOK
<1>3. QueuedRows' = QueuedRows
  BY DEF QueuedRows
<1>4. WTypeOK'
  BY <1>0, <1>1, <1>2, WriterAssumption, SMTT(30) DEF WTypeOK
<1>5. Protocol'
  BY <1>0, <1>2 DEF Protocol, QueueBeyondMark, WTypeOK
<1>6. Order'
  <2>1. DOMAIN writer'.batch = {}
    BY <1>2
  <2>2. /\ \A i \in DOMAIN table' : table'[i] <= stats'.emitted
        /\ \A i \in DOMAIN queue' : queue'[i] <= stats'.emitted
        /\ \A i, j \in QueuedRows' : i < j => queue'[i] < queue'[j]
        /\ \A i \in DOMAIN table', j \in QueuedRows' : table'[i] < queue'[j]
    BY <1>0, <1>1, <1>3 DEF Order
  <2> QED BY <1>1, <2>1, <2>2 DEF Order, Log!InOrder
<1> QED BY <1>1, <1>2, <1>4, <1>5, <1>6

\* The whole batch is stored and counted as written.
LEMMA InsertsInv == WInv /\ Inserts => WInv'
<1> SUFFICES ASSUME WInv, Inserts PROVE WInv'
  OBVIOUS
<1> DEFINE inHand == Len(writer.batch)
<1>0. WTypeOK /\ Protocol /\ RowsConserved /\ StoredAsCounted /\ Order
  BY DEF WInv
<1>1. /\ writer.phase = "writing" /\ BatchDone
      /\ table' = table \o writer.batch
      /\ stats' = [stats EXCEPT !.written = @ + inHand]
      /\ conn' = IF writer.stop THEN "none" ELSE conn
      /\ UNCHANGED <<backend, queue, app, mark>>
  BY DEF Inserts
<1>2. table' = table \o SubSeq(writer.batch, 1, inHand) /\ inHand \in 0 .. inHand
  BY <1>0, <1>1, WholeList DEF WTypeOK
<1>3. /\ stats.emitted \in Nat /\ stats.written \in Nat /\ stats.dropped \in Nat
      /\ Cardinality(QueuedRows) \in Nat /\ inHand \in Nat /\ Len(table) \in Nat
  BY <1>0, CounterFacts, SequenceFacts
<1>4. stats.emitted = stats.written + stats.dropped + Cardinality(QueuedRows) + inHand
  BY <1>0 DEF RowsConserved
<1>5. stats' \in [emitted : Nat, written : Nat, dropped : Nat]
      /\ stats'.emitted = stats.emitted /\ stats'.written = stats.written + inHand
      /\ stats'.dropped = stats.dropped
  <2> HIDE DEF inHand
  <2>1. stats \in [emitted : Nat, written : Nat, dropped : Nat] /\ stats.written + inHand \in Nat
    BY <1>0, <1>3 DEF WTypeOK
  <2> QED BY <1>1, <2>1
<1>6. WTypeOK' /\ Protocol' /\ Order' /\ Len(table') = Len(table) + inHand /\ Len(writer'.batch) = 0
  BY <1>1, <1>2, <1>5, BatchDoneInv
<1>7. RowsConserved'
  <2> HIDE DEF inHand
  <2>1. QueuedRows' = QueuedRows
    BY <1>1 DEF QueuedRows
  <2>2. stats'.emitted = stats'.written + stats'.dropped + Cardinality(QueuedRows') + Len(writer'.batch)
    BY <1>3, <1>4, <1>5, <1>6, <2>1
  <2> QED BY <2>2 DEF RowsConserved
<1>8. StoredAsCounted'
  <2>1. writer'.phase # "cancelled"
    BY <1>1 DEF BatchDone
  <2>2. /\ Len(table) >= stats.written
        /\ Len(table) <= stats.written + (IF backend = "sqlite" THEN 0 ELSE stats.dropped)
    BY <1>0, <1>1, <1>3 DEF StoredAsCounted
  <2> HIDE DEF inHand
  <2>3. /\ Len(table') >= stats'.written
        /\ Len(table') <= stats'.written + (IF backend' = "sqlite" THEN 0 ELSE stats'.dropped)
    BY <1>1, <1>3, <1>5, <1>6, <2>2
  <2>4. stats'.written \in Nat /\ stats'.dropped \in Nat
    BY <1>5
  <2> QED BY <2>1, <2>3, <2>4 DEF StoredAsCounted
<1> QED BY <1>6, <1>7, <1>8 DEF WInv

\* A batch whose insert fails is counted as dropped: with SQLite none of its
\* rows is stored, with autocommit any number of them may be.
LEMMA FailsInv == ASSUME WInv, NEW kept \in Kept, Fails(kept) PROVE WInv'
<1> DEFINE inHand == Len(writer.batch)
<1>0. WTypeOK /\ Protocol /\ RowsConserved /\ StoredAsCounted /\ Order
  BY DEF WInv
<1>1. /\ writer.phase \in {"connecting", "writing"} /\ BatchDone
      /\ table' = table \o SubSeq(writer.batch, 1, kept)
      /\ stats' = [stats EXCEPT !.dropped = stats.dropped + inHand]
      /\ conn' = "none"
      /\ UNCHANGED <<backend, queue, app, mark>>
  BY DEF Fails, GivenUp, DroppedBatch
<1>3. /\ stats.emitted \in Nat /\ stats.written \in Nat /\ stats.dropped \in Nat
      /\ Cardinality(QueuedRows) \in Nat /\ inHand \in Nat /\ Len(table) \in Nat
  BY <1>0, CounterFacts, SequenceFacts
<1>2. kept \in 0 .. inHand /\ (backend = "sqlite" => kept = 0)
  <2> HIDE DEF inHand
  <2>1. Kept \in {0 .. inHand, {0}} /\ (backend = "sqlite" => Kept = {0})
    BY DEF Kept, inHand
  <2> QED BY <1>3, <2>1
<1>4. stats.emitted = stats.written + stats.dropped + Cardinality(QueuedRows) + inHand
  BY <1>0 DEF RowsConserved
<1>5. stats' \in [emitted : Nat, written : Nat, dropped : Nat]
      /\ stats'.emitted = stats.emitted /\ stats'.written = stats.written
      /\ stats'.dropped = stats.dropped + inHand
  <2> HIDE DEF inHand
  <2>1. stats \in [emitted : Nat, written : Nat, dropped : Nat] /\ stats.dropped + inHand \in Nat
    BY <1>0, <1>3 DEF WTypeOK
  <2> QED BY <1>1, <2>1
<1>6. WTypeOK' /\ Protocol' /\ Order' /\ Len(table') = Len(table) + kept /\ Len(writer'.batch) = 0
  BY <1>1, <1>2, <1>5, BatchDoneInv
<1>7. RowsConserved'
  <2> HIDE DEF inHand
  <2>1. QueuedRows' = QueuedRows
    BY <1>1 DEF QueuedRows
  <2>2. stats'.emitted = stats'.written + stats'.dropped + Cardinality(QueuedRows') + Len(writer'.batch)
    BY <1>3, <1>4, <1>5, <1>6, <2>1
  <2> QED BY <2>2 DEF RowsConserved
<1>8. StoredAsCounted'
  <2>1. writer'.phase # "cancelled"
    BY <1>1 DEF BatchDone
  <2>2. /\ Len(table) >= stats.written
        /\ Len(table) <= stats.written + (IF backend = "sqlite" THEN 0 ELSE stats.dropped)
    BY <1>0, <1>1, <1>3 DEF StoredAsCounted
  <2> HIDE DEF inHand
  <2>3. /\ Len(table') >= stats'.written
        /\ Len(table') <= stats'.written + (IF backend' = "sqlite" THEN 0 ELSE stats'.dropped)
    BY <1>1, <1>2, <1>3, <1>5, <1>6, <2>2
  <2>4. stats'.written \in Nat /\ stats'.dropped \in Nat
    BY <1>5
  <2> QED BY <2>1, <2>3, <2>4 DEF StoredAsCounted
<1> QED BY <1>6, <1>7, <1>8 DEF WInv

\* An insert that was cut off takes effect after all.
LEMMA LandsInv == ASSUME WInv, NEW kept \in KeptWhenCut, Lands(kept) PROVE WInv'
<1> DEFINE inHand == Len(writer.batch)
<1>0. WTypeOK /\ Protocol /\ RowsConserved /\ StoredAsCounted /\ Order
  BY DEF WInv
<1>1. /\ writer.phase = "cut"
      /\ table' = table \o SubSeq(writer.batch, 1, kept)
      /\ writer' = [writer EXCEPT !.phase = "cancelled"]
      /\ UNCHANGED <<backend, queue, stats, conn, app, mark>>
  BY DEF Lands
<1>2. /\ stats.written \in Nat /\ stats.dropped \in Nat /\ inHand \in Nat /\ Len(table) \in Nat
  BY <1>0, CounterFacts, SequenceFacts
<1>3. kept \in 0 .. inHand
  BY <1>2 DEF KeptWhenCut
<1>4. /\ writer'.phase = "cancelled" /\ writer'.batch = writer.batch /\ writer'.stop = writer.stop
      /\ writer' \in [phase : {"cancelled"}, batch : Seq(Rows), stop : BOOLEAN]
  BY <1>0, <1>1 DEF WTypeOK
<1>5. /\ table' \in Seq(Rows) /\ Len(table') = Len(table) + kept
      /\ \A i \in DOMAIN table' : table'[i] <= stats.emitted
      /\ Log!InOrder(table')
  BY <1>0, <1>1, <1>3, StoringKeepsOrder
<1>6. QueuedRows' = QueuedRows
  BY <1>1 DEF QueuedRows
<1>7. WTypeOK'
  BY <1>0, <1>1, <1>4, <1>5 DEF WTypeOK
<1>8. Protocol'
  BY <1>0, <1>1, <1>4 DEF Protocol, QueueBeyondMark
<1>9. RowsConserved'
  BY <1>0, <1>1, <1>4, <1>6 DEF RowsConserved
<1>10. StoredAsCounted'
  <2>1. /\ Len(table) >= stats.written
        /\ Len(table) <= stats.written + (IF backend = "sqlite" THEN 0 ELSE stats.dropped)
    BY <1>0, <1>1, <1>2 DEF StoredAsCounted
  <2>2. Len(writer'.batch) = inHand
    BY <1>4
  <2> HIDE DEF inHand
  <2>3. /\ Len(table') >= stats.written
        /\ Len(table') <= stats.written + inHand + (IF backend = "sqlite" THEN 0 ELSE stats.dropped)
    BY <1>2, <1>3, <1>5, <2>1
  <2> QED BY <1>1, <1>4, <2>2, <2>3 DEF StoredAsCounted
<1>11. Order'
  BY <1>0, <1>1, <1>4, <1>5, <1>6 DEF Order, Log!InOrder
<1> QED BY <1>7, <1>8, <1>9, <1>10, <1>11 DEF WInv

\* The sentinel comes behind the rows that were emitted before it.
LEMMA PutSentinelInv == WInv /\ PutSentinel => WInv'
<1> SUFFICES ASSUME WInv, PutSentinel PROVE WInv'
  OBVIOUS
<1>0. WTypeOK /\ Protocol /\ RowsConserved /\ StoredAsCounted /\ Order
  BY DEF WInv
<1>1. /\ app = "stopping" /\ Len(queue) < QueueMax
      /\ queue' = Append(queue, Sentinel) /\ mark' = stats.emitted /\ app' = "awaiting"
      /\ UNCHANGED <<backend, stats, writer, conn, table>>
  BY DEF PutSentinel
<1>2. /\ queue' \in Seq(Rows \cup {Sentinel})
      /\ Len(queue') = Len(queue) + 1
      /\ DOMAIN queue' = 1 .. Len(queue) + 1
      /\ queue'[Len(queue) + 1] = Sentinel
      /\ \A i \in 1 .. Len(queue) : queue'[i] = queue[i]
  BY <1>0, <1>1, AppendFacts DEF WTypeOK
<1>3. \A i \in DOMAIN queue' : \/ i \in DOMAIN queue /\ queue'[i] = queue[i] /\ i < Len(queue) + 1
                               \/ i = Len(queue) + 1 /\ queue'[i] = Sentinel
  BY <1>0, <1>2, SequenceFacts
<1>4. QueuedRows' = QueuedRows
  BY <1>0, <1>1, QueuedAfterAppend DEF Sentinel
<1>5. \A i \in QueuedRows : queue'[i] = queue[i]
  BY <1>3, <1>4 DEF QueuedRows
<1>6. stats.emitted \in Nat
  BY <1>0, CounterFacts
<1>7. WTypeOK'
  BY <1>0, <1>1, <1>2, SequenceFacts, WriterAssumption DEF WTypeOK
<1>8. Protocol'
  <2>1. ~writer.stop /\ writer.phase \notin {"cut", "cancelled"}
        /\ \A i \in DOMAIN queue : queue[i] # Sentinel
    BY <1>0, <1>1 DEF Protocol
  <2>2. \A i, j \in DOMAIN queue' : ~(queue'[i] = Sentinel /\ i < j)
    <3> SUFFICES ASSUME NEW i \in DOMAIN queue', NEW j \in DOMAIN queue', queue'[i] = Sentinel, i < j
                 PROVE  FALSE
      OBVIOUS
    <3>1. i = Len(queue) + 1
      BY <1>3, <2>1
    <3> QED BY <1>0, <1>2, <3>1, SequenceFacts
  <2> QED BY <1>0, <1>1, <1>6, <2>1, <2>2 DEF Protocol
<1>9. RowsConserved'
  BY <1>0, <1>1, <1>4 DEF RowsConserved
<1>10. StoredAsCounted'
  BY <1>0, <1>1 DEF StoredAsCounted
<1>11. Order'
  <2>1. \A i \in DOMAIN queue' : queue'[i] <= stats.emitted
    BY <1>0, <1>3, <1>6 DEF Order, Sentinel
  <2> QED BY <1>0, <1>1, <1>4, <1>5, <2>1 DEF Order, Log!InOrder
<1> QED BY <1>7, <1>8, <1>9, <1>10, <1>11 DEF WInv

\* The steps that move no row: the connection, the application and its timeout.
LEMMA QuietStepsInv ==
  ASSUME WInv, Connects \/ Disconnects \/ Stop \/ WriterEnded \/ Timeout \/ UNCHANGED wvars
  PROVE  WInv'
<1>0. WTypeOK /\ Protocol /\ RowsConserved /\ StoredAsCounted /\ Order
  BY DEF WInv
<1>1. /\ UNCHANGED <<backend, queue, stats, table, mark>>
      /\ writer'.batch = writer.batch /\ writer'.stop = writer.stop
      /\ writer' \in [phase : {"idle", "connecting", "writing", "stopped", "cut", "cancelled"},
                       batch : Seq(Rows), stop : BOOLEAN]
  <2>1. /\ UNCHANGED <<backend, queue, stats, table, mark>>
        /\ \/ UNCHANGED writer
           \/ writer' = [writer EXCEPT !.phase = "writing"]
           \/ writer' = [writer EXCEPT !.phase = IF @ = "writing" THEN "cut" ELSE "cancelled"]
    BY DEF Connects, Disconnects, Stop, WriterEnded, Timeout, wvars
  <2> QED BY <1>0, <2>1 DEF WTypeOK
<1>2. conn' \in {"none", "open", "closed"} /\ app' \in {"running", "stopping", "awaiting", "down"}
  BY <1>0 DEF Connects, Disconnects, Stop, WriterEnded, Timeout, wvars, WTypeOK
<1>3. WTypeOK'
  BY <1>0, <1>1, <1>2 DEF WTypeOK
<1>4. QueuedRows' = QueuedRows
  BY <1>1 DEF QueuedRows
<1>5. Protocol'
  <2>1. CASE Connects
    BY <1>0, <2>1 DEF Protocol, Connects, QueueBeyondMark, WTypeOK
  <2>2. CASE Disconnects
    BY <1>0, <2>2 DEF Protocol, Disconnects, QueueBeyondMark
  <2>3. CASE Stop
    BY <1>0, <2>3 DEF Protocol, Stop, QueueBeyondMark
  <2>4. CASE WriterEnded
    BY <1>0, <2>4 DEF Protocol, WriterEnded, QueueBeyondMark
  <2>5. CASE Timeout
    <3>1. writer'.phase \in {"cut", "cancelled"} /\ app' = "down" /\ conn' = conn
      BY <1>0, <2>5 DEF Timeout, WTypeOK
    <3> QED BY <1>0, <1>1, <3>1 DEF Protocol, QueueBeyondMark
  <2>6. CASE UNCHANGED wvars
    BY <1>0, <2>6 DEF Protocol, wvars, QueueBeyondMark
  <2> QED BY <2>1, <2>2, <2>3, <2>4, <2>5, <2>6
<1>6. RowsConserved'
  BY <1>0, <1>1, <1>4 DEF RowsConserved
<1>7. StoredAsCounted'
  <2> DEFINE inHand == Len(writer.batch)
  <2>1. stats.written \in Nat /\ stats.dropped \in Nat /\ inHand \in Nat /\ Len(table) \in Nat
    BY <1>0, CounterFacts, SequenceFacts
  <2>2. writer.phase = "cancelled" => writer'.phase = "cancelled"
    BY <1>0 DEF Connects, Disconnects, Stop, WriterEnded, Timeout, wvars, WTypeOK
  <2>3. Len(writer'.batch) = inHand
    BY <1>1
  <2>4. /\ Len(table) >= stats.written
        /\ Len(table) <= stats.written + (IF writer.phase = "cancelled" THEN inHand ELSE 0)
                           + (IF backend = "sqlite" THEN 0 ELSE stats.dropped)
    BY <1>0 DEF StoredAsCounted
  <2> HIDE DEF inHand
  <2>5. Len(table) <= stats.written + (IF writer'.phase = "cancelled" THEN inHand ELSE 0)
                         + (IF backend = "sqlite" THEN 0 ELSE stats.dropped)
    BY <2>1, <2>2, <2>4
  <2> QED BY <1>1, <2>3, <2>4, <2>5 DEF StoredAsCounted
<1>8. Order'
  <2>1. writer.phase = "cancelled" => writer'.phase = "cancelled"
    BY <1>0 DEF Connects, Disconnects, Stop, WriterEnded, Timeout, wvars, WTypeOK
  <2> QED BY <1>0, <1>1, <1>4, <2>1 DEF Order, Log!InOrder
<1> QED BY <1>3, <1>5, <1>6, <1>7, <1>8 DEF WInv

-----------------------------------------------------------------------------
\* Nothing is emitted, queued or stored at first.
LEMMA InitInv == WInit => WInv
<1> SUFFICES ASSUME WInit PROVE WInv
  OBVIOUS
<1>1. DOMAIN queue = {} /\ DOMAIN table = {} /\ DOMAIN writer.batch = {} /\ QueuedRows = {}
  BY DEF WInit, QueuedRows
<1>2. Len(queue) = 0 /\ Len(table) = 0 /\ Len(writer.batch) = 0 /\ Cardinality(QueuedRows) = 0
  BY <1>1, FS_EmptySet DEF WInit
<1>3. WTypeOK
  BY <1>2, WriterAssumption DEF WInit, WTypeOK
<1>4. Protocol
  BY <1>1 DEF WInit, Protocol, QueueBeyondMark
<1>5. RowsConserved /\ StoredAsCounted
  BY <1>2 DEF WInit, RowsConserved, StoredAsCounted
<1>6. Order
  BY <1>1 DEF WInit, Order, Log!InOrder
<1> QED BY <1>3, <1>4, <1>5, <1>6 DEF WInv

LEMMA StepInv == WInv /\ [WNext]_wvars => WInv'
<1> SUFFICES ASSUME WInv, [WNext]_wvars PROVE WInv'
  OBVIOUS
<1>1. CASE Emit
  BY <1>1, EmitInv
<1>2. CASE Take
  BY <1>2, TakeInv
<1>3. CASE Inserts
  BY <1>3, InsertsInv
<1>4. ASSUME NEW kept \in Kept, Fails(kept) PROVE WInv'
  BY <1>4, FailsInv
<1>5. ASSUME NEW kept \in KeptWhenCut, Lands(kept) PROVE WInv'
  BY <1>5, LandsInv
<1>6. CASE PutSentinel
  BY <1>6, PutSentinelInv
<1>7. CASE Connects \/ Disconnects \/ Stop \/ WriterEnded \/ Timeout \/ UNCHANGED wvars
  BY <1>7, QuietStepsInv
<1> QED BY <1>1, <1>2, <1>3, <1>4, <1>5, <1>6, <1>7 DEF WNext

LEMMA WInvariance == WSpec => []WInv
BY InitInv, StepInv, PTL DEF WSpec

\* The queue keeps its limit, the sentinel included, and a batch its size.
THEOREM WriterTyping == WSpec => []WTypeOK
<1>1. WInv => WTypeOK
  BY DEF WInv
<1> QED BY <1>1, WInvariance, PTL

\* Every row is written, dropped, queued or in the writer's hands, and a writer
\* that stops on its own has drained what was emitted before the sentinel.
THEOREM RowsAccounted == WSpec => []Account
<1>1. WInv => Account
  BY DEF WInv, Protocol, QueueBeyondMark, Account, DrainedAtStop, QueuedRows
<1> QED BY <1>1, WInvariance, PTL

\* The counters tell what the table holds, whatever the database lets happen.
THEOREM CountersTellTheTable == WSpec => []StoredAsCounted
<1>1. WInv => StoredAsCounted
  BY DEF WInv
<1> QED BY <1>1, WInvariance, PTL

-----------------------------------------------------------------------------
\* A step that stores rows of the batch is one that the event log allows.
LEMMA StoringIsStoreRows ==
  ASSUME WInv, writer.phase # "cancelled", NEW kept \in 0 .. Len(writer.batch),
         table' = table \o SubSeq(writer.batch, 1, kept), stats'.emitted = stats.emitted
  PROVE  Log!StoreRows
<1>1. /\ table' \in Seq(Rows)
      /\ \A i \in DOMAIN table' : table'[i] <= stats.emitted
      /\ Log!InOrder(table')
      /\ Log!IsPrefix(table, table')
  BY StoringKeepsOrder DEF WInv
<1>2. stats.emitted \in Nat
  BY CounterFacts DEF WInv
<1>3. \A i \in DOMAIN table' : table'[i] \in 1 .. stats.emitted
  BY <1>1, <1>2 DEF Rows
<1>4. table' \in Seq(1 .. stats.emitted)
  BY <1>1, <1>3, ItemsInSet
<1> QED BY <1>1, <1>4 DEF Log!StoreRows

\* Every step of the writer, of the request path and of the shutdown emits one
\* row, stores rows in order, or is nothing to a reader of the table.
LEMMA StepIsLogStep == WInv /\ [WNext]_wvars => [Log!LNext]_(Log!lvars)
<1> SUFFICES ASSUME WInv, [WNext]_wvars PROVE [Log!LNext]_(Log!lvars)
  OBVIOUS
<1>0. WTypeOK
  BY DEF WInv
<1>1. CASE Emit
  <2>1. stats'.emitted = stats.emitted + 1 /\ table' = table
    BY <1>0, <1>1 DEF Emit, Emitted, WTypeOK
  <2> QED BY <2>1 DEF Log!LNext, Log!EmitRow
<1>2. CASE Inserts
  <2>1. writer.phase # "cancelled" /\ stats'.emitted = stats.emitted
    BY <1>0, <1>2 DEF Inserts, WTypeOK
  <2>2. table' = table \o SubSeq(writer.batch, 1, Len(writer.batch))
        /\ Len(writer.batch) \in 0 .. Len(writer.batch)
    BY <1>0, <1>2, WholeList DEF Inserts, WTypeOK
  <2> QED BY <2>1, <2>2, StoringIsStoreRows DEF Log!LNext
<1>3. ASSUME NEW kept \in Kept, Fails(kept) PROVE Log!LNext
  <2>1. writer.phase # "cancelled" /\ stats'.emitted = stats.emitted
        /\ table' = table \o SubSeq(writer.batch, 1, kept)
    BY <1>0, <1>3 DEF Fails, WTypeOK
  <2>2. kept \in 0 .. Len(writer.batch)
    BY <1>0, SequenceFacts DEF Kept
  <2> QED BY <2>1, <2>2, StoringIsStoreRows DEF Log!LNext
<1>4. ASSUME NEW kept \in KeptWhenCut, Lands(kept) PROVE Log!LNext
  <2>1. writer.phase # "cancelled" /\ stats'.emitted = stats.emitted
        /\ table' = table \o SubSeq(writer.batch, 1, kept)
    BY <1>4 DEF Lands
  <2>2. kept \in 0 .. Len(writer.batch)
    BY <1>0, SequenceFacts DEF KeptWhenCut
  <2> QED BY <2>1, <2>2, StoringIsStoreRows DEF Log!LNext
<1>5. CASE \/ Take \/ Connects \/ Disconnects \/ Stop \/ PutSentinel \/ WriterEnded \/ Timeout
           \/ UNCHANGED wvars
  <2>1. UNCHANGED <<stats, table>>
    BY <1>5 DEF Take, Connects, Disconnects, Stop, PutSentinel, WriterEnded, Timeout, wvars
  <2> QED BY <2>1 DEF Log!lvars
<1> QED BY <1>1, <1>2, <1>3, <1>4, <1>5 DEF WNext

\* Whatever is dropped, cut off or fails on the way, the table is the log that
\* its readers are promised: rows stored at most once, in the order of their
\* emission, and never taken back.
THEOREM WriterIsEventLog == WSpec => ImplementsEventLog
<1>1. WInit => Log!LInit
  BY DEF WInit, Log!LInit
<1> QED BY <1>1, StepIsLogStep, WInvariance, PTL DEF WSpec, ImplementsEventLog, Log!LSpec

=============================================================================
