--------------------------- MODULE ModelLoadsProofs ---------------------------
(***************************************************************************)
(* Proofs about ModelLoads, for every set of models and any number of      *)
(* loads: its type, that a load has at most one row and that a load that   *)
(* was watched has its row, and that a row begins in the load it ends in   *)
(* or in one that no answer showed to be over.                             *)
(*                                                                         *)
(* Models do not touch each other, so the inductive invariant is one       *)
(* statement (Tracked) of each model: what its server, its entry, its rows *)
(* and what was seen of it have to do with each other, and (Timed) in what *)
(* order the times lie that the entry and a poll under way hold.           *)
(***************************************************************************)
EXTENDS ModelLoads, CollectionFacts

ServerState == [state : {"absent", "starting", "ready"}, load : Nat]
Entry       == [known : BOOLEAN, state : {"absent", "starting", "ready"}, tStart : Nat]
Sights      == [starting : Nat, ready : Nat]

\* Load n has its row, or its row could not be written.
Recorded(n, rows, failed) == n \in failed \/ \E i \in DOMAIN rows : rows[i].load = n

\* The rows are those of ever later loads, up to the present one; none begins in
\* a load that was over, and none ends before it begins.
RowsInOrder(rows, load) ==
  /\ \A i \in DOMAIN rows : /\ rows[i].load <= load /\ rows[i].from > InLoad(rows[i].gone)
                            /\ rows[i].from <= rows[i].to
  /\ \A i, j \in DOMAIN rows : i < j => rows[i].load < rows[j].load

NotYet(rows, load) == \A i \in DOMAIN rows : rows[i].load < load

\* The present, and the times that an entry and a poll under way (q) hold: they are
\* past, the poll's is the later one, and both are behind the loads that are over.
Now(s) == InLoad(s.load) + (IF s.state = "absent" THEN 1 ELSE 0)
Timed(s, e, q, over) ==
  /\ e.tStart # 0 => InLoad(over) < e.tStart /\ e.tStart <= Now(s)
  /\ q # 0 => InLoad(over) < q /\ q <= Now(s)
  /\ e.tStart # 0 /\ q # 0 => e.tStart <= q

Tracked(s, e, rows, failed, sn, over) ==
  /\ s.state # "absent" => over < s.load
  /\ over <= s.load /\ sn.starting <= s.load /\ sn.ready <= s.load
  /\ e.tStart # 0 <=> e.state = "starting"
  /\ e.known \/ e.tStart = 0
  /\ RowsInOrder(rows, s.load)
  \* A model that is armed, or is loading, has no row of this load yet ...
  /\ e.tStart # 0 => NotYet(rows, s.load)
  /\ s.state = "starting" => sn.ready < s.load /\ NotYet(rows, s.load)
  \* ... and one that was seen starting stays armed until its load is recorded.
  /\ sn.starting # 0 /\ sn.starting = s.load /\ s.state # "absent"
       => e.tStart # 0 \/ Recorded(s.load, rows, failed)
  /\ sn.ready # 0 /\ sn.ready = sn.starting => Recorded(sn.ready, rows, failed)

Shape ==
  /\ server \in [Models -> ServerState]
  /\ asked \in [Models -> Nat]
  /\ entries \in [Models -> Entry]
  /\ table \in [Models -> Seq(Row)]
  /\ lost \in [Models -> SUBSET Nat]
  /\ seen \in [Models -> Sights]
  /\ gone \in [Models -> Nat]

MInv ==
  /\ Shape
  /\ \A m \in Models : /\ Tracked(server[m], entries[m], table[m], lost[m], seen[m], gone[m])
                        /\ Timed(server[m], entries[m], asked[m], gone[m])
  /\ asked = NoPoll \/ \A m \in Models : asked[m] # 0

-----------------------------------------------------------------------------
\* A row for the present load is added behind the others.
LEMMA RowAdded ==
  ASSUME NEW rows \in Seq(Row), NEW load \in Nat, NEW row \in Row,
         row.load = load, row.from > InLoad(row.gone), row.from <= row.to,
         RowsInOrder(rows, load), NotYet(rows, load)
  PROVE  /\ Append(rows, row) \in Seq(Row)
         /\ RowsInOrder(Append(rows, row), load)
         /\ \A n : \A failed : Recorded(n, rows, failed) => Recorded(n, Append(rows, row), failed)
         /\ \A failed : Recorded(load, Append(rows, row), failed)
<1> DEFINE n == Len(rows)
           more == Append(rows, row)
<1>1. /\ more \in Seq(Row) /\ DOMAIN more = 1 .. n + 1 /\ more[n + 1] = row
      /\ \A i \in 1 .. n : more[i] = rows[i]
      /\ n \in Nat /\ DOMAIN rows = 1 .. n
  BY AppendFacts, LenProperties
<1>2. \A i \in 1 .. n : rows[i] \in Row
  BY <1>1, ElementOfSeq
<1> HIDE DEF n, more
<1>3. \A i \in 1 .. n + 1 : i \in 1 .. n \/ i = n + 1
  BY <1>1
<1>4. \A i \in DOMAIN more : /\ more[i].load <= load /\ more[i].from > InLoad(more[i].gone)
                            /\ more[i].from <= more[i].to
  BY <1>1, <1>3 DEF RowsInOrder
<1>5. ASSUME NEW i \in DOMAIN more, NEW j \in DOMAIN more, i < j
      PROVE  more[i].load < more[j].load
  <2>1. i \in 1 .. n
    BY <1>1, <1>5
  <2>2. CASE j \in 1 .. n
    BY <1>1, <1>5, <2>1, <2>2 DEF RowsInOrder
  <2>3. CASE j = n + 1
    BY <1>1, <2>1, <2>3 DEF NotYet
  <2> QED BY <1>1, <1>3, <2>2, <2>3
<1>6. RowsInOrder(more, load)
  BY <1>4, <1>5 DEF RowsInOrder
<1>7. ASSUME NEW k, NEW failed, Recorded(k, rows, failed)
      PROVE  Recorded(k, more, failed)
  <2>1. 1 .. n \subseteq 1 .. n + 1
    BY <1>1
  <2> QED BY <1>1, <1>7, <2>1 DEF Recorded
<1>8. ASSUME NEW failed PROVE Recorded(load, more, failed)
  <2>1. n + 1 \in 1 .. n + 1
    BY <1>1
  <2> QED BY <1>1, <2>1 DEF Recorded
<1> QED BY <1>1, <1>6, <1>7, <1>8 DEF more

LEMMA MInitial == MInit => MInv
<1> SUFFICES ASSUME MInit PROVE MInv
  OBVIOUS
<1>1. Shape
  BY DEF MInit, Shape, ServerState, Entry, Sights, NotKnown, Unseen, NoPoll
<1>2. ASSUME NEW m \in Models
      PROVE  /\ Tracked(server[m], entries[m], table[m], lost[m], seen[m], gone[m])
             /\ Timed(server[m], entries[m], asked[m], gone[m])
  BY DEF MInit, Tracked, Timed, NoPoll, NotKnown, Unseen, RowsInOrder, NotYet, Recorded
<1>3. asked = NoPoll
  BY DEF MInit
<1> QED BY <1>1, <1>2, <1>3 DEF MInv

\* What the invariant says of one model.
LEMMA OneModel ==
  ASSUME MInv, NEW m \in Models
  PROVE  /\ server[m] \in ServerState /\ entries[m] \in Entry /\ table[m] \in Seq(Row)
         /\ lost[m] \in SUBSET Nat /\ seen[m] \in Sights /\ gone[m] \in Nat /\ asked[m] \in Nat
         /\ Tracked(server[m], entries[m], table[m], lost[m], seen[m], gone[m])
         /\ Timed(server[m], entries[m], asked[m], gone[m])
BY DEF MInv, Shape

\* The rows of earlier loads stay in order when the server begins a later one.
LEMMA LaterLoad ==
  ASSUME NEW rows \in Seq(Row), NEW load \in Nat, RowsInOrder(rows, load)
  PROVE  RowsInOrder(rows, load + 1) /\ NotYet(rows, load + 1)
<1>1. \A i \in DOMAIN rows : rows[i].load \in Nat
  <2> SUFFICES ASSUME NEW i \in DOMAIN rows PROVE rows[i].load \in Nat
    OBVIOUS
  <2>1. rows[i] \in Row
    BY ElementOfSeq, LenProperties
  <2> QED BY <2>1 DEF Row
<1> QED BY <1>1 DEF RowsInOrder, NotYet

LEMMA ServerMoves ==
  ASSUME MInv, NEW m \in Models, BeginLoad(m) \/ LoadEnds(m) \/ Evict(m)
  PROVE  MInv'
<1>1. PICK s : /\ server' = [server EXCEPT ![m] = s] /\ UNCHANGED <<asked, entries, table, lost, seen, gone>>
               /\ \/ s = [state |-> "starting", load |-> server[m].load + 1]
                  \/ server[m].state = "starting" /\ s = [state |-> "ready", load |-> server[m].load]
                  \/ s = [state |-> "absent", load |-> server[m].load]
  BY DEF BeginLoad, LoadEnds, Evict, Moves
<1>2. /\ server[m] \in ServerState /\ entries[m] \in Entry /\ table[m] \in Seq(Row)
      /\ seen[m] \in Sights /\ gone[m] \in Nat
      /\ Tracked(server[m], entries[m], table[m], lost[m], seen[m], gone[m])
  BY OneModel
<1>3. s \in ServerState
  BY <1>1, <1>2 DEF ServerState
<1>4. Tracked(s, entries[m], table[m], lost[m], seen[m], gone[m])
  <2>1. CASE s = [state |-> "starting", load |-> server[m].load + 1]
    <3>1. RowsInOrder(table[m], s.load) /\ NotYet(table[m], s.load)
      BY <1>2, <2>1, LaterLoad DEF Tracked, ServerState
    <3> QED BY <1>2, <2>1, <3>1 DEF Tracked, ServerState, Entry, Sights
  <2>2. CASE server[m].state = "starting" /\ s = [state |-> "ready", load |-> server[m].load]
    BY <1>2, <2>2 DEF Tracked
  <2>3. CASE s = [state |-> "absent", load |-> server[m].load]
    BY <1>2, <2>3 DEF Tracked
  <2> QED BY <1>1, <2>1, <2>2, <2>3
<1>a. Timed(s, entries[m], asked[m], gone[m])
  <2>1. asked[m] \in Nat /\ Timed(server[m], entries[m], asked[m], gone[m])
    BY OneModel
  <2>2. Now(server[m]) \in Nat /\ Now(s) \in Nat /\ Now(server[m]) <= Now(s)
    <3>1. PICK n \in Nat, k \in {0, 1} : n = server[m].load /\ Now(server[m]) = 2 * n + k
      BY <1>2 DEF Now, InLoad, ServerState
    <3>2. CASE s = [state |-> "starting", load |-> server[m].load + 1]
      <4>1. Now(s) = 2 * (n + 1)
        BY <3>1, <3>2 DEF Now, InLoad
      <4> QED BY <3>1, <4>1
    <3>3. CASE server[m].state = "starting" /\ s = [state |-> "ready", load |-> server[m].load]
      <4>1. Now(s) = 2 * n /\ Now(server[m]) = 2 * n
        BY <3>1, <3>3 DEF Now, InLoad
      <4> QED BY <3>1, <4>1
    <3>4. CASE s = [state |-> "absent", load |-> server[m].load]
      <4>1. Now(s) = 2 * n + 1
        BY <3>1, <3>4 DEF Now, InLoad
      <4> QED BY <3>1, <4>1
    <3> QED BY <1>1, <3>2, <3>3, <3>4
  <2> QED BY <1>2, <2>1, <2>2 DEF Timed, Entry
<1>5. Shape'
  BY <1>1, <1>3 DEF MInv, Shape
<1>6. ASSUME NEW n \in Models
      PROVE  /\ Tracked(server'[n], entries'[n], table'[n], lost'[n], seen'[n], gone'[n])
             /\ Timed(server'[n], entries'[n], asked'[n], gone'[n])
  BY <1>1, <1>4, <1>a, OneModel DEF MInv, Shape
<1>7. asked' = NoPoll \/ \A n \in Models : asked'[n] # 0
  BY <1>1 DEF MInv
<1>8. NoPoll' = NoPoll
  BY DEF NoPoll
<1> QED BY <1>5, <1>6, <1>7, <1>8 DEF MInv

\* A poll takes its time: the present, in a load that nothing has shown to be over.
LEMMA Asks == ASSUME MInv, Ask PROVE MInv'
<1>1. ASSUME NEW m \in Models
      PROVE  /\ asked'[m] \in Nat /\ asked'[m] # 0
             /\ Timed(server[m], entries[m], asked'[m], gone[m])
  <2>1. /\ server[m] \in ServerState /\ entries[m] \in Entry /\ gone[m] \in Nat
        /\ Tracked(server[m], entries[m], table[m], lost[m], seen[m], gone[m])
        /\ Timed(server[m], entries[m], asked[m], gone[m])
    BY OneModel
  <2>2. asked'[m] = Now(server[m])
    BY DEF Ask, TimeOf, Now
  <2>3. Now(server[m]) \in Nat /\ Now(server[m]) # 0 /\ InLoad(gone[m]) < Now(server[m])
    <3>1. PICK n \in Nat, g \in Nat : n = server[m].load /\ g = gone[m]
      BY <2>1 DEF ServerState
    <3>2. g <= n /\ (server[m].state # "absent" => g < n)
      BY <2>1, <3>1 DEF Tracked
    <3>3. Now(server[m]) = 2 * n + (IF server[m].state = "absent" THEN 1 ELSE 0) /\ InLoad(gone[m]) = 2 * g
      BY <3>1 DEF Now, InLoad
    <3>4. PICK k \in {0, 1} : Now(server[m]) = 2 * n + k /\ (k = 0 => g < n)
      BY <3>2, <3>3
    <3> QED BY ONLY <3>2, <3>3, <3>4, n \in Nat, g \in Nat, k \in {0, 1}
  <2> QED BY <2>1, <2>2, <2>3 DEF Timed, Entry
<1>2. UNCHANGED <<server, entries, table, lost, seen, gone>> /\ asked' = [m \in Models |-> asked'[m]]
  BY DEF Ask
<1> QED BY <1>1, <1>2 DEF MInv, Shape

LEMMA Restarts == ASSUME MInv, Restart PROVE MInv'
<1>1. Shape'
  BY DEF MInv, Restart, Shape, NotKnown, NoPoll, Unseen, Entry, Sights
<1>2. ASSUME NEW m \in Models
      PROVE  /\ Tracked(server'[m], entries'[m], table'[m], lost'[m], seen'[m], gone'[m])
             /\ Timed(server'[m], entries'[m], asked'[m], gone'[m])
  <2>1. /\ entries'[m] = NotKnown /\ seen'[m] = Unseen
        /\ server'[m] = server[m] /\ table'[m] = table[m] /\ lost'[m] = lost[m] /\ gone'[m] = gone[m]
        /\ asked'[m] = 0
    BY DEF Restart, NoPoll
  <2>2. /\ server[m] \in ServerState
        /\ Tracked(server[m], entries[m], table[m], lost[m], seen[m], gone[m])
    BY OneModel
  <2>3. server[m].state # "absent" => 0 < server[m].load
    BY <2>2, OneModel DEF Tracked, ServerState
  <2> QED BY <2>1, <2>2, <2>3 DEF Tracked, Timed, NotKnown, Unseen, ServerState
<1>3. asked' = NoPoll /\ NoPoll' = NoPoll
  BY DEF Restart, NoPoll
<1> QED BY <1>1, <1>2, <1>3 DEF MInv

LEMMA Polls ==
  ASSUME MInv, NEW failing \in SUBSET Models, NEW landing \in SUBSET failing, Poll(failing, landing)
  PROVE  MInv'
<1> DEFINE done == {m \in Running : Complete(m)}
           row(m) == [from |-> entries[m].tStart, to |-> asked[m], load |-> server[m].load, gone |-> gone[m]]
           After(m) == /\ entries'[m] \in Entry /\ table'[m] \in Seq(Row) /\ lost'[m] \in SUBSET Nat
                       /\ seen'[m] \in Sights /\ gone'[m] \in Nat
                       /\ Tracked(server[m], entries'[m], table'[m], lost'[m], seen'[m], gone'[m])
                       /\ Timed(server[m], entries'[m], 0, gone'[m])
<1>0. \A m \in Models : asked[m] # 0
  BY DEF Poll, MInv
<1>1. ASSUME NEW m \in Models PROVE After(m)
  <2> DEFINE s == server[m]
             e == entries[m]
             rows == table[m]
             sn == seen[m]
             over == gone[m]
             q == asked[m]
  <2>1. /\ s \in ServerState /\ e \in Entry /\ rows \in Seq(Row)
        /\ lost[m] \in SUBSET Nat /\ sn \in Sights /\ over \in Nat
        /\ Tracked(s, e, rows, lost[m], sn, over)
        /\ q \in Nat /\ Timed(s, e, q, over)
    BY OneModel
  <2>a. /\ q # 0 /\ InLoad(over) < q /\ q <= Now(s)
        /\ e.tStart # 0 => InLoad(over) < e.tStart /\ e.tStart <= Now(s) /\ e.tStart <= q
        /\ Now(s) \in Nat /\ InLoad(over) \in Nat
    BY <1>0, <2>1 DEF Timed, Now, InLoad, ServerState
  <2>2. CASE s.state = "absent"
    <3>1. /\ entries'[m] = NotKnown /\ table'[m] = rows /\ lost'[m] = lost[m]
          /\ seen'[m] = sn /\ gone'[m] = s.load
      BY <2>2 DEF Poll, Running, Complete, Dropped
    <3> QED BY <2>1, <2>2, <3>1 DEF Tracked, Timed, NotKnown, Entry, ServerState
  <2>3. CASE s.state = "starting"
    <3>1. /\ table'[m] = rows /\ lost'[m] = lost[m]
          /\ seen'[m] = [sn EXCEPT !.starting = s.load] /\ gone'[m] = over
          /\ entries'[m] = IF e.known THEN NextSight(m) ELSE FirstSight(m)
      BY <2>3 DEF Poll, Running, Complete
    <3>2. 0 < s.load /\ over < s.load
      BY <2>1, <2>3 DEF Tracked, ServerState
    <3>3. /\ entries'[m] \in Entry /\ entries'[m].state = "starting" /\ entries'[m].known
          /\ entries'[m].tStart # 0 /\ InLoad(over) < entries'[m].tStart /\ entries'[m].tStart <= Now(s)
      <4>1. CASE e.known
        <5>1. entries'[m] = [e EXCEPT !.state = "starting",
                                      !.tStart = IF e.tStart = 0 /\ e.state # "starting" THEN q ELSE e.tStart]
          BY <2>3, <3>1, <4>1 DEF NextSight, Complete
        <5>2. e.tStart = 0 => e.state # "starting"
          BY <2>1 DEF Tracked
        <5>4. PICK t \in Nat : /\ t = IF e.tStart = 0 /\ e.state # "starting" THEN q ELSE e.tStart
                               /\ t # 0 /\ InLoad(over) < t /\ t <= Now(s)
          BY <2>1, <2>a, <5>2 DEF Entry
        <5>5. entries'[m] = [e EXCEPT !.state = "starting", !.tStart = t]
          BY <5>1, <5>4
        <5>6. PICK d \in Entry : d = e
          BY <2>1
        <5>7. PICK f : f = entries'[m]
          OBVIOUS
        <5>8. f = [d EXCEPT !.state = "starting", !.tStart = t]
          BY <5>5, <5>6, <5>7
        <5>9. f \in Entry /\ f.state = "starting" /\ f.tStart = t /\ f.known = d.known
          BY ONLY <5>8, d \in Entry, t \in Nat DEF Entry
        <5> QED BY <4>1, <5>4, <5>6, <5>7, <5>9
      <4>2. CASE ~e.known
        BY <2>1, <2>3, <2>a, <3>1, <4>2 DEF FirstSight, Entry
      <4> QED BY <4>1, <4>2
    <3> QED BY <2>1, <2>3, <3>1, <3>2, <3>3 DEF Tracked, Timed, Sights, ServerState
  <2>4. CASE s.state = "ready" /\ ~Complete(m)
    <3>1. /\ table'[m] = rows /\ lost'[m] = lost[m]
          /\ seen'[m] = [sn EXCEPT !.ready = s.load] /\ gone'[m] = over
          /\ entries'[m] = IF e.known THEN NextSight(m) ELSE FirstSight(m)
      BY <2>4 DEF Poll, Running
    <3>2. e.tStart = 0
      BY <2>1, <2>4 DEF Tracked, Complete
    <3>3. /\ entries'[m] \in Entry /\ entries'[m].state = "ready" /\ entries'[m].known
          /\ entries'[m].tStart = 0
      <4>1. CASE e.known
        <5>1. entries'[m] = [e EXCEPT !.state = "ready", !.tStart = 0]
          BY <2>1, <2>4, <3>1, <3>2, <4>1 DEF NextSight, Entry
        <5>2. PICK d \in Entry : d = e
          BY <2>1
        <5>3. PICK f : f = entries'[m]
          OBVIOUS
        <5>4. f = [d EXCEPT !.state = "ready", !.tStart = 0]
          BY <5>1, <5>2, <5>3
        <5>5. f \in Entry /\ f.state = "ready" /\ f.tStart = 0 /\ f.known = d.known
          BY ONLY <5>4, d \in Entry DEF Entry
        <5> QED BY <4>1, <5>2, <5>3, <5>5
      <4>2. CASE ~e.known
        BY <2>4, <3>1, <4>2 DEF FirstSight, Entry
      <4> QED BY <4>1, <4>2
    <3> QED BY <2>1, <2>4, <3>1, <3>2, <3>3 DEF Tracked, Timed, Sights, ServerState
  <2>5. CASE s.state = "ready" /\ Complete(m)
    <3>1. /\ seen'[m] = [sn EXCEPT !.ready = s.load] /\ gone'[m] = over
          /\ entries'[m] = NextSight(m)
          /\ table'[m] = IF m \in failing \ landing THEN rows ELSE Append(rows, row(m))
          /\ lost'[m] = IF m \in failing THEN lost[m] \cup {s.load} ELSE lost[m]
      BY <2>5 DEF Poll, Running, Complete
    <3>2. /\ e.known /\ e.tStart # 0 /\ e.state = "starting"
          /\ over < s.load /\ RowsInOrder(rows, s.load) /\ NotYet(rows, s.load)
      BY <2>1, <2>5 DEF Complete, Tracked
    <3>3. /\ entries'[m] \in Entry /\ entries'[m].state = "ready" /\ entries'[m].known
          /\ entries'[m].tStart = 0
      <4>1. entries'[m] = [e EXCEPT !.state = "ready", !.tStart = 0]
        BY <2>5, <3>1, <3>2 DEF NextSight
      <4>2. PICK d \in Entry : d = e
        BY <2>1
      <4>3. PICK f : f = entries'[m]
        OBVIOUS
      <4>4. f = [d EXCEPT !.state = "ready", !.tStart = 0]
        BY <4>1, <4>2, <4>3
      <4>5. f \in Entry /\ f.state = "ready" /\ f.tStart = 0 /\ f.known = d.known
        BY ONLY <4>4, d \in Entry DEF Entry
      <4> QED BY <3>2, <4>2, <4>3, <4>5
    <3>4. /\ row(m) \in Row /\ row(m).load = s.load /\ row(m).from > InLoad(row(m).gone)
          /\ row(m).from <= row(m).to
      BY <2>1, <2>a, <3>2 DEF Row, Entry, ServerState
    <3>5. /\ table'[m] \in Seq(Row) /\ lost'[m] \in SUBSET Nat /\ RowsInOrder(table'[m], s.load)
          /\ Recorded(s.load, table'[m], lost'[m])
          /\ \A n : Recorded(n, rows, lost[m]) => Recorded(n, table'[m], lost'[m])
      <4> HIDE DEF row
      <4>1. s.load \in Nat
        BY <2>1 DEF ServerState
      <4>2. CASE m \in failing \ landing
        BY <2>1, <3>1, <3>2, <4>1, <4>2 DEF Recorded
      <4>3. CASE m \notin failing \ landing
        <5>1. /\ table'[m] \in Seq(Row) /\ RowsInOrder(table'[m], s.load)
              /\ \A n : \A failed : Recorded(n, rows, failed) => Recorded(n, table'[m], failed)
              /\ \A failed : Recorded(s.load, table'[m], failed)
          BY <2>1, <3>1, <3>2, <3>4, <4>1, <4>3, RowAdded
        <5>2. lost[m] \subseteq lost'[m] /\ lost'[m] \in SUBSET Nat
          BY <2>1, <3>1, <4>1
        <5>3. \A n : Recorded(n, table'[m], lost[m]) => Recorded(n, table'[m], lost'[m])
          BY <5>2 DEF Recorded
        <5> QED BY <5>1, <5>2, <5>3
      <4> QED BY <4>2, <4>3
    <3> QED BY <2>1, <2>5, <3>1, <3>2, <3>3, <3>5 DEF Tracked, Timed, Sights, ServerState
  <2> QED BY <2>1, <2>2, <2>3, <2>4, <2>5 DEF ServerState
<1>2. /\ server' = server /\ DOMAIN entries' = Models /\ DOMAIN table' = Models
      /\ DOMAIN lost' = Models /\ DOMAIN seen' = Models /\ DOMAIN gone' = Models
      /\ entries' = [m \in Models |-> entries'[m]] /\ table' = [m \in Models |-> table'[m]]
      /\ lost' = [m \in Models |-> lost'[m]] /\ seen' = [m \in Models |-> seen'[m]]
      /\ gone' = [m \in Models |-> gone'[m]]
  BY DEF Poll
<1>4. asked' = NoPoll /\ NoPoll' = NoPoll /\ \A m \in Models : asked'[m] = 0
  BY DEF Poll, NoPoll
<1>3. Shape'
  BY <1>1, <1>2, <1>4 DEF MInv, Shape, NoPoll
<1> QED BY <1>1, <1>2, <1>3, <1>4 DEF MInv

LEMMA MStep == MInv /\ [MNext]_mvars => MInv'
<1> SUFFICES ASSUME MInv, [MNext]_mvars PROVE MInv'
  OBVIOUS
<1>1. ASSUME NEW m \in Models, BeginLoad(m) \/ LoadEnds(m) \/ Evict(m) PROVE MInv'
  BY <1>1, ServerMoves
<1>2. ASSUME NEW failing \in SUBSET Models, NEW landing \in SUBSET failing, Poll(failing, landing)
      PROVE  MInv'
  BY <1>2, Polls
<1>3. CASE Restart
  BY <1>3, Restarts
<1>4. CASE Ask
  BY <1>4, Asks
<1>5. CASE UNCHANGED mvars
  BY <1>5 DEF mvars, MInv, Shape, NoPoll
<1> QED BY <1>1, <1>2, <1>3, <1>4, <1>5 DEF MNext

LEMMA MInvariance == MSpec => []MInv
BY MInitial, MStep, PTL DEF MSpec

-----------------------------------------------------------------------------
\* The tracker has its type, and a model is armed exactly while it was last seen
\* starting (host_logger.track_model_loads).
THEOREM LoadsTyping == MSpec => []MTypeOK
<1>1. ASSUME MInv PROVE MTypeOK
  BY <1>1 DEF MInv, Shape, Tracked, MTypeOK, ServerState, Entry
<1> QED BY <1>1, MInvariance, PTL

\* A load has at most one row, the rows of a model are in the order of its loads,
\* and a load that was seen starting and seen ready has its row or was lost to a
\* failed write; no row ends before it begins (host_logger.track_model_loads and write_model_load).
THEOREM LoadsRecordedOnce == MSpec => []RowsMatchLoads
<1>1. ASSUME MInv PROVE RowsMatchLoads
  <2>1. OneRowPerLoad
    BY <1>1 DEF MInv, Tracked, RowsInOrder, OneRowPerLoad
  <2>2. SeenLoadsRecorded
    BY <1>1 DEF MInv, Tracked, Recorded, SeenLoadsRecorded
  <2>3. RowsRunForward
    BY <1>1 DEF MInv, Tracked, RowsInOrder, RowsRunForward
  <2> QED BY <2>1, <2>2, <2>3 DEF RowsMatchLoads
<1> QED BY <1>1, MInvariance, PTL

\* A row does not begin in a load that an answer showed to be over, when that
\* answer showed another model running (host_logger.track_model_loads drops the
\* entries of evicted models).
THEOREM LoadsReArmed == MSpec => []ReArmsWhenOthersRun
<1>1. ASSUME MInv PROVE ReArmsWhenOthersRun
  BY <1>1 DEF MInv, Tracked, RowsInOrder, ReArmsWhenOthersRun
<1> QED BY <1>1, MInvariance, PTL
=============================================================================
