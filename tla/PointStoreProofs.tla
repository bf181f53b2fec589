--------------------------- MODULE PointStoreProofs ---------------------------
(***************************************************************************)
(* Proofs about PointStore for any number of gateway threads, points,       *)
(* buckets and entries, and any hash: the mutex keeps the chains whole and  *)
(* one entry for each point, the log agrees with the entries, and every     *)
(* step is a step of the abstract table or leaves it alone.                 *)
(***************************************************************************)
EXTENDS PointStore, TLAPS

\* A thread has a reading to store exactly inside a call, until Assign.
Requests == \A g \in Gateway : req[g] = None <=> pc[g] \in {"idle", "unlock", "say"}

\* What a thread knows of its pointer.  On its walk the point is in none of the entries
\* newer than the one it looks at; past the end of the chain, in none at all.
Seen(g) == \A i \in 1..Len(heap) : i > entry[g] => heap[i].point # point(g)
Absence(g) == \A i \in 1..Len(heap) : heap[i].point # point(g)
Knows(g) ==
    /\ pc[g] = "walk" =>
          /\ Seen(g)
          /\ entry[g] # 0 => point_hash[heap[entry[g]].point] = bucket(g)
    /\ pc[g] \in {"fail", "failline", "giveup"} => Absence(g)
    /\ pc[g] = "link" => entry[g] = Len(heap)
    /\ pc[g] \in {"link", "compare", "log", "line", "assign"} =>
          entry[g] # 0 /\ heap[entry[g]].point = point(g)
Pointers == \A g \in Gateway : Knows(g)

\* The log's lines agree with a reading of a point.
Agrees(k, r) ==
    /\ told[k].quality = r.quality
    /\ k.type \in {"YX", "ENERGY"} => told[k].value = r.value

\* Between the line and Assign the log is ahead of the entry.
LogAgrees ==
    /\ \A i \in 1..Len(heap) :
          heap[i].initialized /\ (\A g \in Gateway : ~(pc[g] = "assign" /\ entry[g] = i)) =>
             Agrees(heap[i].point, heap[i].reading)
    /\ \A g \in Gateway : pc[g] = "assign" => Agrees(point(g), req[g])

ToldIsTable == told = [k \in Points |-> told[k]]

IInv == TypeOK /\ Requests /\ Pointers /\ OneEntryPerPoint /\ LogAgrees /\ ToldIsTable

-----------------------------------------------------------------------------
LEMMA InitIInv == Init => IInv
  <1> SUFFICES ASSUME Init PROVE IInv
    OBVIOUS
  <1>1. heap \in Seq(Entry) /\ Len(heap) = 0 /\ heap = <<>>
    BY DEF Init
  <1>2. TypeOK
    BY <1>1, StoreAssumption DEF Init, TypeOK, critical
  <1>3. Requests /\ Pointers
    BY <1>1 DEF Init, Requests, Pointers, Knows
  <1>4. Linked = 0
    BY <1>1 DEF Linked, Init
  <1>5. OneEntryPerPoint
    BY <1>1, <1>4 DEF Init, OneEntryPerPoint, Newest
  <1>6. LogAgrees /\ ToldIsTable
    BY <1>1 DEF Init, LogAgrees, ToldIsTable
  <1> QED
    BY <1>2, <1>3, <1>5, <1>6 DEF IInv

\* The heap as a function.
LEMMA Heap ==
    ASSUME TypeOK
    PROVE  /\ Len(heap) \in Nat /\ DOMAIN heap = 1..Len(heap)
           /\ \A i \in 1..Len(heap) :
                 /\ heap[i] \in Entry /\ heap[i].point \in Points
                 /\ heap[i].next \in Pointer /\ heap[i].reading \in Reading
                 /\ point_hash[heap[i].point] \in Bucket
  <1>1. heap \in Seq(Entry)
    BY DEF TypeOK
  <1>2. Len(heap) \in Nat /\ DOMAIN heap = 1..Len(heap) /\ \A i \in 1..Len(heap) : heap[i] \in Entry
    BY <1>1
  <1>3. \A e \in Entry : /\ e.point \in Points /\ e.next \in Pointer /\ e.reading \in Reading
                        /\ point_hash[e.point] \in Bucket
    BY StoreAssumption DEF Entry
  <1> QED
    BY <1>2, <1>3

\* A reading has a point, and the point a bucket.
LEMMA PointOfRequest ==
    ASSUME NEW g \in Gateway, req[g] \in Reading
    PROVE  point(g) \in Points /\ bucket(g) \in Bucket
  BY StoreAssumption DEF point, bucket, Points

\* The mutex keeps the other threads out of the critical section.
LEMMA Alone ==
    ASSUME TypeOK, NEW g \in Gateway, pc[g] \in critical
    PROVE  mutex = g /\ \A h \in Gateway : h # g => pc[h] \notin critical
  BY StoreAssumption DEF TypeOK

\* Appending an entry, and overwriting one.
LEMMA Appended ==
    ASSUME TypeOK, NEW e \in Entry, heap' = Append(heap, e)
    PROVE  /\ heap' \in Seq(Entry) /\ Len(heap') = Len(heap) + 1
           /\ heap'[Len(heap) + 1] = e
           /\ \A i \in 1..Len(heap) : heap'[i] = heap[i]
  BY DEF TypeOK

LEMMA Assigned ==
    ASSUME TypeOK, NEW g \in Gateway, Assign(g), entry[g] # 0, req[g] \in Reading
    PROVE  /\ heap' \in Seq(Entry) /\ Len(heap') = Len(heap)
           /\ \A i \in 1..Len(heap) : /\ heap'[i].point = heap[i].point
                                      /\ heap'[i].next = heap[i].next
                                      /\ i # entry[g] => heap'[i] = heap[i]
           /\ heap'[entry[g]].initialized /\ heap'[entry[g]].reading = req[g]
  <1> DEFINE p == entry[g]
             e == [heap[p] EXCEPT !.initialized = TRUE, !.reading = req[g]]
  <1>1. p \in 1..Len(heap) /\ Len(heap) \in Nat
    BY Heap DEF TypeOK
  <1>2. heap[p] \in Entry
    BY <1>1, Heap
  <1>3. e \in Entry /\ e.point = heap[p].point /\ e.next = heap[p].next
        /\ e.initialized /\ e.reading = req[g]
    BY <1>2 DEF Entry
  <1>4. heap' = [heap EXCEPT ![p] = e]
    BY DEF Assign
  <1> HIDE DEF e, p
  <1>5. heap \in Seq(Entry)
    BY DEF TypeOK
  <1>6. /\ heap' \in Seq(Entry) /\ Len(heap') = Len(heap)
        /\ \A i \in 1..Len(heap) : heap'[i] = IF i = p THEN e ELSE heap[i]
    BY <1>1, <1>3, <1>4, <1>5
  <1> QED
    BY <1>1, <1>3, <1>6 DEF p

\* The entry that Create appends.
LEMMA Created ==
    ASSUME TypeOK, NEW g \in Gateway, Create(g), req[g] \in Reading
    PROVE  /\ heap' \in Seq(Entry) /\ Len(heap') = Len(heap) + 1 /\ Len(heap') <= HEAP_MAX
           /\ heap'[Len(heap) + 1].point = point(g)
           /\ heap'[Len(heap) + 1].next = buckets[bucket(g)]
           /\ ~heap'[Len(heap) + 1].initialized
           /\ \A i \in 1..Len(heap) : heap'[i] = heap[i]
           /\ entry' = [entry EXCEPT ![g] = Len(heap) + 1]
  <1> DEFINE e == [point |-> point(g), initialized |-> FALSE,
                   reading |-> req[g], next |-> buckets[bucket(g)]]
  <1>1. Len(heap) \in Nat /\ Len(heap) < HEAP_MAX /\ heap' = Append(heap, e)
        /\ entry' = [entry EXCEPT ![g] = Len(heap')]
    BY Heap DEF Create
  <1>2. e \in Entry
    <2>1. buckets[bucket(g)] \in Pointer
      BY <1>1, PointOfRequest, StoreAssumption DEF TypeOK, Pointer
    <2> QED
      BY <2>1, PointOfRequest DEF Entry
  <1>3. e.point = point(g) /\ e.next = buckets[bucket(g)] /\ ~e.initialized
    OBVIOUS
  <1> HIDE DEF e
  <1>4. /\ heap' \in Seq(Entry) /\ Len(heap') = Len(heap) + 1
        /\ heap'[Len(heap) + 1] = e /\ \A i \in 1..Len(heap) : heap'[i] = heap[i]
    BY <1>1, <1>2, Appended
  <1> QED
    BY <1>1, <1>3, <1>4, StoreAssumption

\* Inside a call the thread has a reading.
LEMMA HasRequest ==
    ASSUME TypeOK, Requests, NEW g \in Gateway, pc[g] \notin {"idle", "unlock", "say"}
    PROVE  req[g] \in Reading
  BY DEF TypeOK, Requests

-----------------------------------------------------------------------------
LEMMA TypeStep == IInv /\ [Next]_vars => TypeOK'
  <1> SUFFICES ASSUME IInv, [Next]_vars PROVE TypeOK'
    OBVIOUS
  <1> USE StoreAssumption
  <1>0. TypeOK /\ Len(heap) \in Nat
    BY Heap DEF IInv
  <1>1. ASSUME NEW g \in Gateway, NEW r \in Reading, Call(g, r) PROVE TypeOK'
    BY <1>0, <1>1 DEF TypeOK, Call, Goto, critical
  <1>2. ASSUME NEW g \in Gateway, SayLock(g) \/ SayLine(g) PROVE TypeOK'
    BY <1>0, <1>2 DEF TypeOK, SayLock, SayLine, Goto, Free, critical
  <1>3. ASSUME NEW g \in Gateway, Lock(g) PROVE TypeOK'
    <2>1. bucket(g) \in Bucket
      BY <1>3, HasRequest, PointOfRequest DEF IInv, Lock
    <2>2. buckets[bucket(g)] \in 0..Len(heap)
      BY <1>0, <2>1 DEF TypeOK
    <2> QED
      BY <1>0, <1>3, <2>2 DEF TypeOK, Lock, Goto, Free, critical
  <1>4. ASSUME NEW g \in Gateway, Walk(g) PROVE TypeOK'
    <2>1. CASE SamePoint(heap[entry[g]], point(g))
      BY <1>0, <1>4, <2>1 DEF TypeOK, Walk, Goto, critical
    <2>2. CASE ~SamePoint(heap[entry[g]], point(g))
      <3>1. entry[g] \in 1..Len(heap)
        BY <1>0, <1>4 DEF TypeOK, Walk
      <3>2. heap[entry[g]].next \in 0..Len(heap)
        BY <1>0, <3>1 DEF IInv, OneEntryPerPoint, Newest
      <3> QED
        BY <1>0, <1>4, <2>2, <3>2 DEF TypeOK, Walk, critical
    <2> QED
      BY <2>1, <2>2
  <1>5. ASSUME NEW g \in Gateway, Create(g) PROVE TypeOK'
    <2>1. req[g] \in Reading
      BY <1>5, HasRequest DEF IInv, Create
    <2>2. /\ heap' \in Seq(Entry) /\ Len(heap') = Len(heap) + 1 /\ Len(heap') <= HEAP_MAX
          /\ entry' = [entry EXCEPT ![g] = Len(heap) + 1]
      BY <1>0, <1>5, <2>1, Created
    <2>3. /\ pc[g] = "walk" /\ pc' = [pc EXCEPT ![g] = "link"]
          /\ UNCHANGED <<mutex, buckets, req, log_mutex>>
      BY <1>5 DEF Create, Goto
    <2>4. buckets \in [Bucket -> 0..Len(heap')] /\ entry' \in [Gateway -> 0..Len(heap')]
      BY <1>0, <2>2 DEF TypeOK
    <2>5. pc' \in [Gateway -> critical \cup {"idle", "lock", "say"}]
      BY <1>0, <2>3 DEF TypeOK, critical
    <2>6. \A h \in Gateway :
             /\ mutex' = h <=> pc'[h] \in critical
             /\ log_mutex' = h <=> pc'[h] \in {"line", "failline", "say"}
      BY <1>0, <2>3 DEF TypeOK, critical
    <2> QED
      BY <1>0, <2>2, <2>3, <2>4, <2>5, <2>6 DEF TypeOK
  <1>6. ASSUME NEW g \in Gateway, CreateFails(g) \/ FailLock(g) \/ FailLine(g) \/ GiveUp(g)
        PROVE  TypeOK'
    <2>1. CASE CreateFails(g)
      BY <1>0, <2>1 DEF TypeOK, CreateFails, Goto, critical
    <2>2. CASE FailLock(g)
      BY <1>0, <2>2 DEF TypeOK, FailLock, Goto, Free, critical
    <2>3. CASE FailLine(g)
      BY <1>0, <2>3 DEF TypeOK, FailLine, Goto, critical
    <2>4. CASE GiveUp(g)
      BY <1>0, <2>4 DEF TypeOK, GiveUp, Goto, critical
    <2> QED
      BY <1>6, <2>1, <2>2, <2>3, <2>4
  <1>7. ASSUME NEW g \in Gateway, Link(g) PROVE TypeOK'
    BY <1>0, <1>7 DEF TypeOK, Link, Goto, critical
  <1>8. ASSUME NEW g \in Gateway, Compare(g) \/ LogLock(g) \/ LogLine(g) PROVE TypeOK'
    <2>1. CASE Compare(g)
      BY <1>0, <2>1 DEF TypeOK, Compare, Goto, critical
    <2>2. CASE LogLock(g)
      BY <1>0, <2>2 DEF TypeOK, LogLock, Goto, Free, critical
    <2>3. CASE LogLine(g)
      BY <1>0, <2>3 DEF TypeOK, LogLine, Goto, critical
    <2> QED
      BY <1>8, <2>1, <2>2, <2>3
  <1>9. ASSUME NEW g \in Gateway, Assign(g) PROVE TypeOK'
    <2>1. req[g] \in Reading /\ entry[g] # 0
      BY <1>9, HasRequest DEF IInv, Assign, Pointers, Knows
    <2>2. heap' \in Seq(Entry) /\ Len(heap') = Len(heap)
      BY <1>0, <1>9, <2>1, Assigned DEF TypeOK, Assign
    <2>3. /\ pc[g] = "assign" /\ pc' = [pc EXCEPT ![g] = "unlock"]
          /\ req' = [req EXCEPT ![g] = None] /\ UNCHANGED <<mutex, buckets, entry, log_mutex>>
      BY <1>9 DEF Assign, Goto
    <2> QED
      BY <1>0, <2>2, <2>3 DEF TypeOK, critical
  <1>10. ASSUME NEW g \in Gateway, Unlock(g) PROVE TypeOK'
    BY <1>0, <1>10 DEF TypeOK, Unlock, Goto, critical
  <1>11. ASSUME UNCHANGED vars PROVE TypeOK'
    BY <1>0, <1>11 DEF TypeOK, vars
  <1> QED
    BY <1>1, <1>2, <1>3, <1>4, <1>5, <1>6, <1>7, <1>8, <1>9, <1>10, <1>11 DEF Next, Finish

LEMMA RequestsStep == IInv /\ [Next]_vars => Requests'
  <1> SUFFICES ASSUME IInv, [Next]_vars PROVE Requests'
    OBVIOUS
  <1> USE StoreAssumption DEF IInv, Goto
  <1>1. ASSUME NEW g \in Gateway, NEW r \in Reading, Call(g, r) PROVE Requests'
    BY <1>1 DEF Requests, TypeOK, Call
  <1>2. ASSUME NEW g \in Gateway, SayLock(g) \/ SayLine(g) \/ Unlock(g) PROVE Requests'
    BY <1>2 DEF Requests, TypeOK, SayLock, SayLine, Unlock
  <1>3. ASSUME NEW g \in Gateway, Lock(g) \/ Walk(g) \/ Create(g) \/ CreateFails(g) \/ Link(g)
        PROVE  Requests'
    BY <1>3 DEF Requests, TypeOK, Lock, Walk, Create, CreateFails, Link
  <1>4. ASSUME NEW g \in Gateway, FailLock(g) \/ FailLine(g) \/ GiveUp(g) PROVE Requests'
    BY <1>4 DEF Requests, TypeOK, FailLock, FailLine, GiveUp
  <1>5. ASSUME NEW g \in Gateway, Compare(g) \/ LogLock(g) \/ LogLine(g) \/ Assign(g)
        PROVE  Requests'
    BY <1>5 DEF Requests, TypeOK, Compare, LogLock, LogLine, Assign
  <1>6. ASSUME UNCHANGED vars PROVE Requests'
    BY <1>6 DEF Requests, vars
  <1> QED
    BY <1>1, <1>2, <1>3, <1>4, <1>5, <1>6 DEF Next, Finish

\* What a thread knows survives the steps of the others.
LEMMA KnowsOfOthers ==
    ASSUME IInv, NEW g \in Gateway, NEW h \in Gateway, h # g,
           pc'[h] = pc[h], entry'[h] = entry[h], req'[h] = req[h],
           UNCHANGED heap \/ pc[g] \in critical
    PROVE  Knows(h)'
  <1>1. CASE UNCHANGED heap
    BY <1>1 DEF IInv, Pointers, Knows, Seen, Absence, point, bucket
  <1>2. CASE pc[g] \in critical
    <2>1. pc'[h] \notin critical
      BY <1>2, Alone DEF IInv
    <2> QED
      BY <2>1 DEF Knows, critical
  <1> QED
    BY <1>1, <1>2

LEMMA PointersStep == IInv /\ [Next]_vars => Pointers'
  <1> SUFFICES ASSUME IInv, [Next]_vars PROVE Pointers'
    OBVIOUS
  <1>0. TypeOK /\ Len(heap) \in Nat /\ \A g \in Gateway : Knows(g)
    BY Heap DEF IInv, Pointers
  <1>1. ASSUME NEW g \in Gateway, NEW r \in Reading, Call(g, r) PROVE Pointers'
    <2>1. Knows(g)'
      BY <1>0, <1>1 DEF Call, Goto, Knows, TypeOK
    <2> QED
      BY <1>0, <1>1, <2>1, KnowsOfOthers DEF Call, Goto, TypeOK, Pointers
  <1>2. ASSUME NEW g \in Gateway, SayLock(g) \/ SayLine(g) \/ Unlock(g) PROVE Pointers'
    <2>1. Knows(g)'
      BY <1>0, <1>2 DEF SayLock, SayLine, Unlock, Goto, Knows, TypeOK
    <2> QED
      BY <1>0, <1>2, <2>1, KnowsOfOthers DEF SayLock, SayLine, Unlock, Goto, TypeOK, Pointers
  <1>3. ASSUME NEW g \in Gateway, Lock(g) PROVE Pointers'
    <2>1. /\ entry' = [entry EXCEPT ![g] = buckets[bucket(g)]] /\ pc' = [pc EXCEPT ![g] = "walk"]
          /\ UNCHANGED <<buckets, heap, req>> /\ mutex = None
      BY <1>3 DEF Lock, Goto, Free
    <2>2. \A h \in Gateway : pc[h] # "link"
      BY <1>0, <2>1, StoreAssumption DEF TypeOK, critical
    <2>3. bucket(g) \in Bucket
      BY <1>3, HasRequest, PointOfRequest DEF IInv, Lock
    <2>4. Newest(buckets[bucket(g)], bucket(g), Len(heap))
      BY <2>2, <2>3 DEF IInv, OneEntryPerPoint, Linked
    <2>5. entry'[g] = buckets[bucket(g)] /\ pc'[g] = "walk"
      BY <1>0, <2>1 DEF TypeOK
    <2>6. Knows(g)'
      BY <1>0, <2>1, <2>4, <2>5 DEF Newest, Knows, Seen, point, bucket
    <2> QED
      BY <1>0, <2>1, <2>6, KnowsOfOthers DEF TypeOK, Pointers
  <1>4. ASSUME NEW g \in Gateway, Walk(g) PROVE Pointers'
    <2>1. entry[g] \in 1..Len(heap) /\ pc[g] = "walk" /\ UNCHANGED <<heap, req>>
          /\ point_hash[heap[entry[g]].point] = bucket(g) /\ Seen(g)
      BY <1>0, <1>4 DEF Walk, TypeOK, Knows
    <2>2. CASE SamePoint(heap[entry[g]], point(g))
      <3>1. heap[entry[g]].point \in Points /\ req[g] \in Reading
        BY <1>0, <2>1, Heap, HasRequest DEF IInv
      <3>2. heap[entry[g]].point = point(g)
        <4>1. PICK h \in Gateway, r \in Reading : heap[entry[g]].point = PointOf(h, r)
          BY <3>1 DEF Points
        <4> QED
          BY <2>2, <4>1 DEF SamePoint, PointOf, point
      <3>3. pc' = [pc EXCEPT ![g] = "compare"] /\ UNCHANGED entry
        BY <1>4, <2>2 DEF Walk, Goto
      <3>4. pc'[g] = "compare"
        BY <1>0, <3>3 DEF TypeOK
      <3>5. Knows(g)'
        BY <1>0, <2>1, <3>2, <3>3, <3>4 DEF Knows, point
      <3> QED
        BY <1>0, <2>1, <3>3, <3>5, KnowsOfOthers DEF TypeOK, Pointers
    <2>3. CASE ~SamePoint(heap[entry[g]], point(g))
      <3>1. /\ entry' = [entry EXCEPT ![g] = heap[entry[g]].next] /\ UNCHANGED pc
            /\ heap[entry[g]].point # point(g)
        BY <1>4, <2>3 DEF Walk, SamePoint
      <3>2. Newest(heap[entry[g]].next, bucket(g), entry[g] - 1)
        BY <2>1 DEF IInv, OneEntryPerPoint
      <3>3. \A i \in 1..Len(heap) :
               i > heap[entry[g]].next => heap[i].point # point(g)
        BY <1>0, <2>1, <3>1, <3>2 DEF Newest, Seen, bucket
      <3>4. entry'[g] = heap[entry[g]].next
        BY <1>0, <3>1 DEF TypeOK
      <3>5. Knows(g)'
        BY <2>1, <3>1, <3>2, <3>3, <3>4 DEF Knows, Seen, Newest, point, bucket
      <3> QED
        BY <1>0, <2>1, <3>1, <3>5, KnowsOfOthers DEF TypeOK, Pointers
    <2> QED
      BY <2>2, <2>3
  <1>5. ASSUME NEW g \in Gateway, Create(g) PROVE Pointers'
    <2>1. pc[g] = "walk" /\ pc' = [pc EXCEPT ![g] = "link"] /\ UNCHANGED req
      BY <1>5 DEF Create, Goto
    <2>2. /\ Len(heap') = Len(heap) + 1 /\ heap'[Len(heap) + 1].point = point(g)
          /\ entry' = [entry EXCEPT ![g] = Len(heap) + 1]
      BY <1>0, <1>5, <2>1, HasRequest, Created DEF IInv
    <2>3. pc'[g] = "link" /\ entry'[g] = Len(heap) + 1
      BY <1>0, <2>1, <2>2 DEF TypeOK
    <2>4. Knows(g)'
      BY <1>0, <2>1, <2>2, <2>3 DEF Knows, point
    <2> QED
      BY <1>0, <2>1, <2>2, <2>4, KnowsOfOthers DEF TypeOK, Pointers, critical
  <1>6. ASSUME NEW g \in Gateway, CreateFails(g) PROVE Pointers'
    <2>1. Knows(g)'
      BY <1>0, <1>6 DEF CreateFails, Goto, Knows, Seen, Absence, TypeOK, point
    <2> QED
      BY <1>0, <1>6, <2>1, KnowsOfOthers DEF CreateFails, Goto, TypeOK, Pointers
  <1>7. ASSUME NEW g \in Gateway, FailLock(g) \/ FailLine(g) PROVE Pointers'
    <2>1. Knows(g)'
      BY <1>0, <1>7 DEF FailLock, FailLine, Goto, Knows, Absence, TypeOK, point
    <2> QED
      BY <1>0, <1>7, <2>1, KnowsOfOthers DEF FailLock, FailLine, Goto, TypeOK, Pointers
  <1>8. ASSUME NEW g \in Gateway, GiveUp(g) PROVE Pointers'
    <2>1. Knows(g)'
      BY <1>0, <1>8 DEF GiveUp, Goto, Knows, TypeOK
    <2> QED
      BY <1>0, <1>8, <2>1, KnowsOfOthers DEF GiveUp, Goto, TypeOK, Pointers
  <1>9. ASSUME NEW g \in Gateway, Link(g) \/ Compare(g) \/ LogLock(g) \/ LogLine(g)
        PROVE  Pointers'
    <2>1. Knows(g)'
      BY <1>0, <1>9 DEF Link, Compare, LogLock, LogLine, Goto, Knows, TypeOK, point
    <2> QED
      BY <1>0, <1>9, <2>1, KnowsOfOthers
      DEF Link, Compare, LogLock, LogLine, Goto, TypeOK, Pointers
  <1>10. ASSUME NEW g \in Gateway, Assign(g) PROVE Pointers'
    <2>1. /\ pc[g] = "assign" /\ pc' = [pc EXCEPT ![g] = "unlock"]
          /\ req' = [req EXCEPT ![g] = None] /\ UNCHANGED entry
      BY <1>10 DEF Assign, Goto
    <2>2. Knows(g)'
      BY <1>0, <2>1 DEF Knows, TypeOK
    <2> QED
      BY <1>0, <2>1, <2>2, KnowsOfOthers DEF TypeOK, Pointers, critical
  <1>11. ASSUME UNCHANGED vars PROVE Pointers'
    BY <1>0, <1>11 DEF vars, Pointers, Knows, Seen, Absence, point, bucket
  <1> QED
    BY <1>1, <1>2, <1>3, <1>4, <1>5, <1>6, <1>7, <1>8, <1>9, <1>10, <1>11 DEF Next, Finish

\* Steps that leave heap and buckets alone, and no thread between Create and Link.
LEMMA ChainsKept ==
    ASSUME OneEntryPerPoint, UNCHANGED <<heap, buckets>>, Linked' = Linked
    PROVE  OneEntryPerPoint'
  BY DEF OneEntryPerPoint, Newest

LEMMA ChainsStep == IInv /\ [Next]_vars => OneEntryPerPoint'
  <1> SUFFICES ASSUME IInv, [Next]_vars PROVE OneEntryPerPoint'
    OBVIOUS
  <1>0. /\ TypeOK /\ Len(heap) \in Nat /\ OneEntryPerPoint
        /\ DOMAIN pc = Gateway /\ \A g \in Gateway : Knows(g)
    BY Heap DEF IInv, Pointers, TypeOK
  <1>1. ASSUME NEW g \in Gateway,
               \/ \E r \in Reading : Call(g, r)
               \/ SayLock(g) \/ SayLine(g) \/ Unlock(g)
        PROVE  OneEntryPerPoint'
    <2>1. UNCHANGED <<heap, buckets>> /\ Linked' = Linked
      BY <1>0, <1>1 DEF Call, SayLock, SayLine, Unlock, Goto, Linked
    <2> QED
      BY <1>0, <2>1, ChainsKept
  <1>2. ASSUME NEW g \in Gateway,
               Lock(g) \/ Walk(g) \/ CreateFails(g) \/ FailLock(g) \/ FailLine(g) \/ GiveUp(g)
        PROVE  OneEntryPerPoint'
    <2>1. UNCHANGED <<heap, buckets>>
      BY <1>2 DEF Lock, Walk, CreateFails, FailLock, FailLine, GiveUp
    <2>2. \A h \in Gateway : pc'[h] = "link" <=> pc[h] = "link"
      BY <1>0, <1>2 DEF Lock, Walk, CreateFails, FailLock, FailLine, GiveUp, Goto
    <2> QED
      BY <1>0, <2>1, <2>2, ChainsKept DEF Linked
  <1>3. ASSUME NEW g \in Gateway, Compare(g) \/ LogLock(g) \/ LogLine(g) PROVE OneEntryPerPoint'
    <2>1. UNCHANGED <<heap, buckets>>
      BY <1>3 DEF Compare, LogLock, LogLine
    <2>2. \A h \in Gateway : pc'[h] = "link" <=> pc[h] = "link"
      BY <1>0, <1>3 DEF Compare, LogLock, LogLine, Goto
    <2> QED
      BY <1>0, <2>1, <2>2, ChainsKept DEF Linked
  <1>4. ASSUME NEW g \in Gateway, Create(g) PROVE OneEntryPerPoint'
    <2>1. pc[g] = "walk" /\ pc' = [pc EXCEPT ![g] = "link"] /\ UNCHANGED <<buckets, req>>
          /\ entry[g] = 0
      BY <1>4 DEF Create, Goto
    <2>2. PICK n \in Nat, k \in Bucket, q \in Nat :
             n = Len(heap) /\ k = bucket(g) /\ q = buckets[k]
      <3>1. bucket(g) \in Bucket
        BY <2>1, HasRequest, PointOfRequest DEF IInv
      <3>2. buckets[bucket(g)] \in 0..Len(heap)
        BY <1>0, <3>1 DEF TypeOK
      <3> QED
        BY <1>0, <3>1, <3>2
    <2>3. /\ Len(heap') = n + 1 /\ heap'[n + 1].point = point(g) /\ heap'[n + 1].next = q
          /\ \A i \in 1..n : heap'[i] = heap[i]
      BY <1>0, <1>4, <2>1, <2>2, HasRequest, Created DEF IInv
    <2>4. Linked = n /\ Linked' = n
      BY <1>0, <2>1, <2>2, <2>3, Alone DEF Linked, critical
    <2>5. \A i \in 1..n : heap[i].point # point(g)
      BY <1>0, <2>1, <2>2 DEF Knows, Seen
    <2>6. \A i, j \in 1..(n + 1) : heap'[i].point = heap'[j].point => i = j
      BY <1>0, <2>2, <2>3, <2>5 DEF OneEntryPerPoint
    <2>7. \A p, b, m : m \in 0..n => (Newest(p, b, m) => Newest(p, b, m)')
      BY <2>3 DEF Newest
    <2>8. \A b \in Bucket : Newest(buckets[b], b, n)
      BY <1>0, <2>4 DEF OneEntryPerPoint
    <2>9. ASSUME NEW i \in 1..(n + 1)
          PROVE  Newest(heap[i].next, point_hash[heap[i].point], i - 1)'
      <3>1. CASE i \in 1..n
        <4>1. Newest(heap[i].next, point_hash[heap[i].point], i - 1)
          BY <1>0, <2>2, <3>1 DEF OneEntryPerPoint
        <4>2. heap'[i].next = heap[i].next /\ heap'[i].point = heap[i].point /\ i - 1 \in 0..n
          BY <2>3, <3>1
        <4> QED
          BY <2>7, <4>1, <4>2
      <3>2. CASE i = n + 1
        <4>1. Newest(q, k, n)'
          BY <2>2, <2>7, <2>8
        <4>2. heap'[i].next = q /\ point_hash[heap'[i].point] = k /\ i - 1 = n
          BY <2>2, <2>3, <3>2 DEF bucket
        <4> QED
          BY <4>1, <4>2
      <3> QED
        BY <3>1, <3>2
    <2> QED
      BY <2>1, <2>3, <2>4, <2>6, <2>7, <2>8, <2>9 DEF OneEntryPerPoint
  <1>5. ASSUME NEW g \in Gateway, Link(g) PROVE OneEntryPerPoint'
    <2> DEFINE n == Len(heap)
    <2>1. /\ pc[g] = "link" /\ pc' = [pc EXCEPT ![g] = "compare"] /\ UNCHANGED <<heap, req>>
          /\ buckets' = [buckets EXCEPT ![bucket(g)] = entry[g]]
      BY <1>5 DEF Link, Goto
    <2>2. entry[g] = n /\ n # 0 /\ point_hash[heap[n].point] = bucket(g)
      BY <1>0, <2>1 DEF Knows, bucket
    <2>3. Linked = n - 1 /\ Linked' = n
      BY <1>0, <2>1, Alone DEF Linked, critical
    <2>4. ASSUME NEW b \in Bucket PROVE Newest(buckets'[b], b, n)
      <3>1. Newest(buckets[b], b, n - 1)
        BY <1>0, <2>3 DEF OneEntryPerPoint
      <3>2. buckets'[b] = IF b = bucket(g) THEN n ELSE buckets[b]
        BY <1>0, <2>1, <2>2 DEF TypeOK
      <3> QED
        BY <1>0, <2>2, <3>1, <3>2 DEF Newest
    <2> QED
      BY <1>0, <2>1, <2>3, <2>4 DEF OneEntryPerPoint, Newest
  <1>6. ASSUME NEW g \in Gateway, Assign(g) PROVE OneEntryPerPoint'
    <2>1. /\ pc[g] = "assign" /\ pc' = [pc EXCEPT ![g] = "unlock"] /\ UNCHANGED buckets
      BY <1>6 DEF Assign, Goto
    <2>2. /\ Len(heap') = Len(heap)
          /\ \A i \in 1..Len(heap) : /\ heap'[i].point = heap[i].point
                                     /\ heap'[i].next = heap[i].next
      BY <1>0, <1>6, <2>1, HasRequest, Assigned DEF IInv, Knows
    <2>3. Linked = Len(heap) /\ Linked' = Len(heap)
      BY <1>0, <2>1, <2>2, Alone DEF Linked, critical
    <2>4. \A p, b, m : m \in 0..Len(heap) => (Newest(p, b, m) => Newest(p, b, m)')
      BY <1>0, <2>2 DEF Newest
    <2> QED
      BY <1>0, <2>1, <2>2, <2>3, <2>4 DEF OneEntryPerPoint
  <1>7. ASSUME UNCHANGED vars PROVE OneEntryPerPoint'
    BY <1>0, <1>7, ChainsKept DEF vars, Linked
  <1> QED
    BY <1>1, <1>2, <1>3, <1>4, <1>5, <1>6, <1>7 DEF Next, Finish

-----------------------------------------------------------------------------
\* The sum of a line with what was told, and the fields of a reading.
LEMMA Told ==
    ASSUME NEW t, NEW e, NEW r \in Reading
    PROVE  /\ Tell(t, e, r).quality = r.quality
           /\ Tell(t, e, r).value = IF r.type = "ENERGY" /\ e.initialized
                                    THEN t.value + (r.value - e.reading.value) ELSE r.value
  BY StoreAssumption DEF Tell

\* Steps that change neither an entry nor what was told, nor who is about to assign.
LEMMA LogKept ==
    ASSUME LogAgrees, ToldIsTable, UNCHANGED <<heap, told>>,
           \A g \in Gateway : pc'[g] = "assign" <=> pc[g] = "assign",
           \A g \in Gateway : pc[g] = "assign" => req'[g] = req[g] /\ entry'[g] = entry[g]
    PROVE  LogAgrees' /\ ToldIsTable'
  BY DEF LogAgrees, ToldIsTable, Agrees, point

LEMMA LogStep == IInv /\ [Next]_vars => LogAgrees' /\ ToldIsTable'
  <1> SUFFICES ASSUME IInv, [Next]_vars PROVE LogAgrees' /\ ToldIsTable'
    OBVIOUS
  <1>0. /\ TypeOK /\ Len(heap) \in Nat /\ LogAgrees /\ ToldIsTable /\ OneEntryPerPoint
        /\ DOMAIN pc = Gateway /\ DOMAIN req = Gateway /\ DOMAIN entry = Gateway
        /\ \A g \in Gateway : Knows(g)
    BY Heap DEF IInv, Pointers, TypeOK
  <1>1. ASSUME NEW g \in Gateway,
               \/ \E r \in Reading : Call(g, r)
               \/ SayLock(g) \/ SayLine(g) \/ Unlock(g)
        PROVE  LogAgrees' /\ ToldIsTable'
    BY <1>0, <1>1, LogKept DEF Call, SayLock, SayLine, Unlock, Goto
  <1>2. ASSUME NEW g \in Gateway, Lock(g) \/ Walk(g) \/ CreateFails(g) \/ Link(g)
        PROVE  LogAgrees' /\ ToldIsTable'
    BY <1>0, <1>2, LogKept DEF Lock, Walk, CreateFails, Link, Goto
  <1>3. ASSUME NEW g \in Gateway, FailLock(g) \/ FailLine(g) \/ GiveUp(g) \/ LogLock(g)
        PROVE  LogAgrees' /\ ToldIsTable'
    BY <1>0, <1>3, LogKept DEF FailLock, FailLine, GiveUp, LogLock, Goto
  <1>4. ASSUME NEW g \in Gateway, Create(g) PROVE LogAgrees' /\ ToldIsTable'
    <2>1. pc[g] = "walk" /\ pc' = [pc EXCEPT ![g] = "link"] /\ UNCHANGED <<req, told>>
      BY <1>4 DEF Create, Goto
    <2>2. PICK n \in Nat : n = Len(heap)
      BY <1>0
    <2>3. /\ Len(heap') = n + 1 /\ ~heap'[n + 1].initialized
          /\ \A i \in 1..n : heap'[i] = heap[i]
      BY <1>0, <1>4, <2>1, <2>2, HasRequest, Created DEF IInv
    <2>4. \A h \in Gateway : pc[h] # "assign" /\ pc'[h] # "assign"
      BY <1>0, <2>1, Alone DEF critical
    <2> QED
      BY <1>0, <2>1, <2>2, <2>3, <2>4 DEF LogAgrees, ToldIsTable, Agrees
  <1>5. ASSUME NEW g \in Gateway, Compare(g) PROVE LogAgrees' /\ ToldIsTable'
    <2>1. /\ pc[g] = "compare" /\ UNCHANGED <<heap, req, entry, told>>
          /\ \A h \in Gateway : h # g => pc[h] # "assign" /\ pc'[h] # "assign"
      BY <1>0, <1>5, Alone DEF Compare, Goto, critical
    <2>2. CASE Changed(heap[entry[g]], req[g]) \/ log_unchanged
      <3>1. pc'[g] = "log"
        BY <1>0, <1>5, <2>2 DEF Compare, Goto
      <3> QED
        BY <1>0, <2>1, <3>1, LogKept
    <2>3. CASE ~(Changed(heap[entry[g]], req[g]) \/ log_unchanged)
      <3>1. pc'[g] = "assign"
        BY <1>0, <1>5, <2>3 DEF Compare, Goto
      <3>2. /\ heap[entry[g]].initialized /\ req[g].type # "ENERGY"
            /\ req[g].type = "YX" => heap[entry[g]].reading.value = req[g].value
            /\ heap[entry[g]].reading.quality = req[g].quality
        BY <2>3 DEF Changed
      <3>3. /\ entry[g] \in 1..Len(heap) /\ heap[entry[g]].point = point(g)
            /\ point(g).type = req[g].type
        BY <1>0, <2>1 DEF Knows, TypeOK, point, PointOf
      <3>4. Agrees(point(g), heap[entry[g]].reading)
        BY <1>0, <2>1, <3>2, <3>3 DEF LogAgrees
      <3>5. Agrees(point(g), req[g])
        BY <3>2, <3>3, <3>4 DEF Agrees
      <3> QED
        BY <1>0, <2>1, <3>1, <3>5 DEF LogAgrees, ToldIsTable, Agrees, point
    <2> QED
      BY <2>2, <2>3
  <1>6. ASSUME NEW g \in Gateway, LogLine(g) PROVE LogAgrees' /\ ToldIsTable'
    <2> DEFINE e == heap[entry[g]]
               r == req[g]
    <2>1. /\ pc[g] = "line" /\ pc'[g] = "assign" /\ UNCHANGED <<heap, req, entry>>
          /\ \A h \in Gateway : h # g => pc[h] # "assign" /\ pc'[h] # "assign"
          /\ told' = IF Changed(e, r) THEN [told EXCEPT ![point(g)] = Tell(@, e, r)] ELSE told
      BY <1>0, <1>6, Alone DEF LogLine, Goto, critical
    <2>2. r \in Reading /\ point(g) \in Points
      BY <2>1, HasRequest, PointOfRequest DEF IInv
    <2>3. /\ entry[g] \in 1..Len(heap) /\ e.point = point(g) /\ point(g).type = r.type
      BY <1>0, <2>1 DEF Knows, TypeOK, point, PointOf
    <2>4. e.initialized => Agrees(point(g), e.reading)
      BY <1>0, <2>1, <2>3 DEF LogAgrees
    <2>5. /\ ToldIsTable' /\ \A k \in Points : k # point(g) => told'[k] = told[k]
      BY <1>0, <2>1, <2>2 DEF ToldIsTable
    <2>6. Agrees(point(g), r)'
      <3>1. CASE Changed(e, r)
        <4>1. told'[point(g)] = Tell(told[point(g)], e, r)
          BY <1>0, <2>1, <2>2, <3>1 DEF ToldIsTable
        <4>2. /\ told'[point(g)].quality = r.quality
              /\ told'[point(g)].value = IF r.type = "ENERGY" /\ e.initialized
                    THEN told[point(g)].value + (r.value - e.reading.value) ELSE r.value
          BY <2>2, <4>1, Told
        <4>3. e.initialized /\ r.type = "ENERGY" => told[point(g)].value = e.reading.value
          BY <2>3, <2>4 DEF Agrees
        <4>4. r.value \in Int /\ e.reading.value \in Int
          BY <1>0, <2>2, <2>3, Heap, StoreAssumption
        <4>5. told'[point(g)].value = r.value
          BY <4>2, <4>3, <4>4
        <4> QED
          BY <2>1, <4>2, <4>5 DEF Agrees, point
      <3>2. CASE ~Changed(e, r)
        <4>1. /\ e.initialized /\ r.type # "ENERGY" /\ e.reading.quality = r.quality
              /\ r.type = "YX" => e.reading.value = r.value
          BY <3>2 DEF Changed
        <4> QED
          BY <2>1, <2>3, <2>4, <3>2, <4>1 DEF Agrees, point
      <3> QED
        BY <3>1, <3>2
    <2>7. ASSUME NEW i \in 1..Len(heap), i # entry[g], heap[i].initialized
          PROVE  Agrees(heap[i].point, heap[i].reading)'
      <3>1. heap[i].point # point(g) /\ heap[i].point \in Points
        BY <1>0, <2>3, <2>7, Heap DEF OneEntryPerPoint
      <3>2. Agrees(heap[i].point, heap[i].reading)
        BY <1>0, <2>1, <2>7 DEF LogAgrees
      <3> QED
        BY <2>1, <2>5, <3>1, <3>2 DEF Agrees
    <2> QED
      BY <2>1, <2>5, <2>6, <2>7 DEF LogAgrees
  <1>7. ASSUME NEW g \in Gateway, Assign(g) PROVE LogAgrees' /\ ToldIsTable'
    <2>1. /\ pc[g] = "assign" /\ UNCHANGED <<entry, told>>
          /\ \A h \in Gateway : pc'[h] # "assign" /\ (h # g => pc[h] # "assign")
      BY <1>0, <1>7, Alone DEF Assign, Goto, critical
    <2>2. /\ Len(heap') = Len(heap) /\ heap'[entry[g]].reading = req[g]
          /\ \A i \in 1..Len(heap) : /\ heap'[i].point = heap[i].point
                                     /\ i # entry[g] => heap'[i] = heap[i]
      BY <1>0, <1>7, <2>1, HasRequest, Assigned DEF IInv, Knows
    <2>3. /\ entry[g] \in 1..Len(heap) /\ heap[entry[g]].point = point(g)
          /\ Agrees(point(g), req[g])
      BY <1>0, <2>1 DEF Knows, TypeOK, LogAgrees
    <2> QED
      BY <1>0, <2>1, <2>2, <2>3 DEF LogAgrees, ToldIsTable, Agrees
  <1>8. ASSUME UNCHANGED vars PROVE LogAgrees' /\ ToldIsTable'
    BY <1>0, <1>8, LogKept DEF vars
  <1> QED
    BY <1>1, <1>2, <1>3, <1>4, <1>5, <1>6, <1>7, <1>8 DEF Next, Finish

-----------------------------------------------------------------------------
LEMMA NextIInv == IInv /\ [Next]_vars => IInv'
  BY TypeStep, RequestsStep, PointersStep, ChainsStep, LogStep DEF IInv

LEMMA Inductive == Spec => []IInv
  BY InitIInv, NextIInv, PTL DEF Spec

\* For any number of gateways: the store mutex is held exactly inside an update, the log
\* mutex exactly around a line, and every pointer stays inside the heap.
THEOREM TypeCorrect == Spec => []TypeOK
  BY Inductive, PTL DEF IInv

\* For any hash and any interleaving: one entry for each point, every one in its chain.
THEOREM ChainsIntact == Spec => []OneEntryPerPoint
  BY Inductive, PTL DEF IInv

\* With one entry for each point, the last reading is that entry's.
LEMMA LastOfEntry ==
    ASSUME IInv, NEW i \in 1..Len(heap)
    PROVE  LastReading(heap[i].point) =
               IF heap[i].initialized THEN heap[i].reading ELSE None
  <1>1. Stored(heap[i].point) = {i}
    BY DEF Stored, IInv, OneEntryPerPoint
  <1> QED
    BY <1>1 DEF LastReading

\* A point without an entry has no last reading.
LEMMA LastOfNone ==
    ASSUME NEW k, \A i \in 1..Len(heap) : heap[i].point # k
    PROVE  LastReading(k) = None
  BY DEF LastReading, Stored

LEMMA LogFromIInv == IInv => LogTellsStore
  <1> SUFFICES ASSUME IInv, NEW k \in Points, LastReading(k) # None,
                      ~(\E g \in Gateway : pc[g] \in critical /\ k.gateway = g)
               PROVE  /\ told[k].quality = LastReading(k).quality
                      /\ k.type \in {"YX", "ENERGY"} => told[k].value = LastReading(k).value
    BY DEF LogTellsStore
  <1>1. PICK i \in 1..Len(heap) : heap[i].point = k
    BY LastOfNone
  <1>2. heap[i].initialized /\ LastReading(k) = heap[i].reading
    BY <1>1, LastOfEntry
  <1>3. ASSUME NEW g \in Gateway, pc[g] = "assign", entry[g] = i PROVE FALSE
    <2>1. k = point(g)
      BY <1>1, <1>3 DEF IInv, Pointers, Knows
    <2> QED
      BY <1>3, <2>1 DEF point, PointOf, critical
  <1>4. Agrees(k, heap[i].reading)
    BY <1>1, <1>2, <1>3 DEF IInv, LogAgrees
  <1> QED
    BY <1>2, <1>4 DEF Agrees

\* For any sequence of readings: the lines of the log agree with the store.
THEOREM LogIsTrue == Spec => []LogTellsStore
  BY Inductive, LogFromIInv, PTL

-----------------------------------------------------------------------------
(***************************************************************************)
(* The refinement.  Only Call, Assign and GiveUp are steps of the table.    *)
(***************************************************************************)
LEMMA TableInit == Init => Table!Init
  <1> SUFFICES ASSUME Init PROVE Table!Init
    OBVIOUS
  <1>1. \A k \in Points : LastReading(k) = None
    BY LastOfNone DEF Init
  <1> QED
    BY <1>1 DEF Init, Table!Init, Table!Points, Points

\* The table does not see a step that keeps the points and readings of the entries.
LEMMA TableKept ==
    ASSUME UNCHANGED heap, NEW k
    PROVE  LastReading(k)' = LastReading(k)
  BY DEF LastReading, Stored

LEMMA TableStep == IInv /\ IInv' /\ [Next]_vars => [Table!Next]_Table!vars
  <1> SUFFICES ASSUME IInv, IInv', [Next]_vars PROVE [Table!Next]_Table!vars
    OBVIOUS
  <1>0. /\ TypeOK /\ Len(heap) \in Nat /\ DOMAIN pc = Gateway
        /\ \A g \in Gateway : Knows(g)
    BY Heap DEF IInv, Pointers, TypeOK
  <1>1. ASSUME NEW g \in Gateway, NEW r \in Reading, Call(g, r) PROVE Table!Next
    <2>1. req[g] = None /\ req' = [req EXCEPT ![g] = r] /\ UNCHANGED heap
      BY <1>1 DEF Call, IInv, Requests
    <2>2. Table!Call(g, r)
      BY <2>1, TableKept DEF Table!Call
    <2> QED
      BY <2>2 DEF Table!Next
  <1>2. ASSUME NEW g \in Gateway,
               \/ Lock(g) \/ Walk(g) \/ CreateFails(g) \/ FailLock(g) \/ FailLine(g) \/ Link(g)
               \/ Compare(g) \/ LogLock(g) \/ LogLine(g) \/ Unlock(g)
               \/ SayLock(g) \/ SayLine(g)
        PROVE  UNCHANGED Table!vars
    <2>1. UNCHANGED <<heap, req>>
      BY <1>2 DEF Lock, Walk, CreateFails, FailLock, FailLine, Link, Compare, LogLock,
                  LogLine, Unlock, SayLock, SayLine
    <2> QED
      BY <2>1, TableKept DEF Table!vars
  <1>3. ASSUME NEW g \in Gateway, Create(g) PROVE UNCHANGED Table!vars
    <2>1. pc[g] = "walk" /\ entry[g] = 0 /\ UNCHANGED req
      BY <1>3 DEF Create
    <2>2. PICK n \in Nat : n = Len(heap)
      BY <1>0
    <2>3. /\ Len(heap') = n + 1 /\ ~heap'[n + 1].initialized
          /\ \A i \in 1..n : heap'[i] = heap[i]
      BY <1>0, <1>3, <2>1, <2>2, HasRequest, Created DEF IInv
    <2>4. ASSUME NEW k \in Points PROVE LastReading(k)' = LastReading(k)
      <3>1. CASE \E i \in 1..n : heap[i].point = k
        <4>1. PICK i \in 1..n : heap[i].point = k
          BY <3>1
        <4>2. Stored(k) = {i} /\ Stored(k)' = {i}
          BY <2>2, <2>3, <4>1 DEF IInv, OneEntryPerPoint, Stored
        <4> QED
          BY <2>3, <4>2 DEF LastReading
      <3>2. CASE \A i \in 1..n : heap[i].point # k
        <4>1. Stored(k) = {} /\ Stored(k)' \subseteq {n + 1}
          BY <2>2, <2>3, <3>2 DEF Stored
        <4> QED
          BY <2>3, <4>1 DEF LastReading
      <3> QED
        BY <3>1, <3>2
    <2> QED
      BY <2>1, <2>4 DEF Table!vars
  <1>4. ASSUME NEW g \in Gateway, Assign(g) PROVE Table!Next
    <2>1. /\ pc[g] = "assign" /\ req[g] # None /\ req' = [req EXCEPT ![g] = None]
      BY <1>4 DEF Assign, IInv, Requests
    <2>2. req[g] \in Reading /\ point(g) \in Points
      BY <2>1, HasRequest, PointOfRequest DEF IInv
    <2>3. PICK n \in Nat, p \in Nat, r \in Reading, K \in Points :
             /\ n = Len(heap) /\ p = entry[g] /\ p \in 1..n
             /\ r = req[g] /\ K = point(g) /\ heap[p].point = K
      BY <1>0, <2>1, <2>2 DEF Knows, TypeOK
    <2>4. heap'[p].initialized /\ heap'[p].reading = r
      BY <1>0, <1>4, <2>1, <2>2, <2>3, Assigned DEF Knows
    <2>5. /\ Len(heap') = n
          /\ \A i \in 1..n : heap'[i].point = heap[i].point
          /\ \A i \in 1..n : i # p => heap'[i] = heap[i]
      BY <1>0, <1>4, <2>1, <2>2, <2>3, Assigned DEF Knows
    <2>6. LastReading(K)' = r
      <3>1. Stored(K)' = {p}
        BY <2>3, <2>5 DEF IInv, OneEntryPerPoint, Stored
      <3>2. /\ \E q \in Stored(K)' : heap'[q].initialized
            /\ (CHOOSE q \in Stored(K)' : heap'[q].initialized) = p
        BY <2>4, <3>1
      <3> QED
        BY <2>4, <3>2 DEF LastReading
    <2>7. ASSUME NEW k \in Points, k # K PROVE LastReading(k)' = LastReading(k)
      <3>1. \A q \in 1..n : heap'[q].point = k <=> heap[q].point = k
        BY <2>5
      <3>2. Stored(k)' = Stored(k)
        BY <2>3, <2>5, <3>1 DEF Stored
      <3>3. \A q \in Stored(k) : heap'[q] = heap[q]
        BY <2>3, <2>5, <2>7 DEF Stored
      <3>4. (\E q \in Stored(k)' : heap'[q].initialized) <=> (\E q \in Stored(k) : heap[q].initialized)
        BY <3>2, <3>3
      <3>5. (CHOOSE q \in Stored(k)' : heap'[q].initialized)
               = (CHOOSE q \in Stored(k) : heap[q].initialized)
        BY <3>2, <3>3
      <3>6. (\E q \in Stored(k) : heap[q].initialized) =>
               (CHOOSE q \in Stored(k) : heap[q].initialized) \in Stored(k)
        OBVIOUS
      <3> QED
        BY <3>3, <3>4, <3>5, <3>6 DEF LastReading
    <2>8. [k \in Points |-> LastReading(k)]' =
             [[k \in Points |-> LastReading(k)] EXCEPT ![PointOf(g, req[g])] = req[g]]
      BY <2>2, <2>3, <2>6, <2>7 DEF point
    <2>9. Table!Apply(g)
      BY <2>1, <2>8 DEF Table!Apply
    <2> QED
      BY <2>9 DEF Table!Next
  <1>5. ASSUME NEW g \in Gateway, GiveUp(g) PROVE Table!Next
    <2>1. /\ pc[g] = "giveup" /\ req[g] # None /\ req' = [req EXCEPT ![g] = None]
          /\ UNCHANGED heap
      BY <1>5 DEF GiveUp, IInv, Requests
    <2>2. PointOf(g, req[g]) \in Points
      BY <2>1, HasRequest, PointOfRequest DEF IInv, point
    <2>3. LastReading(PointOf(g, req[g])) = None
      BY <1>0, <2>1, LastOfNone DEF Knows, Absence, point
    <2>4. Table!OutOfMemory(g)
      BY <2>1, <2>2, <2>3, TableKept DEF Table!OutOfMemory
    <2> QED
      BY <2>4 DEF Table!Next
  <1>6. ASSUME UNCHANGED vars PROVE UNCHANGED Table!vars
    BY <1>6, TableKept DEF vars, Table!vars
  <1> QED
    BY <1>1, <1>2, <1>3, <1>4, <1>5, <1>6 DEF Next, Finish

\* The store implements the atomic table for any number of threads, buckets and entries:
\* an update takes effect at Assign, or not at all when there is no memory for its point.
THEOREM StoreImplementsTable == Spec => ImplementsTable
  <1>1. Init => Table!Init
    BY TableInit
  <1>2. IInv /\ IInv' /\ [Next]_vars => [Table!Next]_Table!vars
    BY TableStep
  <1> QED
    BY <1>1, <1>2, Inductive, PTL DEF Spec, ImplementsTable, Table!Spec
===============================================================================
