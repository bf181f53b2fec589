----------------------------- MODULE PointStore -----------------------------
(***************************************************************************)
(* The point store (src/point_store/point_store.c) under the gateway        *)
(* threads that share it, and the log mutex (src/logging/logging.c) they    *)
(* take inside its critical section and outside it.                         *)
(*                                                                          *)
(* point_store_update_yx, _yc and _energy are the same protocol: lock, walk *)
(* the chain of the bucket, create the entry if it is missing, compare with *)
(* the entry, write a log line, overwrite the entry, unlock.  They differ   *)
(* in when a line is written.  Numbers are integers; EPS stands for the     *)
(* tolerance 0.000001 of a YC comparison.                                   *)
(*                                                                          *)
(* debug_level is info or detail: a line about a change is written.         *)
(***************************************************************************)
EXTENDS Integers, Sequences

CONSTANTS
    Gateway,            \* the gateways, one thread each, with different names
    Reading,            \* [type, address, value, quality] that may arrive
    Bucket, point_hash, \* the bucket of a point
    EPS,
    HEAP_MAX,           \* entries calloc can provide
    log_unchanged,      \* log_unchanged_yx, log_all_yc
    None

VARIABLES
    mutex,      \* owner of store->mutex, or None
    buckets,    \* first entry of each chain, 0 for NULL
    heap,       \* the entries ever allocated; an entry is its index
    pc, req,    \* of each thread: next step, and the reading it stores
    entry,      \* of each thread: the pointer it walks with
    log_mutex,  \* owner of g_log_mutex, or None
    told        \* history: what the log's lines say of a point

vars == <<mutex, buckets, heap, pc, req, entry, log_mutex, told>>

PointOf(g, r) == [gateway |-> g, type |-> r.type, address |-> r.address]
Points == {PointOf(g, r) : g \in Gateway, r \in Reading}
Pointer == 0..HEAP_MAX
Entry == [point : Points, initialized : BOOLEAN, reading : Reading, next : Pointer]

ASSUME StoreAssumption ==
    /\ \A r \in Reading :
          /\ r = [type |-> r.type, address |-> r.address, value |-> r.value, quality |-> r.quality]
          /\ r.type \in {"YX", "YC", "ENERGY"} /\ r.value \in Int
    /\ point_hash \in [Points -> Bucket]
    /\ EPS \in Nat /\ HEAP_MAX \in Nat /\ log_unchanged \in BOOLEAN
    /\ None \notin Gateway /\ None \notin Reading

Init ==
    /\ mutex = None /\ log_mutex = None
    /\ buckets = [b \in Bucket |-> 0] /\ heap = <<>>
    /\ pc = [g \in Gateway |-> "idle"]
    /\ req = [g \in Gateway |-> None]
    /\ entry = [g \in Gateway |-> 0]
    /\ told = [k \in Points |-> None]

point(g) == PointOf(g, req[g])
bucket(g) == point_hash[point(g)]
Goto(g, label) == pc' = [pc EXCEPT ![g] = label]

(***************************************************************************)
(* One update.  A definition whose name ends in _faulty is its neighbour    *)
(* with a plausible mistake; it serves only to check the properties.        *)
(***************************************************************************)
Call(g, r) ==
    /\ pc[g] = "idle"
    /\ req' = [req EXCEPT ![g] = r]
    /\ Goto(g, "lock")
    /\ UNCHANGED <<mutex, buckets, heap, entry, log_mutex, told>>

Free(m) == m = None

Lock_faulty(g) ==
    /\ pc[g] = "lock"
    /\ entry' = [entry EXCEPT ![g] = buckets[bucket(g)]]
    /\ Goto(g, "walk")
    /\ UNCHANGED <<mutex, buckets, heap, req, log_mutex, told>>
Lock(g) ==
    /\ pc[g] = "lock" /\ Free(mutex)
    /\ mutex' = g
    /\ entry' = [entry EXCEPT ![g] = buckets[bucket(g)]]
    /\ Goto(g, "walk")
    /\ UNCHANGED <<buckets, heap, req, log_mutex, told>>

\* The four comparisons of get_or_create.
SamePoint_faulty(e, k) == e.point.type = k.type /\ e.point.address = k.address
SamePoint(e, k) ==
    /\ e.point.type = k.type
    /\ e.point.gateway = k.gateway
    /\ e.point.address = k.address

Walk(g) ==
    /\ pc[g] = "walk" /\ entry[g] # 0
    /\ IF SamePoint(heap[entry[g]], point(g))
       THEN Goto(g, "compare") /\ UNCHANGED entry
       ELSE /\ entry' = [entry EXCEPT ![g] = heap[entry[g]].next]
            /\ UNCHANGED pc
    /\ UNCHANGED <<mutex, buckets, heap, req, log_mutex, told>>

\* calloc, and the fields up to next.
Create(g) ==
    /\ pc[g] = "walk" /\ entry[g] = 0 /\ Len(heap) < HEAP_MAX
    /\ heap' = Append(heap, [point |-> point(g), initialized |-> FALSE,
                             reading |-> req[g], next |-> buckets[bucket(g)]])
    /\ entry' = [entry EXCEPT ![g] = Len(heap')]
    /\ Goto(g, "link")
    /\ UNCHANGED <<mutex, buckets, req, log_mutex, told>>

\* calloc fails: get_or_create writes an error line, the update unlocks and returns.
CreateFails(g) ==
    /\ pc[g] = "walk" /\ entry[g] = 0
    /\ Goto(g, "fail")
    /\ UNCHANGED <<mutex, buckets, heap, req, entry, log_mutex, told>>

FailLock(g) ==
    /\ pc[g] = "fail" /\ Free(log_mutex)
    /\ log_mutex' = g
    /\ Goto(g, "failline")
    /\ UNCHANGED <<mutex, buckets, heap, req, entry, told>>

FailLine(g) ==
    /\ pc[g] = "failline"
    /\ log_mutex' = None
    /\ Goto(g, "giveup")
    /\ UNCHANGED <<mutex, buckets, heap, req, entry, told>>

GiveUp_faulty(g) ==
    /\ pc[g] = "giveup"
    /\ req' = [req EXCEPT ![g] = None]
    /\ Goto(g, "idle")
    /\ UNCHANGED <<mutex, buckets, heap, entry, log_mutex, told>>
GiveUp(g) ==
    /\ pc[g] = "giveup"
    /\ mutex' = None
    /\ req' = [req EXCEPT ![g] = None]
    /\ Goto(g, "idle")
    /\ UNCHANGED <<buckets, heap, entry, log_mutex, told>>

Link(g) ==
    /\ pc[g] = "link"
    /\ buckets' = [buckets EXCEPT ![bucket(g)] = entry[g]]
    /\ Goto(g, "compare")
    /\ UNCHANGED <<mutex, heap, req, entry, log_mutex, told>>

Distance(a, b) == IF a > b THEN a - b ELSE b - a

\* An energy reading always gets a line, with or without a spike.
Changed_faulty(e, r) ==
    \/ ~e.initialized
    \/ r.type = "ENERGY"
    \/ r.type = "YX" /\ e.reading.value # r.value
    \/ r.type = "YC" /\ Distance(e.reading.value, r.value) > EPS
Changed(e, r) ==
    \/ ~e.initialized
    \/ r.type = "ENERGY"
    \/ r.type = "YX" /\ e.reading.value # r.value
    \/ r.type = "YC" /\ Distance(e.reading.value, r.value) > EPS
    \/ e.reading.quality # r.quality

\* What a line adds to what the log says of a point: YX and YC lines carry the reading;
\* energy lines carry a delta, added up here from the first value.
Tell(t, e, r) ==
    IF r.type = "ENERGY" /\ e.initialized
    THEN [r EXCEPT !.value = t.value + (r.value - e.reading.value)]
    ELSE r

Compare(g) ==
    /\ pc[g] = "compare"
    /\ Goto(g, IF Changed(heap[entry[g]], req[g]) \/ log_unchanged THEN "log" ELSE "assign")
    /\ UNCHANGED <<mutex, buckets, heap, req, entry, log_mutex, told>>

LogLock(g) ==
    /\ pc[g] = "log" /\ Free(log_mutex)
    /\ log_mutex' = g
    /\ Goto(g, "line")
    /\ UNCHANGED <<mutex, buckets, heap, req, entry, told>>

LogLine_faulty(g) ==
    /\ pc[g] = "line"
    /\ Goto(g, "assign")
    /\ told' = IF Changed(heap[entry[g]], req[g])
               THEN [told EXCEPT ![point(g)] = Tell(@, heap[entry[g]], req[g])]
               ELSE told
    /\ UNCHANGED <<mutex, buckets, heap, req, entry, log_mutex>>
LogLine(g) ==
    /\ pc[g] = "line"
    /\ log_mutex' = None
    /\ Goto(g, "assign")
    /\ told' = IF Changed(heap[entry[g]], req[g])
               THEN [told EXCEPT ![point(g)] = Tell(@, heap[entry[g]], req[g])]
               ELSE told
    /\ UNCHANGED <<mutex, buckets, heap, req, entry>>

Assign(g) ==
    /\ pc[g] = "assign"
    /\ heap' = [heap EXCEPT ![entry[g]].initialized = TRUE, ![entry[g]].reading = req[g]]
    /\ req' = [req EXCEPT ![g] = None]
    /\ Goto(g, "unlock")
    /\ UNCHANGED <<mutex, buckets, entry, log_mutex, told>>

Unlock(g) ==
    /\ pc[g] = "unlock"
    /\ mutex' = None
    /\ Goto(g, "idle")
    /\ UNCHANGED <<buckets, heap, req, entry, log_mutex, told>>

(***************************************************************************)
(* A log line of the session itself, outside the store.                     *)
(***************************************************************************)
SayLock(g) ==
    /\ pc[g] = "idle" /\ Free(log_mutex)
    /\ log_mutex' = g
    /\ Goto(g, "say")
    /\ UNCHANGED <<mutex, buckets, heap, req, entry, told>>

SayLine(g) ==
    /\ pc[g] = "say"
    /\ log_mutex' = None
    /\ Goto(g, "idle")
    /\ UNCHANGED <<mutex, buckets, heap, req, entry, told>>

Finish(g) ==
    \/ Lock(g) \/ Walk(g) \/ Create(g) \/ CreateFails(g) \/ Link(g) \/ Compare(g)
    \/ FailLock(g) \/ FailLine(g) \/ GiveUp(g)
    \/ LogLock(g) \/ LogLine(g) \/ Assign(g) \/ Unlock(g) \/ SayLine(g)

Next == \E g \in Gateway : (\E r \in Reading : Call(g, r)) \/ SayLock(g) \/ Finish(g)

Spec == Init /\ [][Next]_vars

(***************************************************************************)
(* Threads are scheduled; a mutex goes to some waiting thread in the end,   *)
(* but POSIX does not promise it to a particular one.  SayLock and Call are *)
(* the session's choice.  A thread that waits for the log inside the store  *)
(* does get it when it is free infinitely often.                            *)
(***************************************************************************)
FairSpec == Spec /\ \A g \in Gateway : WF_vars(Finish(g)) /\ SF_vars(LogLock(g) \/ FailLock(g))

(***************************************************************************)
(* Properties.                                                              *)
(***************************************************************************)
critical ==
    {"walk", "fail", "failline", "giveup", "link", "compare", "log", "line", "assign", "unlock"}

\* Types; the store mutex is held exactly by the thread inside an update, on every way
\* out of it, and the log mutex by the thread that writes a line.
TypeOK ==
    /\ buckets \in [Bucket -> 0..Len(heap)]
    /\ heap \in Seq(Entry) /\ Len(heap) <= HEAP_MAX
    /\ pc \in [Gateway -> critical \cup {"idle", "lock", "say"}]
    /\ req \in [Gateway -> Reading \cup {None}]
    /\ entry \in [Gateway -> 0..Len(heap)]
    /\ mutex \in Gateway \cup {None} /\ log_mutex \in Gateway \cup {None}
    /\ \A g \in Gateway :
          /\ mutex = g <=> pc[g] \in critical
          /\ log_mutex = g <=> pc[g] \in {"line", "failline", "say"}

Stored(k) == {p \in 1..Len(heap) : heap[p].point = k}

\* p is the newest of the first n entries that belong to bucket b; 0 when there is none.
Newest(p, b, n) ==
    /\ p \in 0..n
    /\ p # 0 => point_hash[heap[p].point] = b
    /\ \A i \in 1..n : i > p => point_hash[heap[i].point] # b

\* The entries that Link has put into their chain.
Linked == IF \E g \in Gateway : pc[g] = "link" THEN Len(heap) - 1 ELSE Len(heap)

\* Two threads never create two entries for one point, and no entry drops out of its
\* chain: from the bucket every entry points to the next older one.  A reading would else
\* be compared with the wrong entry.
OneEntryPerPoint ==
    /\ \A i, j \in 1..Len(heap) : heap[i].point = heap[j].point => i = j
    /\ \A i \in 1..Len(heap) : Newest(heap[i].next, point_hash[heap[i].point], i - 1)
    /\ \A b \in Bucket : Newest(buckets[b], b, Linked)

LastReading(k) ==
    IF \E p \in Stored(k) : heap[p].initialized
    THEN heap[CHOOSE p \in Stored(k) : heap[p].initialized].reading
    ELSE None

\* The store is the table of module PointTable, whatever the threads' interleaving and
\* wherever the hash puts the points.
Table == INSTANCE PointTable WITH
    Absent <- None,
    table <- [k \in Points |-> LastReading(k)],
    pending <- req
ImplementsTable == Table!Spec

\* The log is the program's only output.  Outside an update it agrees with the store: the
\* last YX line shows the point's value, YX and YC lines its quality, and the deltas of
\* the energy lines add up to the counter.
LogTellsStore ==
    \A k \in Points :
        LET r == LastReading(k) IN
        r # None /\ ~(\E g \in Gateway : pc[g] \in critical /\ k.gateway = g) =>
            /\ told[k].quality = r.quality
            /\ k.type \in {"YX", "ENERGY"} => told[k].value = r.value

\* The store never stays locked: also not when a thread waits for the log inside it, or
\* leaves early.
StoreIsReleased == mutex # None ~> mutex = None
=============================================================================
