--------------------------------- MODULE Link ---------------------------------
(***************************************************************************)
(* The data path of one connection, from iec104_connect_with_timeout to the *)
(* point table: connecting (src/iec104/iec104_io.c), writing STARTDT_ACT,   *)
(* reading frames as module ApduReader has it, parsing the ASDU of each I   *)
(* frame as module Asdu has it, the updates it makes one by one, and close. *)
(*                                                                          *)
(* A host is the list of its addresses (one, when it is written as an       *)
(* address), and each address answers in one way.  The point store is the   *)
(* table of module PointTable, which module PointStore implements: the      *)
(* other gateways use other points.  Sequence numbers, acknowledgements and *)
(* timers are module Session's.  debug_level is detail.                     *)
(***************************************************************************)
EXTENDS ApduReader, Asdu

CONSTANTS
    Hosts,              \* lists of answers
    MAX_ATTEMPTS,       \* calls of iec104_connect_with_timeout
    CONTROL,            \* bytes of the control fields, before the ASDU: 4
    U_FRAME,            \* bytes of STARTDT_ACT: 6
    abs_threshold, rate_threshold,  \* doubles, as config_parse_double_min stores them:
                        \* infinity is a number that no quotient of two counters reaches
    PRECISION,          \* a quotient is rounded by at most one part in it: 2^53
    sent                \* what the gateway means by a frame body (SentAssumption): updates, in order

ASSUME LinkAssumption ==
    /\ \A h \in Hosts : h # <<>> /\ h \in Seq(
          {"accepts", "accepts later", "refuses", "refuses later", "is silent"})
    /\ MAX_ATTEMPTS \in Nat \ {0} /\ CONTROL \in Nat /\ U_FRAME \in Nat \ {0}
    /\ PRECISION \in Nat \ {0}
    /\ {abs_threshold, rate_threshold} \subseteq [m : Nat, e : Int] \cup {NaN}
    /\ \A ms \in Messages : \A i \in DOMAIN ms : ms[i] \in DOMAIN sent

VARIABLES
    link,       \* "resolve", "socket", "nonblocking", "connect", "poll", "close", "next",
                \* "failed", "startdt", "connected" or "closed"
    host,       \* the addresses of gateway->slave_host
    tried,      \* addresses tried in this call
    attempts,   \* history: calls made since the last success
    sockets,    \* history: descriptors open
    ready,      \* the socket is blocking again and has its two timeouts
    fault,      \* history: in this call, a system call failed or was interrupted
    written,    \* sent of iec104_write_all
    updates,    \* the updates of the ASDU at hand still to make
    table,      \* the entries of this gateway, and what the log says of them
    time_lines  \* history: for each update made, the time in its DEBUG line, or None

connect_vars == <<link, host, tried, attempts, sockets, ready, fault, written>>
link_vars == <<vars, connect_vars, updates, table, time_lines>>

LinkInit ==
    /\ Init
    /\ link = "resolve" /\ host \in Hosts /\ tried = 0 /\ attempts = 1
    /\ sockets = 0 /\ ready = FALSE /\ fault = FALSE /\ written = 0
    /\ updates = <<>> /\ table = <<>> /\ time_lines = <<>>

(***************************************************************************)
(* iec104_connect_with_timeout and connect_sockaddr_with_timeout.           *)
(***************************************************************************)
Connecting == UNCHANGED <<vars, host, written, updates, table, time_lines>>
Leave(label) == link' = label /\ UNCHANGED <<tried, attempts, ready, fault>>

\* inet_pton or getaddrinfo.
Resolve ==
    /\ link = "resolve"
    /\ \/ link' = "socket" /\ UNCHANGED fault
       \/ link' = "failed" /\ fault' = TRUE
    /\ Connecting /\ UNCHANGED <<tried, attempts, sockets, ready>>

OpenSocket ==
    /\ link = "socket"
    /\ \/ link' = "nonblocking" /\ sockets' = sockets + 1 /\ UNCHANGED fault
       \/ link' = "next" /\ fault' = TRUE /\ UNCHANGED sockets
    /\ Connecting /\ UNCHANGED <<tried, attempts, ready>>

SetNonblocking ==
    /\ link = "nonblocking"
    /\ \/ link' = "connect" /\ UNCHANGED fault
       \/ link' = "close" /\ fault' = TRUE
    /\ Connecting /\ UNCHANGED <<tried, attempts, sockets, ready>>

answer == host[tried + 1]

\* The call succeeds: set_blocking and set_socket_timeouts, whose results are not looked
\* at; the locals of the call are gone.
Use ==
    /\ link' = "startdt" /\ ready' = TRUE
    /\ tried' = 0 /\ attempts' = 0 /\ fault' = FALSE

StartConnect ==
    /\ link = "connect"
    /\ CASE answer = "accepts" -> Use
         [] answer = "refuses" -> Leave("close")
         [] OTHER              -> Leave("poll")
    /\ Connecting /\ UNCHANGED sockets

\* Writable, with SO_ERROR 0 or another; or connect_timeout_sec is over.
Poll ==
    /\ link = "poll"
    /\ IF answer = "accepts later" THEN Use ELSE Leave("close")
    /\ Connecting /\ UNCHANGED sockets

\* poll is not repeated after a signal.
PollInterrupted ==
    /\ link = "poll" /\ ~running
    /\ link' = "close" /\ fault' = TRUE
    /\ Connecting /\ UNCHANGED <<tried, attempts, sockets, ready>>

CloseSocket_faulty ==
    /\ link = "close"
    /\ sockets' = IF fault THEN sockets ELSE sockets - 1
    /\ link' = "next"
    /\ Connecting /\ UNCHANGED <<tried, attempts, ready, fault>>
CloseSocket ==
    /\ link = "close"
    /\ sockets' = sockets - 1
    /\ link' = "next"
    /\ Connecting /\ UNCHANGED <<tried, attempts, ready, fault>>

MoreAddresses_faulty == FALSE
MoreAddresses == tried + 1 < Len(host)

NextAddress ==
    /\ link = "next"
    /\ IF MoreAddresses THEN tried' = tried + 1 /\ link' = "socket"
                        ELSE link' = "failed" /\ UNCHANGED tried
    /\ Connecting /\ UNCHANGED <<attempts, sockets, ready, fault>>

\* session_loop returns, and the gateway thread calls it again after its pause.
Retry ==
    /\ link = "failed" /\ attempts < MAX_ATTEMPTS /\ running
    /\ link' = "resolve" /\ tried' = 0 /\ attempts' = attempts + 1 /\ fault' = FALSE
    /\ UNCHANGED <<vars, host, sockets, ready, written, updates, table, time_lines>>

(***************************************************************************)
(* iec104_write_all of the first frame: send may take part of it.  EINTR    *)
(* changes nothing.                                                         *)
(***************************************************************************)
Send_faulty ==
    /\ link = "startdt"
    /\ \E k \in 1..(U_FRAME - written) : written' = written + k
    /\ link' = "connected"
    /\ UNCHANGED <<vars, host, tried, attempts, sockets, ready, fault, updates, table, time_lines>>
Send ==
    /\ link = "startdt"
    /\ \E k \in 1..(U_FRAME - written) : written' = written + k
    /\ link' = IF written' = U_FRAME THEN "connected" ELSE link
    /\ UNCHANGED <<vars, host, tried, attempts, sockets, ready, fault, updates, table, time_lines>>

SendFails ==
    /\ link = "startdt"
    /\ link' = "closed" /\ sockets' = sockets - 1 /\ ready' = FALSE
    /\ UNCHANGED <<vars, host, tried, attempts, fault, written, updates, table, time_lines>>

(***************************************************************************)
(* The session reads a frame; the ASDU of an I frame is parsed and its      *)
(* updates made before the next read.                                       *)
(***************************************************************************)
IsIFrame(body) == body[1] % 2 = 0
Readings(body) ==
    IF IsIFrame(body) THEN iec104_parse_asdu(SubSeq(body, CONTROL + 1, Len(body))) ELSE <<>>

\* What a gateway means by a frame is what its bytes carry.
Means(body, us) ==
    LET a == SubSeq(body, CONTROL + 1, Len(body)) IN
    IF us = <<>> THEN ~IsIFrame(body) \/ CarriesNothing(a) ELSE IsIFrame(body) /\ Carries(a, us)

ASSUME SentAssumption == \A ms \in Messages : \A i \in DOMAIN ms : Means(ms[i], sent[ms[i]])

Network ==
    /\ link = "connected" /\ (Arrive \/ PeerCloses)
    /\ UNCHANGED <<connect_vars, updates, table, time_lines>>

StopSignal == link # "closed" /\ Signal /\ UNCHANGED <<connect_vars, updates, table, time_lines>>

ReadStep ==
    /\ link = "connected" /\ updates = <<>> /\ Reader
    /\ updates' = IF handled' = handled THEN <<>> ELSE Readings(Last(handled'))
    /\ UNCHANGED <<connect_vars, table, time_lines>>

CloseLink ==
    /\ link = "connected" /\ pc = "closed" /\ updates = <<>>
    /\ link' = "closed" /\ sockets' = sockets - 1 /\ ready' = FALSE
    /\ UNCHANGED <<vars, host, tried, attempts, fault, written, updates, table, time_lines>>

(***************************************************************************)
(* point_store_update_yx, _yc and _energy on the table, with the line each  *)
(* writes: an entry keeps the last reading, and what the log last said.     *)
(***************************************************************************)
Abs(n) == IF n < 0 THEN -n ELSE n
Exp2[n \in Nat] == IF n = 0 THEN 1 ELSE 2 * Exp2[n - 1]

\* fabs(a - b) as a number of units, a power of two that both are multiples of and 1 is;
\* and the largest such number that is not above times * 0.000001.
Unit(a, b) == Min({a.e, b.e, 0})
Units(a, b) == Abs(a.m * Exp2[a.e - Unit(a, b)] - b.m * Exp2[b.e - Unit(a, b)])
Tolerance(a, b, times) == (times * Exp2[-Unit(a, b)]) \div 1000000

\* Every comparison with NaN is false.
Differs_faulty(a, b) == a # NaN /\ b # NaN /\ Units(a, b) > Tolerance(a, b, 4)
Differs(a, b) == a # NaN /\ b # NaN /\ Units(a, b) > Tolerance(a, b, 1)

\* a / b >= d for b > 0; with b = 0, a >= 0.
AtLeast(a, b, d) ==
    LET low == Min({d.e, 0}) IN
    d # NaN /\ a * Exp2[-low] >= d.m * Exp2[d.e - low] * b

\* The three conditions.  A difference of two counters is exact.  A quotient is rounded: at
\* or above the rate it stays there, and from below it gets there by one part in PRECISION
\* at most (slack).  The divisor value + 0.000001 is rounded too; it, and the quotient, act
\* as value and between 1 and 3 (half) halves of 0.000001.
Differ(previous, value) == AtLeast(Abs(value - previous), 1, abs_threshold)
Rise(previous, value, slack) ==
    previous > 0 /\ AtLeast(value * PRECISION, previous * (PRECISION - slack), rate_threshold)
Drop(previous, value, half) ==
    previous > 0 /\ value >= 0 /\ AtLeast(2000000 * previous, 2000000 * value + half, rate_threshold)

\* The verdicts that the arithmetic of doubles may reach.
Spike_faulty(previous, value) ==
    LET surely  == Differ(previous, value) \/ Rise(previous, value, 0)
        perhaps == Differ(previous, value) \/ Rise(previous, value, 1)
    IN  {warn \in BOOLEAN : (surely => warn) /\ (warn => perhaps)}
Spike(previous, value) ==
    LET surely  == Differ(previous, value) \/ Rise(previous, value, 0) \/ Drop(previous, value, 3)
        perhaps == Differ(previous, value) \/ Rise(previous, value, 1) \/ Drop(previous, value, 1)
    IN  {warn \in BOOLEAN : (surely => warn) /\ (warn => perhaps)}

\* The level of the line an update may write.
Lines(u) ==
    IF u.point \notin DOMAIN table THEN {"INFO"}
    ELSE LET e == table[u.point]
             InfoIf(changed) == {IF e.quality # u.quality \/ changed THEN "INFO" ELSE "none"}
         IN  CASE u.point.type = "YX" -> InfoIf(e.value # u.value)
               [] u.point.type = "YC" -> InfoIf(Differs(e.value, u.value))
               [] u.point.type = "ENERGY" ->
                     {IF warn THEN "WARN" ELSE "INFO" : warn \in Spike(e.value, u.value)}

\* An entry after an update: the reading, and told, the reading and level of the last
\* line; quiet counts the updates since, and blind tells whether one of them, or the line
\* itself, was about a NaN.  updated_at, the time of day of the update, is read nowhere.
EntryAfter(u, line) ==
    IF line = "none"
    THEN [table[u.point] EXCEPT !.value = u.value, !.quiet = @ + 1, !.blind = @ \/ u.value = NaN]
    ELSE [value |-> u.value, quality |-> u.quality,
          told |-> u.value, level |-> line, quiet |-> 0, blind |-> (u.value = NaN)]

\* One object: the store, which is not given the time tag, and then log_object_time.
Update ==
    /\ link = "connected" /\ updates # <<>>
    /\ LET u == Head(updates) IN
       /\ \E line \in Lines(u) :
             table' = [p \in DOMAIN table \cup {u.point} |->
                          IF p = u.point THEN EntryAfter(u, line) ELSE table[p]]
       /\ time_lines' = Append(time_lines, u.time)
    /\ updates' = Tail(updates)
    /\ UNCHANGED <<vars, connect_vars>>

LinkTerminated ==
    /\ link = "closed" \/ (link = "failed" /\ (attempts = MAX_ATTEMPTS \/ ~running))
    /\ UNCHANGED link_vars

LinkWaiting == link = "connected" /\ updates = <<>> /\ Waiting /\ UNCHANGED link_vars

Thread ==
    \/ Resolve \/ OpenSocket \/ SetNonblocking \/ StartConnect \/ Poll \/ PollInterrupted
    \/ CloseSocket \/ NextAddress \/ Send \/ SendFails
    \/ ReadStep \/ Update \/ CloseLink

LinkNext == Thread \/ Retry \/ Network \/ StopSignal \/ LinkWaiting \/ LinkTerminated

\* The thread is scheduled, and each system call of connecting and writing returns.
LinkSpec == LinkInit /\ [][LinkNext]_link_vars /\ WF_link_vars(Thread)

(***************************************************************************)
(* Properties.                                                              *)
(***************************************************************************)
\* While a call connects it holds at most the one socket of the address it tries; whatever
\* failed or was interrupted, a call that fails leaves none, and a session that starts has
\* exactly one, ready for blocking reads with timeouts.
OneSocket ==
    /\ sockets = IF link \in {"resolve", "socket", "next", "failed", "closed"} THEN 0 ELSE 1
    /\ ready <=> link \in {"startdt", "connected"}

\* A gateway that can be reached at any of its addresses is reached: one call tries them
\* all before it fails, unless a system call failed it.
ReachableConnected ==
    link = "failed" /\ ~fault =>
        \A i \in DOMAIN host : host[i] \notin {"accepts", "accepts later"}

\* iec104_connect_with_timeout comes back, with a descriptor or without, and no byte of
\* STARTDT_ACT is left unsent on a connection that is then read from.
ConnectEnds ==
    link = "resolve" ~> (link \in {"failed", "closed"} \/ (link = "connected" /\ written = U_FRAME))

asdus == {SubSeq(handled[i], CONTROL + 1, Len(handled[i])) : i \in {j \in DOMAIN handled :
             IsIFrame(handled[j])}}

\* No update is made of bytes outside the ASDU.
ReadsInside == \A a \in asdus : ObjectsInside(a)

\* The readings the gateway sent, in order: those of the frames handled; which of them are
\* of a point, and the last of these.
Sent == FlattenSeq([i \in DOMAIN handled |-> sent[handled[i]]])
SentFor(p) == {i \in DOMAIN Sent : Sent[i].point = p}
Latest(p) == Max(SentFor(p))
Earlier(p) == SentFor(p) \ {Latest(p)}
Quiescent == ~lost /\ updates = <<>>

\* From the gateway's reading to the table: every object of every frame is stored under
\* its own address with the value and quality it was sent with, the last one of a point
\* stays, and a frame whose objects do not fit stores nothing.  The store keeps no time
\* tag: what is left of it are the DEBUG lines, one for each object whose tag is a time,
\* with that time, in the order of the objects.
StoredAsSent ==
    Quiescent =>
        /\ DOMAIN table = {Sent[i].point : i \in DOMAIN Sent}
        /\ \A p \in DOMAIN table :
              LET u == Sent[Latest(p)] IN table[p].value = u.value /\ table[p].quality = u.quality
        /\ time_lines = [i \in DOMAIN Sent |-> Sent[i].time]

\* The log follows a measured value: what the last line said differs from the last value
\* by no more than 0.000001 for each update since, unless one of them was a NaN, which no
\* comparison sees.  The status of a point is always the one last logged.
LogFollows ==
    \A p \in DOMAIN table :
        LET e == table[p] IN
        IF p.type # "YC" THEN e.told = e.value
        ELSE ~e.blind => Units(e.told, e.value) <= Tolerance(e.told, e.value, e.quiet)

\* The rule of iec104_master.conf:38-41, in exact arithmetic: the difference, the ratio of
\* the reading to the one before it, or a drop by the same ratio.
Ratio(a, b) ==
    \/ b > 0 /\ AtLeast(a, b, rate_threshold)
    \/ b < 0 /\ AtLeast(-a, -b, rate_threshold)
Fall(previous, value) ==
    Ratio(previous, value) \/ (value = 0 /\ previous # 0 /\ rate_threshold # NaN)
Jump(previous, value) == Differ(previous, value) \/ Ratio(value, previous) \/ Fall(previous, value)

\* What the rule can be read to call a jump: ratios of amounts, a fall through zero, and a
\* quotient that rounding takes to the rate.
JumpAtMost(previous, value) ==
    \/ Differ(previous, value)
    \/ AtLeast(Abs(value) * PRECISION, Abs(previous) * (PRECISION - 1), rate_threshold)
    \/ AtLeast(Abs(previous), Abs(value), rate_threshold)
    \/ value < 0 /\ previous > 0

\* A fall that is not one by the rate any more when 0.0000015 is added to the reading.
Hidden(previous, value) == ~AtLeast(2000000 * previous, 2000000 * value + 3, rate_threshold)

\* For each counter, its last two readings and the level of the line for the second.
LastTwo(p) == <<Sent[Max(Earlier(p))].value, Sent[Latest(p)].value>>
Watched == {p \in DOMAIN table : p.type = "ENERGY" /\ Earlier(p) # {}}

\* No counter reading is a WARN line unless the rule can be read to call it a jump.  One
\* that the rule does call a jump is a WARN line if it differs by abs_threshold, and by the
\* ratio if the counter was above zero and is not below: but for the falls by the rate that
\* the 0.000001 in the divisor hides.  JumpsWarnedAsDocumented is about the rest.
JumpsAreWarned ==
    Quiescent =>
        \A p \in Watched :
            LET previous == LastTwo(p)[1]
                value == LastTwo(p)[2]
                warned == table[p].level = "WARN"
            IN  /\ warned => JumpAtMost(previous, value)
                /\ Differ(previous, value) => warned
                /\ previous > 0 /\ value >= 0 =>
                      /\ Ratio(value, previous) => warned
                      /\ Fall(previous, value) /\ ~Hidden(previous, value) => warned

\* What the document says, with nothing set aside: every jump is a WARN line.
JumpsWarnedAsDocumented ==
    Quiescent =>
        \A p \in Watched : Jump(LastTwo(p)[1], LastTwo(p)[2]) => table[p].level = "WARN"
=============================================================================
