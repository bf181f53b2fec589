------------------------------ MODULE LinkProofs ------------------------------
(***************************************************************************)
(* Proofs about Link, for every host and the way its addresses answer,      *)
(* every stream of frames of any bytes, and every cut of it: connecting,    *)
(* the ASDU parser, the reader as part of the link, and what becomes of the *)
(* readings in the point table and in the log.                              *)
(***************************************************************************)
EXTENDS Link, ApduReaderProofs

-----------------------------------------------------------------------------
(***************************************************************************)
(* Connecting.                                                              *)
(***************************************************************************)
Label == {"resolve", "socket", "nonblocking", "connect", "poll", "close", "next",
          "failed", "startdt", "connected", "closed"}
Answer == {"accepts", "accepts later", "refuses", "refuses later", "is silent"}
Accepting == {"accepts", "accepts later"}
Trying == {"socket", "nonblocking", "connect", "poll", "close", "next"}

\* Where a call is, and what it holds.
Connection ==
    /\ link \in Label
    /\ host \in Hosts /\ Len(host) \in Nat /\ Len(host) > 0
    /\ tried \in 0..(Len(host) - 1)
    /\ OneSocket

\* The addresses left behind do not accept, unless the call was failed by the system.
LeftBehind ==
    /\ link = "poll" => host[tried + 1] # "accepts"
    /\ ~fault =>
          /\ link \in Trying => \A i \in 1..tried : host[i] \notin Accepting
          /\ link \in {"close", "next"} => host[tried + 1] \notin Accepting
          /\ link = "failed" => \A i \in 1..Len(host) : host[i] \notin Accepting
          /\ link = "resolve" => tried = 0

LinkInv == Connection /\ LeftBehind

LEMMA HostType ==
    ASSUME NEW h \in Hosts
    PROVE  /\ h \in Seq(Answer) /\ Len(h) \in Nat /\ Len(h) > 0
           /\ \A i \in 1..Len(h) : h[i] \in Answer
  <1>1. h # <<>> /\ h \in Seq(Answer)
    BY LinkAssumption, Zenon DEF Answer
  <1> QED
    BY <1>1

LEMMA LinkStart == LinkInit => LinkInv
  <1> SUFFICES ASSUME LinkInit PROVE LinkInv
    OBVIOUS
  <1>1. host \in Hosts /\ Len(host) \in Nat /\ Len(host) > 0
    BY HostType DEF LinkInit
  <1> QED
    BY <1>1 DEF LinkInit, LinkInv, Connection, LeftBehind, OneSocket, Label, Trying

LEMMA LinkStep == LinkInv /\ [LinkNext]_link_vars => LinkInv'
  <1> SUFFICES ASSUME LinkInv, [LinkNext]_link_vars PROVE LinkInv'
    OBVIOUS
  <1>0. /\ link \in Label /\ host \in Hosts /\ Len(host) \in Nat /\ Len(host) > 0
        /\ tried \in 0..(Len(host) - 1)
        /\ sockets = IF link \in {"resolve", "socket", "next", "failed", "closed"} THEN 0 ELSE 1
        /\ ready <=> link \in {"startdt", "connected"}
        /\ LeftBehind
    BY DEF LinkInv, Connection, OneSocket
  <1> USE DEF Label, Trying
  <1>1. CASE UNCHANGED <<link, host, tried, sockets, ready, fault>>
    BY <1>0, <1>1 DEF LinkInv, Connection, OneSocket, LeftBehind
  <1>2. CASE Resolve \/ OpenSocket \/ SetNonblocking \/ PollInterrupted \/ CloseSocket
    <2>1. /\ UNCHANGED <<host, tried, ready>>
          /\ \/ /\ link = "resolve" /\ UNCHANGED sockets
                /\ \/ link' = "socket" /\ UNCHANGED fault
                   \/ link' = "failed" /\ fault' = TRUE
             \/ /\ link = "socket"
                /\ \/ link' = "nonblocking" /\ sockets' = sockets + 1 /\ UNCHANGED fault
                   \/ link' = "next" /\ fault' = TRUE /\ UNCHANGED sockets
             \/ /\ link = "nonblocking" /\ UNCHANGED sockets
                /\ \/ link' = "connect" /\ UNCHANGED fault
                   \/ link' = "close" /\ fault' = TRUE
             \/ link = "poll" /\ link' = "close" /\ fault' = TRUE /\ UNCHANGED sockets
             \/ link = "close" /\ link' = "next" /\ sockets' = sockets - 1 /\ UNCHANGED fault
      BY <1>2 DEF Resolve, OpenSocket, SetNonblocking, PollInterrupted, CloseSocket, Connecting
    <2>2. Connection'
      BY <1>0, <2>1 DEF Connection, OneSocket
    <2>3. LeftBehind'
      BY <1>0, <2>1 DEF LeftBehind
    <2> QED
      BY <2>2, <2>3 DEF LinkInv
  <1>3. CASE StartConnect \/ Poll
    <2>1. /\ link \in {"connect", "poll"} /\ UNCHANGED <<host, sockets>>
          /\ \/ /\ link' = "startdt" /\ ready' = TRUE /\ tried' = 0
             \/ /\ link' = "close" /\ UNCHANGED <<tried, ready, fault>>
                /\ host[tried + 1] \notin Accepting
             \/ /\ link' = "poll" /\ UNCHANGED <<tried, ready, fault>>
                /\ host[tried + 1] # "accepts"
      <3>1. CASE StartConnect
        <4>1. /\ link = "connect" /\ UNCHANGED <<host, sockets>>
              /\ CASE answer = "accepts" -> Use
                   [] answer = "refuses" -> Leave("close")
                   [] OTHER              -> Leave("poll")
          BY <3>1 DEF StartConnect, Connecting
        <4> QED
          BY <4>1 DEF Use, Leave, answer, Accepting
      <3>2. CASE Poll
        <4>1. /\ link = "poll" /\ UNCHANGED <<host, sockets>>
              /\ IF answer = "accepts later" THEN Use ELSE Leave("close")
              /\ answer # "accepts"
          BY <1>0, <3>2 DEF Poll, Connecting, LeftBehind, answer
        <4> QED
          BY <4>1 DEF Use, Leave, answer, Accepting
      <3> QED
        BY <1>3, <3>1, <3>2
    <2>2. Connection'
      BY <1>0, <2>1 DEF Connection, OneSocket
    <2>3. LeftBehind'
      BY <1>0, <2>1 DEF LeftBehind
    <2> QED
      BY <2>2, <2>3 DEF LinkInv
  <1>4. CASE NextAddress
    <2>1. /\ link = "next" /\ UNCHANGED <<host, sockets, ready, fault>>
          /\ \/ tried + 1 < Len(host) /\ tried' = tried + 1 /\ link' = "socket"
             \/ ~(tried + 1 < Len(host)) /\ UNCHANGED tried /\ link' = "failed"
      BY <1>4 DEF NextAddress, MoreAddresses, Connecting
    <2>2. Connection'
      BY <1>0, <2>1 DEF Connection, OneSocket
    <2>3. ~fault => \A i \in 1..(tried + 1) : host[i] \notin Accepting
      BY <1>0, <2>1 DEF LeftBehind
    <2>4. LeftBehind'
      BY <1>0, <2>1, <2>3 DEF LeftBehind
    <2> QED
      BY <2>2, <2>4 DEF LinkInv
  <1>5. CASE Retry
    BY <1>0, <1>5 DEF Retry, LinkInv, Connection, OneSocket, LeftBehind
  <1>6. CASE Send \/ SendFails \/ CloseLink
    <2>1. /\ link \in {"startdt", "connected"} /\ UNCHANGED <<host, tried, fault>>
          /\ \/ link' \in {"startdt", "connected"} /\ UNCHANGED <<sockets, ready>>
             \/ link' = "closed" /\ sockets' = sockets - 1 /\ ready' = FALSE
      BY <1>6 DEF Send, SendFails, CloseLink
    <2>2. Connection'
      BY <1>0, <2>1 DEF Connection, OneSocket
    <2>3. LeftBehind'
      BY <1>0, <2>1 DEF LeftBehind
    <2> QED
      BY <2>2, <2>3 DEF LinkInv
  <1>7. CASE ReadStep \/ Update \/ Network \/ StopSignal \/ LinkWaiting \/ LinkTerminated
             \/ UNCHANGED link_vars
    BY <1>1, <1>7 DEF ReadStep, Update, Network, StopSignal, LinkWaiting, LinkTerminated,
                      link_vars, connect_vars
  <1> QED
    BY <1>2, <1>3, <1>4, <1>5, <1>6, <1>7 DEF LinkNext, Thread

\* For every list of addresses, and whatever fails or is interrupted: a call that fails has
\* closed every socket it opened, and a session has one, with its timeouts.
THEOREM NoSocketLeaks == LinkSpec => []OneSocket
  <1>1. LinkInv => OneSocket
    BY DEF LinkInv, Connection
  <1> QED
    BY <1>1, LinkStart, LinkStep, PTL DEF LinkSpec

\* For every list of addresses: a call that no system call failed has tried them all.
THEOREM EveryAddressTried == LinkSpec => []ReachableConnected
  <1>1. LinkInv => ReachableConnected
    <2> SUFFICES ASSUME LinkInv, link = "failed", ~fault, NEW i \in DOMAIN host
                 PROVE  host[i] \notin Accepting
      BY DEF ReachableConnected, Accepting
    <2>1. host \in Seq(Answer)
      BY HostType DEF LinkInv, Connection
    <2> QED
      BY <2>1 DEF LinkInv, LeftBehind
  <1> QED
    BY <1>1, LinkStart, LinkStep, PTL DEF LinkSpec

-----------------------------------------------------------------------------
(***************************************************************************)
(* The ASDU parser, for every sequence of bytes, whatever type, layout and  *)
(* count it announces and however long it is.                               *)
(***************************************************************************)
Sizes == {1, 3, 5, 8, 10, 12}

LEMMA AtIsByte ==
    ASSUME NEW a \in Seq(Byte), NEW i \in Nat
    PROVE  At(a, i) \in Byte
  <1>1. CASE i < Len(a)
    BY <1>1 DEF At
  <1>2. CASE ~(i < Len(a))
    BY <1>2 DEF At, Byte
  <1> QED
    BY <1>1, <1>2

LEMMA CountType ==
    ASSUME NEW a \in Seq(Byte)
    PROVE  count(a) \in Nat
  <1>1. PICK b \in Byte : b = At(a, 1)
    BY AtIsByte
  <1>2. b % 128 \in Nat
    BY <1>1 DEF Byte
  <1>3. count(a) = b % 128
    BY <1>1 DEF count
  <1> QED
    BY <1>2, <1>3

\* An object is as long as its type says: nothing else is parsed.
LEMMA SizeType ==
    ASSUME NEW a
    PROVE  object_size(a) \in Sizes \cup {0}
  <1> DEFINE t == type_id(a)
  <1>1. object_size(a) =
          CASE t \in {1, 3, 30, 31} -> 1 + type_time_size(t)
            [] t \in {9, 11, 34, 35} -> 3 + type_time_size(t)
            [] t \in {13, 15, 36, 37} -> 5 + type_time_size(t)
            [] OTHER -> 0
    BY DEF object_size, information_object_size, Single, DoublePoint, Normalized, Scaled,
           Float, Counter
  <1>2. type_time_size(t) \in {0, 7}
    BY DEF type_time_size
  <1> HIDE DEF t
  <1> QED
    BY <1>1, <1>2 DEF Sizes

\* With one address for all objects: n of them, of s bytes each, in a payload of L bytes.
LEMMA SequenceFits ==
    ASSUME NEW s \in Sizes, NEW n \in Nat, NEW L \in Nat, L >= 6, L - 6 >= 3 + n * s
    PROVE  /\ \A i \in 0..(n - 1) : 9 + i * s >= 9 /\ 9 + i * s + s <= L
           /\ \A i, j \in 0..(n - 1) : i < j => 9 + i * s + s <= 9 + j * s
  <1>1. CASE s = 1
    BY <1>1
  <1>2. CASE s = 3
    BY <1>2
  <1>3. CASE s = 5
    BY <1>3
  <1>4. CASE s = 8
    BY <1>4
  <1>5. CASE s = 10
    BY <1>5
  <1>6. CASE s = 12
    BY <1>6
  <1> QED
    BY <1>1, <1>2, <1>3, <1>4, <1>5, <1>6 DEF Sizes

\* With an address of three bytes before each object.
LEMMA AddressedFit ==
    ASSUME NEW s \in Sizes, NEW n \in Nat, NEW L \in Nat, L >= 6, L - 6 >= n * (3 + s)
    PROVE  /\ \A i \in 0..(n - 1) : 9 + i * (3 + s) >= 9 /\ 9 + i * (3 + s) + s <= L
           /\ \A i, j \in 0..(n - 1) : i < j => 9 + i * (3 + s) + s <= 9 + j * (3 + s)
  <1>1. CASE s = 1
    BY <1>1
  <1>2. CASE s = 3
    BY <1>2
  <1>3. CASE s = 5
    BY <1>3
  <1>4. CASE s = 8
    BY <1>4
  <1>5. CASE s = 10
    BY <1>5
  <1>6. CASE s = 12
    BY <1>6
  <1> QED
    BY <1>1, <1>2, <1>3, <1>4, <1>5, <1>6 DEF Sizes

\* Every object of an ASDU that is parsed lies inside it, and no two share a byte: the one
\* comparison before the loop is enough for every type and both layouts.
THEOREM ObjectsLieInside == \A a \in Seq(Byte) : ObjectsInside(a)
  <1> SUFFICES ASSUME NEW a \in Seq(Byte), Accepted(a) PROVE ObjectsInside(a)
    BY DEF ObjectsInside
  <1> DEFINE s == object_size(a)
             n == count(a)
             L == Len(a)
  <1>1. s \in Sizes /\ n \in Nat /\ L \in Nat /\ L >= 6 /\ L - 6 >= required(a)
    BY SizeType, CountType DEF Accepted
  <1>2. CASE sequence(a)
    <2>1. L - 6 >= 3 + n * s
      BY <1>1, <1>2 DEF required
    <2>2. \A i : data(a, i) = 9 + i * s
      BY <1>2 DEF data
    <2> HIDE DEF s, n, L
    <2>3. /\ \A i \in 0..(n - 1) : 9 + i * s >= 9 /\ 9 + i * s + s <= L
          /\ \A i, j \in 0..(n - 1) : i < j => 9 + i * s + s <= 9 + j * s
      BY <1>1, <2>1, SequenceFits
    <2>4. /\ \A i \in 0..(n - 1) : data(a, i) >= 9 /\ data(a, i) + s <= L
          /\ \A i, j \in 0..(n - 1) : i < j => data(a, i) + s <= data(a, j)
      BY <2>2, <2>3
    <2> QED
      BY <2>4 DEF ObjectsInside, s, n, L
  <1>3. CASE ~sequence(a)
    <2>1. L - 6 >= n * (3 + s)
      BY <1>1, <1>3 DEF required
    <2>2. \A i : data(a, i) = 9 + i * (3 + s)
      BY <1>3 DEF data
    <2> HIDE DEF s, n, L
    <2>3. /\ \A i \in 0..(n - 1) : 9 + i * (3 + s) >= 9 /\ 9 + i * (3 + s) + s <= L
          /\ \A i, j \in 0..(n - 1) : i < j => 9 + i * (3 + s) + s <= 9 + j * (3 + s)
      BY <1>1, <2>1, AddressedFit
    <2>4. /\ \A i \in 0..(n - 1) : data(a, i) >= 9 /\ data(a, i) + s <= L
          /\ \A i, j \in 0..(n - 1) : i < j => data(a, i) + s <= data(a, j)
      BY <2>2, <2>3
    <2> QED
      BY <2>4 DEF ObjectsInside, s, n, L
  <1> QED
    BY <1>2, <1>3

-----------------------------------------------------------------------------
(***************************************************************************)
(* The reader is the one of ApduReader: connecting, sending, parsing and    *)
(* updating leave it alone.                                                 *)
(***************************************************************************)
LEMMA LinkStepReads == [LinkNext]_link_vars => [Next]_vars
  <1> SUFFICES ASSUME [LinkNext]_link_vars PROVE [Next]_vars
    OBVIOUS
  <1>1. CASE ReadStep \/ Network \/ StopSignal
    BY <1>1 DEF ReadStep, Network, StopSignal, Next
  <1>2. CASE \/ Resolve \/ OpenSocket \/ SetNonblocking \/ PollInterrupted \/ CloseSocket
             \/ StartConnect \/ Poll \/ NextAddress
    BY <1>2 DEF Resolve, OpenSocket, SetNonblocking, PollInterrupted, CloseSocket,
                StartConnect, Poll, NextAddress, Connecting
  <1>3. CASE \/ Retry \/ Send \/ SendFails \/ Update \/ CloseLink \/ LinkWaiting
             \/ LinkTerminated \/ UNCHANGED link_vars
    BY <1>3 DEF Retry, Send, SendFails, Update, CloseLink, LinkWaiting, LinkTerminated,
                link_vars
  <1> QED
    BY <1>1, <1>2, <1>3 DEF LinkNext, Thread

\* The reader of a link, through every retry, is the reader alone: what holds of one holds
\* of the other.
THEOREM LinkReads == LinkSpec => Spec
  <1>1. LinkInit => Init
    BY DEF LinkInit
  <1> QED
    BY <1>1, LinkStepReads, PTL DEF LinkSpec, Spec

\* The types of the reader and the bounds of the frame, on every link.
THEOREM LinkTypeCorrect == LinkSpec => []TypeOK
  BY LinkReads, ReaderTypeCorrect, PTL

\* The handler of every link is given the frames of the gateway.
THEOREM LinkFramesIntact == LinkSpec => []FramesIntactUnlessLost
  BY LinkReads, FramesIntact, PTL

LEMMA LinkFrames == LinkSpec => []FramesInv
  BY LinkReads, FramesInvariant, PTL

\* An ASDU is what follows the control bytes.
LEMMA AsduType ==
    ASSUME NEW b, b \in Seq(Byte)
    PROVE  SubSeq(b, CONTROL + 1, Len(b)) \in Seq(Byte)
  <1>0. CONTROL \in Nat
    BY LinkAssumption, Zenon
  <1>1. CONTROL \in Nat /\ Len(b) \in Nat
    BY <1>0
  <1>2. CASE CONTROL <= Len(b)
    BY <1>1, <1>2, Slice
  <1>3. CASE ~(CONTROL <= Len(b))
    <2>1. SubSeq(b, CONTROL + 1, Len(b)) = <<>>
      BY <1>1, <1>3
    <2>2. <<>> \in Seq(Byte)
      OBVIOUS
    <2> QED
      BY <2>1, <2>2
  <1> QED
    BY <1>2, <1>3

\* No update of any link is made of bytes that the gateway did not send in that frame:
\* every object of every frame that was handled lies inside it.
THEOREM ReadingInside == LinkSpec => []ReadsInside
  <1>1. FramesInv => ReadsInside
    <2> SUFFICES ASSUME handled \in Seq(Seq(Octet)), NEW i \in DOMAIN handled
                 PROVE  SubSeq(handled[i], CONTROL + 1, Len(handled[i])) \in Seq(Byte)
      BY ObjectsLieInside DEF FramesInv, ReaderInv, ReadsInside, asdus
    <2>1. handled[i] \in Seq(Byte)
      BY DEF Octet, Byte
    <2> QED
      BY <2>1, AsduType
  <1> QED
    BY <1>1, LinkFrames, PTL

\* What a reading is: an address, and a value of the kind that its class has.
Doubles == [m : Int, e : Int] \cup {NaN}
Times == {None} \cup [milliseconds : Int, minute : Int, hour : Int, day : Int, month : Int, year : Int]
Points == [type : {"YX", "YC", "ENERGY"}, common_address : Int, ioa : Int]
Reading ==
    {u \in [point : Points, value : Int \cup Doubles, quality : Int, time : Times] :
        IF u.point.type = "YC" THEN u.value \in Doubles ELSE u.value \in Int}

LEMMA NumberTypes ==
    ASSUME NEW a \in Seq(Byte), NEW i \in Nat
    PROVE  /\ At(a, i) \in Int
           /\ read_le16(a, i) \in Int /\ read_le24(a, i) \in Int
           /\ read_i16(a, i) \in Int /\ read_i32(a, i) \in Int
  <1>1. i + 1 \in Nat /\ i + 2 \in Nat /\ i + 3 \in Nat
    OBVIOUS
  <1>2. /\ At(a, i) \in Int /\ At(a, i + 1) \in Int
        /\ At(a, i + 2) \in Int /\ At(a, i + 3) \in Int
    <2>1. \A k \in Nat : At(a, k) \in Byte
      BY AtIsByte
    <2>2. \A x \in Byte : x \in Int
      BY DEF Byte
    <2> QED
      BY <1>1, <2>1, <2>2, Zenon
  <1>3. read_le16(a, i) \in Int
    BY <1>2 DEF read_le16
  <1>4. read_le24(a, i) \in Int
    BY <1>2, <1>3 DEF read_le24
  <1>5. read_i16(a, i) \in Int
    BY <1>3 DEF read_i16
  <1>6. read_i32(a, i) \in Int
    BY <1>2, <1>4 DEF read_i32
  <1> QED
    BY <1>2, <1>3, <1>4, <1>5, <1>6

LEMMA FloatType ==
    ASSUME NEW a \in Seq(Byte), NEW i \in Nat
    PROVE  read_float32(a, i) \in Doubles
  <1> DEFINE negative == At(a, i + 3) >= 128
             exponent == 2 * (At(a, i + 3) % 128) + (At(a, i + 2) \div 128)
             fraction == read_le16(a, i) + 65536 * (At(a, i + 2) % 128)
             signed(m) == IF negative THEN -m ELSE m
  <1>1. i + 2 \in Nat /\ i + 3 \in Nat
    OBVIOUS
  <1>2. At(a, i + 2) \in Int /\ At(a, i + 3) \in Int /\ read_le16(a, i) \in Int
    BY <1>1, NumberTypes
  <1>3. exponent \in Int /\ fraction \in Int
    BY <1>2
  <1>4. \A m \in Int : signed(m) \in Int
    OBVIOUS
  <1>5. read_float32(a, i) =
            IF exponent = 255
            THEN IF fraction = 0 THEN Double(signed(1), 128) ELSE NaN
            ELSE IF exponent = 0 THEN Double(signed(fraction), -149)
            ELSE Double(signed(8388608 + fraction), exponent - 150)
    BY DEF read_float32
  <1>6. \A m, e \in Int : Double(m, e) \in Doubles
    BY DEF Double, Doubles
  <1>7. NaN \in Doubles
    BY DEF Doubles
  <1> HIDE DEF exponent, fraction, signed
  <1> QED
    BY <1>3, <1>4, <1>5, <1>6, <1>7

LEMMA TimeType ==
    ASSUME NEW a \in Seq(Byte), NEW type, NEW i \in Nat
    PROVE  log_object_time(a, type, i) \in Times
  <1> DEFINE t(s, m, h, d, mo, y) ==
          [milliseconds |-> s, minute |-> m % 64, hour |-> h % 32, day |-> d % 32,
           month |-> mo % 16, year |-> 2000 + (y % 128)]
  <1>1. i + 2 \in Nat /\ i + 3 \in Nat /\ i + 4 \in Nat /\ i + 5 \in Nat /\ i + 6 \in Nat
    OBVIOUS
  <1>2. /\ read_le16(a, i) \in Int /\ At(a, i + 2) \in Int /\ At(a, i + 3) \in Int
        /\ At(a, i + 4) \in Int /\ At(a, i + 5) \in Int /\ At(a, i + 6) \in Int
    BY <1>1, NumberTypes
  <1>3. \A s, m, h, d, mo, y \in Int : t(s, m, h, d, mo, y) \in Times
    BY DEF Times
  <1>4. None \in Times
    BY DEF Times
  <1>5. parse_cp56time2a(a, i) \in
            {None, t(read_le16(a, i), At(a, i + 2), At(a, i + 3), At(a, i + 4), At(a, i + 5),
                     At(a, i + 6))}
    BY DEF parse_cp56time2a
  <1> HIDE DEF t
  <1>6. t(read_le16(a, i), At(a, i + 2), At(a, i + 3), At(a, i + 4), At(a, i + 5),
          At(a, i + 6)) \in Times
    BY <1>2, <1>3, Zenon
  <1> QED
    BY <1>4, <1>5, <1>6 DEF log_object_time

LEMMA DataType ==
    ASSUME NEW a, NEW i \in Nat
    PROVE  data(a, i) \in Nat /\ data(a, i) >= 9
  <1>1. object_size(a) \in Nat
    BY SizeType DEF Sizes
  <1>2. \A s \in Nat : i * s \in Nat /\ i * (3 + s) \in Nat
    OBVIOUS
  <1> DEFINE s == object_size(a)
  <1>3. data(a, i) = 9 + i * s \/ data(a, i) = 9 + i * (3 + s)
    BY DEF data
  <1> HIDE DEF s
  <1>4. s \in Nat
    BY <1>1 DEF s
  <1> QED
    BY <1>2, <1>3, <1>4

LEMMA ObjectType ==
    ASSUME NEW a \in Seq(Byte), NEW i \in Nat, object_size(a) # 0
    PROVE  parse_information_object(a, i) \in Reading
  <1> DEFINE type == type_id(a)
             d == data(a, i)
             quality_bits(b) == 16 * (b \div 16)
             update(class, value, quality, time) ==
                 [point |-> [type |-> class, common_address |-> common_address(a), ioa |-> ioa(a, i)],
                  value |-> value, quality |-> quality, time |-> log_object_time(a, type, time)]
  <1>1. d \in Nat /\ d >= 9
    BY DataType
  <1>2. d + 1 \in Nat /\ d + 2 \in Nat /\ d + 3 \in Nat /\ d + 4 \in Nat /\ d + 5 \in Nat /\ d - 3 \in Nat
    BY <1>1
  <1>3. common_address(a) \in Int /\ ioa(a, i) \in Int
    <2>1. /\ read_le16(a, 4) \in Int /\ read_le24(a, 6) \in Int
          /\ \A k \in Nat : read_le24(a, k) \in Int
      BY NumberTypes
    <2>2. read_le24(a, 6) + i \in Int /\ read_le24(a, d - 3) \in Int
      <3>1. \A x \in Int : x + i \in Int
        OBVIOUS
      <3> QED
        BY <1>2, <2>1, <3>1, Zenon
    <2> QED
      BY <2>1, <2>2 DEF common_address, ioa
  <1>4. \A k \in Nat : log_object_time(a, type, k) \in Times
    BY TimeType
  <1> HIDE DEF type, d
  <1>5. ASSUME NEW class \in {"YX", "ENERGY"}, NEW v \in Int, NEW q \in Int, NEW k \in Nat
        PROVE  update(class, v, q, k) \in Reading
    BY <1>3, <1>4 DEF Reading, Points
  <1>6. ASSUME NEW v \in Doubles, NEW q \in Int, NEW k \in Nat
        PROVE  update("YC", v, q, k) \in Reading
    BY <1>3, <1>4 DEF Reading, Points
  <1>7. /\ \A k \in Nat : At(a, k) \in Int
        /\ read_i16(a, d) \in Int /\ read_i32(a, d) \in Int /\ read_float32(a, d) \in Doubles
    BY <1>1, NumberTypes, FloatType
  <1>8. /\ At(a, d) % 2 \in Int /\ At(a, d) % 4 \in Int /\ quality_bits(At(a, d)) \in Int
        /\ Double(read_i16(a, d), -15) \in Doubles /\ Double(read_i16(a, d), 0) \in Doubles
    BY <1>1, <1>7 DEF Double, Doubles
  <1>9. type \in Single \cup DoublePoint \cup Normalized \cup Scaled \cup Float \cup Counter
    BY DEF object_size, information_object_size, type
  <1>10. parse_information_object(a, i) \in
             {update("YX", At(a, d) % 2, quality_bits(At(a, d)), d + 1),
              update("YX", At(a, d) % 4, quality_bits(At(a, d)), d + 1),
              update("YC", Double(read_i16(a, d), -15), At(a, d + 2), d + 3),
              update("YC", Double(read_i16(a, d), 0), At(a, d + 2), d + 3),
              update("YC", read_float32(a, d), At(a, d + 4), d + 5),
              update("ENERGY", read_i32(a, d), At(a, d + 4), d + 5)}
    <2>1. CASE type \in Single
      <3>1. parse_information_object(a, i) = update("YX", At(a, d) % 2, quality_bits(At(a, d)), d + 1)
        BY <2>1 DEF parse_information_object, type, d, Single, DoublePoint, Normalized,
                    Scaled, Float, Counter
      <3> QED
        BY <3>1, Zenon
    <2>2. CASE type \in DoublePoint
      <3>1. parse_information_object(a, i) = update("YX", At(a, d) % 4, quality_bits(At(a, d)), d + 1)
        BY <2>2 DEF parse_information_object, type, d, Single, DoublePoint, Normalized,
                    Scaled, Float, Counter
      <3> QED
        BY <3>1, Zenon
    <2>3. CASE type \in Normalized
      <3>1. parse_information_object(a, i) = update("YC", Double(read_i16(a, d), -15), At(a, d + 2), d + 3)
        BY <2>3 DEF parse_information_object, type, d, Single, DoublePoint, Normalized,
                    Scaled, Float, Counter
      <3> QED
        BY <3>1, Zenon
    <2>4. CASE type \in Scaled
      <3>1. parse_information_object(a, i) = update("YC", Double(read_i16(a, d), 0), At(a, d + 2), d + 3)
        BY <2>4 DEF parse_information_object, type, d, Single, DoublePoint, Normalized,
                    Scaled, Float, Counter
      <3> QED
        BY <3>1, Zenon
    <2>5. CASE type \in Float
      <3>1. parse_information_object(a, i) = update("YC", read_float32(a, d), At(a, d + 4), d + 5)
        BY <2>5 DEF parse_information_object, type, d, Single, DoublePoint, Normalized,
                    Scaled, Float, Counter
      <3> QED
        BY <3>1, Zenon
    <2>6. CASE type \in Counter
      <3>1. parse_information_object(a, i) = update("ENERGY", read_i32(a, d), At(a, d + 4), d + 5)
        BY <2>6 DEF parse_information_object, type, d, Single, DoublePoint, Normalized,
                    Scaled, Float, Counter
      <3> QED
        BY <3>1, Zenon
    <2> QED
      BY <1>9, <2>1, <2>2, <2>3, <2>4, <2>5, <2>6
  <1> HIDE DEF update, quality_bits
  <1>11. /\ update("YX", At(a, d) % 2, quality_bits(At(a, d)), d + 1) \in Reading
         /\ update("YX", At(a, d) % 4, quality_bits(At(a, d)), d + 1) \in Reading
         /\ update("ENERGY", read_i32(a, d), At(a, d + 4), d + 5) \in Reading
    BY <1>2, <1>5, <1>7, <1>8
  <1>12. /\ update("YC", Double(read_i16(a, d), -15), At(a, d + 2), d + 3) \in Reading
         /\ update("YC", Double(read_i16(a, d), 0), At(a, d + 2), d + 3) \in Reading
         /\ update("YC", read_float32(a, d), At(a, d + 4), d + 5) \in Reading
    BY <1>2, <1>6, <1>7, <1>8
  <1> QED
    BY <1>10, <1>11, <1>12

\* Every update is a reading, whatever the bytes.
LEMMA ReadingsType ==
    ASSUME NEW b, b \in Seq(Byte)
    PROVE  Readings(b) \in Seq(Reading)
  <1> DEFINE a == SubSeq(b, CONTROL + 1, Len(b))
             n == count(a)
  <1>1. a \in Seq(Byte)
    BY AsduType
  <1> HIDE DEF a
  <1>2. CASE Accepted(a)
    <2>1. n \in Nat /\ object_size(a) # 0
      BY <1>1, <1>2, CountType DEF Accepted
    <2>2. \A k \in 1..n : parse_information_object(a, k - 1) \in Reading
      <3> SUFFICES ASSUME NEW k \in 1..n PROVE parse_information_object(a, k - 1) \in Reading
        OBVIOUS
      <3>1. PICK i \in Nat : i = k - 1
        BY <2>1
      <3>2. parse_information_object(a, i) \in Reading
        BY <1>1, <2>1, ObjectType
      <3> QED
        BY <3>1, <3>2
    <2>3. iec104_parse_asdu(a) = [k \in 1..n |-> parse_information_object(a, k - 1)]
      BY <1>2 DEF iec104_parse_asdu
    <2> HIDE DEF n
    <2>4. iec104_parse_asdu(a) \in Seq(Reading)
      BY <2>1, <2>2, <2>3
    <2> QED
      BY <2>4 DEF Readings, a
  <1>3. CASE ~Accepted(a)
    <2>1. iec104_parse_asdu(a) = <<>> /\ <<>> \in Seq(Reading)
      BY <1>3 DEF iec104_parse_asdu
    <2> QED
      BY <2>1 DEF Readings, a
  <1> QED
    BY <1>2, <1>3

-----------------------------------------------------------------------------
(***************************************************************************)
(* What a gateway writes is what the parser reads.                          *)
(***************************************************************************)
LEMMA Bytes ==
    ASSUME NEW a \in Seq(Byte), NEW i \in Nat
    PROVE  /\ At(a, i) \in 0..255 /\ At(a, i + 1) \in 0..255 /\ At(a, i + 2) \in 0..255
           /\ At(a, i + 3) \in 0..255 /\ At(a, i + 4) \in 0..255 /\ At(a, i + 5) \in 0..255
           /\ At(a, i + 6) \in 0..255
  <1>1. \A k \in Nat : At(a, k) \in 0..255
    BY AtIsByte DEF Byte
  <1>2. /\ i + 1 \in Nat /\ i + 2 \in Nat /\ i + 3 \in Nat /\ i + 4 \in Nat /\ i + 5 \in Nat
        /\ i + 6 \in Nat
    OBVIOUS
  <1> QED
    BY <1>1, <1>2, Zenon

\* The byte readers of iec104_util.c undo the layout of a number.
LEMMA Reads16 ==
    ASSUME NEW a \in Seq(Byte), NEW i \in Nat, NEW n \in Int, Put16(a, i, n)
    PROVE  /\ 0 <= n /\ n <= 65535 => read_le16(a, i) = n
           /\ -32768 <= n /\ n <= 32767 => read_i16(a, i) = n
  <1>1. At(a, i) = n % 256 /\ At(a, i + 1) = (n \div 256) % 256
    BY SMT DEF Put16
  <1>2. 0 <= n /\ n <= 65535 => read_le16(a, i) = n
    BY <1>1, SMT DEF read_le16
  <1>3. 0 <= n /\ n <= 32767 => (n \div 256) % 256 < 128
    BY SMT
  <1>4. -32768 <= n /\ n < 0 => (n \div 256) % 256 >= 128
    BY SMT
  <1>5. -32768 <= n /\ n < 0 => read_le16(a, i) = n + 65536
    BY <1>1, SMTT(40) DEF read_le16
  <1> QED
    BY <1>1, <1>2, <1>3, <1>4, <1>5, SMT DEF read_i16

LEMMA Reads24 ==
    ASSUME NEW a \in Seq(Byte), NEW i \in Nat, NEW n \in Int, Put24(a, i, n)
    PROVE  0 <= n /\ n <= 16777215 => read_le24(a, i) = n
  <1>1. /\ At(a, i) = n % 256 /\ At(a, i + 1) = (n \div 256) % 256
        /\ At(a, i + 2) = (n \div 65536) % 256
    BY SMT DEF Put24, Put16
  <1>2. 0 <= n /\ n <= 16777215
            => (n % 256) + 256 * ((n \div 256) % 256) + 65536 * ((n \div 65536) % 256) = n
    BY SMT
  <1> QED
    BY <1>1, <1>2, SMT DEF read_le24, read_le16

LEMMA Reads32 ==
    ASSUME NEW a \in Seq(Byte), NEW i \in Nat, NEW n \in Int,
           n \div 16777216 \in -128..127, Put32(a, i, n)
    PROVE  read_i32(a, i) = n
  <1>1. /\ At(a, i) = n % 256 /\ At(a, i + 1) = (n \div 256) % 256
        /\ At(a, i + 2) = (n \div 65536) % 256 /\ At(a, i + 3) = (n \div 16777216) % 256
    BY SMT DEF Put32, Put24, Put16
  <1>2. PICK q \in Int, r \in Int : q = n \div 16777216 /\ r = n % 16777216
    BY SMT
  <1>3. n = r + 16777216 * q /\ 0 <= r /\ r <= 16777215
    BY <1>2, SMT
  <1>4. n % 256 = r % 256 /\ (n \div 256) % 256 = (r \div 256) % 256
        /\ (n \div 65536) % 256 = (r \div 65536) % 256
    BY <1>3, SMT
  <1>5. read_le24(a, i) = r
    <2>1. (r % 256) + 256 * ((r \div 256) % 256) + 65536 * ((r \div 65536) % 256) = r
      BY <1>3, SMT
    <2> QED
      BY <1>1, <1>4, <2>1, SMTT(40) DEF read_le24, read_le16
  <1>6. At(a, i + 3) = q % 256 /\ -128 <= q /\ q <= 127
    BY <1>1, <1>2, SMT
  <1>7. (IF At(a, i + 3) < 128 THEN At(a, i + 3) ELSE At(a, i + 3) - 256) = q
    BY <1>6, SMT
  <1> QED
    BY <1>3, <1>5, <1>7, SMT DEF read_i32

\* read_float32 reads every float that can be written: zeros, denormals, infinities and
\* NaN too.
LEMMA ReadsFloat ==
    ASSUME NEW a \in Seq(Byte), NEW i \in Nat, NEW v, FloatWritten(a, i, v)
    PROVE  read_float32(a, i) = v
  <1> DEFINE low == At(a, i + 2)
             high == At(a, i + 3)
             bits == read_le16(a, i)
             negative == high >= 128
             exponent == 2 * (high % 128) + (low \div 128)
             fraction == bits + 65536 * (low % 128)
             signed(m) == IF negative THEN -m ELSE m
  <1>1. read_float32(a, i) =
            IF exponent = 255
            THEN IF fraction = 0 THEN Double(signed(1), 128) ELSE NaN
            ELSE IF exponent = 0 THEN Double(signed(fraction), -149)
            ELSE Double(signed(8388608 + fraction), exponent - 150)
    BY SMT DEF read_float32
  <1>2. /\ low \in Int /\ 0 <= low /\ low <= 255 /\ high \in Int /\ 0 <= high /\ high <= 255
        /\ At(a, i) \in Int /\ 0 <= At(a, i) /\ At(a, i + 1) \in Int /\ 0 <= At(a, i + 1)
        /\ bits = At(a, i) + 256 * At(a, i + 1)
    <2>1. \A x \in 0..255 : x \in Int /\ 0 <= x /\ x <= 255
      OBVIOUS
    <2>2. /\ At(a, i) \in 0..255 /\ At(a, i + 1) \in 0..255 /\ low \in 0..255 /\ high \in 0..255
      BY Bytes
    <2> QED
      BY <2>1, <2>2 DEF read_le16
  <1>3. CASE v = NaN /\ high \in {127, 255} /\ low >= 128 /\ ~(At(a, i) = 0 /\ At(a, i + 1) = 0 /\ low = 128)
    <2>1. high % 128 = 127 /\ low \div 128 = 1
      <3>1. high = 127 \/ high = 255
        BY <1>3
      <3>2. high % 128 = 127
        BY <3>1, SMT
      <3>3. low \div 128 = 1
        BY <1>2, <1>3, SMT
      <3> QED
        BY <3>2, <3>3
    <2>2. exponent = 255
      BY <2>1, SMT
    <2>3. low % 128 = low - 128
      <3>1. \A x \in Int : 128 <= x /\ x <= 255 => x % 128 = x - 128
        BY SMT
      <3> QED
        BY <1>2, <1>3, <3>1, SMT
    <2>4. fraction # 0
      BY <1>2, <1>3, <2>3, SMTT(40)
    <2> QED
      BY <1>1, <1>3, <2>2, <2>4, SMT
  \* A number with these fields.
  <1>4. ASSUME NEW sign \in {1, -1}, NEW e \in Int, NEW f \in Int, 0 <= e, e <= 255,
               0 <= f, f <= 8388607, PutFloat(a, i, sign, e, f)
        PROVE  /\ exponent = e /\ fraction = f
               /\ \A m \in Int : signed(m) = sign * m
    <2>1. /\ bits = (f % 256) + 256 * ((f \div 256) % 256)
          /\ low = 128 * (e % 2) + (f \div 65536)
          /\ high = (IF sign < 0 THEN 128 ELSE 0) + (e \div 2)
      BY <1>2, <1>4, SMT DEF PutFloat, Put16
    <2>2. PICK g \in Int, h \in Int, p \in Int, q \in Int :
              g = f % 65536 /\ h = f \div 65536 /\ p = e % 2 /\ q = e \div 2
      BY SMT
    <2>3. f = g + 65536 * h /\ 0 <= g /\ g <= 65535 /\ 0 <= h /\ h <= 127
      BY <1>4, <2>2, SMT
    <2>4. e = p + 2 * q /\ 0 <= p /\ p <= 1 /\ 0 <= q /\ q <= 127
      BY <1>4, <2>2, SMT
    <2>5. f % 256 = g % 256 /\ (f \div 256) % 256 = g \div 256
      BY <2>3, SMT
    <2>6. (g % 256) + 256 * (g \div 256) = g
      BY <2>3, SMT
    <2>7. bits = g
      BY <2>1, <2>5, <2>6, SMT
    <2>8. low % 128 = h /\ low \div 128 = p
      <3>1. low = 128 * p + h
        BY <2>1, <2>2, SMT
      <3> QED
        BY <2>3, <2>4, <3>1, SMT
    <2>9. high % 128 = q /\ (high >= 128 <=> sign = -1)
      <3>1. high = (IF sign < 0 THEN 128 ELSE 0) + q
        BY <2>1, <2>2, SMT
      <3>2. CASE sign = 1
        BY <2>4, <3>1, <3>2, SMT
      <3>3. CASE sign = -1
        BY <2>4, <3>1, <3>3, SMT
      <3> QED
        BY <3>2, <3>3
    <2>10. exponent = e /\ fraction = f
      BY <2>3, <2>4, <2>7, <2>8, <2>9, SMT
    <2>11. \A m \in Int : signed(m) = sign * m
      BY <2>9, SMT
    <2> QED
      BY <2>10, <2>11
  <1>5. ASSUME NEW sign \in {1, -1}, v = Double(sign, 128), PutFloat(a, i, sign, 255, 0)
        PROVE  read_float32(a, i) = v
    <2>1. exponent = 255 /\ fraction = 0 /\ signed(1) = sign * 1
      BY <1>4, <1>5, SMT
    <2>2. sign * 1 = sign
      BY SMT
    <2> QED
      BY <1>1, <1>5, <2>1, <2>2, SMT
  <1>6. ASSUME NEW sign \in {1, -1}, NEW m \in Int, NEW f \in Int, f = sign * m,
               0 <= f, f <= 8388607, PutFloat(a, i, sign, 0, f)
        PROVE  read_float32(a, i) = Double(m, -149)
    <2>1. exponent = 0 /\ fraction = f /\ signed(f) = sign * f
      BY <1>4, <1>6, SMT
    <2>2. sign * f = m
      <3>1. CASE sign = 1
        BY <1>6, <3>1, SMT
      <3>2. CASE sign = -1
        BY <1>6, <3>2, SMT
      <3> QED
        BY <3>1, <3>2
    <2> QED
      BY <1>1, <2>1, <2>2, SMT
  <1>7. ASSUME NEW sign \in {1, -1}, NEW m \in Int, NEW f \in Int, NEW e \in Int,
               f = sign * m - 8388608, 0 <= f, f <= 8388607, 0 < e, e < 255,
               PutFloat(a, i, sign, e, f)
        PROVE  read_float32(a, i) = Double(m, e - 150)
    <2>1. exponent = e /\ fraction = f /\ signed(8388608 + f) = sign * (8388608 + f)
      <3>1. 8388608 + f \in Int
        BY SMT
      <3> QED
        BY <1>4, <1>7, <3>1, SMT
    <2>2. sign * (8388608 + f) = m
      <3>1. CASE sign = 1
        BY <1>7, <3>1, SMT
      <3>2. CASE sign = -1
        BY <1>7, <3>2, SMT
      <3> QED
        BY <3>1, <3>2
    <2> QED
      BY <1>1, <1>7, <2>1, <2>2, SMT
  <1> HIDE DEF signed, exponent, fraction
  <1>8. ASSUME NEW sign \in {1, -1}, NEW m \in Int, 0 <= sign * m, sign * m < 8388608,
               PutFloat(a, i, sign, 0, sign * m)
        PROVE  read_float32(a, i) = Double(m, -149)
    <2>1. PICK f \in Int : f = sign * m
      BY SMT
    <2>2. 0 <= f /\ f <= 8388607 /\ PutFloat(a, i, sign, 0, f)
      BY <1>8, <2>1, SMT
    <2> QED
      BY <1>6, <2>1, <2>2, SMT
  <1>9. ASSUME NEW sign \in {1, -1}, NEW m \in Int, NEW k \in Int, -149 <= k, k <= 104,
               8388608 <= sign * m, sign * m < 16777216,
               PutFloat(a, i, sign, k + 150, sign * m - 8388608)
        PROVE  read_float32(a, i) = Double(m, k)
    <2>1. PICK f \in Int, e \in Int : f = sign * m - 8388608 /\ e = k + 150
      BY SMT
    <2>2. 0 <= f /\ f <= 8388607 /\ 0 < e /\ e < 255 /\ PutFloat(a, i, sign, e, f) /\ e - 150 = k
      BY <1>9, <2>1, SMT
    <2>3. read_float32(a, i) = Double(m, e - 150)
      BY <1>7, <2>1, <2>2, SMT
    <2> QED
      BY <2>2, <2>3, SMT
  <1>10. CASE v # NaN /\ \E sign \in {1, -1} :
             /\ v = Double(v.m, -149) /\ v.m \in Int
             /\ 0 <= sign * v.m /\ sign * v.m < 8388608
             /\ PutFloat(a, i, sign, 0, sign * v.m)
    <2>1. PICK sign \in {1, -1} :
             /\ v = Double(v.m, -149) /\ v.m \in Int
             /\ 0 <= sign * v.m /\ sign * v.m < 8388608
             /\ PutFloat(a, i, sign, 0, sign * v.m)
      BY <1>10
    <2> DEFINE m == v.m
    <2>2. /\ v = Double(m, -149) /\ m \in Int
          /\ 0 <= sign * m /\ sign * m < 8388608
          /\ PutFloat(a, i, sign, 0, sign * m)
      BY <2>1
    <2> HIDE DEF m
    <2> QED
      BY <1>8, <2>2, SMT
  <1>11. CASE v # NaN /\ \E sign \in {1, -1} :
             /\ v = Double(v.m, v.e) /\ v.m \in Int /\ v.e \in Int
             /\ -149 <= v.e /\ v.e <= 104
             /\ 8388608 <= sign * v.m /\ sign * v.m < 16777216
             /\ PutFloat(a, i, sign, v.e + 150, sign * v.m - 8388608)
    <2>1. PICK sign \in {1, -1} :
             /\ v = Double(v.m, v.e) /\ v.m \in Int /\ v.e \in Int
             /\ -149 <= v.e /\ v.e <= 104
             /\ 8388608 <= sign * v.m /\ sign * v.m < 16777216
             /\ PutFloat(a, i, sign, v.e + 150, sign * v.m - 8388608)
      BY <1>11
    <2> DEFINE m == v.m
               k == v.e
    <2>2. /\ v = Double(m, k) /\ m \in Int /\ k \in Int /\ -149 <= k /\ k <= 104
          /\ 8388608 <= sign * m /\ sign * m < 16777216
          /\ PutFloat(a, i, sign, k + 150, sign * m - 8388608)
      BY <2>1
    <2> HIDE DEF m, k
    <2> QED
      BY <1>9, <2>2, SMT
  <1> QED
    BY <1>3, <1>5, <1>10, <1>11, SMT DEF FloatWritten

\* A mask takes a field out of a byte, whatever the flags beside it.
LEMMA ReadsField ==
    ASSUME NEW x, NEW n \in Int, 0 <= n
    PROVE  /\ n < 64 /\ Field(x, n, 64) => x % 64 = n
           /\ n < 32 /\ Field(x, n, 32) => x % 32 = n
           /\ n < 16 /\ Field(x, n, 16) => x % 16 = n
           /\ n < 128 /\ Field(x, n, 128) => x % 128 = n
  <1>1. \A w \in Int : Field(x, n, w) => \E f \in Int : 0 <= f /\ x = n + w * f
    BY DEF Field
  <1>2. ASSUME NEW f \in Int, 0 <= f
        PROVE  /\ n < 64 => (n + 64 * f) % 64 = n
               /\ n < 32 => (n + 32 * f) % 32 = n
               /\ n < 16 => (n + 16 * f) % 16 = n
               /\ n < 128 => (n + 128 * f) % 128 = n
    BY <1>2, SMT
  <1>3. n < 64 /\ Field(x, n, 64) => x % 64 = n
    BY <1>1, <1>2, SMT
  <1>4. n < 32 /\ Field(x, n, 32) => x % 32 = n
    BY <1>1, <1>2, SMT
  <1>5. n < 16 /\ Field(x, n, 16) => x % 16 = n
    BY <1>1, <1>2, SMT
  <1>6. n < 128 /\ Field(x, n, 128) => x % 128 = n
    BY <1>1, <1>2, SMT
  <1> QED
    BY <1>3, <1>4, <1>5, <1>6

LEMMA ReadsTime ==
    ASSUME NEW a \in Seq(Byte), NEW i \in Nat, NEW t, TimeWritten(a, i, t)
    PROVE  parse_cp56time2a(a, i) = t
  <1> DEFINE ms == read_le16(a, i)
             mi == At(a, i + 2) % 64
             ho == At(a, i + 3) % 32
             da == At(a, i + 4) % 32
             mo == At(a, i + 5) % 16
             ye == At(a, i + 6) % 128
             time == [milliseconds |-> ms, minute |-> mi, hour |-> ho, day |-> da, month |-> mo,
                      year |-> 2000 + ye]
  <1>1. parse_cp56time2a(a, i) =
            IF ms > 59999 \/ mi > 59 \/ ho > 23 \/ da \notin 1..31 \/ mo \notin 1..12
            THEN None ELSE time
    BY SMT DEF parse_cp56time2a
  \* What each field reads as.
  <1>2. \A n \in Int : 0 <= n =>
            /\ n < 64 /\ Field(At(a, i + 2), n, 64) => mi = n
            /\ n < 32 /\ Field(At(a, i + 3), n, 32) => ho = n
            /\ n < 32 /\ Field(At(a, i + 4), n, 32) => da = n
            /\ n < 16 /\ Field(At(a, i + 5), n, 16) => mo = n
            /\ n < 128 /\ Field(At(a, i + 6), n, 128) => ye = n
    BY ReadsField
  <1>3. /\ ms \in Int
        /\ ms = At(a, i) + 256 * At(a, i + 1)
    BY NumberTypes DEF read_le16
  <1> HIDE DEF ms, mi, ho, da, mo, ye, time
  <1>4. CASE t = None /\
             \/ At(a, i) + 256 * At(a, i + 1) >= 60000
             \/ \E n \in 60..63 : Field(At(a, i + 2), n, 64)
             \/ \E n \in 24..31 : Field(At(a, i + 3), n, 32)
             \/ Field(At(a, i + 4), 0, 32)
             \/ \E n \in {0, 13, 14, 15} : Field(At(a, i + 5), n, 16)
    <2>1. CASE At(a, i) + 256 * At(a, i + 1) >= 60000
      <3>1. ms > 59999
        BY <1>3, <2>1, SMT
      <3> QED
        BY <1>1, <1>4, <3>1, SMT
    <2>2. CASE \E n \in 60..63 : Field(At(a, i + 2), n, 64)
      <3>1. mi > 59
        BY <1>2, <2>2, SMT
      <3> QED
        BY <1>1, <1>4, <3>1, SMT
    <2>3. CASE \E n \in 24..31 : Field(At(a, i + 3), n, 32)
      <3>1. ho > 23
        BY <1>2, <2>3, SMT
      <3> QED
        BY <1>1, <1>4, <3>1, SMT
    <2>4. CASE Field(At(a, i + 4), 0, 32)
      <3>1. da = 0
        BY <1>2, <2>4, SMT
      <3> QED
        BY <1>1, <1>4, <3>1, SMT
    <2>5. CASE \E n \in {0, 13, 14, 15} : Field(At(a, i + 5), n, 16)
      <3>1. mo \in {0, 13, 14, 15}
        BY <1>2, <2>5, SMT
      <3> QED
        BY <1>1, <1>4, <3>1, SMT
    <2> QED
      BY <1>4, <2>1, <2>2, <2>3, <2>4, <2>5
  <1>5. CASE t # None
    <2> DEFINE tms == t.milliseconds
               tmi == t.minute
               tho == t.hour
               tda == t.day
               tmo == t.month
               tye == t.year
    <2>1. /\ t = [milliseconds |-> tms, minute |-> tmi, hour |-> tho, day |-> tda, month |-> tmo,
                  year |-> tye]
          /\ tms \in Nat /\ tms < 60000 /\ Put16(a, i, tms)
          /\ tmi \in 0..59 /\ Field(At(a, i + 2), tmi, 64)
          /\ tho \in 0..23 /\ Field(At(a, i + 3), tho, 32)
          /\ tda \in 1..31 /\ Field(At(a, i + 4), tda, 32)
          /\ tmo \in 1..12 /\ Field(At(a, i + 5), tmo, 16)
          /\ tye \in 2000..2127 /\ Field(At(a, i + 6), tye - 2000, 128)
      BY <1>5 DEF TimeWritten
    <2> HIDE DEF tms, tmi, tho, tda, tmo, tye
    <2>2. ms = tms /\ ~(tms > 59999)
      BY <2>1, Reads16, SMT DEF ms
    <2>3. /\ tmi \in Int /\ 0 <= tmi /\ tmi <= 59
          /\ tho \in Int /\ 0 <= tho /\ tho <= 23
          /\ tda \in Int /\ 0 <= tda /\ tda <= 31
          /\ tmo \in Int /\ 0 <= tmo /\ tmo <= 12
      BY <2>1
    <2>4. tye \in Int /\ 2000 <= tye /\ tye <= 2127
      BY <2>1
    <2>5. mi = tmi /\ ho = tho /\ da = tda /\ mo = tmo
      BY <1>2, <2>1, <2>3, SMT
    <2>6. 2000 + ye = tye
      <3>1. PICK n \in Int : n = tye - 2000 /\ 0 <= n /\ n < 128 /\ Field(At(a, i + 6), n, 128)
        BY <2>1, <2>4, SMT
      <3> QED
        BY <1>2, <2>4, <3>1, SMT
    <2> QED
      BY <1>1, <2>1, <2>2, <2>3, <2>5, <2>6, SMT DEF time
  <1> QED
    BY <1>4, <1>5 DEF TimeWritten

\* The lengths of the standard are those of information_object_size.
LEMMA OctetsOfTypes ==
    ASSUME NEW type
    PROVE  octets(type) = information_object_size(type)
  <1>1. /\ type \in TimeTagged => type_time_size(type) = 7
        /\ type \notin TimeTagged => type_time_size(type) = 0
    BY DEF type_time_size
  <1> QED
    BY <1>1, SMT DEF octets, information_object_size, Single, DoublePoint, Normalized, Scaled,
                Float, Counter, TimeTagged

\* A value in a byte beside its quality.
LEMMA ReadsBits ==
    ASSUME NEW b \in Int, NEW v \in Int, NEW s \in Int, NEW k \in Int, 0 <= v, 0 <= s
    PROVE  /\ v <= 1 /\ s <= 7 /\ b = v + 2 * s + 16 * k => b % 2 = v /\ b \div 16 = k
           /\ v <= 3 /\ s <= 3 /\ b = v + 4 * s + 16 * k => b % 4 = v /\ b \div 16 = k
  BY SMT

LEMMA ReadsStatus ==
    ASSUME NEW a \in Seq(Byte), NEW d \in Nat, NEW v, NEW q, q \in Flags
    PROVE  /\ v \in 0..1 /\ (\E spare \in 0..7 : At(a, d) = v + 2 * spare + q)
                  => At(a, d) % 2 = v /\ 16 * (At(a, d) \div 16) = q
           /\ v \in 0..3 /\ (\E spare \in 0..3 : At(a, d) = v + 4 * spare + q)
                  => At(a, d) % 4 = v /\ 16 * (At(a, d) \div 16) = q
  <1>0. PICK k \in 0..15 : q = 16 * k
    BY DEF Flags
  <1>1. k \in Int /\ q = 16 * k
    BY <1>0
  <1>2. At(a, d) \in Int
    BY NumberTypes
  <1> DEFINE b == At(a, d)
  <1> HIDE DEF b
  <1>3. ASSUME v \in 0..1, NEW s \in 0..7, b = v + 2 * s + q
        PROVE  b % 2 = v /\ 16 * (b \div 16) = q
    <2>1. v \in Int /\ 0 <= v /\ v <= 1 /\ s \in Int /\ 0 <= s /\ s <= 7 /\ b \in Int
      BY <1>2, <1>3 DEF b
    <2>2. b = v + 2 * s + 16 * k
      BY <1>1, <1>3
    <2> QED
      BY <1>1, <2>1, <2>2, ReadsBits, SMT
  <1>4. ASSUME v \in 0..3, NEW s \in 0..3, b = v + 4 * s + q
        PROVE  b % 4 = v /\ 16 * (b \div 16) = q
    <2>1. v \in Int /\ 0 <= v /\ v <= 3 /\ s \in Int /\ 0 <= s /\ s <= 3 /\ b \in Int
      BY <1>2, <1>4 DEF b
    <2>2. b = v + 4 * s + 16 * k
      BY <1>1, <1>4
    <2> QED
      BY <1>1, <2>1, <2>2, ReadsBits, SMT
  <1> QED
    BY <1>3, <1>4, Zenon DEF b

LEMMA ReadsScaled ==
    ASSUME NEW a \in Seq(Byte), NEW d \in Nat, NEW v, NEW e, v = Double(v.m, e), Signed16(v.m),
           Put16(a, d, v.m)
    PROVE  Double(read_i16(a, d), e) = v
  <1> DEFINE m == v.m
  <1>1. v = Double(m, e) /\ m \in Int /\ -32768 <= m /\ m <= 32767 /\ Put16(a, d, m)
    BY DEF Signed16
  <1> HIDE DEF m
  <1>2. read_i16(a, d) = m
    BY <1>1, Reads16
  <1>3. v = Double(m, e)
    BY <1>1
  <1> QED
    BY <1>2, <1>3, Zenon

\* One object: its address, value, quality and time.
LEMMA ReadsObject ==
    ASSUME NEW a \in Seq(Byte), NEW i \in Nat, NEW u, octets(At(a, 0)) # 0,
           ObjectWritten(a, data(a, i), common_address(a), ioa(a, i), u)
    PROVE  parse_information_object(a, i) = u
  <1> DEFINE type == type_id(a)
             d == data(a, i)
             quality_bits(b) == 16 * (b \div 16)
             update(class, value, quality, time) ==
                 [point |-> [type |-> class, common_address |-> common_address(a), ioa |-> ioa(a, i)],
                  value |-> value, quality |-> quality, time |-> log_object_time(a, type, time)]
             v == u.value
             q == u.quality
             t == u.time
  <1>1. /\ u = [point |-> [type |-> Class(type), common_address |-> common_address(a), ioa |-> ioa(a, i)],
                value |-> v, quality |-> q, time |-> t]
        /\ ValueWritten(a, type, d, v, q)
        /\ IF type < 30 THEN t = None ELSE TimeWritten(a, d + octets(type) - 7, t)
    BY SMT DEF ObjectWritten, type_id
  <1>2. d \in Nat
    BY DataType
  <1>3. type \in Single \cup DoublePoint \cup Normalized \cup Scaled \cup Float \cup Counter
    BY OctetsOfTypes DEF information_object_size, type_id
  <1> HIDE DEF type, d, v, q, t
  \* The time stands after the value and its quality.
  <1>4. ASSUME NEW o \in {1, 3, 5}, IF type < 30 THEN TRUE ELSE octets(type) - 7 = o
        PROVE  log_object_time(a, type, d + o) = t
    <2>1. d + o \in Nat
      BY <1>2
    <2>2. CASE type < 30
      BY <1>1, <1>3, <2>2, SMT DEF log_object_time, type_time_size, TimeTagged
    <2>3. CASE ~(type < 30)
      <3>1. type \in TimeTagged
        BY <1>3, <2>3, SMT DEF TimeTagged, Single, DoublePoint, Normalized, Scaled, Float, Counter
      <3>2. d + octets(type) - 7 = d + o
        <4>1. octets(type) \in Int
          BY <1>4, SMT DEF octets
        <4> QED
          BY <1>2, <1>4, <2>3, <4>1, SMT
      <3>3. parse_cp56time2a(a, d + o) = t
        BY <1>1, <2>1, <2>3, <3>2, ReadsTime
      <3> QED
        BY <3>1, <3>3, SMT DEF log_object_time, type_time_size
    <2> QED
      BY <2>2, <2>3
  <1>5. CASE type \in Single
    <2>1. parse_information_object(a, i) = update("YX", At(a, d) % 2, quality_bits(At(a, d)), d + 1)
      BY <1>5 DEF parse_information_object, type, d, Single, DoublePoint, Normalized, Scaled,
                 Float, Counter
    <2> HIDE DEF quality_bits
    <2>2. At(a, d) % 2 = v /\ quality_bits(At(a, d)) = q
      <3>1. q \in Flags /\ v \in 0..1 /\ \E spare \in 0..7 : At(a, d) = v + 2 * spare + q
        BY <1>1, <1>5, SMTT(40) DEF ValueWritten, Single, DoublePoint, Normalized, Scaled, Float, Counter
      <3> QED
        BY <1>2, <3>1, ReadsStatus, Zenon DEF quality_bits
    <2>3. log_object_time(a, type, d + 1) = t
      <3>1. IF type < 30 THEN TRUE ELSE octets(type) - 7 = 1
        BY <1>5, SMT DEF octets, Single
      <3> QED
        BY <1>4, <3>1
    <2>4. Class(type) = "YX"
      BY <1>5, SMT DEF Class, Single
    <2> HIDE DEF update
    <2>5. u = update(Class(type), v, q, d + 1)
      BY <1>1, <2>3 DEF update
    <2> QED
      BY <2>1, <2>2, <2>4, <2>5
  <1>6. CASE type \in DoublePoint
    <2>1. parse_information_object(a, i) = update("YX", At(a, d) % 4, quality_bits(At(a, d)), d + 1)
      BY <1>6 DEF parse_information_object, type, d, Single, DoublePoint, Normalized, Scaled,
                 Float, Counter
    <2> HIDE DEF quality_bits
    <2>2. At(a, d) % 4 = v /\ quality_bits(At(a, d)) = q
      <3>1. q \in Flags /\ v \in 0..3 /\ \E spare \in 0..3 : At(a, d) = v + 4 * spare + q
        BY <1>1, <1>6, SMTT(40) DEF ValueWritten, Single, DoublePoint, Normalized, Scaled, Float, Counter
      <3> QED
        BY <1>2, <3>1, ReadsStatus, Zenon DEF quality_bits
    <2>3. log_object_time(a, type, d + 1) = t
      <3>1. IF type < 30 THEN TRUE ELSE octets(type) - 7 = 1
        BY <1>6, SMT DEF octets, DoublePoint
      <3> QED
        BY <1>4, <3>1
    <2>4. Class(type) = "YX"
      BY <1>6, SMT DEF Class, DoublePoint
    <2> HIDE DEF update
    <2>5. u = update(Class(type), v, q, d + 1)
      BY <1>1, <2>3 DEF update
    <2> QED
      BY <2>1, <2>2, <2>4, <2>5
  <1>7. CASE type \in Normalized
    <2>1. parse_information_object(a, i) = update("YC", Double(read_i16(a, d), -15), At(a, d + 2), d + 3)
      BY <1>7 DEF parse_information_object, type, d, Single, DoublePoint, Normalized, Scaled,
                 Float, Counter
    <2> HIDE DEF quality_bits
    <2>2. Double(read_i16(a, d), -15) = v /\ At(a, d + 2) = q
      <3>1. At(a, d + 2) = q /\ v = Double(v.m, -15) /\ Signed16(v.m) /\ Put16(a, d, v.m)
        BY <1>1, <1>7, SMT DEF ValueWritten, Single, DoublePoint, Normalized, Scaled, Float, Counter
      <3> QED
        BY <1>2, <3>1, ReadsScaled, Zenon
    <2>3. log_object_time(a, type, d + 3) = t
      <3>1. IF type < 30 THEN TRUE ELSE octets(type) - 7 = 3
        BY <1>7, SMT DEF octets, Normalized
      <3> QED
        BY <1>4, <3>1
    <2>4. Class(type) = "YC"
      BY <1>7, SMT DEF Class, Normalized
    <2> HIDE DEF update
    <2>5. u = update(Class(type), v, q, d + 3)
      BY <1>1, <2>3 DEF update
    <2> QED
      BY <2>1, <2>2, <2>4, <2>5
  <1>8. CASE type \in Scaled
    <2>1. parse_information_object(a, i) = update("YC", Double(read_i16(a, d), 0), At(a, d + 2), d + 3)
      BY <1>8 DEF parse_information_object, type, d, Single, DoublePoint, Normalized, Scaled,
                 Float, Counter
    <2> HIDE DEF quality_bits
    <2>2. Double(read_i16(a, d), 0) = v /\ At(a, d + 2) = q
      <3>1. At(a, d + 2) = q /\ v = Double(v.m, 0) /\ Signed16(v.m) /\ Put16(a, d, v.m)
        BY <1>1, <1>8, SMT DEF ValueWritten, Single, DoublePoint, Normalized, Scaled, Float, Counter
      <3> QED
        BY <1>2, <3>1, ReadsScaled, Zenon
    <2>3. log_object_time(a, type, d + 3) = t
      <3>1. IF type < 30 THEN TRUE ELSE octets(type) - 7 = 3
        BY <1>8, SMT DEF octets, Scaled
      <3> QED
        BY <1>4, <3>1
    <2>4. Class(type) = "YC"
      BY <1>8, SMT DEF Class, Scaled
    <2> HIDE DEF update
    <2>5. u = update(Class(type), v, q, d + 3)
      BY <1>1, <2>3 DEF update
    <2> QED
      BY <2>1, <2>2, <2>4, <2>5
  <1>9. CASE type \in Float
    <2>1. parse_information_object(a, i) = update("YC", read_float32(a, d), At(a, d + 4), d + 5)
      BY <1>9 DEF parse_information_object, type, d, Single, DoublePoint, Normalized, Scaled,
                 Float, Counter
    <2> HIDE DEF quality_bits
    <2>2. read_float32(a, d) = v /\ At(a, d + 4) = q
      <3>1. At(a, d + 4) = q /\ FloatWritten(a, d, v)
        BY <1>1, <1>9, SMT DEF ValueWritten, Single, DoublePoint, Normalized, Scaled, Float, Counter
      <3> QED
        BY <1>2, <3>1, ReadsFloat, Zenon
    <2>3. log_object_time(a, type, d + 5) = t
      <3>1. IF type < 30 THEN TRUE ELSE octets(type) - 7 = 5
        BY <1>9, SMT DEF octets, Float
      <3> QED
        BY <1>4, <3>1
    <2>4. Class(type) = "YC"
      BY <1>9, SMT DEF Class, Float
    <2> HIDE DEF update
    <2>5. u = update(Class(type), v, q, d + 5)
      BY <1>1, <2>3 DEF update
    <2> QED
      BY <2>1, <2>2, <2>4, <2>5
  <1>10. CASE type \in Counter
    <2>1. parse_information_object(a, i) = update("ENERGY", read_i32(a, d), At(a, d + 4), d + 5)
      BY <1>10 DEF parse_information_object, type, d, Single, DoublePoint, Normalized, Scaled,
                 Float, Counter
    <2> HIDE DEF quality_bits
    <2>2. read_i32(a, d) = v /\ At(a, d + 4) = q
      <3>1. At(a, d + 4) = q /\ v \in Int /\ -128 <= v \div 16777216 /\ v \div 16777216 <= 127 /\ Put32(a, d, v)
        BY <1>1, <1>10, SMT DEF ValueWritten, Single, DoublePoint, Normalized, Scaled, Float, Counter
      <3> QED
        BY <1>2, <3>1, Reads32, SMT
    <2>3. log_object_time(a, type, d + 5) = t
      <3>1. IF type < 30 THEN TRUE ELSE octets(type) - 7 = 5
        BY <1>10, SMT DEF octets, Counter
      <3> QED
        BY <1>4, <3>1
    <2>4. Class(type) = "ENERGY"
      BY <1>10, SMT DEF Class, Counter
    <2> HIDE DEF update
    <2>5. u = update(Class(type), v, q, d + 5)
      BY <1>1, <2>3 DEF update
    <2> QED
      BY <2>1, <2>2, <2>4, <2>5
  <1> QED
    BY <1>3, <1>5, <1>6, <1>7, <1>8, <1>9, <1>10

\* The variable structure qualifier.
LEMMA ReadsHeader ==
    ASSUME NEW a \in Seq(Byte), NEW n \in Int, 1 <= n, n <= 127
    PROVE  /\ At(a, 1) = 128 + n => count(a) = n /\ sequence(a)
           /\ At(a, 1) = n => count(a) = n /\ ~sequence(a)
           /\ At(a, 1) \in {0, 128} => count(a) = 0
  <1>1. (128 + n) % 128 = n /\ n % 128 = n /\ 128 + n >= 128 /\ ~(n >= 128)
    BY SMT
  <1> QED
    BY <1>1, SMT DEF count, sequence

\* A well-formed ASDU, of either layout.
LEMMA ReadsCarried ==
    ASSUME NEW a \in Seq(Byte), NEW us, Carries(a, us)
    PROVE  iec104_parse_asdu(a) = us
  <1> DEFINE n == Len(us)
             size == octets(At(a, 0))
             common == us[1].point.common_address
             base == us[1].point.ioa
  <1>1. /\ n \in 1..127 /\ us = [k \in 1..n |-> us[k]] /\ size # 0
        /\ Unsigned16(common) /\ Put16(a, 4, common)
        /\ \/ /\ At(a, 1) = 128 + n /\ Len(a) >= 9 + n * size
              /\ Unsigned24(base) /\ Unsigned24(base + n - 1) /\ Put24(a, 6, base)
              /\ \A k \in 1..n : ObjectWritten(a, 9 + (k - 1) * size, common, base + (k - 1), us[k])
           \/ /\ At(a, 1) = n /\ Len(a) >= 6 + n * (3 + size)
              /\ \A k \in 1..n :
                    LET d == 9 + (k - 1) * (3 + size)
                        x == us[k].point.ioa
                    IN  /\ Unsigned24(x) /\ Put24(a, d - 3, x)
                        /\ ObjectWritten(a, d, common, x, us[k])
    BY Zenon DEF Carries
  <1>2. size = object_size(a) /\ size \in Nat
    BY OctetsOfTypes, SizeType DEF object_size, type_id, Sizes
  <1>3. type_id(a) # C_IC_NA_1
    <2>1. octets(C_IC_NA_1) = 0
      BY SMT DEF octets, C_IC_NA_1
    <2> QED
      BY <1>1, <2>1 DEF type_id
  <1> HIDE DEF n, size, common, base
  <1>4. n \in Int /\ 1 <= n /\ n <= 127 /\ Len(a) \in Nat
    <2>1. n \in 1..127
      BY <1>1, Zenon
    <2> QED
      BY <2>1
  <1>5. common_address(a) = common
    BY <1>1, Reads16 DEF Unsigned16, common_address
  <1>6. ASSUME Accepted(a), count(a) = n,
               \A k \in 1..n : ObjectWritten(a, data(a, k - 1), common_address(a), ioa(a, k - 1), us[k])
        PROVE  iec104_parse_asdu(a) = us
    <2>1. \A k \in 1..n : parse_information_object(a, k - 1) = us[k]
      <3> SUFFICES ASSUME NEW k \in 1..n PROVE parse_information_object(a, k - 1) = us[k]
        OBVIOUS
      <3>1. PICK i \in Nat : i = k - 1
        BY <1>4
      <3>2. ObjectWritten(a, data(a, i), common_address(a), ioa(a, i), us[k])
        BY <1>6, <3>1
      <3>3. parse_information_object(a, i) = us[k]
        BY <1>1, <3>2, ReadsObject DEF size
      <3> QED
        BY <3>1, <3>3
    <2>2. iec104_parse_asdu(a) = [k \in 1..n |-> parse_information_object(a, k - 1)]
      BY <1>6 DEF iec104_parse_asdu
    <2>3. [k \in 1..n |-> parse_information_object(a, k - 1)] = [k \in 1..n |-> us[k]]
      BY <2>1, Zenon
    <2> QED
      BY <1>1, <2>2, <2>3, Zenon
  <1>7. CASE /\ At(a, 1) = 128 + n /\ Len(a) >= 9 + n * size
             /\ Unsigned24(base) /\ Put24(a, 6, base)
             /\ \A k \in 1..n : ObjectWritten(a, 9 + (k - 1) * size, common, base + (k - 1), us[k])
    <2>1. count(a) = n /\ sequence(a)
      BY <1>4, <1>7, ReadsHeader
    <2>2. Accepted(a)
      <3>1. required(a) = 3 + n * size
        BY <1>2, <2>1 DEF required
      <3>2. PICK m \in Nat : m = n * size
        BY <1>2, <1>4
      <3>3. Len(a) >= 6 /\ Len(a) - 6 >= 3 + m
        BY <1>4, <1>7, <3>2
      <3> QED
        BY <1>1, <1>2, <1>3, <1>4, <2>1, <3>1, <3>2, <3>3 DEF Accepted
    <2>3. read_le24(a, 6) = base
      BY <1>7, Reads24 DEF Unsigned24
    <2>4. \A k \in 1..n : data(a, k - 1) = 9 + (k - 1) * size /\ ioa(a, k - 1) = base + (k - 1)
      BY <1>2, <2>1, <2>3 DEF data, ioa
    <2> QED
      BY <1>5, <1>6, <1>7, <2>1, <2>2, <2>4
  <1>8. CASE /\ At(a, 1) = n /\ Len(a) >= 6 + n * (3 + size)
             /\ \A k \in 1..n :
                    LET d == 9 + (k - 1) * (3 + size)
                        x == us[k].point.ioa
                    IN  /\ Unsigned24(x) /\ Put24(a, d - 3, x)
                        /\ ObjectWritten(a, d, common, x, us[k])
    <2>1. count(a) = n /\ ~sequence(a)
      BY <1>4, <1>8, ReadsHeader
    <2>2. Accepted(a)
      <3>1. required(a) = n * (3 + size)
        BY <1>2, <2>1 DEF required
      <3>2. PICK m \in Nat : m = n * (3 + size)
        BY <1>2, <1>4
      <3>3. Len(a) >= 6 /\ Len(a) - 6 >= m
        BY <1>4, <1>8, <3>2
      <3> QED
        BY <1>1, <1>2, <1>3, <1>4, <2>1, <3>1, <3>2, <3>3 DEF Accepted
    <2>3. ASSUME NEW k \in 1..n
          PROVE  ObjectWritten(a, data(a, k - 1), common_address(a), ioa(a, k - 1), us[k])
      <3> DEFINE x == us[k].point.ioa
      <3>1. PICK d : d = 9 + (k - 1) * (3 + size)
        OBVIOUS
      <3>2. Unsigned24(x) /\ Put24(a, d - 3, x) /\ ObjectWritten(a, d, common, x, us[k])
        BY <1>8, <3>1
      <3> HIDE DEF x
      <3>3. data(a, k - 1) = d
        BY <1>2, <2>1, <3>1 DEF data
      <3>4. PICK i \in Nat : i = k - 1
        BY <1>4
      <3>5. d - 3 \in Nat
        BY <3>3, <3>4, DataType
      <3>6. ioa(a, k - 1) = x
        BY <2>1, <3>2, <3>3, <3>5, Reads24 DEF ioa, Unsigned24
      <3> QED
        BY <1>5, <3>2, <3>3, <3>6
    <2> QED
      BY <1>6, <2>1, <2>2, <2>3
  <1> QED
    BY <1>1, <1>7, <1>8

LEMMA ReadsNothing ==
    ASSUME NEW a \in Seq(Byte), CarriesNothing(a)
    PROVE  iec104_parse_asdu(a) = <<>>
  <1> DEFINE size == octets(At(a, 0))
  <1>1. size = object_size(a) /\ size \in Nat /\ Len(a) \in Nat
    BY OctetsOfTypes, SizeType DEF object_size, type_id, Sizes
  <1> HIDE DEF size
  <1>2. CASE Len(a) < 6 \/ size = 0 \/ At(a, 1) \in {0, 128}
    <2>1. At(a, 1) \in {0, 128} => count(a) = 0
      BY ReadsHeader
    <2>2. ~Accepted(a)
      BY <1>1, <1>2, <2>1 DEF Accepted
    <2> QED
      BY <2>2 DEF iec104_parse_asdu
  <1>3. CASE \E n \in 1..127 : \/ At(a, 1) = 128 + n /\ Len(a) < 9 + n * size
                               \/ At(a, 1) = n /\ Len(a) < 6 + n * (3 + size)
    <2>1. PICK n \in 1..127 : \/ At(a, 1) = 128 + n /\ Len(a) < 9 + n * size
                              \/ At(a, 1) = n /\ Len(a) < 6 + n * (3 + size)
      BY <1>3
    <2>2. n \in Int /\ 1 <= n /\ n <= 127
      OBVIOUS
    <2>3. PICK m \in Nat, p \in Nat : m = n * size /\ p = n * (3 + size)
      BY <1>1, <2>2
    <2>4. CASE At(a, 1) = 128 + n
      <3>1. required(a) = 3 + m
        BY <1>1, <2>2, <2>3, <2>4, ReadsHeader DEF required
      <3>2. Len(a) < 9 + m
        BY <2>1, <2>2, <2>3, <2>4
      <3> QED
        BY <1>1, <3>1, <3>2 DEF Accepted, iec104_parse_asdu
    <2>5. CASE At(a, 1) = n
      <3>1. required(a) = p
        BY <1>1, <2>2, <2>3, <2>5, ReadsHeader DEF required
      <3>2. Len(a) < 6 + p
        BY <2>1, <2>2, <2>3, <2>5
      <3> QED
        BY <1>1, <3>1, <3>2 DEF Accepted, iec104_parse_asdu
    <2> QED
      BY <2>1, <2>4, <2>5
  <1> QED
    BY <1>2, <1>3 DEF CarriesNothing, size

\* Whatever ASDU a gateway writes, with any of the types, in either layout and with any
\* reserved bits: iec104_parse_asdu makes of it exactly the readings it carries, in their
\* order; and none of one that carries none.
THEOREM WrittenIsRead ==
    \A a \in Seq(Byte) :
        /\ \A us : Carries(a, us) => iec104_parse_asdu(a) = us
        /\ CarriesNothing(a) => iec104_parse_asdu(a) = <<>>
  BY ReadsCarried, ReadsNothing

\* So the gateway means by each frame what the program makes of it.
LEMMA SentIsParsed == \A m \in Messages : \A i \in DOMAIN m : sent[m[i]] = Readings(m[i])
  <1> SUFFICES ASSUME NEW m \in Messages, NEW i \in DOMAIN m PROVE sent[m[i]] = Readings(m[i])
    OBVIOUS
  <1>1. m \in Seq(Seq(0..255))
    BY ReaderAssumption
  <1>2. PICK b : b = m[i]
    OBVIOUS
  <1>3. b \in Seq(Byte)
    BY <1>1, <1>2 DEF Byte
  <1> DEFINE a == SubSeq(b, CONTROL + 1, Len(b))
             us == sent[b]
  <1>4. a \in Seq(Byte)
    BY <1>3, AsduType
  <1>5. IF us = <<>> THEN ~IsIFrame(b) \/ CarriesNothing(a) ELSE IsIFrame(b) /\ Carries(a, us)
    BY <1>2, SentAssumption DEF Means
  <1>6. Readings(b) = IF IsIFrame(b) THEN iec104_parse_asdu(a) ELSE <<>>
    BY DEF Readings
  <1> HIDE DEF a, us
  <1>7. us = Readings(b)
    BY <1>4, <1>5, <1>6, WrittenIsRead
  <1> QED
    BY <1>2, <1>7 DEF us

-----------------------------------------------------------------------------
(***************************************************************************)
(* What the frames handled so far make: all their readings, in order, of    *)
(* which the last ones may still wait in updates.                           *)
(***************************************************************************)
Parts(h) == [i \in DOMAIN h |-> Readings(h[i])]
made == FlattenSeq(Parts(handled))
done == Len(made) - Len(updates)

LEMMA PartsType ==
    ASSUME NEW h, h \in Seq(Seq(Octet))
    PROVE  /\ Parts(h) \in Seq(Seq(Reading)) /\ Len(Parts(h)) = Len(h) /\ Len(h) \in Nat
           /\ DOMAIN h = 1..Len(h)
           /\ \A i \in 1..Len(h) : Parts(h)[i] = Readings(h[i]) /\ Readings(h[i]) \in Seq(Reading)
  <1>1. DOMAIN h = 1..Len(h) /\ Len(h) \in Nat /\ \A i \in 1..Len(h) : h[i] \in Seq(Octet)
    OBVIOUS
  <1>2. Octet = Byte
    BY DEF Octet, Byte
  <1>3. \A i \in 1..Len(h) : Readings(h[i]) \in Seq(Reading)
    BY <1>1, <1>2, ReadingsType
  <1>4. /\ Parts(h) = [i \in 1..Len(h) |-> Readings(h[i])]
        /\ \A i \in 1..Len(h) : Parts(h)[i] = Readings(h[i])
    BY <1>1 DEF Parts
  <1>5. Parts(h) \in Seq(Seq(Reading)) /\ Len(Parts(h)) = Len(h)
    BY <1>1, <1>3, <1>4
  <1> QED
    BY <1>1, <1>3, <1>4, <1>5

\* One more frame appends its readings.
LEMMA MadeGrows ==
    ASSUME NEW h, h \in Seq(Seq(Octet)), NEW b, b \in Seq(Octet)
    PROVE  /\ FlattenSeq(Parts(h)) \in Seq(Reading) /\ Readings(b) \in Seq(Reading)
           /\ FlattenSeq(Parts(Append(h, b))) = FlattenSeq(Parts(h)) \o Readings(b)
  <1> DEFINE g == Append(h, b)
             r == Readings(b)
             s == Parts(h)
  <1>1. /\ g \in Seq(Seq(Octet)) /\ Len(g) = Len(h) + 1 /\ g[Len(h) + 1] = b /\ Len(h) \in Nat
        /\ \A i \in 1..Len(h) : g[i] = h[i]
    OBVIOUS
  <1> HIDE DEF g
  <1>2. /\ Parts(g) \in Seq(Seq(Reading)) /\ Len(Parts(g)) = Len(g)
        /\ \A i \in 1..Len(g) : Parts(g)[i] = Readings(g[i])
    BY <1>1, PartsType
  <1>3. /\ s \in Seq(Seq(Reading)) /\ Len(s) = Len(h)
        /\ \A i \in 1..Len(h) : s[i] = Readings(h[i])
    BY PartsType
  <1>4. r \in Seq(Reading)
    <2>1. Octet = Byte
      BY DEF Octet, Byte
    <2> QED
      BY <2>1, ReadingsType
  <1>5. Parts(g)[Len(h) + 1] = r
    BY <1>1, <1>2
  <1>6. \A i \in 1..Len(h) : Parts(g)[i] = s[i]
    <2> SUFFICES ASSUME NEW i \in 1..Len(h) PROVE Parts(g)[i] = s[i]
      OBVIOUS
    <2>1. i \in 1..Len(g)
      BY <1>1
    <2> QED
      BY <1>1, <1>2, <1>3, <2>1, Zenon
  <1> DEFINE t == Parts(g)
  <1>7. t \in Seq(Seq(Reading)) /\ Len(t) = Len(s) + 1 /\ t[Len(s) + 1] = r
        /\ \A i \in 1..Len(s) : t[i] = s[i]
    BY <1>1, <1>2, <1>3, <1>5, <1>6
  <1> HIDE DEF s, r, t
  <1>8. t = Append(s, r)
    BY <1>3, <1>4, <1>7
  <1>9. FlattenSeq(t) = FlattenSeq(s) \o r
    <2>1. PICK S : s \in Seq(Seq(S)) /\ r \in Seq(S)
      BY <1>3, <1>4
    <2> QED
      BY <1>8, <2>1, FlattenAppend
  <1>10. FlattenSeq(s) \in Seq(Reading)
    BY <1>3, FlattenType
  <1> QED
    BY <1>4, <1>9, <1>10 DEF s, r, t, g

MadeInv ==
    /\ updates \in Seq(Reading)
    /\ made \in Seq(Reading)
    /\ done \in Nat
    /\ \A j \in 1..Len(updates) : updates[j] = made[done + j]

LEMMA MadeKept ==
    ASSUME UNCHANGED handled
    PROVE  made' = made
  BY DEF made, Parts

LEMMA MadeStart == LinkInit => MadeInv
  <1> SUFFICES ASSUME LinkInit PROVE MadeInv
    OBVIOUS
  <1>1. handled = <<>> /\ updates = <<>>
    BY DEF LinkInit, Init
  <1>2. Parts(handled) = <<>>
    BY <1>1 DEF Parts
  <1>3. made = <<>>
    BY <1>2, FlattenEmpty DEF made
  <1> QED
    BY <1>1, <1>3 DEF MadeInv, done

\* A step of the reader hands over at most one body, and its readings are made next.
LEMMA ReadStepMakes ==
    ASSUME ReaderInv, ReaderInv', MadeInv, ReadStep
    PROVE  /\ MadeInv' /\ done' = done /\ UNCHANGED table
           /\ \A i \in 1..done : made'[i] = made[i]
  <1>1. /\ updates = <<>> /\ Reader /\ UNCHANGED table
        /\ updates' = IF handled' = handled THEN <<>> ELSE Readings(Last(handled'))
    BY DEF ReadStep
  <1>2. handled \in Seq(Seq(Octet)) /\ handled' \in Seq(Seq(Octet))
    BY DEF ReaderInv
  <1>3. \/ UNCHANGED handled
        \/ \E b : handled' = Append(handled, b)
    BY <1>1 DEF Reader, Select, SelectInterrupted, Recv, HeaderRead, BodyRead, RecvTimeout,
                RecvEnd
  <1>4. made \in Seq(Reading) /\ Len(made) \in Nat /\ Len(updates) = 0 /\ done = Len(made)
    BY <1>1 DEF MadeInv, done
  <1>5. CASE UNCHANGED handled
    BY <1>1, <1>4, <1>5, MadeKept DEF MadeInv, done
  <1>6. CASE ~UNCHANGED handled
    <2>1. PICK b : handled' = Append(handled, b)
      BY <1>3, <1>6
    <2>2. b \in Seq(Octet) /\ Last(handled') = b
      <3>1. Len(handled') \in 1..Len(handled') /\ handled'[Len(handled')] = b
        BY <1>2, <2>1
      <3> QED
        BY <1>2, <3>1 DEF Last
    <2> DEFINE r == Readings(b)
    <2>3. updates' = r
      BY <1>1, <1>6, <2>2
    <2>4. made' = made \o r /\ r \in Seq(Reading)
      BY <1>2, <2>1, <2>2, MadeGrows DEF made
    <2> HIDE DEF r
    <2>5. PICK S : made \in Seq(S) /\ r \in Seq(S)
      BY <1>4, <2>4
    <2>6. /\ Len(made') = Len(made) + Len(r) /\ Len(r) \in Nat
          /\ \A i \in 1..Len(made) : made'[i] = made[i]
          /\ \A j \in 1..Len(r) : made'[Len(made) + j] = r[j]
      BY <2>4, <2>5, ConcatParts
    <2>7. made' \in Seq(Reading)
      BY <1>4, <2>4
    <2>8. done' = Len(made)
      BY <1>4, <2>3, <2>6 DEF done
    <2>9. \A j \in 1..Len(updates') : updates'[j] = made'[done' + j]
      BY <2>3, <2>6, <2>8
    <2> QED
      BY <1>1, <1>4, <2>3, <2>4, <2>6, <2>7, <2>8, <2>9 DEF MadeInv
  <1> QED
    BY <1>5, <1>6

\* An update takes the first reading that waits.
LEMMA UpdateTakes ==
    ASSUME MadeInv, Update
    PROVE  /\ MadeInv' /\ made' = made /\ done' = done + 1 /\ done + 1 \in 1..Len(made)
           /\ Head(updates) = made[done + 1] /\ made[done + 1] \in Reading
  <1>1. updates # <<>> /\ updates' = Tail(updates) /\ UNCHANGED handled
    BY DEF Update, vars
  <1>2. made' = made
    BY <1>1, MadeKept
  <1>3. /\ updates \in Seq(Reading) /\ Len(updates) \in Nat /\ Len(updates) > 0
        /\ made \in Seq(Reading) /\ Len(made) \in Nat /\ done \in Nat
        /\ done = Len(made) - Len(updates)
    BY <1>1 DEF MadeInv, done
  <1>4. /\ updates' \in Seq(Reading) /\ Len(updates') = Len(updates) - 1
        /\ \A j \in 1..Len(updates') : updates'[j] = updates[j + 1]
        /\ Head(updates) = updates[1]
    BY <1>1, <1>3
  <1>5. done' = done + 1 /\ done + 1 \in 1..Len(made)
    BY <1>2, <1>3, <1>4 DEF done
  <1>6. \A j \in 1..Len(updates) : updates[j] = made[done + j]
    BY DEF MadeInv
  <1>7. \A j \in 1..Len(updates') : updates'[j] = made'[done' + j]
    <2> SUFFICES ASSUME NEW j \in 1..Len(updates') PROVE updates'[j] = made'[done' + j]
      OBVIOUS
    <2>1. j + 1 \in 1..Len(updates) /\ done + (j + 1) = (done + 1) + j
      BY <1>3, <1>4
    <2>2. updates[j + 1] = made[done + (j + 1)]
      BY <1>6, <2>1
    <2> QED
      BY <1>2, <1>4, <1>5, <2>1, <2>2
  <1>8. Head(updates) = made[done + 1]
    BY <1>3, <1>4, <1>6
  <1>9. made[done + 1] \in Reading
    BY <1>3, <1>5
  <1> QED
    BY <1>2, <1>3, <1>4, <1>5, <1>7, <1>8, <1>9 DEF MadeInv

\* No other step takes part.
LEMMA OthersKeep ==
    ASSUME [LinkNext]_link_vars, ~ReadStep, ~Update
    PROVE  UNCHANGED <<handled, updates, table, time_lines>>
  <1>1. CASE Network \/ StopSignal
    BY <1>1 DEF Network, StopSignal, Arrive, PeerCloses, Signal
  <1>2. CASE \/ Resolve \/ OpenSocket \/ SetNonblocking \/ PollInterrupted \/ CloseSocket
             \/ StartConnect \/ Poll \/ NextAddress
    BY <1>2 DEF Resolve, OpenSocket, SetNonblocking, PollInterrupted, CloseSocket,
                StartConnect, Poll, NextAddress, Connecting, vars
  <1>3. CASE \/ Retry \/ Send \/ SendFails \/ CloseLink \/ LinkWaiting
             \/ LinkTerminated \/ UNCHANGED link_vars
    BY <1>3 DEF Retry, Send, SendFails, CloseLink, LinkWaiting, LinkTerminated,
                link_vars, vars
  <1> QED
    BY <1>1, <1>2, <1>3 DEF LinkNext, Thread

LEMMA MadeStep ==
    ASSUME ReaderInv, ReaderInv', MadeInv, [LinkNext]_link_vars
    PROVE  MadeInv'
  <1>1. CASE ReadStep
    BY <1>1, ReadStepMakes
  <1>2. CASE Update
    BY <1>2, UpdateTakes
  <1>3. CASE ~ReadStep /\ ~Update
    BY <1>3, OthersKeep, MadeKept DEF MadeInv, done
  <1> QED
    BY <1>1, <1>2, <1>3

-----------------------------------------------------------------------------
(***************************************************************************)
(* The table holds the newest reading of each point among those made, and   *)
(* the log what the rule of its class says of it.                           *)
(***************************************************************************)
Entry ==
    [value : Int \cup Doubles, quality : Int, told : Int \cup Doubles, level : {"INFO", "WARN"},
     quiet : Nat, blind : BOOLEAN]

EntryType(p) ==
    /\ p \in Points /\ table[p] \in Entry
    /\ p.type = "YC" => table[p].value \in Doubles /\ table[p].told \in Doubles
    /\ p.type # "YC" => table[p].value \in Int /\ table[p].told \in Int

\* Reading i is the newest of its point among the first n; and j the one before i.
Newest(i, n) == \A k \in (i + 1)..n : made[k].point # made[i].point
Before(j, i) ==
    /\ j < i /\ made[j].point = made[i].point
    /\ \A k \in (j + 1)..(i - 1) : made[k].point # made[i].point

Stored(i) ==
    LET e == table[made[i].point] IN
    /\ made[i].point \in DOMAIN table
    /\ e.value = made[i].value /\ e.quality = made[i].quality
Warned(j, i) ==
    (table[made[i].point].level = "WARN") \in Spike(made[j].value, made[i].value)

TableInv ==
    /\ \A p \in DOMAIN table : EntryType(p) /\ \E i \in 1..done : made[i].point = p
    /\ \A i \in 1..done : Newest(i, done) => Stored(i)
    /\ \A i, j \in 1..done :
          made[i].point.type = "ENERGY" /\ Newest(i, done) /\ Before(j, i) => Warned(j, i)

\* The time tags are those of the readings made.
TimesInv == time_lines = [i \in 1..done |-> made[i].time]

LEMMA ReadingFields ==
    ASSUME NEW u, u \in Reading
    PROVE  /\ u.point \in Points /\ u.point.type \in {"YX", "YC", "ENERGY"}
           /\ u.value \in Int \cup Doubles /\ u.quality \in Int /\ u.time \in Times
           /\ u.point.type = "YC" => u.value \in Doubles
           /\ u.point.type # "YC" => u.value \in Int
  BY DEF Reading, Points

\* A counter that is known has a line with the verdict.
LEMMA CounterRule ==
    ASSUME NEW u, u.point.type = "ENERGY", u.point \in DOMAIN table,
           NEW line, line \in Lines(u)
    PROVE  line \in {"INFO", "WARN"} /\ (line = "WARN") \in Spike(table[u.point].value, u.value)
  <1>1. PICK warn \in Spike(table[u.point].value, u.value) :
            line = IF warn THEN "WARN" ELSE "INFO"
    BY DEF Lines
  <1>2. warn \in BOOLEAN
    BY DEF Spike
  <1> QED
    BY <1>1, <1>2

\* An unchanged quality is part of every line that is left out.
LEMMA LineRule ==
    ASSUME NEW u, u \in Reading, NEW line, line \in Lines(u)
    PROVE  /\ line \in {"INFO", "WARN", "none"}
           /\ line = "none" =>
                 /\ u.point \in DOMAIN table
                 /\ table[u.point].quality = u.quality
                 /\ u.point.type # "ENERGY"
                 /\ u.point.type = "YX" => table[u.point].value = u.value
                 /\ u.point.type = "YC" => ~Differs(table[u.point].value, u.value)
  <1>1. u.point.type \in {"YX", "YC", "ENERGY"}
    BY ReadingFields
  <1>2. CASE u.point \notin DOMAIN table
    BY <1>2 DEF Lines
  <1>3. CASE u.point \in DOMAIN table
    <2>1. CASE u.point.type = "YX"
      BY <1>3, <2>1 DEF Lines
    <2>2. CASE u.point.type = "YC"
      BY <1>3, <2>2 DEF Lines
    <2>3. CASE u.point.type = "ENERGY"
      BY <1>3, <2>3, CounterRule
    <2> QED
      BY <1>1, <2>1, <2>2, <2>3
  <1> QED
    BY <1>2, <1>3

\* The entry after an update.
LEMMA EntryRule ==
    ASSUME NEW u, u \in Reading, NEW line, line \in Lines(u),
           u.point \in DOMAIN table => EntryType(u.point)
    PROVE  LET e == EntryAfter(u, line) IN
           /\ e \in Entry
           /\ e.value = u.value /\ e.quality = u.quality
           /\ IF line = "none"
              THEN LET old == table[u.point] IN
                   /\ e.told = old.told /\ e.level = old.level /\ e.quiet = old.quiet + 1
                   /\ e.blind = (old.blind \/ u.value = NaN)
              ELSE e.told = u.value /\ e.level = line /\ e.quiet = 0 /\ e.blind = (u.value = NaN)
  <1>1. u.value \in Int \cup Doubles /\ u.quality \in Int
    BY ReadingFields
  <1>2. CASE line = "none"
    <2>1. u.point \in DOMAIN table /\ table[u.point].quality = u.quality
      BY <1>2, LineRule
    <2> DEFINE old == table[u.point]
               b == (old.blind \/ u.value = NaN)
    <2>2. old \in Entry
      BY <2>1 DEF EntryType
    <2>3. b \in BOOLEAN
      BY <2>2 DEF Entry
    <2>4. EntryAfter(u, line) = [old EXCEPT !.value = u.value, !.quiet = @ + 1,
                                               !.blind = b]
      BY <1>2, <2>2 DEF EntryAfter, Entry
    <2>5. old.quality = u.quality
      BY <2>1
    <2> HIDE DEF old, b
    <2>7. /\ old.quality \in Int /\ old.told \in Int \cup Doubles /\ old.level \in {"INFO", "WARN"}
          /\ old.quiet \in Nat /\ old.quiet + 1 \in Nat
      BY <2>2 DEF Entry
    <2>8. EntryAfter(u, line) =
              [value |-> u.value, quality |-> old.quality,
               told |-> old.told, level |-> old.level, quiet |-> old.quiet + 1, blind |-> b]
      BY <2>2, <2>4 DEF Entry
    <2>6. /\ EntryAfter(u, line) \in Entry
          /\ EntryAfter(u, line).value = u.value
          /\ EntryAfter(u, line).quality = u.quality
          /\ EntryAfter(u, line).told = old.told
          /\ EntryAfter(u, line).level = old.level
          /\ EntryAfter(u, line).quiet = old.quiet + 1
          /\ EntryAfter(u, line).blind = b
      BY <1>1, <2>3, <2>5, <2>7, <2>8 DEF Entry
    <2> QED
      BY <1>2, <2>6, Zenon DEF old, b
  <1>3. CASE line # "none"
    <2>1. line \in {"INFO", "WARN"}
      BY <1>3, LineRule
    <2> DEFINE b == (u.value = NaN)
    <2>2. EntryAfter(u, line) =
              [value |-> u.value, quality |-> u.quality,
               told |-> u.value, level |-> line, quiet |-> 0, blind |-> b]
      BY <1>3 DEF EntryAfter
    <2>3. b \in BOOLEAN
      OBVIOUS
    <2> HIDE DEF b
    <2>4. /\ EntryAfter(u, line) \in Entry
          /\ EntryAfter(u, line).value = u.value
          /\ EntryAfter(u, line).quality = u.quality
          /\ EntryAfter(u, line).told = u.value
          /\ EntryAfter(u, line).level = line
          /\ EntryAfter(u, line).quiet = 0
          /\ EntryAfter(u, line).blind = b
      BY <1>1, <2>1, <2>2, <2>3 DEF Entry
    <2> QED
      BY <1>3, <2>4, Zenon DEF b
  <1> QED
    BY <1>2, <1>3

LEMMA TableStart == LinkInit => TableInv
  <1> SUFFICES ASSUME LinkInit PROVE TableInv
    OBVIOUS
  <1>1. table = <<>> /\ handled = <<>> /\ updates = <<>>
    BY DEF LinkInit, Init
  <1>2. Parts(handled) = <<>>
    BY <1>1 DEF Parts
  <1>3. done = 0
    BY <1>1, <1>2, FlattenEmpty DEF done, made
  <1>4. \A i \in 1..done : FALSE
    BY <1>3
  <1> QED
    BY <1>1, <1>4 DEF TableInv

LEMMA TimesStart == LinkInit => TimesInv
  <1> SUFFICES ASSUME LinkInit PROVE TimesInv
    OBVIOUS
  <1>1. time_lines = <<>> /\ handled = <<>> /\ updates = <<>>
    BY DEF LinkInit, Init
  <1>2. Parts(handled) = <<>>
    BY <1>1 DEF Parts
  <1>3. done = 0
    BY <1>1, <1>2, FlattenEmpty DEF done, made
  <1>4. [i \in 1..done |-> made[i].time] = <<>>
    BY <1>3
  <1> QED
    BY <1>1, <1>4 DEF TimesInv

\* Nothing that was stored changes while no update is made.
LEMMA TableKept ==
    ASSUME TableInv, UNCHANGED table, done' = done, done \in Nat,
           \A i \in 1..done : made'[i] = made[i]
    PROVE  TableInv'
  <1>1. ASSUME NEW i \in 1..done
        PROVE  /\ made'[i] = made[i] /\ Newest(i, done)' = Newest(i, done)
               /\ Stored(i)' = Stored(i)
    <2>1. \A k \in (i + 1)..done : made'[k] = made[k]
      OBVIOUS
    <2>2. made'[i] = made[i]
      OBVIOUS
    <2>3. (\A k \in (i + 1)..done' : made'[k].point # made'[i].point) <=>
          (\A k \in (i + 1)..done : made[k].point # made[i].point)
      BY <2>1, <2>2
    <2> QED
      BY <2>2, <2>3 DEF Newest, Stored
  <1>2. ASSUME NEW i \in 1..done, NEW j \in 1..done
        PROVE  Before(j, i)' = Before(j, i) /\ Warned(j, i)' = Warned(j, i)
    <2>1. \A k \in (j + 1)..(i - 1) : made'[k] = made[k]
      OBVIOUS
    <2>2. made'[i] = made[i] /\ made'[j] = made[j]
      OBVIOUS
    <2>3. (\A k \in (j + 1)..(i - 1) : made'[k].point # made'[i].point) <=>
          (\A k \in (j + 1)..(i - 1) : made[k].point # made[i].point)
      BY <2>1, <2>2
    <2> QED
      BY <2>2, <2>3 DEF Before, Warned
  <1>3. \A p \in DOMAIN table : EntryType(p)' = EntryType(p)
    BY DEF EntryType
  <1> QED
    BY <1>1, <1>2, <1>3 DEF TableInv

\* What an update does to the table.
LEMMA UpdateStores ==
    ASSUME Update
    PROVE  LET u == Head(updates) IN
           /\ DOMAIN table' = DOMAIN table \cup {u.point}
           /\ \E line \in Lines(u) : table'[u.point] = EntryAfter(u, line)
           /\ \A q \in DOMAIN table : q # u.point => table'[q] = table[q]
  BY DEF Update

LEMMA TableUpdated ==
    ASSUME MadeInv, TableInv, Update
    PROVE  TableInv'
  <1> DEFINE n == done
             u == made[n + 1]
             p == u.point
  <1>1. /\ n \in Nat /\ made' = made /\ done' = n + 1
        /\ Head(updates) = u /\ u \in Reading
    BY UpdateTakes DEF MadeInv
  <1>12. PICK line : line \in Lines(u) /\ table'[p] = EntryAfter(u, line)
    BY <1>1, UpdateStores
  <1> DEFINE e == EntryAfter(u, line)
  <1>2. /\ DOMAIN table' = DOMAIN table \cup {p} /\ table'[p] = e
        /\ \A q \in DOMAIN table : q # p => table'[q] = table[q]
    BY <1>1, <1>12, UpdateStores
  <1>3. /\ p \in Points /\ p.type \in {"YX", "YC", "ENERGY"}
        /\ p.type = "YC" => u.value \in Doubles
        /\ p.type # "YC" => u.value \in Int
    BY <1>1, ReadingFields
  <1>4. p \in DOMAIN table => EntryType(p)
    BY DEF TableInv
  <1>5. /\ e \in Entry
        /\ e.value = u.value /\ e.quality = u.quality
        /\ IF line = "none"
           THEN LET old == table[p] IN
                /\ e.told = old.told /\ e.level = old.level /\ e.quiet = old.quiet + 1
                /\ e.blind = (old.blind \/ u.value = NaN)
           ELSE e.told = u.value /\ e.level = line /\ e.quiet = 0 /\ e.blind = (u.value = NaN)
    BY <1>1, <1>4, <1>12, EntryRule
  <1>6. \A i \in 1..n : i \in 1..(n + 1) /\ i # n + 1
    BY <1>1
  <1>7. \A i \in 1..(n + 1) : i = n + 1 \/ i \in 1..n
    BY <1>1
  <1> HIDE DEF n, u, p, e
  <1>8. ASSUME NEW q \in DOMAIN table'
        PROVE  EntryType(q)' /\ \E i \in 1..(n + 1) : made[i].point = q
    <2>1. CASE q = p
      <3>1. n + 1 \in 1..(n + 1) /\ made[n + 1].point = p
        BY <1>1 DEF u, p
      <3>2. p.type = "YC" => e.value \in Doubles /\ e.told \in Doubles
        BY <1>1, <1>3, <1>4, <1>5, <1>12, LineRule DEF EntryType, p
      <3>3. p.type # "YC" => e.value \in Int /\ e.told \in Int
        BY <1>1, <1>3, <1>4, <1>5, <1>12, LineRule DEF EntryType, p
      <3> QED
        BY <1>2, <1>3, <1>5, <2>1, <3>1, <3>2, <3>3 DEF EntryType
    <2>2. CASE q # p
      <3>1. q \in DOMAIN table /\ table'[q] = table[q]
        BY <1>2, <2>2
      <3>2. EntryType(q) /\ \E i \in 1..n : made[i].point = q
        BY <3>1 DEF TableInv, n
      <3> QED
        BY <1>6, <3>1, <3>2 DEF EntryType
    <2> QED
      BY <2>1, <2>2
  <1>9. ASSUME NEW i \in 1..(n + 1), Newest(i, n + 1)
        PROVE  Stored(i)'
    <2>1. CASE i = n + 1
      BY <1>1, <1>2, <1>5, <2>1 DEF Stored, u, p
    <2>2. CASE i # n + 1
      <3>1. i \in 1..n /\ n + 1 \in (i + 1)..(n + 1) /\ \A k \in (i + 1)..n : k \in (i + 1)..(n + 1)
        BY <1>1, <2>2
      <3>2. made[i].point # p
        BY <1>9, <3>1 DEF Newest, u, p
      <3>3. Newest(i, n)
        BY <1>9, <3>1 DEF Newest
      <3>4. Stored(i)
        BY <3>1, <3>3 DEF TableInv, n
      <3>5. made[i].point \in DOMAIN table /\ table'[made[i].point] = table[made[i].point]
        BY <1>2, <3>2, <3>4 DEF Stored
      <3> QED
        BY <1>1, <1>2, <3>4, <3>5 DEF Stored
    <2> QED
      BY <2>1, <2>2
  <1>10. ASSUME NEW i \in 1..(n + 1), NEW j \in 1..(n + 1),
                made[i].point.type = "ENERGY", Newest(i, n + 1), Before(j, i)
         PROVE  Warned(j, i)'
    <2>1. CASE i = n + 1
      <3>1. j \in 1..n /\ made[j].point = p /\ \A k \in (j + 1)..n : made[k].point # p
        BY <1>1, <1>10, <2>1 DEF Before, u, p
      <3>2. Newest(j, n)
        BY <3>1 DEF Newest
      <3>3. Stored(j)
        BY <3>1, <3>2 DEF TableInv, n
      <3>4. p \in DOMAIN table /\ table[p].value = made[j].value
        BY <3>1, <3>3 DEF Stored
      <3>5. p.type = "ENERGY"
        BY <1>10, <2>1 DEF u, p
      <3>6. line # "none" /\ (line = "WARN") \in Spike(made[j].value, u.value)
        BY <1>1, <1>12, <3>4, <3>5, CounterRule DEF p
      <3>7. table'[p].level = line
        BY <1>2, <1>5, <3>6
      <3> QED
        BY <1>1, <2>1, <3>6, <3>7 DEF Warned, u, p
    <2>2. CASE i # n + 1
      <3>1. i \in 1..n /\ n + 1 \in (i + 1)..(n + 1) /\ \A k \in (i + 1)..n : k \in (i + 1)..(n + 1)
        BY <1>1, <2>2
      <3>2. made[i].point # p
        BY <1>10, <3>1 DEF Newest, u, p
      <3>3. Newest(i, n)
        BY <1>10, <3>1 DEF Newest
      <3>4. j \in 1..n
        BY <1>1, <1>10, <3>1 DEF Before
      <3>5. Stored(i) /\ Warned(j, i)
        BY <1>10, <3>1, <3>3, <3>4 DEF TableInv, n
      <3>6. made[i].point \in DOMAIN table /\ table'[made[i].point] = table[made[i].point]
        BY <1>2, <3>2, <3>5 DEF Stored
      <3> QED
        BY <1>1, <3>5, <3>6 DEF Warned
    <2> QED
      BY <2>1, <2>2
  <1>11. /\ \A i : Newest(i, done)' <=> Newest(i, n + 1)
         /\ \A i, j : Before(j, i)' <=> Before(j, i)
    BY <1>1 DEF Newest, Before
  <1> QED
    BY <1>1, <1>8, <1>9, <1>10, <1>11 DEF TableInv

LEMMA TableStep ==
    ASSUME ReaderInv, ReaderInv', MadeInv, TableInv, [LinkNext]_link_vars
    PROVE  TableInv'
  <1>0. done \in Nat
    BY DEF MadeInv
  <1>1. CASE ReadStep
    BY <1>0, <1>1, ReadStepMakes, TableKept
  <1>2. CASE Update
    BY <1>2, TableUpdated
  <1>3. CASE ~ReadStep /\ ~Update
    <2>1. UNCHANGED <<handled, updates, table>> /\ made' = made
      BY <1>3, OthersKeep, MadeKept
    <2>2. done' = done
      BY <2>1 DEF done
    <2> QED
      BY <1>0, <2>1, <2>2, TableKept
  <1> QED
    BY <1>1, <1>2, <1>3

\* Each update adds one time, that of the object it is about.
LEMMA TimesStep ==
    ASSUME ReaderInv, ReaderInv', MadeInv, TimesInv, [LinkNext]_link_vars
    PROVE  TimesInv'
  <1>1. done \in Nat
    BY DEF MadeInv
  <1>2. ASSUME UNCHANGED time_lines, done' = done, \A i \in 1..done : made'[i] = made[i]
        PROVE  TimesInv'
    <2>1. [i \in 1..done' |-> made'[i].time] = [i \in 1..done |-> made[i].time]
      BY <1>2
    <2> QED
      BY <1>2, <2>1 DEF TimesInv
  <1>3. CASE ReadStep
    <2>1. UNCHANGED time_lines
      BY <1>3 DEF ReadStep
    <2> QED
      BY <1>2, <1>3, <2>1, ReadStepMakes
  <1>4. CASE Update
    <2> DEFINE n == done
               t == [i \in 1..n |-> made[i].time]
    <2>1. /\ made' = made /\ done' = n + 1 /\ time_lines = t
          /\ time_lines' = Append(time_lines, made[n + 1].time)
      BY <1>4, UpdateTakes DEF Update, TimesInv
    <2>2. Append(t, made[n + 1].time) = [i \in 1..(n + 1) |-> made[i].time]
      <3> HIDE DEF n
      <3>1. n \in Nat
        BY <1>1 DEF n
      <3>2. Len(t) = n
        BY <3>1
      <3> QED
        BY <3>1, <3>2
    <2>3. [i \in 1..done' |-> made'[i].time] = [i \in 1..(n + 1) |-> made[i].time]
      BY <2>1
    <2> QED
      BY <2>1, <2>2, <2>3 DEF TimesInv
  <1>5. CASE ~ReadStep /\ ~Update
    <2>1. UNCHANGED <<handled, updates, time_lines>> /\ made' = made
      BY <1>5, OthersKeep, MadeKept
    <2>2. done' = done
      BY <2>1 DEF done
    <2> QED
      BY <1>2, <2>1, <2>2
  <1> QED
    BY <1>3, <1>4, <1>5

LinkDataInv == FramesInv /\ MadeInv /\ TableInv /\ TimesInv

LEMMA LinkDataStart == LinkInit => LinkDataInv
  <1>1. LinkInit => FramesInv
    BY ReaderStart, InStepStart DEF LinkInit, FramesInv
  <1> QED
    BY <1>1, MadeStart, TableStart, TimesStart DEF LinkDataInv

LEMMA LinkDataStep == LinkDataInv /\ [LinkNext]_link_vars => LinkDataInv'
  <1> SUFFICES ASSUME FramesInv, MadeInv, TableInv, TimesInv, [LinkNext]_link_vars
               PROVE  LinkDataInv'
    BY DEF LinkDataInv
  <1>1. [Next]_vars
    BY LinkStepReads
  <1>2. ReaderInv /\ FramesInv'
    BY <1>1, ReaderStep, InStepStep DEF FramesInv
  <1>3. ReaderInv'
    BY <1>2 DEF FramesInv
  <1> QED
    BY <1>2, <1>3, MadeStep, TableStep, TimesStep DEF LinkDataInv

LEMMA LinkData == LinkSpec => []LinkDataInv
  BY LinkDataStart, LinkDataStep, PTL DEF LinkSpec

LEMMA MaxOf ==
    ASSUME NEW n \in Nat, NEW T, T \in SUBSET (1..n), T # {}
    PROVE  Max(T) \in T /\ \A y \in T : y <= Max(T)
  <1> DEFINE D == {n - y : y \in T}
  <1>1. D \in SUBSET Nat /\ D # {}
    <2>1. \A y \in T : n - y \in Nat
      OBVIOUS
    <2>2. \E d : d \in D
      OBVIOUS
    <2> QED
      BY <2>1, <2>2
  <1>2. PICK d \in D : \A c \in D : d <= c
    BY <1>1, Least
  <1>3. PICK x \in T : d = n - x
    BY <1>2
  <1>4. \A y \in T : x >= y
    <2> SUFFICES ASSUME NEW y \in T PROVE x >= y
      OBVIOUS
    <2>1. n - y \in D
      OBVIOUS
    <2>2. d <= n - y
      BY <1>2, <2>1
    <2> QED
      BY <1>3, <2>2
  <1>5. Max(T) \in T /\ \A y \in T : Max(T) >= y
    BY <1>4 DEF Max
  <1> QED
    BY <1>5

\* What was sent is what was made, and the table holds the newest of each point.
LEMMA SentIsMade ==
    ASSUME LinkDataInv, Quiescent
    PROVE  /\ Sent = made /\ DOMAIN Sent = 1..done /\ done \in Nat
           /\ \A i \in 1..done : Sent[i] \in Reading
  <1>1. ~lost /\ updates = <<>> /\ messages \in Messages /\ handled \in Seq(Seq(Octet))
    BY DEF Quiescent, LinkDataInv, FramesInv, ReaderInv
  <1>2. DOMAIN handled = 1..Len(handled)
    BY <1>1
  <1>3. \A i \in DOMAIN handled : sent[handled[i]] = Readings(handled[i])
    <2> SUFFICES ASSUME NEW i \in DOMAIN handled PROVE sent[handled[i]] = Readings(handled[i])
      OBVIOUS
    <2>1. PICK j \in DOMAIN messages : handled[i] = messages[j]
      BY <1>1, <1>2, PrefixHandled DEF LinkDataInv
    <2> QED
      BY <1>1, <2>1, SentIsParsed
  <1>4. Sent = made
    <2>1. [i \in DOMAIN handled |-> sent[handled[i]]] = Parts(handled)
      BY <1>3 DEF Parts
    <2> QED
      BY <2>1 DEF Sent, made
  <1>5. made \in Seq(Reading)
    BY DEF LinkDataInv, MadeInv
  <1>6. done = Len(made) /\ Len(made) \in Nat
    BY <1>1, <1>5 DEF done
  <1>7. DOMAIN made = 1..Len(made) /\ \A i \in 1..Len(made) : made[i] \in Reading
    BY <1>5
  <1> QED
    BY <1>4, <1>6, <1>7

LEMMA LastOfPoint ==
    ASSUME LinkDataInv, Quiescent, NEW p, SentFor(p) # {}
    PROVE  LET i == Latest(p) IN
           /\ i \in 1..done /\ Sent[i].point = p /\ Newest(i, done) /\ Stored(i)
           /\ \A j \in SentFor(p) : j <= i
  <1>1. Sent = made /\ DOMAIN Sent = 1..done /\ done \in Nat
    BY SentIsMade
  <1> DEFINE T == SentFor(p)
             i == Latest(p)
  <1>2. T \in SUBSET (1..done) /\ \A k \in 1..done : k \in T <=> made[k].point = p
    BY <1>1 DEF SentFor
  <1> HIDE DEF T
  <1>3. T # {}
    BY DEF T
  <1>4. i \in T /\ \A y \in T : y <= i
    BY <1>1, <1>2, <1>3, MaxOf DEF Latest, T
  <1> HIDE DEF i
  <1>5. i \in 1..done /\ made[i].point = p
    BY <1>2, <1>4
  <1>6. Newest(i, done)
    <2> SUFFICES ASSUME NEW k \in (i + 1)..done PROVE made[k].point # p
      BY <1>5 DEF Newest
    <2>1. k \in 1..done /\ ~(k <= i)
      BY <1>1, <1>5
    <2> QED
      BY <1>2, <1>4, <2>1
  <1>7. Stored(i)
    BY <1>5, <1>6 DEF LinkDataInv, TableInv
  <1> QED
    BY <1>1, <1>4, <1>5, <1>6, <1>7 DEF T, i

LEMMA OneBefore ==
    ASSUME LinkDataInv, Quiescent, NEW p, Earlier(p) # {}
    PROVE  LET i == Latest(p)
               j == Max(Earlier(p))
           IN  /\ i \in 1..done /\ j \in 1..done
               /\ made[i].point = p /\ made[j].point = p
               /\ Newest(i, done) /\ Before(j, i)
  <1> DEFINE T == SentFor(p)
             B == Earlier(p)
             i == Latest(p)
  <1>1. /\ Sent = made /\ DOMAIN Sent = 1..done /\ done \in Nat
    BY SentIsMade
  <1>2. T \in SUBSET (1..done) /\ \A k \in 1..done : k \in T <=> made[k].point = p
    BY <1>1 DEF SentFor
  <1>3. B = T \ {i} /\ T # {} /\ B # {}
    BY DEF Earlier
  <1>4. /\ i \in 1..done /\ made[i].point = p /\ Newest(i, done)
        /\ \A k \in T : k <= i
    BY <1>1, <1>3, LastOfPoint
  <1> HIDE DEF T, i, B
  <1>5. B \in SUBSET (1..done) /\ \A k : k \in B <=> k \in T /\ k # i
    BY <1>2, <1>3
  <1>10. Max(B) \in B /\ \A k \in B : k <= Max(B)
    BY <1>1, <1>3, <1>5, MaxOf
  <1>6. PICK j : j = Max(B) /\ j \in B /\ \A k \in B : k <= j
    BY <1>10
  <1>7. j \in T /\ j # i /\ j \in 1..done /\ made[j].point = p
    BY <1>2, <1>5, <1>6
  <1>8. j < i
    BY <1>4, <1>7
  <1>9. \A k \in (j + 1)..(i - 1) : made[k].point # p
    <2> SUFFICES ASSUME NEW k \in (j + 1)..(i - 1) PROVE made[k].point # p
      OBVIOUS
    <2>1. k \in 1..done /\ k # i /\ ~(k <= j)
      BY <1>1, <1>4, <1>7
    <2> QED
      BY <1>2, <1>5, <1>6, <2>1
  <1> QED
    BY <1>4, <1>6, <1>7, <1>8, <1>9 DEF Before, i, B

\* For any number of frames, of any layout and any lengths, cut in any way: the table holds
\* exactly the points that were sent, each with the value and quality of its last reading;
\* the DEBUG lines give the time tags of all readings, in order.
THEOREM ReadingsStored == LinkSpec => []StoredAsSent
  <1>1. LinkDataInv => StoredAsSent
    <2> SUFFICES ASSUME LinkDataInv, Quiescent
                 PROVE  /\ DOMAIN table = {Sent[i].point : i \in DOMAIN Sent}
                        /\ \A p \in DOMAIN table :
                              LET u == Sent[Latest(p)] IN
                              table[p].value = u.value /\ table[p].quality = u.quality
                        /\ time_lines = [i \in DOMAIN Sent |-> Sent[i].time]
      BY DEF StoredAsSent
    <2>1. Sent = made /\ DOMAIN Sent = 1..done /\ done \in Nat
      BY SentIsMade
    <2>2. \A p : SentFor(p) # {} <=> \E i \in 1..done : made[i].point = p
      BY <2>1 DEF SentFor
    <2>3. \A p \in DOMAIN table : SentFor(p) # {}
      BY <2>2 DEF LinkDataInv, TableInv
    <2>4. \A p : SentFor(p) # {} => p \in DOMAIN table
      <3> SUFFICES ASSUME NEW p, SentFor(p) # {} PROVE p \in DOMAIN table
        OBVIOUS
      <3>1. Sent[Latest(p)].point = p /\ Stored(Latest(p))
        BY LastOfPoint
      <3> QED
        BY <2>1, <3>1 DEF Stored
    <2>5. DOMAIN table = {Sent[i].point : i \in DOMAIN Sent}
      <3>1. \A p : p \in DOMAIN table <=> \E i \in 1..done : made[i].point = p
        BY <2>2, <2>3, <2>4
      <3> QED
        BY <2>1, <3>1
    <2>6. ASSUME NEW p \in DOMAIN table
          PROVE  LET u == Sent[Latest(p)] IN
                 table[p].value = u.value /\ table[p].quality = u.quality
      <3>1. Sent[Latest(p)].point = p /\ Stored(Latest(p))
        BY <2>3, LastOfPoint
      <3> QED
        BY <2>1, <3>1 DEF Stored
    <2>7. time_lines = [i \in DOMAIN Sent |-> Sent[i].time]
      BY <2>1 DEF LinkDataInv, TimesInv
    <2> QED
      BY <2>5, <2>6, <2>7
  <1> QED
    BY <1>1, LinkData, PTL

-----------------------------------------------------------------------------
(***************************************************************************)
(* Powers of two, and the distance of two doubles in a unit of both.        *)
(***************************************************************************)
PowersUpTo(f, k) == \A n \in 0..k : f[n] = IF n = 0 THEN 1 ELSE 2 * f[n - 1]

LEMMA Exp2Unique ==
    ASSUME NEW f, NEW g, NEW k \in Nat, NEW l \in Nat, k <= l,
           PowersUpTo(f, k), PowersUpTo(g, l)
    PROVE  f[k] = g[k]
  <1> DEFINE T == {n \in Nat : n <= k => f[n] = g[n]}
  <1>1. 0 \in T
    BY DEF PowersUpTo
  <1>2. ASSUME NEW n \in T PROVE n + 1 \in T
    <2> SUFFICES ASSUME n + 1 <= k PROVE f[n + 1] = g[n + 1]
      OBVIOUS
    <2>1. n + 1 # 0 /\ n + 1 - 1 = n /\ n + 1 \in 0..k /\ n + 1 \in 0..l /\ f[n] = g[n]
      OBVIOUS
    <2>2. f[n + 1] = 2 * f[n + 1 - 1] /\ g[n + 1] = 2 * g[n + 1 - 1]
      BY <2>1 DEF PowersUpTo
    <2> QED
      BY <2>1, <2>2
  <1> HIDE DEF T
  <1>3. T = Nat
    <2>1. T \in SUBSET Nat
      BY DEF T
    <2> QED
      BY <1>1, <1>2, <2>1, SetInduction
  <1>4. k \in T
    BY <1>3
  <1> QED
    BY <1>4 DEF T

LEMMA Exp2Unfolds == Exp2 = [n \in Nat |-> IF n = 0 THEN 1 ELSE 2 * Exp2[n - 1]]
  <1> DEFINE T == {k \in Nat : \E f : PowersUpTo(f, k)}
  <1>1. 0 \in T
    <2> DEFINE f == [n \in 0..0 |-> 1]
    <2>1. PowersUpTo(f, 0)
      BY DEF PowersUpTo
    <2> QED
      BY <2>1
  <1>2. ASSUME NEW k \in T PROVE k + 1 \in T
    <2>1. PICK f : PowersUpTo(f, k)
      OBVIOUS
    <2> DEFINE g == [n \in 0..(k + 1) |-> IF n = 0 THEN 1 ELSE 2 * f[n - 1]]
    <2>2. \A n \in 0..k : f[n] = IF n = 0 THEN 1 ELSE 2 * f[n - 1]
      BY <2>1 DEF PowersUpTo
    <2>3. \A n \in 0..k : g[n] = f[n]
      BY <2>2
    <2>4. \A n \in 0..(k + 1) : g[n] = IF n = 0 THEN 1 ELSE 2 * f[n - 1]
      OBVIOUS
    <2> HIDE DEF g
    <2>5. \A n \in 0..(k + 1) : g[n] = IF n = 0 THEN 1 ELSE 2 * g[n - 1]
      <3> SUFFICES ASSUME NEW n \in 0..(k + 1), n # 0 PROVE g[n - 1] = f[n - 1]
        BY <2>4
      <3>1. n - 1 \in 0..k
        OBVIOUS
      <3> QED
        BY <2>3, <3>1
    <2>6. PowersUpTo(g, k + 1)
      BY <2>5 DEF PowersUpTo
    <2> QED
      BY <2>6
  <1>3. T = Nat
    <2>1. T \in SUBSET Nat
      OBVIOUS
    <2> HIDE DEF T
    <2> QED
      BY <1>1, <1>2, <2>1, SetInduction
  <1> DEFINE F(k) == CHOOSE f : PowersUpTo(f, k)
             h == [n \in Nat |-> F(n)[n]]
  <1>4. \A k \in Nat : PowersUpTo(F(k), k)
    BY <1>3
  <1> HIDE DEF F
  <1>5. \A n \in Nat : h[n] = IF n = 0 THEN 1 ELSE 2 * h[n - 1]
    <2> SUFFICES ASSUME NEW n \in Nat PROVE F(n)[n] = IF n = 0 THEN 1 ELSE 2 * h[n - 1]
      OBVIOUS
    <2>1. F(n)[n] = IF n = 0 THEN 1 ELSE 2 * F(n)[n - 1]
      <3>1. n \in 0..n /\ PowersUpTo(F(n), n)
        BY <1>4
      <3> QED
        BY <3>1 DEF PowersUpTo
    <2>2. CASE n = 0
      BY <2>1, <2>2
    <2>3. CASE n # 0
      <3>1. PICK k \in Nat : k = n - 1
        BY <2>3
      <3>2. k <= n /\ h[k] = F(k)[k]
        BY <3>1
      <3>3. PICK f, g : f = F(k) /\ g = F(n)
        OBVIOUS
      <3>4. PowersUpTo(f, k) /\ PowersUpTo(g, n)
        BY <1>4, <3>3
      <3>5. f[k] = g[k]
        BY <3>2, <3>4, Exp2Unique
      <3> QED
        BY <2>1, <2>3, <3>1, <3>2, <3>3, <3>5
    <2> QED
      BY <2>2, <2>3
  <1>6. h = [n \in Nat |-> h[n]]
    OBVIOUS
  <1> HIDE DEF h
  <1>7. h = [n \in Nat |-> IF n = 0 THEN 1 ELSE 2 * h[n - 1]]
    BY <1>5, <1>6
  <1> QED
    BY <1>7 DEF Exp2

LEMMA Exp2Step ==
    /\ Exp2[0] = 1
    /\ \A n \in Nat : Exp2[n + 1] = 2 * Exp2[n]
    /\ \A n \in Nat : Exp2[n] \in Nat \ {0}
  <1>1. \A n \in Nat : Exp2[n] = IF n = 0 THEN 1 ELSE 2 * Exp2[n - 1]
    BY Exp2Unfolds
  <1>2. \A n \in Nat : Exp2[n + 1] = 2 * Exp2[n]
    <2> SUFFICES ASSUME NEW n \in Nat PROVE Exp2[n + 1] = 2 * Exp2[n]
      OBVIOUS
    <2>1. n + 1 \in Nat /\ n + 1 # 0 /\ n + 1 - 1 = n
      OBVIOUS
    <2>2. Exp2[n + 1] = IF n + 1 = 0 THEN 1 ELSE 2 * Exp2[n + 1 - 1]
      BY <1>1, <2>1
    <2> QED
      BY <2>1, <2>2
  <1> DEFINE T == {n \in Nat : Exp2[n] \in Nat \ {0}}
  <1>3. 0 \in T
    BY <1>1
  <1>4. ASSUME NEW n \in T PROVE n + 1 \in T
    BY <1>2
  <1>5. T = Nat
    BY <1>3, <1>4, SetInduction
  <1> QED
    BY <1>1, <1>2, <1>5

LEMMA Exp2Sum == \A a, b \in Nat : Exp2[a + b] = Exp2[a] * Exp2[b]
  <1> SUFFICES ASSUME NEW a \in Nat PROVE \A b \in Nat : Exp2[a + b] = Exp2[a] * Exp2[b]
    OBVIOUS
  <1> DEFINE T == {b \in Nat : Exp2[a + b] = Exp2[a] * Exp2[b]}
  <1>1. 0 \in T
    <2>1. a + 0 = a /\ Exp2[a] \in Nat
      BY Exp2Step
    <2> QED
      BY <2>1, Exp2Step
  <1>2. ASSUME NEW b \in T PROVE b + 1 \in T
    <2>1. /\ Exp2[a] \in Nat /\ Exp2[b] \in Nat /\ Exp2[a + b] = Exp2[a] * Exp2[b]
          /\ a + b \in Nat /\ b + 1 \in Nat /\ a + (b + 1) = (a + b) + 1
      BY Exp2Step
    <2>2. Exp2[b + 1] = 2 * Exp2[b] /\ Exp2[(a + b) + 1] = 2 * Exp2[a + b]
      BY <2>1, Exp2Step
    <2>3. \A x, y \in Nat : 2 * (x * y) = x * (2 * y)
      OBVIOUS
    <2>4. Exp2[a + (b + 1)] = Exp2[a] * Exp2[b + 1]
      BY <2>1, <2>2, <2>3
    <2> QED
      BY <2>1, <2>4
  <1>3. T = Nat
    BY <1>1, <1>2, SetInduction
  <1> QED
    BY <1>3

\* The unit is a power of two that both doubles are multiples of.
LEMMA UnitBelow ==
    ASSUME NEW a \in [m : Int, e : Int], NEW b \in [m : Int, e : Int]
    PROVE  Unit(a, b) \in Int /\ Unit(a, b) <= a.e /\ Unit(a, b) <= b.e /\ Unit(a, b) <= 0
  <1> DEFINE T == {a.e, b.e, 0}
  <1>1. a.e \in Int /\ b.e \in Int
    OBVIOUS
  <1>2. \E x \in T : \A y \in T : x <= y
    BY <1>1
  <1>3. Min(T) \in T /\ \A y \in T : Min(T) <= y
    BY <1>2 DEF Min
  <1>4. Unit(a, b) = Min(T)
    BY DEF Unit
  <1> HIDE DEF T
  <1>5. a.e \in T /\ b.e \in T /\ 0 \in T /\ \A x \in T : x \in Int
    BY <1>1 DEF T
  <1> QED
    BY <1>3, <1>4, <1>5

LEMMA Cancel ==
    ASSUME NEW x \in Int, NEW y \in Int, NEW k \in Nat \ {0}
    PROVE  x <= y <=> x * k <= y * k
  <1>1. \A d, c \in Nat : d * c \in Nat
    OBVIOUS
  <1>2. CASE x <= y
    <2>1. (y - x) * k \in Nat
      BY <1>1, <1>2
    <2>2. (y - x) * k = y * k - x * k /\ x * k \in Int /\ y * k \in Int
      OBVIOUS
    <2> QED
      BY <1>2, <2>1, <2>2
  <1>3. CASE ~(x <= y)
    <2>1. (x - y - 1) * k \in Nat
      BY <1>1, <1>3
    <2>2. (x - y - 1) * k = x * k - y * k - k /\ x * k \in Int /\ y * k \in Int
      OBVIOUS
    <2> QED
      BY <1>3, <2>1, <2>2
  <1> QED
    BY <1>2, <1>3

LEMMA AbsTimes ==
    ASSUME NEW x \in Int, NEW k \in Nat
    PROVE  Abs(x) \in Nat /\ Abs(x * k) = Abs(x) * k
  <1>1. \A c, d \in Nat : c * d \in Nat
    OBVIOUS
  <1>2. CASE x >= 0
    BY <1>1, <1>2 DEF Abs
  <1>3. CASE x < 0
    <2>1. (-x) * k \in Nat
      BY <1>1, <1>3
    <2>2. (-x) * k = -(x * k) /\ x * k \in Int
      OBVIOUS
    <2>3. Abs(x * k) = (-x) * k
      BY <2>1, <2>2 DEF Abs
    <2> QED
      BY <1>3, <2>3 DEF Abs
  <1> QED
    BY <1>2, <1>3

LEMMA Triangle ==
    ASSUME NEW x \in Int, NEW y \in Int, NEW z \in Int
    PROVE  Abs(x - z) <= Abs(x - y) + Abs(y - z)
  BY DEF Abs

LEMMA Millionths ==
    ASSUME NEW x \in Int, NEW y \in Int
    PROVE  x <= y \div 1000000 <=> 1000000 * x <= y
  OBVIOUS

\* In any unit E that is fine enough, a double is a whole number ...
In(x, E) == x.m * Exp2[x.e - E]

LEMMA Rescaled ==
    ASSUME NEW x \in [m : Int, e : Int], NEW U \in Int, NEW E \in Int, E <= U, U <= x.e
    PROVE  In(x, U) \in Int /\ In(x, E) = In(x, U) * Exp2[U - E]
  <1>1. PICK r \in Nat, d \in Nat : r = x.e - U /\ d = U - E
    OBVIOUS
  <1>2. x.e - E = r + d /\ x.m \in Int
    BY <1>1
  <1>3. Exp2[r + d] = Exp2[r] * Exp2[d] /\ Exp2[r] \in Nat /\ Exp2[d] \in Nat
    BY Exp2Sum, Exp2Step
  <1>4. PICK m \in Int, p \in Nat, q \in Nat : m = x.m /\ p = Exp2[r] /\ q = Exp2[d]
    BY <1>2, <1>3
  <1>5. In(x, U) = m * p /\ In(x, E) = m * (p * q) /\ Exp2[U - E] = q
    BY <1>1, <1>2, <1>3, <1>4 DEF In
  <1>6. m * (p * q) = (m * p) * q /\ m * p \in Int
    OBVIOUS
  <1> QED
    BY <1>5, <1>6

\* ... and the test of Differs can be made in it.
LEMMA WithinTolerance ==
    ASSUME NEW a \in [m : Int, e : Int], NEW b \in [m : Int, e : Int], NEW times \in Nat,
           NEW E \in Int, E <= Unit(a, b)
    PROVE  Units(a, b) <= Tolerance(a, b, times) <=>
               1000000 * Abs(In(a, E) - In(b, E)) <= times * Exp2[-E]
  <1>1. PICK U \in Int : U = Unit(a, b)
    BY UnitBelow
  <1>2. E <= U /\ U <= a.e /\ U <= b.e /\ U <= 0
    BY <1>1, UnitBelow
  <1>3. PICK x \in Int, y \in Int : x = In(a, U) /\ y = In(b, U)
    BY <1>2, Rescaled
  <1>4. PICK d \in Nat, r \in Nat : d = U - E /\ r = -U /\ -E = r + d
    BY <1>2
  <1>5. Exp2[d] \in Nat \ {0} /\ Exp2[r] \in Nat /\ Exp2[r + d] = Exp2[r] * Exp2[d]
    BY Exp2Step, Exp2Sum
  <1>6. PICK k \in Nat \ {0}, c \in Nat : k = Exp2[d] /\ c = Exp2[r]
    BY <1>5
  <1>7. In(a, E) = x * k /\ In(b, E) = y * k /\ Exp2[-E] = c * k
    <2>1. In(a, E) = In(a, U) * Exp2[U - E] /\ In(b, E) = In(b, U) * Exp2[U - E]
      BY <1>2, Rescaled
    <2> QED
      BY <1>3, <1>4, <1>5, <1>6, <2>1
  <1>8. Units(a, b) = Abs(x - y) /\ Tolerance(a, b, times) = (times * c) \div 1000000
    BY <1>1, <1>3, <1>4, <1>6 DEF Units, Tolerance, In
  <1>9. PICK n \in Nat, t \in Nat : n = Abs(x - y) /\ t = times * c
    <2>1. times * c \in Nat /\ x - y \in Int
      OBVIOUS
    <2>2. Abs(x - y) \in Nat
      BY <2>1, AbsTimes
    <2> QED
      BY <2>1, <2>2
  <1>10. Units(a, b) <= Tolerance(a, b, times) <=> 1000000 * n <= t
    BY <1>8, <1>9, Millionths
  <1>11. 1000000 * n <= t <=> (1000000 * n) * k <= t * k
    <2>1. 1000000 * n \in Int /\ t \in Int
      OBVIOUS
    <2> QED
      BY <2>1, Cancel
  <1>12. Abs(In(a, E) - In(b, E)) = n * k
    <2>1. x * k - y * k = (x - y) * k /\ x - y \in Int
      OBVIOUS
    <2>2. Abs((x - y) * k) = Abs(x - y) * k
      BY <2>1, AbsTimes
    <2> QED
      BY <1>7, <1>9, <2>1, <2>2
  <1>13. times * Exp2[-E] = t * k
    <2>1. times * (c * k) = (times * c) * k
      OBVIOUS
    <2> QED
      BY <1>7, <1>9, <2>1
  <1>14. 1000000 * (n * k) = (1000000 * n) * k
    OBVIOUS
  <1> QED
    BY <1>10, <1>11, <1>12, <1>13, <1>14

\* One more step of at most a millionth.
LEMMA OneMoreMillionth ==
    ASSUME NEW a \in [m : Int, e : Int], NEW b \in [m : Int, e : Int],
           NEW c \in [m : Int, e : Int], NEW times \in Nat,
           Units(a, b) <= Tolerance(a, b, times), Units(b, c) <= Tolerance(b, c, 1)
    PROVE  Units(a, c) <= Tolerance(a, c, times + 1)
  <1>1. PICK r \in Int, s \in Int, t \in Int : r = Unit(a, b) /\ s = Unit(b, c) /\ t = Unit(a, c)
    BY UnitBelow
  <1>2. r <= a.e /\ r <= b.e /\ r <= 0 /\ s <= b.e /\ s <= c.e
    BY <1>1, UnitBelow
  <1>3. PICK E \in Int : E <= r /\ E <= s /\ E <= t
    <2>1. \E E \in Int : E <= r /\ E <= s /\ E <= t
      <3>1. CASE r <= s /\ r <= t
        BY <3>1
      <3>2. CASE s <= r /\ s <= t
        BY <3>2
      <3>3. CASE t <= r /\ t <= s
        BY <3>3
      <3> QED
        BY <3>1, <3>2, <3>3
    <2> QED
      BY <2>1
  <1>4. In(a, E) \in Int /\ In(b, E) \in Int /\ In(c, E) \in Int
    <2>1. E <= a.e /\ E <= b.e /\ E <= c.e
      BY <1>2, <1>3
    <2>2. E <= E
      OBVIOUS
    <2> QED
      BY <2>1, <2>2, Rescaled
  <1>5. Exp2[-E] \in Nat
    <2>1. -E \in Nat
      BY <1>2, <1>3
    <2> QED
      BY <2>1, Exp2Step
  <1>6. PICK x \in Int, y \in Int, z \in Int, k \in Nat :
            x = In(a, E) /\ y = In(b, E) /\ z = In(c, E) /\ k = Exp2[-E]
    BY <1>4, <1>5
  <1>7. 1000000 * Abs(x - y) <= times * k
    BY <1>1, <1>3, <1>6, WithinTolerance
  <1>8. 1000000 * Abs(y - z) <= 1 * k
    BY <1>1, <1>3, <1>6, WithinTolerance
  <1>9. Abs(x - z) <= Abs(x - y) + Abs(y - z)
    BY Triangle
  <1>10. PICK u \in Nat, v \in Nat, w \in Nat : u = Abs(x - y) /\ v = Abs(y - z) /\ w = Abs(x - z)
    <2>1. x - y \in Int /\ y - z \in Int /\ x - z \in Int
      OBVIOUS
    <2>2. Abs(x - y) \in Nat /\ Abs(y - z) \in Nat /\ Abs(x - z) \in Nat
      BY <2>1, AbsTimes
    <2> QED
      BY <2>2
  <1>11. PICK q \in Nat : q = times * k
    BY <1>6
  <1>12. (times + 1) * k = q + k
    BY <1>11
  <1>13. 1000000 * w <= q + k
    BY <1>7, <1>8, <1>9, <1>10, <1>11
  <1>14. times + 1 \in Nat
    OBVIOUS
  <1> QED
    BY <1>1, <1>3, <1>6, <1>10, <1>12, <1>13, <1>14, WithinTolerance

LEMMA UnitsType ==
    ASSUME NEW a \in [m : Int, e : Int], NEW b \in [m : Int, e : Int]
    PROVE  Units(a, b) \in Int /\ Tolerance(a, b, 1) \in Int
  <1>1. PICK U \in Int : U = Unit(a, b) /\ U <= a.e /\ U <= b.e /\ U <= 0
    BY UnitBelow
  <1>2. Exp2[-U] \in Nat /\ Exp2[a.e - U] \in Nat /\ Exp2[b.e - U] \in Nat
    <2>1. -U \in Nat /\ a.e - U \in Nat /\ b.e - U \in Nat
      BY <1>1
    <2> QED
      BY <2>1, Exp2Step
  <1>3. PICK k \in Nat, x \in Int, y \in Int :
            k = Exp2[-U] /\ x = a.m * Exp2[a.e - U] /\ y = b.m * Exp2[b.e - U]
    BY <1>2
  <1>4. Units(a, b) = Abs(x - y) /\ Tolerance(a, b, 1) = (1 * k) \div 1000000
    BY <1>1, <1>3 DEF Units, Tolerance
  <1>5. x - y \in Int /\ (1 * k) \div 1000000 \in Int
    OBVIOUS
  <1> QED
    BY <1>4, <1>5 DEF Abs

LEMMA SameReading ==
    ASSUME NEW a \in [m : Int, e : Int]
    PROVE  Units(a, a) <= Tolerance(a, a, 0)
  <1>1. PICK U \in Int : U = Unit(a, a) /\ U <= a.e /\ U <= 0
    BY UnitBelow
  <1>2. Exp2[-U] \in Nat /\ Exp2[a.e - U] \in Nat /\ a.m \in Int
    <2>1. -U \in Nat /\ a.e - U \in Nat
      BY <1>1
    <2> QED
      BY <2>1, Exp2Step
  <1>3. PICK k \in Nat, x \in Int : k = Exp2[-U] /\ x = a.m * Exp2[a.e - U]
    BY <1>2
  <1>4. Units(a, a) = Abs(x - x) /\ Tolerance(a, a, 0) = (0 * k) \div 1000000
    BY <1>1, <1>3 DEF Units, Tolerance
  <1> QED
    BY <1>4 DEF Abs

\* What the log last said of the points it speaks of by rule.
FollowsInv ==
    \A p \in DOMAIN table :
        LET e == table[p] IN
        IF p.type # "YC" THEN e.told = e.value
        ELSE ~e.blind => /\ e.told # NaN /\ e.value # NaN
                         /\ Units(e.told, e.value) <= Tolerance(e.told, e.value, e.quiet)

LEMMA NotNaN == \A x \in Doubles : x # NaN => x \in [m : Int, e : Int]
  BY DEF Doubles

LEMMA FollowsUpdated ==
    ASSUME MadeInv, TableInv, FollowsInv, Update
    PROVE  FollowsInv'
  <1> DEFINE u == Head(updates)
             p == u.point
             old == table[p]
  <1>1. u \in Reading
    BY UpdateTakes
  <1>9. PICK line : line \in Lines(u) /\ table'[p] = EntryAfter(u, line)
    BY UpdateStores
  <1> DEFINE e == EntryAfter(u, line)
  <1>2. /\ DOMAIN table' = DOMAIN table \cup {p} /\ table'[p] = e
        /\ \A q \in DOMAIN table : q # p => table'[q] = table[q]
    BY <1>9, UpdateStores
  <1>3. /\ p.type \in {"YX", "YC", "ENERGY"}
        /\ p.type = "YC" => u.value \in Doubles
        /\ p.type # "YC" => u.value \in Int
    BY <1>1, ReadingFields
  <1>4. p \in DOMAIN table => EntryType(p)
    BY DEF TableInv
  <1>5. /\ e.value = u.value
        /\ IF line = "none"
           THEN /\ e.told = old.told /\ e.quiet = old.quiet + 1
                /\ e.blind = (old.blind \/ u.value = NaN)
           ELSE e.told = u.value /\ e.quiet = 0 /\ e.blind = (u.value = NaN)
    BY <1>1, <1>4, <1>9, EntryRule
  <1>6. line = "none" =>
            /\ p \in DOMAIN table /\ p.type # "ENERGY"
            /\ p.type = "YX" => old.value = u.value
            /\ p.type = "YC" => ~Differs(old.value, u.value)
    BY <1>1, <1>9, LineRule
  <1> HIDE DEF u, p, e, old
  <1>7. CASE line = "none"
    <2>1. /\ p \in DOMAIN table /\ EntryType(p)
          /\ IF p.type # "YC" THEN old.told = old.value
             ELSE ~old.blind => /\ old.told # NaN /\ old.value # NaN
                                /\ Units(old.told, old.value) <=
                                      Tolerance(old.told, old.value, old.quiet)
      BY <1>4, <1>6, <1>7 DEF FollowsInv, old
    <2>2. p.type # "YC" => e.told = e.value
      BY <1>3, <1>5, <1>6, <1>7, <2>1
    <2>3. ASSUME p.type = "YC", ~e.blind
          PROVE  /\ e.told # NaN /\ e.value # NaN
                 /\ Units(e.told, e.value) <= Tolerance(e.told, e.value, e.quiet)
      <3>1. ~old.blind /\ u.value # NaN
        BY <1>5, <1>7, <2>3
      <3>2. old.told # NaN /\ old.value # NaN
        BY <2>1, <2>3, <3>1
      <3>3. old.quiet \in Nat
        BY <2>1 DEF EntryType, Entry, old
      <3>4. PICK a \in [m : Int, e : Int], b \in [m : Int, e : Int],
                 c \in [m : Int, e : Int], n \in Nat :
                a = old.told /\ b = old.value /\ c = u.value /\ n = old.quiet
        <4>1. old.told \in Doubles /\ old.value \in Doubles /\ u.value \in Doubles
          BY <1>3, <2>1, <2>3 DEF EntryType, old
        <4> QED
          BY <3>1, <3>2, <3>3, <4>1, NotNaN
      <3>5. Units(a, b) <= Tolerance(a, b, n)
        BY <2>1, <2>3, <3>1, <3>4
      <3>6. Units(b, c) <= Tolerance(b, c, 1)
        <4>1. ~(Units(b, c) > Tolerance(b, c, 1))
          BY <1>6, <1>7, <2>3, <3>1, <3>2, <3>4 DEF Differs
        <4>2. Units(b, c) \in Int /\ Tolerance(b, c, 1) \in Int
          BY UnitsType
        <4> QED
          BY <4>1, <4>2
      <3>7. Units(a, c) <= Tolerance(a, c, n + 1)
        BY <3>5, <3>6, OneMoreMillionth
      <3> QED
        BY <1>5, <1>7, <3>1, <3>2, <3>4, <3>7
    <2> QED
      BY <1>2, <2>2, <2>3 DEF FollowsInv
  <1>8. CASE line # "none"
    <2>1. e.told = e.value /\ e.quiet = 0 /\ (~e.blind => e.value # NaN)
      BY <1>5, <1>8
    <2>2. ASSUME p.type = "YC", ~e.blind
          PROVE  Units(e.told, e.value) <= Tolerance(e.told, e.value, e.quiet)
      <3>1. PICK a \in [m : Int, e : Int] : a = e.value
        BY <1>3, <1>5, <2>1, <2>2, NotNaN
      <3>2. Units(a, a) <= Tolerance(a, a, 0)
        BY SameReading
      <3> QED
        BY <2>1, <3>1, <3>2
    <2> QED
      BY <1>2, <2>1, <2>2 DEF FollowsInv
  <1> QED
    BY <1>7, <1>8

LEMMA FollowsStep ==
    ASSUME LinkDataInv, FollowsInv, [LinkNext]_link_vars
    PROVE  FollowsInv'
  <1>1. CASE Update
    BY <1>1, FollowsUpdated DEF LinkDataInv
  <1>2. CASE ~Update
    <2>1. UNCHANGED table
      BY <1>2, OthersKeep DEF ReadStep
    <2> QED
      BY <2>1 DEF FollowsInv
  <1> QED
    BY <1>1, <1>2

\* For any number of updates, however small each one's change: the log and the table do not
\* drift apart by more than the tolerance of one update each.
THEOREM LogFollowsValue == LinkSpec => []LogFollows
  <1>1. LinkInit => FollowsInv
    BY DEF LinkInit, FollowsInv
  <1>2. LinkDataInv /\ FollowsInv /\ [LinkNext]_link_vars => FollowsInv'
    BY FollowsStep
  <1>3. FollowsInv => LogFollows
    BY DEF FollowsInv, LogFollows
  <1> QED
    BY <1>1, <1>2, <1>3, LinkData, PTL DEF LinkSpec

-----------------------------------------------------------------------------
(***************************************************************************)
(* The verdict on a counter, whatever its thresholds and its rounding, and  *)
(* the rule of the configuration.                                           *)
(***************************************************************************)
\* A comparison with a double is one of integers.
LEMMA AtLeastIs ==
    ASSUME NEW d \in [m : Nat, e : Int] \cup {NaN}
    PROVE  \E K \in Nat \ {0}, L \in Nat : \A a, b \in Int :
               AtLeast(a, b, d) <=> d # NaN /\ a * K >= L * b
  <1>1. CASE d = NaN
    <2>1. \A a, b \in Int : ~AtLeast(a, b, d)
      BY <1>1 DEF AtLeast
    <2> QED
      BY <1>1, <2>1
  <1>2. CASE d \in [m : Nat, e : Int]
    <2> DEFINE low == Min({d.e, 0})
    <2>1. d.m \in Nat /\ d.e \in Int
      BY <1>2
    <2>2. low \in Int /\ low <= d.e /\ low <= 0
      <3> DEFINE T == {d.e, 0}
      <3>1. \E x \in T : \A y \in T : x <= y
        BY <2>1
      <3>2. Min(T) \in T /\ \A y \in T : Min(T) <= y
        BY <3>1 DEF Min
      <3> QED
        BY <2>1, <3>2
    <2>3. \A a, b : AtLeast(a, b, d) <=> d # NaN /\ a * Exp2[-low] >= d.m * Exp2[d.e - low] * b
      BY DEF AtLeast
    <2> HIDE DEF low
    <2>4. -low \in Nat /\ d.e - low \in Nat
      BY <2>1, <2>2
    <2>5. PICK K \in Nat \ {0}, l \in Nat : K = Exp2[-low] /\ l = Exp2[d.e - low]
      BY <2>4, Exp2Step
    <2>6. d.m * l \in Nat
      BY <2>1
    <2> QED
      BY <2>3, <2>5, <2>6
  <1> QED
    BY <1>1, <1>2

LEMMA Thresholds ==
    /\ abs_threshold \in [m : Nat, e : Int] \cup {NaN}
    /\ rate_threshold \in [m : Nat, e : Int] \cup {NaN}
    /\ PRECISION \in Nat \ {0}
  BY LinkAssumption

\* What is added to a divisor, or taken from it by rounding, only makes a ratio larger than
\* the one asked for.
LEMMA Scaling ==
    /\ \A x, y \in Int, c \in Nat : x >= y => x * c >= y * c
    /\ \A x, y \in Int, c \in Nat \ {0} : x * c >= y * c => x >= y
    /\ \A x, y, z \in Int : (x * y) * z = (x * z) * y
  OBVIOUS

\* A sure jump is warned of, and nothing else than what may be called a jump.
LEMMA VerdictIsRule ==
    ASSUME NEW previous \in Int, NEW value \in Int, NEW warned \in Spike(previous, value)
    PROVE  /\ warned => JumpAtMost(previous, value)
           /\ Differ(previous, value) => warned
           /\ previous > 0 /\ value >= 0 =>
                 /\ Ratio(value, previous) => warned
                 /\ Fall(previous, value) /\ ~Hidden(previous, value) => warned
  <1> DEFINE r == rate_threshold
             P == PRECISION
             surely  == \/ Differ(previous, value) \/ Rise(previous, value, 0)
                        \/ Drop(previous, value, 3)
             perhaps == \/ Differ(previous, value) \/ Rise(previous, value, 1)
                        \/ Drop(previous, value, 1)
  <1>1. (surely => warned) /\ (warned => perhaps)
    BY DEF Spike
  <1>2. P \in Nat \ {0}
    BY Thresholds
  <1>3. PICK K \in Nat \ {0}, L \in Nat : \A a, b \in Int :
            AtLeast(a, b, r) <=> r # NaN /\ a * K >= L * b
    BY Thresholds, AtLeastIs
  <1>4. Abs(previous) \in Nat /\ Abs(value) \in Nat /\ Abs(value) >= value
        /\ (previous >= 0 => Abs(previous) = previous) /\ (value >= 0 => Abs(value) = value)
    BY DEF Abs
  <1> HIDE DEF r, P
  <1>5. Rise(previous, value, 1) => JumpAtMost(previous, value)
    <2> SUFFICES ASSUME previous > 0, AtLeast(value * P, previous * (P - 1), r)
                 PROVE  AtLeast(Abs(value) * P, Abs(previous) * (P - 1), r)
      BY DEF Rise, JumpAtMost, r, P
    <2>1. PICK A \in Nat : A = Abs(value) /\ A >= value
      BY <1>4
    <2>2. value * P \in Int /\ A * P \in Int /\ previous * (P - 1) \in Int /\ A * P >= value * P
      BY <1>2, <2>1, Scaling
    <2>3. r # NaN /\ (value * P) * K >= L * (previous * (P - 1))
      BY <1>3, <2>2
    <2>4. (A * P) * K >= (value * P) * K
      BY <2>2, Scaling
    <2>5. PICK x \in Int, y \in Int, z \in Int :
              x = (A * P) * K /\ y = (value * P) * K /\ z = L * (previous * (P - 1))
      BY <2>2
    <2>6. x >= z
      BY <2>3, <2>4, <2>5
    <2> QED
      BY <1>3, <1>4, <2>1, <2>2, <2>3, <2>5, <2>6
  <1>6. Drop(previous, value, 1) => JumpAtMost(previous, value)
    <2> SUFFICES ASSUME previous > 0, value >= 0, AtLeast(2000000 * previous, 2000000 * value + 1, r)
                 PROVE  AtLeast(previous, value, r)
      BY <1>4 DEF Drop, JumpAtMost, r
    <2>1. r # NaN /\ (2000000 * previous) * K >= L * (2000000 * value + 1)
      BY <1>3
    <2>2. PICK x \in Int, y \in Int : x = previous * K /\ y = L * value
      OBVIOUS
    <2>3. (2000000 * previous) * K = 2000000 * x /\ L * (2000000 * value + 1) = 2000000 * y + L
      BY <2>2
    <2>4. x >= y
      BY <2>1, <2>3
    <2> QED
      BY <1>3, <2>1, <2>2, <2>4
  <1>7. warned => JumpAtMost(previous, value)
    BY <1>1, <1>5, <1>6 DEF JumpAtMost
  <1>8. Differ(previous, value) => warned
    BY <1>1
  <1>9. ASSUME previous > 0, Ratio(value, previous) PROVE warned
    <2>1. r # NaN /\ value * K >= L * previous
      BY <1>3, <1>9 DEF Ratio, r
    <2>2. PICK x \in Int, y \in Int : x = value * K /\ y = L * previous
      OBVIOUS
    <2>3. x * P >= y * P
      BY <1>2, <2>1, <2>2, Scaling
    <2>4. (value * P) * K = x * P /\ L * (previous * P) = y * P
      BY <1>2, <2>2
    <2>5. value * P \in Int /\ previous * (P - 0) \in Int /\ previous * (P - 0) = previous * P
      BY <1>2
    <2>6. AtLeast(value * P, previous * (P - 0), r)
      BY <1>3, <2>1, <2>3, <2>4, <2>5
    <2> QED
      BY <1>1, <1>9, <2>6 DEF Rise, r, P
  <1>10. ASSUME previous > 0, value >= 0, ~Hidden(previous, value) PROVE warned
    BY <1>1, <1>10 DEF Hidden, Drop
  <1> QED
    BY <1>7, <1>8, <1>9, <1>10

\* For every pair of counter readings, however many frames lie between them, every pair of
\* thresholds that the configuration can hold, infinity and NaN included, and any rounding
\* of a quotient: the line of the newer reading is a WARN when the rule must call it a jump,
\* and only when it can.
THEOREM CounterJumpsWarned == LinkSpec => []JumpsAreWarned
  <1>1. LinkDataInv => JumpsAreWarned
    <2> SUFFICES ASSUME LinkDataInv, Quiescent, NEW p \in DOMAIN table, p.type = "ENERGY",
                        Earlier(p) # {}
                 PROVE  LET previous == LastTwo(p)[1]
                            value == LastTwo(p)[2]
                            warned == table[p].level = "WARN"
                        IN  /\ warned => JumpAtMost(previous, value)
                            /\ Differ(previous, value) => warned
                            /\ previous > 0 /\ value >= 0 =>
                                  /\ Ratio(value, previous) => warned
                                  /\ Fall(previous, value) /\ ~Hidden(previous, value) => warned
      BY DEF JumpsAreWarned, Watched
    <2>1. /\ Sent = made /\ \A k \in 1..done : Sent[k] \in Reading
      BY SentIsMade
    <2>2. PICK i, j : i = Latest(p) /\ j = Max(Earlier(p))
      OBVIOUS
    <2>3. /\ i \in 1..done /\ j \in 1..done /\ made[i].point = p /\ made[j].point = p
          /\ Newest(i, done) /\ Before(j, i)
      BY <2>2, OneBefore
    <2>4. Warned(j, i)
      BY <2>3 DEF LinkDataInv, TableInv
    <2>5. PICK previous \in Int, value \in Int : previous = made[j].value /\ value = made[i].value
      <3>1. made[i] \in Reading /\ made[j] \in Reading
        BY <2>1, <2>3
      <3> QED
        BY <2>3, <3>1, ReadingFields
    <2>6. PICK warned : warned = (table[p].level = "WARN")
      OBVIOUS
    <2>7. warned \in Spike(previous, value)
      BY <2>3, <2>4, <2>5, <2>6 DEF Warned
    <2>8. LastTwo(p)[1] = previous /\ LastTwo(p)[2] = value
      BY <2>1, <2>2, <2>5 DEF LastTwo
    <2>9. /\ warned => JumpAtMost(previous, value)
          /\ Differ(previous, value) => warned
          /\ previous > 0 /\ value >= 0 =>
                /\ Ratio(value, previous) => warned
                /\ Fall(previous, value) /\ ~Hidden(previous, value) => warned
      BY <2>7, VerdictIsRule
    <2> QED
      BY <2>6, <2>8, <2>9
  <1> QED
    BY <1>1, LinkData, PTL
=============================================================================
