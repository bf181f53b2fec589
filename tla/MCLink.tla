-------------------------------- MODULE MCLink --------------------------------
(***************************************************************************)
(* Link with real byte layouts: frames of every kind of object, built from  *)
(* what they are to mean by an encoder of its own; frames that mean nothing *)
(* because a count, a length or a type is wrong; and pairs of readings of   *)
(* one point around the tolerance of a measured value and around the jump   *)
(* thresholds of a counter.                                                 *)
(***************************************************************************)
EXTENDS Link

\* n in k bytes, lowest first, in two's complement.
LE(n, k) == [i \in 1..k |-> (n \div (256 ^ (i - 1))) % 256]
FloatBytes(m, e, negative) ==
    LE(m - 8388608, 2) \o << ((e + 150) % 2) * 128 + ((m - 8388608) \div 65536),
                             (IF negative THEN 128 ELSE 0) + ((e + 150) \div 2) >>

U(class, address, value, quality, time) ==
    [point |-> [type |-> class, common_address |-> 1, ioa |-> address],
     value |-> value, quality |-> quality, time |-> time]

\* Frames as [body, sent]; N(S) is in the control bytes.
Header(type, vsq) == <<type, vsq, 3, 0>> \o LE(1, 2)
Frame(n, asdu, updates_sent) == [body |-> LE(2 * n, 2) \o <<0, 0>> \o asdu, sent |-> updates_sent]

Noon == [milliseconds |-> 59123, minute |-> 5, hour |-> 12, day |-> 31, month |-> 12, year |-> 2026]
NoonBytes == LE(59123, 2) \o <<128 + 5, 128 + 12, 32 + 31, 12, 26>>
BadTimeBytes == LE(60000, 2) \o <<5, 12, 31, 12, 26>>

SinglePoints == Frame(0, Header(1, 2) \o LE(1, 3) \o <<1>> \o LE(70000, 3) \o <<128>>,
    <<U("YX", 1, 1, 0, None), U("YX", 70000, 0, 128, None)>>)
DoubleTimed(time, bytes) == Frame(0, Header(31, 128 + 1) \o LE(300, 3) \o <<16 + 2>> \o bytes,
    <<U("YX", 300, 2, 16, time)>>)
NormalizedPair == Frame(0, Header(9, 128 + 2) \o LE(65535, 3) \o LE(-1, 2) \o <<0>> \o LE(1128, 2) \o <<1>>,
    <<U("YC", 65535, Double(-1, -15), 0, None), U("YC", 65536, Double(1128, -15), 1, None)>>)
ScaledTwice == Frame(1, Header(11, 2) \o LE(9, 3) \o LE(-300, 2) \o <<0>> \o LE(9, 3) \o LE(-408, 2) \o <<0, 104>>,
    <<U("YC", 9, Double(-300, 0), 0, None), U("YC", 9, Double(-408, 0), 0, None)>>)
Float32(m, e, negative) ==
    [bytes |-> FloatBytes(m, e, negative), value |-> Double(IF negative THEN -m ELSE m, e)]
NotANumber == [bytes |-> <<0, 0, 192, 127>>, value |-> NaN]

\* Readings of one point in one frame.
Measured(fs) ==
    Frame(0, Header(13, Len(fs)) \o FlattenSeq([i \in DOMAIN fs |-> LE(7, 3) \o fs[i].bytes \o <<0>>]),
          [i \in DOMAIN fs |-> U("YC", 7, fs[i].value, 0, None)])
Energy(v) ==
    Frame(0, Header(15, 2) \o LE(5, 3) \o LE(v[1], 4) \o <<1>> \o LE(5, 3) \o LE(v[2], 4) \o <<1>>,
          <<U("ENERGY", 5, v[1], 1, None), U("ENERGY", 5, v[2], 1, None)>>)
EnergyTimed(n, v) == Frame(n, Header(37, 128 + 1) \o LE(5, 3) \o LE(v, 4) \o <<1>> \o NoonBytes,
    <<U("ENERGY", 5, v, 1, Noon)>>)
One == Float32(8388608, -23, FALSE)

Nothing == {
    Frame(0, Header(1, 2) \o LE(1, 3) \o <<1, 1>>, <<>>),                   \* one object of two
    Frame(0, Header(11, 128 + 2) \o LE(1, 3) \o <<1, 0, 0, 1, 0>>, <<>>),   \* a byte short
    Frame(0, Header(1, 0), <<>>), Frame(0, Header(45, 1) \o LE(1, 3) \o <<1>>, <<>>),
    Frame(0, Header(100, 1) \o LE(0, 3) \o <<20>>, <<>>), Frame(0, <<1, 1, 3, 0, 1>>, <<>>),
    [body |-> <<11, 0, 0, 0>>, sent |-> <<>>] }                             \* STARTDT_CON

Streams ==
    {<<f>> : f \in Nothing}
    \cup { <<[body |-> <<11, 0, 0, 0>>, sent |-> <<>>], SinglePoints>>,
           <<DoubleTimed(Noon, NoonBytes)>>, <<DoubleTimed(None, BadTimeBytes)>>,
           <<NormalizedPair, ScaledTwice>>,
           <<Measured(<<One, Float32(8388616, -23, FALSE), Float32(8388624, -23, FALSE)>>)>>,
           <<Measured(<<One, Float32(8388624, -23, FALSE)>>)>>,
           <<Measured(<<One, NotANumber, Float32(10485760, -22, TRUE)>>)>>,
           <<EnergyTimed(0, -1)>> }
    \cup {<<Energy(v)>> : v \in {<<10, 48>>, <<10, 49>>, <<10, 50>>, <<10, 1>>, <<10, 2>>, <<10, 3>>,
                                 <<3, 0>>, <<0, 7>>, <<10, -10>>, <<-10, -50>>, <<-20, 25>>, <<-20, 26>>}}

Frames == UNION {{st[i] : i \in DOMAIN st} : st \in Streams}
MCMessages == {[i \in DOMAIN st |-> st[i].body] : st \in Streams}
MCSent == [b \in {f.body : f \in Frames} |-> (CHOOSE f \in Frames : f.body = b).sent]

\* 45.5 and 5.
MCAbsThreshold == Double(91, -1)
MCRateThreshold == Double(5, 0)

MCHosts == {<<"is silent", "refuses", "accepts later", "accepts">>, <<"refuses later">>}
===============================================================================
