--------------------------------- MODULE Asdu ---------------------------------
(***************************************************************************)
(* iec104_parse_asdu (src/iec104/iec104_asdu.c) with the byte readers of    *)
(* src/iec104/iec104_util.c: which updates of the point store an ASDU, a    *)
(* sequence of bytes, makes and in which order.  Offsets are those of the C *)
(* code, from 0.                                                            *)
(*                                                                          *)
(* A double is [m, e] for m times 2 to the e, or NaN; infinity is a power   *)
(* of two above every finite float.                                         *)
(***************************************************************************)
EXTENDS Integers, Sequences

CONSTANTS NaN, None

Byte == 0..255

\* A byte past the ASDU: frame is a local array, so the byte is what an earlier frame
\* left there; 0 stands for it.
At(a, i) == IF i < Len(a) THEN a[i + 1] ELSE 0

(***************************************************************************)
(* iec104_util.c                                                            *)
(***************************************************************************)
read_le16(a, i) == At(a, i) + 256 * At(a, i + 1)
read_le24(a, i) == read_le16(a, i) + 65536 * At(a, i + 2)
read_i16_faulty(a, i) == read_le16(a, i)
read_i16(a, i) == IF At(a, i + 1) < 128 THEN read_le16(a, i) ELSE read_le16(a, i) - 65536
read_i32(a, i) ==
    read_le24(a, i) + 16777216 * (IF At(a, i + 3) < 128 THEN At(a, i + 3) ELSE At(a, i + 3) - 256)

Double(m, e) == [m |-> m, e |-> e]

read_float32(a, i) ==
    LET negative == At(a, i + 3) >= 128
        exponent == 2 * (At(a, i + 3) % 128) + (At(a, i + 2) \div 128)
        fraction == read_le16(a, i) + 65536 * (At(a, i + 2) % 128)
        signed(m) == IF negative THEN -m ELSE m
    IN  IF exponent = 255
        THEN IF fraction = 0 THEN Double(signed(1), 128) ELSE NaN
        ELSE IF exponent = 0 THEN Double(signed(fraction), -149)
        ELSE Double(signed(8388608 + fraction), exponent - 150)

(***************************************************************************)
(* Types.                                                                   *)
(***************************************************************************)
Single == {1, 30}               \* M_SP_NA_1, M_SP_TB_1
DoublePoint == {3, 31}          \* M_DP_NA_1, M_DP_TB_1
Normalized == {9, 34}           \* M_ME_NA_1, M_ME_TD_1
Scaled == {11, 35}              \* M_ME_NB_1, M_ME_TE_1
Float == {13, 36}               \* M_ME_NC_1, M_ME_TF_1
Counter == {15, 37}             \* M_IT_NA_1, M_IT_TB_1
TimeTagged == {30, 31, 34, 35, 36, 37}
C_IC_NA_1 == 100

type_time_size(type) == IF type \in TimeTagged THEN 7 ELSE 0

\* Without the address; 0 for a type that is not parsed.
information_object_size(type) ==
    CASE type \in Single \cup DoublePoint -> 1 + type_time_size(type)
      [] type \in Normalized \cup Scaled  -> 3 + type_time_size(type)
      [] type \in Float \cup Counter      -> 5 + type_time_size(type)
      [] OTHER                            -> 0

(***************************************************************************)
(* parse_cp56time2a and log_object_time: the time in the DEBUG line of an   *)
(* object, or None when there is no such line.  The flags in the time tag   *)
(* (invalid, summer time, day of week) are masked out.                      *)
(***************************************************************************)
parse_cp56time2a(a, i) ==
    LET t == [milliseconds |-> read_le16(a, i), minute |-> At(a, i + 2) % 64,
              hour |-> At(a, i + 3) % 32, day |-> At(a, i + 4) % 32,
              month |-> At(a, i + 5) % 16, year |-> 2000 + (At(a, i + 6) % 128)]
    IN  IF \/ t.milliseconds > 59999 \/ t.minute > 59 \/ t.hour > 23
           \/ t.day \notin 1..31 \/ t.month \notin 1..12
        THEN None ELSE t

log_object_time(a, type, i) ==
    IF type_time_size(type) = 0 THEN None ELSE parse_cp56time2a(a, i)

(***************************************************************************)
(* The header.                                                              *)
(***************************************************************************)
type_id(a) == At(a, 0)
count(a) == At(a, 1) % 128
sequence(a) == At(a, 1) >= 128
common_address(a) == read_le16(a, 4)
object_size(a) == information_object_size(type_id(a))

\* The payload length that the announced objects need.
required(a) ==
    IF sequence(a) THEN 3 + count(a) * object_size(a) ELSE count(a) * (3 + object_size(a))

\* Every return of iec104_parse_asdu before its two loops.
Accepted_faulty(a) ==
    Len(a) >= 6 /\ type_id(a) # C_IC_NA_1 /\ object_size(a) # 0 /\ count(a) # 0
    /\ Len(a) - 6 >= count(a) * object_size(a)
Accepted(a) ==
    Len(a) >= 6 /\ type_id(a) # C_IC_NA_1 /\ object_size(a) # 0 /\ count(a) # 0
    /\ Len(a) - 6 >= required(a)

\* Where the data of object i (from 0) starts, and its address: one base address for a
\* sequence, one address before each object otherwise.
data(a, i) ==
    IF sequence(a) THEN 9 + i * object_size(a) ELSE 9 + i * (3 + object_size(a))
ioa(a, i) ==
    IF sequence(a) THEN read_le24(a, 6) + i ELSE read_le24(a, data(a, i) - 3)

\* parse_information_object: the update for the object whose data starts at d.
parse_information_object(a, i) ==
    LET type == type_id(a)
        d == data(a, i)
        quality_bits(b) == 16 * (b \div 16)
        update(class, value, quality, time) ==
            [point |-> [type |-> class, common_address |-> common_address(a), ioa |-> ioa(a, i)],
             value |-> value, quality |-> quality, time |-> log_object_time(a, type, time)]
    IN  CASE type \in Single ->
                update("YX", At(a, d) % 2, quality_bits(At(a, d)), d + 1)
          [] type \in DoublePoint ->
                update("YX", At(a, d) % 4, quality_bits(At(a, d)), d + 1)
          [] type \in Normalized ->
                update("YC", Double(read_i16(a, d), -15), At(a, d + 2), d + 3)
          [] type \in Scaled ->
                update("YC", Double(read_i16(a, d), 0), At(a, d + 2), d + 3)
          [] type \in Float ->
                update("YC", read_float32(a, d), At(a, d + 4), d + 5)
          [] type \in Counter ->
                update("ENERGY", read_i32(a, d), At(a, d + 4), d + 5)

\* The updates, in order: all objects or none.
iec104_parse_asdu(a) ==
    IF Accepted(a) THEN [k \in 1..count(a) |-> parse_information_object(a, k - 1)] ELSE <<>>

(***************************************************************************)
(* The same bytes from the gateway's side, as IEC 60870-5-104 lays them out: *)
(* which readings an ASDU carries.  None of it follows the parser.          *)
(***************************************************************************)
Signed16(n) == n \in Int /\ -32768 <= n /\ n <= 32767
Unsigned16(n) == n \in Nat /\ n <= 65535
Unsigned24(n) == n \in Nat /\ n <= 16777215

Put16(a, i, n) == At(a, i) = n % 256 /\ At(a, i + 1) = (n \div 256) % 256
Put24(a, i, n) == Put16(a, i, n) /\ At(a, i + 2) = (n \div 65536) % 256
Put32(a, i, n) == Put24(a, i, n) /\ At(a, i + 3) = (n \div 16777216) % 256

\* Sign bit, eight bits of exponent, 23 of fraction.
PutFloat(a, i, sign, exponent, fraction) ==
    /\ Put16(a, i, fraction)
    /\ At(a, i + 2) = 128 * (exponent % 2) + (fraction \div 65536)
    /\ At(a, i + 3) = (IF sign < 0 THEN 128 ELSE 0) + (exponent \div 2)

FloatWritten(a, i, v) ==
    \/ /\ v = NaN
       /\ At(a, i + 3) \in {127, 255} /\ At(a, i + 2) >= 128
       /\ ~(At(a, i) = 0 /\ At(a, i + 1) = 0 /\ At(a, i + 2) = 128)
    \/ /\ v # NaN
       /\ \E sign \in {1, -1} :
             \/ v = Double(sign, 128) /\ PutFloat(a, i, sign, 255, 0)
             \/ /\ v = Double(v.m, -149) /\ v.m \in Int
                /\ 0 <= sign * v.m /\ sign * v.m < 8388608
                /\ PutFloat(a, i, sign, 0, sign * v.m)
             \/ /\ v = Double(v.m, v.e) /\ v.m \in Int /\ v.e \in Int
                /\ -149 <= v.e /\ v.e <= 104
                /\ 8388608 <= sign * v.m /\ sign * v.m < 16777216
                /\ PutFloat(a, i, sign, v.e + 150, sign * v.m - 8388608)

\* The quality of a single or a double point: the upper four bits of its byte.
Flags == {16 * k : k \in 0..15}

\* A value and its quality; reserved bits are free.
ValueWritten(a, type, d, value, quality) ==
    \/ /\ type \in {1, 30} /\ value \in 0..1 /\ quality \in Flags
       /\ \E spare \in 0..7 : At(a, d) = value + 2 * spare + quality
    \/ /\ type \in {3, 31} /\ value \in 0..3 /\ quality \in Flags
       /\ \E spare \in 0..3 : At(a, d) = value + 4 * spare + quality
    \/ /\ type \in {9, 34} /\ At(a, d + 2) = quality
       /\ value = Double(value.m, -15) /\ Signed16(value.m) /\ Put16(a, d, value.m)
    \/ /\ type \in {11, 35} /\ At(a, d + 2) = quality
       /\ value = Double(value.m, 0) /\ Signed16(value.m) /\ Put16(a, d, value.m)
    \/ type \in {13, 36} /\ At(a, d + 4) = quality /\ FloatWritten(a, d, value)
    \/ /\ type \in {15, 37} /\ At(a, d + 4) = quality
       /\ value \in Int /\ -128 <= value \div 16777216 /\ value \div 16777216 <= 127
       /\ Put32(a, d, value)

\* The field n in the low bits of a byte, below w; flags fill the rest.
Field(byte, n, w) == \E flags \in 0..15 : byte = n + w * flags

\* A time tag, or seven bytes that are no time.
TimeWritten(a, i, t) ==
    \/ /\ t = None
       /\ \/ At(a, i) + 256 * At(a, i + 1) >= 60000
          \/ \E n \in 60..63 : Field(At(a, i + 2), n, 64)
          \/ \E n \in 24..31 : Field(At(a, i + 3), n, 32)
          \/ Field(At(a, i + 4), 0, 32)
          \/ \E n \in {0, 13, 14, 15} : Field(At(a, i + 5), n, 16)
    \/ /\ t # None
       /\ t = [milliseconds |-> t.milliseconds, minute |-> t.minute, hour |-> t.hour,
               day |-> t.day, month |-> t.month, year |-> t.year]
       /\ t.milliseconds \in Nat /\ t.milliseconds < 60000 /\ Put16(a, i, t.milliseconds)
       /\ t.minute \in 0..59 /\ Field(At(a, i + 2), t.minute, 64)
       /\ t.hour \in 0..23 /\ Field(At(a, i + 3), t.hour, 32)
       /\ t.day \in 1..31 /\ Field(At(a, i + 4), t.day, 32)
       /\ t.month \in 1..12 /\ Field(At(a, i + 5), t.month, 16)
       /\ t.year \in 2000..2127 /\ Field(At(a, i + 6), t.year - 2000, 128)

octets(type) ==
    CASE type \in {1, 3} -> 1   [] type \in {9, 11} -> 3   [] type \in {13, 15} -> 5
      [] type \in {30, 31} -> 8 [] type \in {34, 35} -> 10 [] type \in {36, 37} -> 12
      [] OTHER -> 0
Class(type) ==
    IF type \in {1, 3, 30, 31} THEN "YX" ELSE IF type \in {15, 37} THEN "ENERGY" ELSE "YC"

\* The object with information object address x whose data starts at d.
ObjectWritten(a, d, common, x, u) ==
    LET type == At(a, 0) IN
    /\ u = [point |-> [type |-> Class(type), common_address |-> common, ioa |-> x],
            value |-> u.value, quality |-> u.quality, time |-> u.time]
    /\ ValueWritten(a, type, d, u.value, u.quality)
    /\ IF type < 30 THEN u.time = None ELSE TimeWritten(a, d + octets(type) - 7, u.time)

Carries(a, us) ==
    LET n == Len(us)
        size == octets(At(a, 0))
        common == us[1].point.common_address
        base == us[1].point.ioa
    IN  /\ n \in 1..127 /\ us = [k \in 1..n |-> us[k]] /\ size # 0
        /\ Unsigned16(common) /\ Put16(a, 4, common)
        /\ \/ /\ At(a, 1) = 128 + n /\ Len(a) >= 9 + n * size
              /\ Unsigned24(base) /\ Unsigned24(base + n - 1) /\ Put24(a, 6, base)
              /\ \A k \in 1..n : ObjectWritten(a, 9 + (k - 1) * size, common, base + (k - 1), us[k])
           \/ /\ At(a, 1) = n /\ Len(a) >= 6 + n * (3 + size)
              /\ \A k \in 1..n :
                    LET d == 9 + (k - 1) * (3 + size)
                        x == us[k].point.ioa
                    IN  /\ Unsigned24(x) /\ Put24(a, d - 3, x)
                        /\ ObjectWritten(a, d, common, x, us[k])

\* A header cut off, a type that is no reading, no object, or too few bytes for them.
CarriesNothing(a) ==
    \/ Len(a) < 6 \/ octets(At(a, 0)) = 0 \/ At(a, 1) \in {0, 128}
    \/ \E n \in 1..127 :
          \/ At(a, 1) = 128 + n /\ Len(a) < 9 + n * octets(At(a, 0))
          \/ At(a, 1) = n /\ Len(a) < 6 + n * (3 + octets(At(a, 0)))

(***************************************************************************)
(* Properties.                                                              *)
(***************************************************************************)
\* No object, with its address and its time tag, reaches past the end of the ASDU, so no
\* value is made of bytes of an earlier frame; and no two objects share a byte.
ObjectsInside(a) ==
    Accepted(a) =>
        /\ \A i \in 0..(count(a) - 1) :
              data(a, i) >= 9 /\ data(a, i) + object_size(a) <= Len(a)
        /\ \A i, j \in 0..(count(a) - 1) : i < j => data(a, i) + object_size(a) <= data(a, j)
=============================================================================
