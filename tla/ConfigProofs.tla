----------------------------- MODULE ConfigProofs -----------------------------
(***************************************************************************)
(* Proofs about Config for any number of gateway slots, any set of lines    *)
(* and files of any length: the table stays well formed line by line, and   *)
(* the compaction in place never overwrites a slot it has yet to read.      *)
(***************************************************************************)
EXTENDS Config, FiniteSetTheorems, TLAPS

\* A slot that can be run.
Runnable(g) == Used(g) /\ g.name # "" /\ g.slave_host # ""

\* The slots up to write_index are done, and the next read is beyond them.
Compacting ==
    load = "compact" =>
        write_index < read_index /\ \A i \in 1..write_index : Runnable(gateways[i])

\* After the compaction.
Filled ==
    load \in {"unique", "accepted"} =>
        /\ gateway_count \in 1..GATEWAY_MAX
        /\ \A i \in Slot : IF i <= gateway_count THEN Runnable(gateways[i])
                                                 ELSE gateways[i] = NoGateway

\* After EndOfFile.
Ordered ==
    load \in {"compact", "unique", "accepted"} =>
        setting.reconnect_max_sec >= setting.reconnect_initial_sec

Unique == load = "accepted" => NamesDiffer

LoadInv == LoadTypeOK /\ Compacting /\ Filled /\ Ordered /\ Unique

-----------------------------------------------------------------------------
LEMMA IntKeys ==
    IntKey = {"connect_timeout_sec", "receive_timeout_sec", "reconnect_initial_sec",
              "reconnect_max_sec", "general_interrogation_interval_sec",
              "test_frame_interval_sec", "ack_timeout_ms", "ack_window"}
  BY DEF IntKey, int_min

LEMMA DoubleKeys == DoubleKey = {"energy_spike_abs_threshold", "energy_spike_rate_threshold"}
  BY DEF DoubleKey, double_min

LEMMA Units == ONE \in Nat \ {0}
  BY ConfigAssumption

LEMMA Gateways ==
    /\ NoGateway \in Gateway
    /\ \A i \in Slot : DefaultGateway(i) \in Gateway
  <1>1. NoGateway \in Gateway
    <2>1. 0 \in uint16_t
      BY DEF uint16_t
    <2>2. "" \in Text
      BY ConfigAssumption
    <2> QED
      BY <2>1, <2>2 DEF Gateway, NoGateway
  <1>2. ASSUME NEW i \in Slot PROVE DefaultGateway(i) \in Gateway
    <2>1. 1 \in uint16_t /\ 2404 \in uint16_t
      BY DEF uint16_t
    <2>2. "127.0.0.1" \in Text /\ default_name[i] \in Text
      BY ConfigAssumption
    <2> QED
      BY <2>1, <2>2 DEF Gateway, DefaultGateway
  <1> QED
    BY <1>1, <1>2

\* What the tests of a number let through.
LEMMA PortValid ==
    ASSUME NEW v, FieldValid("slave_port", v)
    PROVE  v \in uint16_t
  BY DEF FieldValid

LEMMA AddressValid ==
    ASSUME NEW v, FieldValid("common_address", v)
    PROVE  v \in uint16_t
  BY DEF FieldValid

LEMMA TextValid == ~FieldValid("name", "") /\ ~FieldValid("slave_host", "")
  <1>1. ~FieldValid("name", "")
    BY DEF FieldValid
  <1>2. ~FieldValid("slave_host", "")
    BY DEF FieldValid
  <1> QED
    BY <1>1, <1>2

\* There is a first slot.
LEMMA Slots == GATEWAY_MAX \in Nat \ {0} /\ Slot = 1..GATEWAY_MAX /\ 1 \in Slot
  <1>1. GATEWAY_MAX \in Nat \ {0}
    BY ConfigAssumption
  <1> QED
    BY <1>1 DEF Slot

\* A field that is set to a valid value keeps the record a gateway.
LEMMA FieldSet ==
    ASSUME NEW g \in Gateway, NEW l \in GatewayLine, FieldValid(l.field, l.value)
    PROVE  [g EXCEPT ![l.field] = Stored(l.field, l.value)] \in Gateway
  <1> DEFINE v == Stored(l.field, l.value)
  <1>1. CASE l.field = "name"
    <2>1. l.value \in Text
      BY <1>1 DEF GatewayLine
    <2>2. v \in Text
      BY <1>1, <2>1, ConfigAssumption DEF Stored
    <2>3. [g EXCEPT !.name = v] \in Gateway
      BY <2>2 DEF Gateway
    <2> QED
      BY <1>1, <2>3
  <1>2. CASE l.field = "slave_host"
    <2>1. l.value \in Text
      BY <1>2 DEF GatewayLine
    <2>2. v \in Text
      BY <1>2, <2>1, ConfigAssumption DEF Stored
    <2>3. [g EXCEPT !.slave_host = v] \in Gateway
      BY <2>2 DEF Gateway
    <2> QED
      BY <1>2, <2>3
  <1>3. CASE l.field = "slave_port"
    <2>1. FieldValid("slave_port", l.value) /\ v = l.value
      BY <1>3 DEF Stored
    <2>2. v \in uint16_t
      BY <2>1, PortValid
    <2>3. [g EXCEPT !.slave_port = v] \in Gateway
      BY <2>2 DEF Gateway
    <2> QED
      BY <1>3, <2>3
  <1>4. CASE l.field = "common_address"
    <2>1. FieldValid("common_address", l.value) /\ v = l.value
      BY <1>4 DEF Stored
    <2>2. v \in uint16_t
      BY <2>1, AddressValid
    <2>3. [g EXCEPT !.common_address = v] \in Gateway
      BY <2>2 DEF Gateway
    <2> QED
      BY <1>4, <2>3
  <1>5. CASE l.field = "enabled"
    <2>1. v \in BOOLEAN
      BY <1>5 DEF Stored
    <2>2. [g EXCEPT !.enabled = v] \in Gateway
      BY <2>1 DEF Gateway
    <2> QED
      BY <1>5, <2>2
  <1>6. l.field \in {"name", "slave_host", "slave_port", "common_address", "enabled"}
    BY DEF GatewayLine
  <1> QED
    BY <1>1, <1>2, <1>3, <1>4, <1>5, <1>6

LEMMA LegacyFieldSet ==
    ASSUME NEW g \in Gateway, NEW l \in LegacyLine, FieldValid(l.field, l.value)
    PROVE  [g EXCEPT ![l.field] = Stored(l.field, l.value)] \in Gateway
  <1> DEFINE v == Stored(l.field, l.value)
  <1>1. CASE l.field = "slave_host"
    <2>1. l.value \in Text
      BY <1>1 DEF LegacyLine
    <2>2. v \in Text
      BY <1>1, <2>1, ConfigAssumption DEF Stored
    <2>3. [g EXCEPT !.slave_host = v] \in Gateway
      BY <2>2 DEF Gateway
    <2> QED
      BY <1>1, <2>3
  <1>2. CASE l.field = "slave_port"
    <2>1. FieldValid("slave_port", l.value) /\ v = l.value
      BY <1>2 DEF Stored
    <2>2. v \in uint16_t
      BY <2>1, PortValid
    <2>3. [g EXCEPT !.slave_port = v] \in Gateway
      BY <2>2 DEF Gateway
    <2> QED
      BY <1>2, <2>3
  <1>3. CASE l.field = "common_address"
    <2>1. FieldValid("common_address", l.value) /\ v = l.value
      BY <1>3 DEF Stored
    <2>2. v \in uint16_t
      BY <2>1, AddressValid
    <2>3. [g EXCEPT !.common_address = v] \in Gateway
      BY <2>2 DEF Gateway
    <2> QED
      BY <1>3, <2>3
  <1>4. l.field \in {"slave_host", "slave_port", "common_address"}
    BY DEF LegacyLine
  <1> QED
    BY <1>1, <1>2, <1>3, <1>4

LEMMA LoadInitInv == LoadInit => LoadInv
  <1> SUFFICES ASSUME LoadInit PROVE LoadInv
    OBVIOUS
  <1>1. gateways \in [Slot -> Gateway]
    BY Gateways, Slots DEF LoadInit
  <1>2. setting = DefaultSetting /\ threshold = DefaultThreshold /\ load = "read"
    BY DEF LoadInit
  <1>3. \A k \in IntKey : DefaultSetting[k] \in Int /\ DefaultSetting[k] \in int_min[k]..int_max[k]
    <2>1. /\ DefaultSetting.connect_timeout_sec = 5 /\ DefaultSetting.receive_timeout_sec = 2
          /\ DefaultSetting.reconnect_initial_sec = 2 /\ DefaultSetting.reconnect_max_sec = 60
          /\ DefaultSetting.general_interrogation_interval_sec = 300 /\ DefaultSetting.test_frame_interval_sec = 20
          /\ DefaultSetting.ack_timeout_ms = 15000 /\ DefaultSetting.ack_window = 8
      BY DEF DefaultSetting
    <2>2. /\ int_min.connect_timeout_sec = 1 /\ int_min.receive_timeout_sec = 1
          /\ int_min.reconnect_initial_sec = 1 /\ int_min.reconnect_max_sec = 1
          /\ int_min.general_interrogation_interval_sec = 0 /\ int_min.test_frame_interval_sec = 5
          /\ int_min.ack_timeout_ms = 1000 /\ int_min.ack_window = 1
      BY DEF int_min
    <2>3. /\ int_max.connect_timeout_sec = 300 /\ int_max.receive_timeout_sec = 300
          /\ int_max.reconnect_initial_sec = 3600 /\ int_max.reconnect_max_sec = 86400
          /\ int_max.general_interrogation_interval_sec = 86400 /\ int_max.test_frame_interval_sec = 3600
          /\ int_max.ack_timeout_ms = 60000 /\ int_max.ack_window = 32767
      BY DEF int_max
    <2> QED
      BY <2>1, <2>2, <2>3, IntKeys
  <1>4. setting \in [IntKey -> Int]
    BY <1>2, <1>3, IntKeys DEF DefaultSetting
  <1>5. threshold \in [DoubleKey -> Nat \cup {NaN}]
    <2>1. 1000 * ONE \in Nat /\ 5 * ONE \in Nat
      BY Units
    <2> QED
      BY <1>2, <2>1, DoubleKeys DEF DefaultThreshold
  <1>6. gateway_count \in 0..GATEWAY_MAX /\ read_index \in 1..(GATEWAY_MAX + 1)
        /\ write_index \in 0..GATEWAY_MAX
    BY Slots DEF LoadInit
  <1>7. flag \in [BoolKey -> BOOLEAN] /\ debug_level \in Level
    BY DEF LoadInit, Level
  <1>8. saw_gateway_keys \in BOOLEAN /\ saw_legacy_gateway_keys \in BOOLEAN
    BY Zenon DEF LoadInit
  <1>9. file \in Seq(Line)
    <2>1. file = <<>>
      BY Zenon DEF LoadInit
    <2> QED
      BY <2>1
  <1>10. LoadTypeOK
    BY <1>1, <1>2, <1>3, <1>4, <1>5, <1>6, <1>7, <1>8, <1>9 DEF LoadTypeOK
  <1> QED
    BY <1>2, <1>10 DEF LoadInv, Compacting, Filled, Ordered, Unique

-----------------------------------------------------------------------------
\* While lines are read only the types matter.
LEMMA ReadingInv ==
    ASSUME LoadTypeOK', load' \in {"read", "refused"}
    PROVE  LoadInv'
  BY DEF LoadInv, Compacting, Filled, Ordered, Unique

\* What a step changes of the types, piece by piece.
LEMMA LineTyped ==
    ASSUME LoadTypeOK, NEW l \in Line, Reading(l), UNCHANGED indices,
           load' \in {load, "refused"},
           saw_gateway_keys' \in BOOLEAN, saw_legacy_gateway_keys' \in BOOLEAN,
           gateways' \in [Slot -> Gateway], gateway_count' \in 0..GATEWAY_MAX,
           UNCHANGED globals
    PROVE  LoadTypeOK' /\ load' \in {"read", "refused"}
  <1>1. file' \in Seq(Line)
    BY DEF Reading, LoadTypeOK
  <1> QED
    BY <1>1 DEF Reading, LoadTypeOK, globals, indices

LEMMA GatewayKeyInv ==
    ASSUME LoadInv, NEW l \in Line, GatewayKey(l)
    PROVE  LoadInv'
  <1>0. LoadTypeOK /\ Reading(l) /\ l.kind = "gateway" /\ UNCHANGED <<globals, indices>>
    BY DEF LoadInv, GatewayKey
  <1>1. CASE saw_legacy_gateway_keys
    <2>1. UNCHANGED <<table, saw>> /\ load' = "refused"
      BY <1>1 DEF GatewayKey, Refuse
    <2> QED
      BY <1>0, <2>1, LineTyped, ReadingInv DEF table, saw, LoadTypeOK
  <1>2. CASE ~saw_legacy_gateway_keys
    <2>1. l \in GatewayLine
      <3>1. l \in GatewayLine \cup LegacyLine \cup GlobalLine \cup OtherLine
        BY ConfigAssumption
      <3> QED
        BY <1>0, <3>1 DEF GatewayLine, LegacyLine, GlobalLine, OtherLine
    <2>2. l.index \in Slot
      BY <2>1 DEF GatewayLine
    <2>3. Cleared \in [Slot -> Gateway] /\ Ensured(l.index) \in Gateway
      BY <1>0, <2>2, Gateways DEF Cleared, Ensured, LoadTypeOK
    <2>4. gateways' \in [Slot -> Gateway]
      <3> DEFINE g == IF FieldValid(l.field, l.value)
                      THEN [Ensured(l.index) EXCEPT ![l.field] = Stored(l.field, l.value)]
                      ELSE Ensured(l.index)
      <3>1. g \in Gateway
        BY <2>1, <2>3, FieldSet
      <3>2. gateways' = [Cleared EXCEPT ![l.index] = g]
        BY <1>2 DEF GatewayKey
      <3> HIDE DEF g
      <3> QED
        BY <2>3, <3>1, <3>2
    <2>5. gateway_count' \in 0..GATEWAY_MAX
      <3>1. gateway_count' \in {l.index, gateway_count, 0}
        BY <1>2 DEF GatewayKey
      <3> QED
        BY <1>0, <2>2, <3>1, Slots DEF LoadTypeOK
    <2>6. /\ saw_gateway_keys' \in BOOLEAN /\ saw_legacy_gateway_keys' \in BOOLEAN
          /\ load' \in {load, "refused"}
      BY <1>0, <1>2, Zenon DEF GatewayKey, Refuse, LoadTypeOK
    <2> QED
      BY <1>0, <2>4, <2>5, <2>6, LineTyped, ReadingInv
  <1> QED
    BY <1>1, <1>2

LEMMA LegacyKeyInv ==
    ASSUME LoadInv, NEW l \in Line, LegacyKey(l)
    PROVE  LoadInv'
  <1>0. /\ LoadTypeOK /\ Reading(l) /\ l.kind = "legacy" /\ UNCHANGED <<globals, indices>>
        /\ UNCHANGED <<gateway_count, saw_gateway_keys>>
    BY DEF LoadInv, LegacyKey
  <1>1. l \in LegacyLine
    <2>1. l \in GatewayLine \cup LegacyLine \cup GlobalLine \cup OtherLine
      BY ConfigAssumption
    <2> QED
      BY <1>0, <2>1 DEF GatewayLine, LegacyLine, GlobalLine, OtherLine
  <1>2. gateways' \in [Slot -> Gateway]
    <2>1. CASE FieldValid(l.field, l.value)
      <3>1. gateways \in [Slot -> Gateway] /\ 1 \in Slot
        BY <1>0, Slots DEF LoadTypeOK
      <3>2. [gateways[1] EXCEPT ![l.field] = Stored(l.field, l.value)] \in Gateway
        BY <1>1, <2>1, <3>1, LegacyFieldSet
      <3>3. gateways' = [gateways EXCEPT ![1] =
                             [gateways[1] EXCEPT ![l.field] = Stored(l.field, l.value)]]
        BY <2>1 DEF LegacyKey
      <3> QED
        BY <3>1, <3>2, <3>3
    <2>2. CASE ~FieldValid(l.field, l.value)
      BY <1>0, <2>2 DEF LegacyKey, LoadTypeOK
    <2> QED
      BY <2>1, <2>2
  <1>3. saw_legacy_gateway_keys' \in BOOLEAN /\ load' \in {load, "refused"}
    BY <1>0, Zenon DEF LegacyKey, Refuse, LoadTypeOK
  <1> QED
    BY <1>0, <1>2, <1>3, LineTyped, ReadingInv DEF LoadTypeOK

LEMMA GlobalKeyInv ==
    ASSUME LoadInv, NEW l \in Line, GlobalKey(l)
    PROVE  LoadInv'
  <1>0. LoadTypeOK /\ Reading(l) /\ UNCHANGED <<table, saw, indices>>
        /\ l.kind \in {"int", "double", "bool", "debug_level", "verbose"}
    BY DEF LoadInv, GlobalKey
  <1>1. l \in GlobalLine
    <2>1. l \in GatewayLine \cup LegacyLine \cup GlobalLine \cup OtherLine
      BY ConfigAssumption
    <2> QED
      BY <1>0, <2>1 DEF GatewayLine, LegacyLine, OtherLine
  <1>2. load = "read" /\ file' = Append(file, l) /\ load' \in {"read", "refused"}
    BY <1>0, Zenon DEF GlobalKey, Reading, Refuse
  <1>3. file' \in Seq(Line)
    BY <1>0, <1>2 DEF LoadTypeOK
  <1>4. setting' \in [IntKey -> Int]
        /\ \A k \in IntKey : setting'[k] \in int_min[k]..int_max[k]
    <2>1. CASE GlobalValid(l) /\ l.kind = "int"
      <3>1. l.key \in IntKey /\ l.value \in Int /\ l.value \in int_min[l.key]..int_max[l.key]
        BY <1>1, <2>1 DEF GlobalLine, GlobalValid
      <3>2. setting' = [setting EXCEPT ![l.key] = l.value]
        BY <2>1 DEF GlobalKey
      <3> QED
        BY <1>0, <3>1, <3>2 DEF LoadTypeOK
    <2>2. CASE ~(GlobalValid(l) /\ l.kind = "int")
      <3>1. UNCHANGED setting
        BY <2>2 DEF GlobalKey, globals
      <3> QED
        BY <1>0, <3>1 DEF LoadTypeOK
    <2> QED
      BY <2>1, <2>2
  <1>5. threshold' \in [DoubleKey -> Nat \cup {NaN}]
    <2>1. CASE GlobalValid(l) /\ l.kind = "double"
      <3>1. l.key \in DoubleKey /\ l.value \in Int \cup {NaN}
        BY <1>1, <2>1 DEF GlobalLine
      <3>2. double_min[l.key] \in Nat
        BY <3>1, DoubleKeys, Units DEF double_min
      <3>3. l.value = NaN \/ l.value >= double_min[l.key]
        BY <2>1 DEF GlobalValid
      <3>4. l.value \in Nat \cup {NaN}
        BY <3>1, <3>2, <3>3
      <3>5. threshold' = [threshold EXCEPT ![l.key] = l.value]
        BY <2>1 DEF GlobalKey
      <3> QED
        BY <1>0, <3>1, <3>4, <3>5 DEF LoadTypeOK
    <2>2. CASE ~(GlobalValid(l) /\ l.kind = "double")
      <3>1. UNCHANGED threshold
        BY <2>2 DEF GlobalKey, globals
      <3> QED
        BY <1>0, <3>1 DEF LoadTypeOK
    <2> QED
      BY <2>1, <2>2
  <1>6. flag' \in [BoolKey -> BOOLEAN]
    <2>1. CASE GlobalValid(l) /\ l.kind = "bool"
      <3>1. flag' = [flag EXCEPT ![l.key] = (l.value = "true")]
        BY <2>1 DEF GlobalKey
      <3> QED
        BY <1>0, <3>1 DEF LoadTypeOK
    <2>2. CASE ~(GlobalValid(l) /\ l.kind = "bool")
      <3>1. UNCHANGED flag
        BY <2>2 DEF GlobalKey, globals
      <3> QED
        BY <1>0, <3>1 DEF LoadTypeOK
    <2> QED
      BY <2>1, <2>2
  <1>7. debug_level' \in Level
    <2>1. CASE GlobalValid(l) /\ l.kind = "debug_level"
      <3>1. debug_level' = l.value /\ l.value # "other"
        BY <2>1 DEF GlobalKey, GlobalValid
      <3> QED
        BY <1>1, <2>1, <3>1 DEF GlobalLine, Level
    <2>2. CASE GlobalValid(l) /\ l.kind = "verbose"
      BY <2>2 DEF GlobalKey, Level
    <2>3. CASE ~GlobalValid(l) \/ l.kind \in {"int", "double", "bool"}
      <3>1. UNCHANGED debug_level
        BY <2>3 DEF GlobalKey, globals
      <3> QED
        BY <1>0, <3>1 DEF LoadTypeOK
    <2> QED
      BY <1>0, <2>1, <2>2, <2>3
  <1>8. LoadTypeOK'
    BY <1>0, <1>2, <1>3, <1>4, <1>5, <1>6, <1>7, Zenon DEF LoadTypeOK, table, saw, indices
  <1> QED
    BY <1>2, <1>8, ReadingInv

-----------------------------------------------------------------------------
\* The steps after the last line.
LEMMA EndOfFileInv ==
    ASSUME LoadInv, EndOfFile
    PROVE  LoadInv'
  <1>0. LoadTypeOK /\ UNCHANGED <<file, table, threshold, flag, debug_level, saw>>
        /\ load' = "compact" /\ read_index' = 1 /\ write_index' = 0
        /\ setting' = Consistent(setting)
    BY DEF LoadInv, EndOfFile
  <1>1. /\ setting' \in [IntKey -> Int]
        /\ \A k \in IntKey : setting'[k] \in int_min[k]..int_max[k]
        /\ setting'.reconnect_max_sec >= setting'.reconnect_initial_sec
    <2>1. setting \in [IntKey -> Int] /\ \A k \in IntKey : setting[k] \in int_min[k]..int_max[k]
      BY <1>0 DEF LoadTypeOK
    <2>2. "reconnect_max_sec" \in IntKey /\ "reconnect_initial_sec" \in IntKey
      BY IntKeys
    <2>3. /\ int_min.reconnect_initial_sec = 1 /\ int_min.reconnect_max_sec = 1
          /\ int_max.reconnect_initial_sec = 3600 /\ int_max.reconnect_max_sec = 86400
      BY DEF int_min, int_max
    <2>4. CASE setting.reconnect_max_sec < setting.reconnect_initial_sec
      <3>1. setting' = [setting EXCEPT !.reconnect_max_sec = setting.reconnect_initial_sec]
        BY <1>0, <2>4 DEF Consistent
      <3> QED
        BY <2>1, <2>2, <2>3, <2>4, <3>1
    <2>5. CASE ~(setting.reconnect_max_sec < setting.reconnect_initial_sec)
      <3>1. setting' = setting
        BY <1>0, <2>5 DEF Consistent
      <3> QED
        BY <2>1, <2>2, <2>5, <3>1
    <2> QED
      BY <2>4, <2>5
  <1>2. read_index' \in 1..(GATEWAY_MAX + 1) /\ write_index' \in 0..GATEWAY_MAX
    BY <1>0, Slots
  <1>3. LoadTypeOK'
    BY <1>0, <1>1, <1>2, Zenon DEF LoadTypeOK, table, saw
  <1> QED
    BY <1>0, <1>1, <1>3 DEF LoadInv, Compacting, Filled, Ordered, Unique

LEMMA CompactSlotInv ==
    ASSUME LoadInv, CompactSlot
    PROVE  LoadInv'
  <1>0. /\ LoadTypeOK /\ load = "compact" /\ read_index <= GATEWAY_MAX
        /\ read_index' = read_index + 1
        /\ UNCHANGED <<file, gateway_count, globals, saw>>
        /\ write_index < read_index /\ \A i \in 1..write_index : Runnable(gateways[i])
        /\ setting.reconnect_max_sec >= setting.reconnect_initial_sec
    BY DEF LoadInv, CompactSlot, Compacting, Ordered
  <1>1. /\ gateways \in [Slot -> Gateway] /\ read_index \in Slot /\ write_index \in 0..GATEWAY_MAX
        /\ GATEWAY_MAX \in Nat /\ read_index \in Nat /\ write_index \in Nat
    BY <1>0, Slots DEF LoadTypeOK
  <1> DEFINE g == gateways[read_index]
  <1>2. /\ gateways' \in [Slot -> Gateway] /\ write_index' \in 0..GATEWAY_MAX
        /\ load' \in {"compact", "refused"}
        /\ write_index' < read_index' /\ \A i \in 1..write_index' : Runnable(gateways'[i])
    <2>1. CASE ~Used(g)
      <3>1. UNCHANGED <<gateways, write_index, load>>
        BY <2>1 DEF CompactSlot
      <3> QED
        BY <1>0, <1>1, <3>1
    <2>2. CASE Used(g) /\ (g.name = "" \/ g.slave_host = "")
      <3>1. UNCHANGED <<gateways, write_index>> /\ load' = "refused"
        BY <2>2 DEF CompactSlot, Refuse
      <3> QED
        BY <1>0, <1>1, <3>1
    <2>3. CASE Runnable(g)
      <3>1. /\ gateways' = [gateways EXCEPT ![write_index + 1] = g]
            /\ write_index' = write_index + 1 /\ load' = "compact"
        BY <1>0, <2>3 DEF CompactSlot, Runnable
      <3>2. write_index + 1 \in Slot
        BY <1>0, <1>1, Slots
      <3>3. \A i \in 1..(write_index + 1) : Runnable(gateways'[i])
        BY <1>0, <1>1, <2>3, <3>1, <3>2, Slots
      <3> QED
        BY <1>0, <1>1, <3>1, <3>2, <3>3, Slots
    <2> QED
      BY <2>1, <2>2, <2>3 DEF Runnable
  <1>3. read_index' \in 1..(GATEWAY_MAX + 1)
    BY <1>0, <1>1
  <1>4. load' \in {"read", "compact", "unique", "accepted", "refused"}
    BY <1>2
  <1>5. LoadTypeOK'
    BY <1>0, <1>2, <1>3, <1>4, Zenon DEF LoadTypeOK, globals, saw
  <1> QED
    BY <1>0, <1>2, <1>5 DEF LoadInv, Compacting, Filled, Ordered, Unique, globals

LEMMA CompactedInv ==
    ASSUME LoadInv, Compacted
    PROVE  LoadInv'
  <1>0. /\ LoadTypeOK /\ load = "compact" /\ UNCHANGED <<file, globals, saw, indices>>
        /\ \A i \in 1..write_index : Runnable(gateways[i])
        /\ setting.reconnect_max_sec >= setting.reconnect_initial_sec
    BY DEF LoadInv, Compacted, Compacting, Ordered
  <1>1. CASE write_index = 0
    <2>1. UNCHANGED table /\ load' = "refused"
      BY <1>1 DEF Compacted, Refuse
    <2>2. LoadTypeOK'
      BY <1>0, <2>1, Zenon DEF LoadTypeOK, table, globals, saw, indices
    <2> QED
      BY <2>1, <2>2, ReadingInv
  <1>2. CASE write_index # 0
    <2>1. /\ gateway_count' = write_index /\ load' = "unique"
          /\ gateways' = [i \in Slot |-> IF i <= write_index THEN gateways[i] ELSE NoGateway]
      BY <1>2 DEF Compacted
    <2>2. gateways \in [Slot -> Gateway] /\ write_index \in 1..GATEWAY_MAX /\ GATEWAY_MAX \in Nat
      BY <1>0, <1>2, Slots DEF LoadTypeOK
    <2>3. gateways' \in [Slot -> Gateway] /\ gateway_count' \in 0..GATEWAY_MAX
      BY <2>1, <2>2, Gateways
    <2>4. \A i \in Slot : IF i <= gateway_count' THEN Runnable(gateways'[i])
                                                 ELSE gateways'[i] = NoGateway
      BY <1>0, <2>1, <2>2, Slots
    <2>5. LoadTypeOK'
      BY <1>0, <2>1, <2>3, Zenon DEF LoadTypeOK, globals, saw, indices
    <2>6. gateway_count' \in 1..GATEWAY_MAX /\ UNCHANGED setting
      BY <1>0, <2>1, <2>2 DEF globals
    <2> QED
      BY <1>0, <2>1, <2>4, <2>5, <2>6 DEF LoadInv, Compacting, Filled, Ordered, Unique
  <1> QED
    BY <1>1, <1>2

LEMMA CheckNamesInv ==
    ASSUME LoadInv, CheckNames
    PROVE  LoadInv'
  <1>0. /\ LoadTypeOK /\ load = "unique" /\ UNCHANGED <<file, table, globals, saw, indices>>
        /\ load' = IF NamesDiffer THEN "accepted" ELSE "refused"
    BY DEF LoadInv, CheckNames
  <1>1. LoadTypeOK'
    BY <1>0, Zenon DEF LoadTypeOK, table, globals, saw, indices
  <1>2. NamesDiffer' <=> NamesDiffer
    BY <1>0 DEF NamesDiffer, table
  <1>3. Filled /\ Ordered /\ UNCHANGED <<gateways, gateway_count, setting>>
    BY <1>0 DEF LoadInv, table, globals
  <1> QED
    BY <1>0, <1>1, <1>2, <1>3 DEF LoadInv, Compacting, Filled, Ordered, Unique

LEMMA LoadNextInv == LoadInv /\ [LoadNext]_load_vars => LoadInv'
  <1> SUFFICES ASSUME LoadInv, [LoadNext]_load_vars PROVE LoadInv'
    OBVIOUS
  <1>1. ASSUME NEW l \in Line, Comment(l) \/ UnknownLine(l) PROVE LoadInv'
    <2>1. /\ LoadTypeOK /\ Reading(l) /\ UNCHANGED <<table, globals, saw, indices>>
          /\ load' \in {load, "refused"}
      BY <1>1 DEF LoadInv, Comment, UnknownLine, Refuse
    <2> QED
      BY <2>1, LineTyped, ReadingInv DEF LoadTypeOK, table, saw
  <1>2. ASSUME OpenFails PROVE LoadInv'
    <2>1. LoadTypeOK /\ UNCHANGED <<file, table, globals, saw, indices>> /\ load' = "refused"
      BY <1>2 DEF LoadInv, OpenFails, Refuse
    <2>2. LoadTypeOK'
      BY <2>1, Zenon DEF LoadTypeOK, table, globals, saw, indices
    <2> QED
      BY <2>1, <2>2, ReadingInv
  <1>3. ASSUME UNCHANGED load_vars PROVE LoadInv'
    BY <1>3 DEF load_vars, table, globals, saw, indices, LoadInv, LoadTypeOK, Compacting,
                Filled, Ordered, Unique, NamesDiffer
  <1> QED
    BY <1>1, <1>2, <1>3, GatewayKeyInv, LegacyKeyInv, GlobalKeyInv, EndOfFileInv,
       CompactSlotInv, CompactedInv, CheckNamesInv DEF LoadNext

-----------------------------------------------------------------------------
LEMMA LoadInductive == LoadSpec => []LoadInv
  BY LoadInitInv, LoadNextInv, PTL DEF LoadSpec

\* For any file: the table and the settings have their types and ranges after every line.
THEOREM LoadTypeCorrect == LoadSpec => []LoadTypeOK
  BY LoadInductive, PTL DEF LoadInv

LEMMA UsableFromInv == LoadInv => ConfigUsable
  <1> SUFFICES ASSUME LoadInv, load = "accepted"
               PROVE  /\ gateway_count \in 1..GATEWAY_MAX
                      /\ \A i \in Slot :
                            IF i <= gateway_count
                            THEN Runnable(gateways[i])
                            ELSE gateways[i] = NoGateway
                      /\ \A i, j \in 1..gateway_count : gateways[i].name = gateways[j].name => i = j
                      /\ setting.reconnect_max_sec >= setting.reconnect_initial_sec
    BY DEF ConfigUsable, Runnable
  <1>1. Filled /\ Ordered /\ NamesDiffer
    BY DEF LoadInv, Unique
  <1>2. gateway_count \in 1..GATEWAY_MAX /\ GATEWAY_MAX \in Nat
    BY <1>1, Slots DEF Filled
  <1> QED
    BY <1>1, <1>2 DEF Filled, Ordered, NamesDiffer

\* For any file: an accepted configuration is usable.
THEOREM LoadedIsUsable == LoadSpec => []ConfigUsable
  BY LoadInductive, UsableFromInv, PTL

-----------------------------------------------------------------------------
(***************************************************************************)
(* The file as a whole: what one more line does to what it means.           *)
(***************************************************************************)
LEMMA Greatest ==
    ASSUME NEW n \in Nat, NEW S \in SUBSET (1..n), S # {}
    PROVE  \E x \in S : \A y \in S : y <= x
  <1> DEFINE R == OpToRel(<, Nat)
             D == {n - y : y \in S}
  <1>1. D \in SUBSET Nat /\ D # {}
    <2>1. \A y \in S : n - y \in Nat
      OBVIOUS
    <2> QED
      BY <2>1
  <1>2. IsWellFoundedOn(R, Nat)
    BY NatLessThanWellFounded
  <1>3. \A x, y \in Nat : y < x => <<y, x>> \in R
    BY DEF OpToRel
  <1> HIDE DEF R, D
  <1>4. PICK d \in D : \A c \in D : ~(<<c, d>> \in R)
    BY <1>1, <1>2, WFMin
  <1>5. \A c \in D : d <= c
    <2> SUFFICES ASSUME NEW c \in D PROVE d <= c
      OBVIOUS
    <2>1. c \in Nat /\ d \in Nat /\ ~(c < d)
      BY <1>1, <1>3, <1>4, Zenon
    <2> QED
      BY <2>1
  <1>6. PICK x \in S : d = n - x
    BY <1>4 DEF D
  <1>7. \A y \in S : y <= x
    <2> SUFFICES ASSUME NEW y \in S PROVE y <= x
      OBVIOUS
    <2>1. n - y \in D
      BY DEF D
    <2>2. d <= n - y
      BY <1>5, <2>1
    <2> QED
      BY <1>6, <2>2
  <1> QED
    BY <1>7

LEMMA WhereAppended ==
    ASSUME NEW h \in Seq(Line), NEW l \in Line, NEW M
    PROVE  /\ Where(h, M) \in SUBSET (1..Len(h)) /\ Len(h) \in Nat
           /\ Where(Append(h, l), M) =
                 IF l \in M THEN Where(h, M) \cup {Len(h) + 1} ELSE Where(h, M)
  <1> DEFINE g == Append(h, l)
             n == Len(h)
  <1>1. DOMAIN h = 1..n /\ n \in Nat
    OBVIOUS
  <1>2. DOMAIN g = 1..(n + 1) /\ g[n + 1] = l /\ \A i \in 1..n : g[i] = h[i]
    OBVIOUS
  <1> HIDE DEF g, n
  <1>3. \A i : i \in 1..(n + 1) <=> i \in 1..n \/ i = n + 1
    BY <1>1
  <1>4. Where(h, M) = {i \in 1..n : h[i] \in M}
    BY <1>1 DEF Where
  <1>5. Where(g, M) = {i \in 1..(n + 1) : g[i] \in M}
    BY <1>2 DEF Where
  <1>6. \A i : i \in Where(g, M) <=> (i \in 1..n /\ h[i] \in M) \/ (i = n + 1 /\ l \in M)
    BY <1>2, <1>3, <1>5
  <1>7. Where(g, M) = IF l \in M THEN Where(h, M) \cup {n + 1} ELSE Where(h, M)
    BY <1>4, <1>6
  <1> QED
    BY <1>1, <1>4, <1>7 DEF g, n

\* Which value a key has: that of the last line about it.
LEMMA GivenAppended ==
    ASSUME NEW h \in Seq(Line), NEW l \in Line, NEW M, NEW d
    PROVE  Given(Append(h, l), M, d) = IF l \in M THEN l.value ELSE Given(h, M, d)
  <1> DEFINE g == Append(h, l)
             S == Where(h, M)
             T == Where(g, M)
             last(U) == CHOOSE i \in U : \A j \in U : j <= i
  <1>0. PICK n \in Nat : n = Len(h)
    OBVIOUS
  <1>1. g[n + 1] = l /\ \A i \in 1..n : g[i] = h[i]
    BY <1>0
  <1>2. S \in SUBSET (1..n) /\ T = IF l \in M THEN S \cup {n + 1} ELSE S
    BY <1>0, WhereAppended
  <1>3. /\ Given(g, M, d) = IF T = {} THEN d ELSE g[last(T)].value
        /\ Given(h, M, d) = IF S = {} THEN d ELSE h[last(S)].value
    BY DEF Given
  <1> HIDE DEF g, S, T, last
  <1>4. CASE l \in M
    <2>1. n + 1 \in T /\ \A j \in T : j <= n + 1 /\ j \in Nat
      BY <1>2, <1>4
    <2>2. last(T) \in T /\ \A j \in T : j <= last(T)
      BY <2>1 DEF last
    <2>3. last(T) = n + 1
      BY <2>1, <2>2
    <2> QED
      BY <1>1, <1>3, <1>4, <2>1, <2>3 DEF g
  <1>5. CASE l \notin M
    <2>1. T = S
      BY <1>2, <1>5
    <2>2. S # {} => last(S) \in S
      <3> SUFFICES ASSUME S # {} PROVE last(S) \in S
        OBVIOUS
      <3>1. \E x \in S : \A y \in S : y <= x
        BY <1>2, Greatest
      <3> QED
        BY <3>1 DEF last
    <2>3. S # {} => g[last(S)] = h[last(S)]
      BY <1>1, <1>2, <2>2
    <2> QED
      BY <1>3, <1>5, <2>1, <2>3 DEF g
  <1> QED
    BY <1>4, <1>5

LEMMA GivenDefault ==
    ASSUME NEW h, NEW M, NEW d, Where(h, M) = {}
    PROVE  Given(h, M, d) = d
  BY DEF Given

LEMMA GivenByLine ==
    ASSUME NEW h \in Seq(Line), NEW M, NEW d, Where(h, M) # {}
    PROVE  \E i \in DOMAIN h : h[i] \in M /\ Given(h, M, d) = h[i].value
  <1> DEFINE S == Where(h, M)
             c == CHOOSE i \in S : \A j \in S : j <= i
  <1>1. Len(h) \in Nat /\ S \in SUBSET (1..Len(h))
    BY DEF Where
  <1>2. \E x \in S : \A y \in S : y <= x
    BY <1>1, Greatest
  <1>3. c \in S
    BY <1>2
  <1>4. Given(h, M, d) = h[c].value
    BY DEF Given
  <1> HIDE DEF c
  <1> QED
    BY <1>3, <1>4 DEF Where

LEMMA EmptyFile ==
    ASSUME NEW M, NEW d
    PROVE  Where(<<>>, M) = {} /\ Given(<<>>, M, d) = d
  <1>1. Where(<<>>, M) = {}
    BY DEF Where
  <1> QED
    BY <1>1, GivenDefault

\* The kinds of lines are distinct.
LEMMA LineKinds ==
    ASSUME NEW l \in Line
    PROVE  /\ l.kind = "gateway" => l \in GatewayLine
           /\ l.kind = "legacy" => l \in LegacyLine
           /\ l.kind \in {"int", "double", "bool", "debug_level", "verbose"} => l \in GlobalLine
  <1>1. l \in GatewayLine \cup LegacyLine \cup GlobalLine \cup OtherLine
    BY ConfigAssumption
  <1> QED
    BY <1>1 DEF GatewayLine, LegacyLine, GlobalLine, OtherLine

\* The entry of gateway n when the file gives numbers, and the one entry when it does not.
NumberedGateway(h, n) ==
    [name |-> cut_name[Given(h, GatewayField(n, "name"), DefaultGateway(n).name)],
     slave_host |-> cut_host[Given(h, GatewayField(n, "slave_host"), DefaultGateway(n).slave_host)],
     slave_port |-> Given(h, GatewayField(n, "slave_port"), DefaultGateway(n).slave_port),
     common_address |->
         Given(h, GatewayField(n, "common_address"), DefaultGateway(n).common_address),
     enabled |-> Enabled(h, n), configured |-> TRUE]
LegacyGateway(h) ==
    [name |-> DefaultGateway(1).name,
     slave_host |-> cut_host[Given(h, LegacyField("slave_host"), DefaultGateway(1).slave_host)],
     slave_port |-> Given(h, LegacyField("slave_port"), DefaultGateway(1).slave_port),
     common_address |->
         Given(h, LegacyField("common_address"), DefaultGateway(1).common_address),
     enabled |-> TRUE, configured |-> TRUE]

LEMMA Fields ==
    ASSUME NEW n \in Slot
    PROVE  LET D == DefaultGateway(n) IN
           /\ D.name = default_name[n]
           /\ cut_name[D.name] = D.name /\ cut_host[D.slave_host] = D.slave_host
           /\ D = [name |-> D.name, slave_host |-> D.slave_host, slave_port |-> D.slave_port,
                   common_address |-> D.common_address, enabled |-> TRUE, configured |-> TRUE]
  <1>1. cut_name[default_name[n]] = default_name[n] /\ cut_host["127.0.0.1"] = "127.0.0.1"
    BY ConfigAssumption
  <1> QED
    BY <1>1 DEF DefaultGateway

LEMMA NumberedDefault ==
    ASSUME NEW h, NEW n \in Slot, Where(h, Numbered(n)) = {}
    PROVE  NumberedGateway(h, n) = DefaultGateway(n)
  <1>1. \A f : Where(h, GatewayField(n, f)) = {}
    BY DEF Where, GatewayField
  <1>2. \A f, d : Given(h, GatewayField(n, f), d) = d
    BY <1>1, GivenDefault
  <1> DEFINE D == DefaultGateway(n)
  <1>3. /\ cut_name[D.name] = D.name /\ cut_host[D.slave_host] = D.slave_host
        /\ D = [name |-> D.name, slave_host |-> D.slave_host, slave_port |-> D.slave_port,
                common_address |-> D.common_address, enabled |-> TRUE, configured |-> TRUE]
    BY Fields
  <1>4. NumberedGateway(h, n) =
            [name |-> cut_name[D.name], slave_host |-> cut_host[D.slave_host],
             slave_port |-> D.slave_port, common_address |-> D.common_address,
             enabled |-> TRUE, configured |-> TRUE]
    BY <1>2 DEF NumberedGateway, Enabled
  <1> HIDE DEF D
  <1> QED
    BY <1>3, <1>4 DEF D

LEMMA LegacyDefault ==
    ASSUME NEW h, Where(h, OfKind("legacy")) = {}
    PROVE  LegacyGateway(h) = DefaultGateway(1)
  <1>1. \A f : Where(h, LegacyField(f)) = {}
    BY DEF Where, LegacyField
  <1>2. \A f, d : Given(h, LegacyField(f), d) = d
    BY <1>1, GivenDefault
  <1> QED
    BY <1>2, Fields, Slots DEF LegacyGateway

LEMMA NumberedOther ==
    ASSUME NEW h \in Seq(Line), NEW l \in Line, NEW n, l \notin Numbered(n)
    PROVE  NumberedGateway(Append(h, l), n) = NumberedGateway(h, n)
  <1>1. \A f : l \notin GatewayField(n, f)
    BY DEF GatewayField
  <1>2. \A f, d : Given(Append(h, l), GatewayField(n, f), d) = Given(h, GatewayField(n, f), d)
    BY <1>1, GivenAppended
  <1> QED
    BY <1>2 DEF NumberedGateway, Enabled

LEMMA NumberedSet ==
    ASSUME NEW h \in Seq(Line), NEW l \in Line, l.kind = "gateway", FieldValid(l.field, l.value)
    PROVE  NumberedGateway(Append(h, l), l.index) =
               [NumberedGateway(h, l.index) EXCEPT ![l.field] = Stored(l.field, l.value)]
  <1> DEFINE n == l.index
             v == l.value
             G == NumberedGateway(Append(h, l), n)
             H == NumberedGateway(h, n)
             D == DefaultGateway(n)
             yes == TRUE
             name == Given(h, GatewayField(n, "name"), D.name)
             slave_host == Given(h, GatewayField(n, "slave_host"), D.slave_host)
             slave_port == Given(h, GatewayField(n, "slave_port"), D.slave_port)
             common_address == Given(h, GatewayField(n, "common_address"), D.common_address)
             enabled == Given(h, GatewayField(n, "enabled"), "true")
  <1>1. \A f : l \in GatewayField(n, f) <=> l.field = f
    BY DEF GatewayField, Numbered, OfKind
  <1>2. \A f, d : Given(Append(h, l), GatewayField(n, f), d) =
                      IF l.field = f THEN v ELSE Given(h, GatewayField(n, f), d)
    BY <1>1, GivenAppended
  <1>3. l.field \in {"name", "slave_host", "slave_port", "common_address", "enabled"}
    BY LineKinds DEF GatewayLine
  <1>4. /\ Given(Append(h, l), GatewayField(n, "name"), D.name) =
              IF l.field = "name" THEN v ELSE name
        /\ Given(Append(h, l), GatewayField(n, "slave_host"), D.slave_host) =
              IF l.field = "slave_host" THEN v ELSE slave_host
        /\ Given(Append(h, l), GatewayField(n, "slave_port"), D.slave_port) =
              IF l.field = "slave_port" THEN v ELSE slave_port
        /\ Given(Append(h, l), GatewayField(n, "common_address"), D.common_address) =
              IF l.field = "common_address" THEN v ELSE common_address
        /\ Given(Append(h, l), GatewayField(n, "enabled"), "true") =
              IF l.field = "enabled" THEN v ELSE enabled
    BY <1>2
  <1> HIDE DEF name, slave_host, slave_port, common_address, enabled, D, v, yes
  <1>5. H = [name |-> cut_name[name], slave_host |-> cut_host[slave_host],
             slave_port |-> slave_port, common_address |-> common_address, enabled |-> (enabled = "true"),
             configured |-> yes]
    BY DEF NumberedGateway, Enabled, name, slave_host, slave_port, common_address, enabled, D, yes
  <1>6. G = [name |-> cut_name[IF l.field = "name" THEN v ELSE name],
             slave_host |-> cut_host[IF l.field = "slave_host" THEN v ELSE slave_host],
             slave_port |-> IF l.field = "slave_port" THEN v ELSE slave_port,
             common_address |-> IF l.field = "common_address" THEN v ELSE common_address,
             enabled |-> ((IF l.field = "enabled" THEN v ELSE enabled) = "true"),
             configured |-> yes]
    BY <1>4 DEF NumberedGateway, Enabled, D, yes
  <1> HIDE DEF G, H
  <1>7. CASE l.field = "name"
    <2>1. Stored(l.field, v) = cut_name[v]
      BY <1>7 DEF Stored
    <2>2. G = [name |-> cut_name[v], slave_host |-> cut_host[slave_host],
               slave_port |-> slave_port, common_address |-> common_address, enabled |-> (enabled = "true"),
               configured |-> yes]
      BY <1>6, <1>7
    <2>3. G = [H EXCEPT !.name = cut_name[v]]
      BY <1>5, <2>2
    <2> QED
      BY <1>7, <2>1, <2>3 DEF G, H, v
  <1>8. CASE l.field = "slave_host"
    <2>1. Stored(l.field, v) = cut_host[v]
      BY <1>8 DEF Stored
    <2>2. G = [name |-> cut_name[name], slave_host |-> cut_host[v], slave_port |-> slave_port,
               common_address |-> common_address, enabled |-> (enabled = "true"),
               configured |-> yes]
      BY <1>6, <1>8
    <2>3. G = [H EXCEPT !.slave_host = cut_host[v]]
      BY <1>5, <2>2
    <2> QED
      BY <1>8, <2>1, <2>3 DEF G, H, v
  <1>9. CASE l.field = "slave_port"
    <2>1. Stored(l.field, v) = v
      BY <1>9 DEF Stored
    <2>2. G = [name |-> cut_name[name], slave_host |-> cut_host[slave_host], slave_port |-> v,
               common_address |-> common_address, enabled |-> (enabled = "true"),
               configured |-> yes]
      BY <1>6, <1>9
    <2>3. G = [H EXCEPT !.slave_port = v]
      BY <1>5, <2>2
    <2> QED
      BY <1>9, <2>1, <2>3 DEF G, H, v
  <1>10. CASE l.field = "common_address"
    <2>1. Stored(l.field, v) = v
      BY <1>10 DEF Stored
    <2>2. G = [name |-> cut_name[name], slave_host |-> cut_host[slave_host],
               slave_port |-> slave_port, common_address |-> v, enabled |-> (enabled = "true"),
               configured |-> yes]
      BY <1>6, <1>10
    <2>3. G = [H EXCEPT !.common_address = v]
      BY <1>5, <2>2
    <2> QED
      BY <1>10, <2>1, <2>3 DEF G, H, v
  <1>11. CASE l.field = "enabled"
    <2>1. Stored(l.field, v) = (v = "true")
      BY <1>11 DEF Stored
    <2>2. G = [name |-> cut_name[name], slave_host |-> cut_host[slave_host],
               slave_port |-> slave_port, common_address |-> common_address, enabled |-> (v = "true"),
               configured |-> yes]
      BY <1>6, <1>11
    <2>3. G = [H EXCEPT !.enabled = (v = "true")]
      BY <1>5, <2>2
    <2> QED
      BY <1>11, <2>1, <2>3 DEF G, H, v
  <1> QED
    BY <1>3, <1>7, <1>8, <1>9, <1>10, <1>11

LEMMA LegacyOther ==
    ASSUME NEW h \in Seq(Line), NEW l \in Line, l.kind # "legacy"
    PROVE  LegacyGateway(Append(h, l)) = LegacyGateway(h)
  <1>1. \A f : l \notin LegacyField(f)
    BY DEF LegacyField, OfKind
  <1>2. \A f, d : Given(Append(h, l), LegacyField(f), d) = Given(h, LegacyField(f), d)
    BY <1>1, GivenAppended
  <1> QED
    BY <1>2 DEF LegacyGateway

LEMMA LegacySet ==
    ASSUME NEW h \in Seq(Line), NEW l \in Line, l.kind = "legacy", FieldValid(l.field, l.value)
    PROVE  LegacyGateway(Append(h, l)) =
               [LegacyGateway(h) EXCEPT ![l.field] = Stored(l.field, l.value)]
  <1> DEFINE v == l.value
             G == LegacyGateway(Append(h, l))
             H == LegacyGateway(h)
             D == DefaultGateway(1)
             yes == TRUE
             slave_host == Given(h, LegacyField("slave_host"), D.slave_host)
             slave_port == Given(h, LegacyField("slave_port"), D.slave_port)
             common_address == Given(h, LegacyField("common_address"), D.common_address)
  <1>1. \A f : l \in LegacyField(f) <=> l.field = f
    BY DEF LegacyField, OfKind
  <1>2. \A f, d : Given(Append(h, l), LegacyField(f), d) =
                      IF l.field = f THEN v ELSE Given(h, LegacyField(f), d)
    BY <1>1, GivenAppended
  <1>3. l.field \in {"slave_host", "slave_port", "common_address"}
    BY LineKinds DEF LegacyLine
  <1>4. /\ Given(Append(h, l), LegacyField("slave_host"), D.slave_host) =
              IF l.field = "slave_host" THEN v ELSE slave_host
        /\ Given(Append(h, l), LegacyField("slave_port"), D.slave_port) =
              IF l.field = "slave_port" THEN v ELSE slave_port
        /\ Given(Append(h, l), LegacyField("common_address"), D.common_address) =
              IF l.field = "common_address" THEN v ELSE common_address
    BY <1>2
  <1> HIDE DEF slave_host, slave_port, common_address, D, v, yes
  <1>5. H = [name |-> D.name, slave_host |-> cut_host[slave_host], slave_port |-> slave_port,
             common_address |-> common_address, enabled |-> yes, configured |-> yes]
    BY DEF LegacyGateway, slave_host, slave_port, common_address, D, yes
  <1>6. G = [name |-> D.name,
             slave_host |-> cut_host[IF l.field = "slave_host" THEN v ELSE slave_host],
             slave_port |-> IF l.field = "slave_port" THEN v ELSE slave_port,
             common_address |-> IF l.field = "common_address" THEN v ELSE common_address,
             enabled |-> yes, configured |-> yes]
    BY <1>4 DEF LegacyGateway, D, yes
  <1> HIDE DEF G, H
  <1>7. CASE l.field = "slave_host"
    <2>1. G = [name |-> D.name, slave_host |-> cut_host[v], slave_port |-> slave_port,
             common_address |-> common_address, enabled |-> yes,
             configured |-> yes]
      BY <1>6, <1>7
    <2>2. G = [H EXCEPT !.slave_host = cut_host[v]]
      BY <1>5, <2>1
    <2>3. Stored(l.field, v) = cut_host[v]
      BY <1>7 DEF Stored
    <2> QED
      BY <1>7, <2>2, <2>3 DEF G, H, v
  <1>8. CASE l.field = "slave_port"
    <2>1. G = [name |-> D.name, slave_host |-> cut_host[slave_host], slave_port |-> v,
             common_address |-> common_address, enabled |-> yes,
             configured |-> yes]
      BY <1>6, <1>8
    <2>2. G = [H EXCEPT !.slave_port = v]
      BY <1>5, <2>1
    <2>3. Stored(l.field, v) = v
      BY <1>8 DEF Stored
    <2> QED
      BY <1>8, <2>2, <2>3 DEF G, H, v
  <1>9. CASE l.field = "common_address"
    <2>1. G = [name |-> D.name, slave_host |-> cut_host[slave_host], slave_port |-> slave_port,
             common_address |-> v, enabled |-> yes,
             configured |-> yes]
      BY <1>6, <1>9
    <2>2. G = [H EXCEPT !.common_address = v]
      BY <1>5, <2>1
    <2>3. Stored(l.field, v) = v
      BY <1>9 DEF Stored
    <2> QED
      BY <1>9, <2>2, <2>3 DEF G, H, v
  <1> QED
    BY <1>3, <1>7, <1>8, <1>9

\* The table that the lines read so far make.
TableOf(h, n) ==
    IF Numbers(h)
    THEN IF Where(h, Numbered(n)) # {} THEN NumberedGateway(h, n) ELSE NoGateway
    ELSE IF n = 1 THEN LegacyGateway(h) ELSE NoGateway

LEMMA NumbersAppended ==
    ASSUME NEW h \in Seq(Line), NEW l \in Line, NEW M
    PROVE  Where(Append(h, l), M) # {} <=> Where(h, M) # {} \/ l \in M
  BY WhereAppended

-----------------------------------------------------------------------------
(***************************************************************************)
(* The inductive invariant of LoadFollowsFile: what has been read, the slot *)
(* every wanted gateway has been moved to, and why a file was refused.      *)
(***************************************************************************)
AllValid(h) == \A i \in DOMAIN h : LineValid(h[i])
Unmixed(h) == ~Numbers(h) \/ Where(h, OfKind("legacy")) = {}

FlagFollows(k) == flag[k] <=> FlagMeant(file, k)
KeysFollow ==
    /\ \A k \in DoubleKey : threshold[k] = ThresholdMeant(file, k)
    /\ \A k \in BoolKey \ {"daemonize"} : FlagFollows(k)

LinesFollow ==
    /\ saw_gateway_keys <=> Numbers(file)
    /\ saw_legacy_gateway_keys <=> Where(file, OfKind("legacy")) # {}
    /\ \A n \in Slot : gateways[n] = TableOf(file, n)
    /\ \A k \in IntKey : setting[k] = SettingGiven(file, k)

\* The wanted gateways below r fill the first w slots, each the slot of its rank.
WantedBelow(h, r) == {m \in Wanted(h) : m < r}
Ranked(r, w) ==
    /\ w = Cardinality(WantedBelow(file, r))
    /\ \A n \in WantedBelow(file, r) :
          Rank(file, n) \in 1..w /\ gateways[Rank(file, n)] = Meant(file, n)
    /\ \A i \in 1..w : \E n \in WantedBelow(file, r) : Rank(file, n) = i
    /\ \A n, m \in WantedBelow(file, r) : Rank(file, n) = Rank(file, m) => n = m

FileInv ==
    /\ load # "refused" => AllValid(file) /\ Unmixed(file) /\ KeysFollow
    /\ load = "read" => LinesFollow
    /\ load \in {"compact", "unique", "accepted"} =>
          \A k \in IntKey : setting[k] = SettingMeant(file, k)
    /\ load = "compact" =>
          /\ Ranked(read_index, write_index)
          /\ \A n \in Slot : n >= read_index => gateways[n] = TableOf(file, n)
    /\ load \in {"unique", "accepted"} => Ranked(GATEWAY_MAX + 1, gateway_count)
    /\ load = "accepted" => FileValid(file)
    /\ load = "refused" => file = <<>> \/ ~FileValid(file)

LEMMA FileStart == LoadInit => FileInv
  <1> SUFFICES ASSUME LoadInit PROVE FileInv
    OBVIOUS
  <1>1. file = <<>> /\ load = "read"
    BY DEF LoadInit
  <1>2. \A M : Where(file, M) = {}
    BY <1>1, EmptyFile
  <1>3. \A M, d : Given(file, M, d) = d
    BY <1>1, EmptyFile
  <1>4. AllValid(file) /\ Unmixed(file) /\ ~Numbers(file)
    BY <1>1, <1>2 DEF AllValid, Unmixed, Numbers
  <1>5. KeysFollow
    BY <1>3 DEF KeysFollow, FlagFollows, FlagMeant, ThresholdMeant, LoadInit
  <1>6. LegacyGateway(file) = DefaultGateway(1)
    BY <1>2, LegacyDefault
  <1>7. \A n \in Slot : gateways[n] = TableOf(file, n)
    BY <1>4, <1>6 DEF LoadInit, TableOf
  <1>8. LinesFollow
    BY <1>2, <1>3, <1>4, <1>7 DEF LinesFollow, SettingGiven, LoadInit
  <1> QED
    BY <1>1, <1>4, <1>5, <1>8 DEF FileInv

\* What every line does to the file.
LEMMA LineAdded ==
    ASSUME LoadInv, FileInv, NEW l \in Line, Reading(l)
    PROVE  /\ load = "read" /\ file \in Seq(Line) /\ file' = Append(file, l)
           /\ LinesFollow /\ KeysFollow /\ AllValid(file) /\ Unmixed(file)
           /\ AllValid(file') <=> LineValid(l)
           /\ \A M : Where(file', M) # {} <=> Where(file, M) # {} \/ l \in M
           /\ \A M, d : Given(file', M, d) = IF l \in M THEN l.value ELSE Given(file, M, d)
  <1>1. load = "read" /\ file' = Append(file, l) /\ file \in Seq(Line)
    BY DEF Reading, LoadInv, LoadTypeOK
  <1>2. LinesFollow /\ KeysFollow /\ AllValid(file) /\ Unmixed(file)
    BY <1>1 DEF FileInv
  <1>3. PICK n \in Nat : DOMAIN file = 1..n /\ DOMAIN file' = 1..(n + 1) /\ file'[n + 1] = l
                         /\ \A i \in 1..n : file'[i] = file[i]
    <2>1. Len(file) \in Nat /\ DOMAIN file = 1..Len(file)
      BY <1>1
    <2>2. /\ DOMAIN file' = 1..(Len(file) + 1) /\ file'[Len(file) + 1] = l
          /\ \A i \in 1..Len(file) : file'[i] = file[i]
      BY <1>1
    <2> QED
      BY <2>1, <2>2
  <1>4. AllValid(file') <=> LineValid(l)
    <2>1. \A i : i \in 1..(n + 1) <=> i \in 1..n \/ i = n + 1
      OBVIOUS
    <2>2. \A i \in 1..n : LineValid(file[i])
      BY <1>2, <1>3 DEF AllValid
    <2> HIDE DEF LineValid
    <2>3. \A i \in 1..n : LineValid(file'[i])
      BY <1>3, <2>2
    <2> QED
      BY <1>3, <2>1, <2>3 DEF AllValid
  <1> QED
    BY <1>1, <1>2, <1>4, NumbersAppended, GivenAppended

LEMMA RefusedRightly ==
    ASSUME load' = "refused", ~AllValid(file') \/ ~Unmixed(file')
    PROVE  FileInv'
  BY DEF FileInv, FileValid, AllValid, Unmixed

LEMMA ReadRightly ==
    ASSUME load' = "read", AllValid(file'), Unmixed(file'), KeysFollow', LinesFollow'
    PROVE  FileInv'
  BY DEF FileInv

\* A line about gateways is about nothing else.
LEMMA NotGlobal ==
    ASSUME LoadInv, FileInv, NEW l \in Line, Reading(l), UNCHANGED globals,
           l.kind \notin {"int", "double", "bool"}
    PROVE  KeysFollow' /\ \A k \in IntKey : setting'[k] = SettingGiven(file', k)
  <1>1. \A k, kind : kind \in {"int", "double", "bool"} => l \notin Keyed(kind, k)
    BY DEF Keyed, OfKind
  <1>2. \A k, kind, d : kind \in {"int", "double", "bool"} =>
            Given(file', Keyed(kind, k), d) = Given(file, Keyed(kind, k), d)
    BY <1>1, LineAdded
  <1>3. KeysFollow /\ \A k \in IntKey : setting[k] = SettingGiven(file, k)
    BY LineAdded DEF LinesFollow
  <1>4. \A k : /\ SettingGiven(file', k) = SettingGiven(file, k)
               /\ ThresholdMeant(file', k) = ThresholdMeant(file, k)
               /\ FlagMeant(file', k) = FlagMeant(file, k)
    BY <1>2 DEF SettingGiven, ThresholdMeant, FlagMeant
  <1>5. UNCHANGED <<setting, threshold, flag>>
    BY DEF globals
  <1> QED
    BY <1>3, <1>4, <1>5 DEF KeysFollow, FlagFollows

LEMMA GatewayKeyFollows ==
    ASSUME LoadInv, FileInv, NEW l \in Line, GatewayKey(l)
    PROVE  FileInv'
  <1>1. Reading(l) /\ l.kind = "gateway" /\ UNCHANGED <<globals, indices>>
    BY DEF GatewayKey
  <1>2. l \in GatewayLine /\ l.index \in Slot
    BY <1>1, LineKinds DEF GatewayLine
  <1>3. /\ load = "read" /\ file \in Seq(Line) /\ file' = Append(file, l)
        /\ LinesFollow /\ Unmixed(file) /\ (AllValid(file') <=> LineValid(l))
        /\ \A M : Where(file', M) # {} <=> Where(file, M) # {} \/ l \in M
    BY <1>1, LineAdded
  <1>4. LineValid(l) <=> FieldValid(l.field, l.value)
    BY <1>1 DEF LineValid
  <1>5. l \in OfKind("gateway") /\ l \notin OfKind("legacy") /\ Numbers(file')
    BY <1>1, <1>3 DEF OfKind, Numbers
  <1>6. CASE saw_legacy_gateway_keys
    <2>1. load' = "refused"
      BY <1>6 DEF GatewayKey, Refuse
    <2>2. ~Unmixed(file')
      BY <1>3, <1>5, <1>6 DEF Unmixed, LinesFollow
    <2> QED
      BY <2>1, <2>2, RefusedRightly
  <1>7. CASE ~saw_legacy_gateway_keys /\ ~FieldValid(l.field, l.value)
    <2>1. load' = "refused"
      BY <1>7 DEF GatewayKey, Refuse
    <2> QED
      BY <1>3, <1>4, <1>7, <2>1, RefusedRightly
  <1>8. CASE ~saw_legacy_gateway_keys /\ FieldValid(l.field, l.value)
    <2>1. /\ load' = "read" /\ saw_gateway_keys' = TRUE
          /\ UNCHANGED saw_legacy_gateway_keys
          /\ gateways' = [Cleared EXCEPT ![l.index] =
                             [Ensured(l.index) EXCEPT ![l.field] = Stored(l.field, l.value)]]
      BY <1>3, <1>8 DEF GatewayKey
    <2>2. /\ Where(file, OfKind("legacy")) = {} /\ Where(file', OfKind("legacy")) = {}
          /\ saw_gateway_keys <=> Numbers(file)
      BY <1>3, <1>5, <1>8 DEF LinesFollow
    <2>3. gateways \in [Slot -> Gateway]
      BY DEF LoadInv, LoadTypeOK
    <2>4. \A n \in Slot : Cleared[n] = IF Where(file, Numbered(n)) # {}
                                       THEN NumberedGateway(file, n) ELSE NoGateway
      <3>1. CASE saw_gateway_keys
        BY <1>3, <2>2, <2>3, <3>1 DEF Cleared, LinesFollow, TableOf
      <3>2. CASE ~saw_gateway_keys
        <4>1. Where(file, OfKind("gateway")) = {}
          BY <2>2, <3>2 DEF Numbers
        <4>2. \A n : Where(file, Numbered(n)) = {}
          BY <4>1 DEF Where, Numbered
        <4> QED
          BY <3>2, <4>2 DEF Cleared
      <3> QED
        BY <3>1, <3>2
    <2>5. Ensured(l.index) = NumberedGateway(file, l.index)
      <3>1. CASE Where(file, Numbered(l.index)) # {}
        <4>1. NumberedGateway(file, l.index).configured = TRUE
          BY DEF NumberedGateway
        <4> QED
          BY <1>2, <2>4, <3>1, <4>1 DEF Ensured
      <3>2. CASE Where(file, Numbered(l.index)) = {}
        <4>1. ~NoGateway.configured
          BY DEF NoGateway
        <4> QED
          BY <1>2, <2>4, <3>2, <4>1, NumberedDefault DEF Ensured
      <3> QED
        BY <3>1, <3>2
    <2>6. [Ensured(l.index) EXCEPT ![l.field] = Stored(l.field, l.value)] =
              NumberedGateway(file', l.index)
      BY <1>1, <1>3, <1>8, <2>5, NumberedSet
    <2>7. Cleared \in [Slot -> Gateway]
      BY <2>3, Gateways DEF Cleared
    <2>8. \A n \in Slot : gateways'[n] = IF n = l.index THEN NumberedGateway(file', n)
                                                        ELSE Cleared[n]
      BY <1>2, <2>1, <2>6, <2>7
    <2>9. ASSUME NEW n \in Slot PROVE gateways'[n] = TableOf(file', n)
      <3>1. l \in Numbered(n) <=> n = l.index
        BY <1>5 DEF Numbered
      <3>2. CASE n = l.index
        BY <1>3, <1>5, <2>8, <3>1, <3>2 DEF TableOf
      <3>3. CASE n # l.index
        <4>1. NumberedGateway(file', n) = NumberedGateway(file, n)
          BY <1>3, <3>1, <3>3, NumberedOther
        <4>2. Where(file', Numbered(n)) # {} <=> Where(file, Numbered(n)) # {}
          BY <1>3, <3>1, <3>3
        <4> QED
          BY <1>5, <2>4, <2>8, <3>3, <4>1, <4>2 DEF TableOf
      <3> QED
        BY <3>2, <3>3
    <2>10. KeysFollow' /\ \A k \in IntKey : setting'[k] = SettingGiven(file', k)
      BY <1>1, NotGlobal
    <2>11. LinesFollow'
      BY <1>5, <1>8, <2>1, <2>2, <2>9, <2>10 DEF LinesFollow
    <2>12. AllValid(file') /\ Unmixed(file')
      BY <1>3, <1>4, <1>8, <2>2 DEF Unmixed
    <2> QED
      BY <2>1, <2>10, <2>11, <2>12, ReadRightly
  <1> QED
    BY <1>6, <1>7, <1>8

LEMMA LegacyKeyFollows ==
    ASSUME LoadInv, FileInv, NEW l \in Line, LegacyKey(l)
    PROVE  FileInv'
  <1>1. /\ Reading(l) /\ l.kind = "legacy" /\ UNCHANGED <<globals, indices>>
        /\ UNCHANGED saw_gateway_keys
    BY DEF LegacyKey
  <1>3. /\ load = "read" /\ file \in Seq(Line) /\ file' = Append(file, l)
        /\ LinesFollow /\ Unmixed(file) /\ (AllValid(file') <=> LineValid(l))
        /\ \A M : Where(file', M) # {} <=> Where(file, M) # {} \/ l \in M
    BY <1>1, LineAdded
  <1>4. LineValid(l) <=> FieldValid(l.field, l.value)
    BY <1>1 DEF LineValid
  <1>5. /\ l \notin OfKind("gateway") /\ l \in OfKind("legacy")
        /\ Numbers(file') <=> Numbers(file)
        /\ Where(file', OfKind("legacy")) # {}
    BY <1>1, <1>3 DEF OfKind, Numbers
  <1>6. CASE ~FieldValid(l.field, l.value)
    <2>1. load' = "refused"
      BY <1>6 DEF LegacyKey, Refuse
    <2> QED
      BY <1>3, <1>4, <1>6, <2>1, RefusedRightly
  <1>7. CASE FieldValid(l.field, l.value) /\ saw_gateway_keys
    <2>1. load' = "refused"
      BY <1>7 DEF LegacyKey, Refuse
    <2>2. ~Unmixed(file')
      BY <1>3, <1>5, <1>7 DEF Unmixed, LinesFollow
    <2> QED
      BY <2>1, <2>2, RefusedRightly
  <1>8. CASE FieldValid(l.field, l.value) /\ ~saw_gateway_keys
    <2>1. /\ load' = "read" /\ saw_legacy_gateway_keys' = TRUE
          /\ gateways' = [gateways EXCEPT ![1] =
                              [gateways[1] EXCEPT ![l.field] = Stored(l.field, l.value)]]
      BY <1>3, <1>8 DEF LegacyKey
    <2>2. ~Numbers(file) /\ ~Numbers(file')
      BY <1>3, <1>5, <1>8 DEF LinesFollow
    <2>3. gateways \in [Slot -> Gateway] /\ 1 \in Slot
      BY Slots DEF LoadInv, LoadTypeOK
    <2>4. gateways[1] = LegacyGateway(file)
      BY <1>3, <2>2, <2>3 DEF LinesFollow, TableOf
    <2>5. [gateways[1] EXCEPT ![l.field] = Stored(l.field, l.value)] = LegacyGateway(file')
      BY <1>1, <1>3, <1>8, <2>4, LegacySet
    <2>6. \A n \in Slot : gateways'[n] = IF n = 1 THEN LegacyGateway(file') ELSE gateways[n]
      BY <2>1, <2>3, <2>5
    <2>7. \A n \in Slot : n # 1 => gateways[n] = NoGateway
      BY <1>3, <2>2 DEF LinesFollow, TableOf
    <2>8. \A n \in Slot : gateways'[n] = TableOf(file', n)
      BY <2>2, <2>6, <2>7 DEF TableOf
    <2>9. KeysFollow' /\ \A k \in IntKey : setting'[k] = SettingGiven(file', k)
      BY <1>1, NotGlobal
    <2>10. LinesFollow'
      BY <1>1, <1>5, <1>8, <2>1, <2>2, <2>8, <2>9 DEF LinesFollow
    <2>11. AllValid(file') /\ Unmixed(file')
      BY <1>3, <1>4, <1>8, <2>2 DEF Unmixed
    <2> QED
      BY <2>1, <2>9, <2>10, <2>11, ReadRightly
  <1> QED
    BY <1>6, <1>7, <1>8

\* A line that is not about gateways leaves the table alone.
LEMMA NotGateway ==
    ASSUME LoadInv, FileInv, NEW l \in Line, Reading(l), UNCHANGED <<table, saw>>,
           l.kind \notin {"gateway", "legacy"}
    PROVE  /\ Unmixed(file')
           /\ saw_gateway_keys' <=> Numbers(file')
           /\ saw_legacy_gateway_keys' <=> Where(file', OfKind("legacy")) # {}
           /\ \A n \in Slot : gateways'[n] = TableOf(file', n)
  <1>1. /\ file \in Seq(Line) /\ file' = Append(file, l) /\ LinesFollow /\ Unmixed(file)
        /\ \A M : Where(file', M) # {} <=> Where(file, M) # {} \/ l \in M
    BY LineAdded
  <1>2. l \notin OfKind("gateway") /\ l \notin OfKind("legacy") /\ \A n : l \notin Numbered(n)
    BY DEF OfKind, Numbered
  <1>3. /\ Numbers(file') <=> Numbers(file)
        /\ Where(file', OfKind("legacy")) # {} <=> Where(file, OfKind("legacy")) # {}
        /\ \A n : Where(file', Numbered(n)) # {} <=> Where(file, Numbered(n)) # {}
    BY <1>1, <1>2 DEF Numbers
  <1>4. \A n : NumberedGateway(file', n) = NumberedGateway(file, n)
    BY <1>1, <1>2, NumberedOther
  <1>5. LegacyGateway(file') = LegacyGateway(file)
    BY <1>1, LegacyOther
  <1>6. \A n : TableOf(file', n) = TableOf(file, n)
    BY <1>3, <1>4, <1>5 DEF TableOf
  <1>7. UNCHANGED <<gateways, saw_gateway_keys, saw_legacy_gateway_keys>>
    BY DEF table, saw
  <1> QED
    BY <1>1, <1>3, <1>6, <1>7 DEF LinesFollow, Unmixed

\* What a line about a key sets.
LEMMA FlagKept ==
    ASSUME LoadInv, FileInv, NEW l \in Line, GlobalKey(l), GlobalValid(l),
           NEW k \in BoolKey, FlagFollows(k)
    PROVE  FlagFollows(k)'
  <1>1. Reading(l)
    BY DEF GlobalKey
  <1>2. /\ flag \in [BoolKey -> BOOLEAN]
        /\ flag' = IF l.kind = "bool" THEN [flag EXCEPT ![l.key] = (l.value = "true")] ELSE flag
    BY DEF GlobalKey, LoadInv, LoadTypeOK
  <1>3. Given(file', Keyed("bool", k), "false") =
            IF l \in Keyed("bool", k) THEN l.value ELSE Given(file, Keyed("bool", k), "false")
    BY <1>1, LineAdded
  <1>4. l \in Keyed("bool", k) <=> l.kind = "bool" /\ l.key = k
    BY DEF Keyed, OfKind
  <1>5. CASE l.kind = "bool" /\ l.key = k
    <2>1. flag'[k] <=> l.value = "true"
      BY <1>2, <1>5
    <2> QED
      BY <1>3, <1>4, <1>5, <2>1 DEF FlagFollows, FlagMeant
  <1>6. CASE ~(l.kind = "bool" /\ l.key = k)
    <2>1. flag'[k] = flag[k]
      BY <1>2, <1>6
    <2> QED
      BY <1>3, <1>4, <1>6, <2>1 DEF FlagFollows, FlagMeant
  <1> QED
    BY <1>5, <1>6

LEMMA GlobalKeyFollows ==
    ASSUME LoadInv, FileInv, NEW l \in Line, GlobalKey(l)
    PROVE  FileInv'
  <1>1. /\ Reading(l) /\ UNCHANGED <<table, saw, indices>>
        /\ l.kind \in {"int", "double", "bool", "debug_level", "verbose"}
    BY DEF GlobalKey
  <1>2. l \in GlobalLine
    BY <1>1, LineKinds
  <1>3. /\ load = "read" /\ LinesFollow /\ KeysFollow /\ (AllValid(file') <=> LineValid(l))
        /\ \A M, d : Given(file', M, d) = IF l \in M THEN l.value ELSE Given(file, M, d)
    BY <1>1, LineAdded
  <1>4. LineValid(l) <=> GlobalValid(l)
    BY <1>1 DEF LineValid
  <1>5. CASE ~GlobalValid(l)
    <2>1. load' = "refused"
      BY <1>5 DEF GlobalKey, Refuse
    <2> QED
      BY <1>3, <1>4, <1>5, <2>1, RefusedRightly
  <1>6. CASE GlobalValid(l)
    <2>1. /\ load' = "read"
          /\ setting' = IF l.kind = "int" THEN [setting EXCEPT ![l.key] = l.value] ELSE setting
          /\ threshold' = IF l.kind = "double" THEN [threshold EXCEPT ![l.key] = l.value]
                                               ELSE threshold
      BY <1>3, <1>6 DEF GlobalKey
    <2>2. /\ setting \in [IntKey -> Int] /\ threshold \in [DoubleKey -> Nat \cup {NaN}]
          /\ l.kind = "int" => l.key \in IntKey
          /\ l.kind = "double" => l.key \in DoubleKey
      BY <1>2 DEF LoadInv, LoadTypeOK, GlobalLine
    <2>3. \A k, kind : l \in Keyed(kind, k) <=> l.kind = kind /\ l.key = k
      BY DEF Keyed, OfKind
    <2>4. ASSUME NEW k \in IntKey PROVE setting'[k] = SettingGiven(file', k)
      <3>1. setting[k] = SettingGiven(file, k)
        BY <1>3 DEF LinesFollow
      <3>2. SettingGiven(file', k) = IF l.kind = "int" /\ l.key = k THEN l.value
                                                                    ELSE setting[k]
        BY <1>3, <2>3, <3>1 DEF SettingGiven
      <3>3. setting'[k] = IF l.kind = "int" /\ l.key = k THEN l.value ELSE setting[k]
        BY <2>1, <2>2
      <3> QED
        BY <3>2, <3>3
    <2>5. ASSUME NEW k \in DoubleKey PROVE threshold'[k] = ThresholdMeant(file', k)
      <3>1. threshold[k] = ThresholdMeant(file, k)
        BY <1>3 DEF KeysFollow
      <3>2. ThresholdMeant(file', k) = IF l.kind = "double" /\ l.key = k THEN l.value
                                                                         ELSE threshold[k]
        BY <1>3, <2>3, <3>1 DEF ThresholdMeant
      <3>3. threshold'[k] = IF l.kind = "double" /\ l.key = k THEN l.value ELSE threshold[k]
        BY <2>1, <2>2
      <3> QED
        BY <3>2, <3>3
    <2>6. \A k \in BoolKey \ {"daemonize"} : FlagFollows(k)'
      BY <1>3, <1>6, FlagKept DEF KeysFollow
    <2>7. KeysFollow'
      BY <2>5, <2>6 DEF KeysFollow
    <2>8. /\ Unmixed(file')
          /\ saw_gateway_keys' <=> Numbers(file')
          /\ saw_legacy_gateway_keys' <=> Where(file', OfKind("legacy")) # {}
          /\ \A n \in Slot : gateways'[n] = TableOf(file', n)
      <3>1. l.kind \notin {"gateway", "legacy"}
        BY <1>1
      <3> QED
        BY <1>1, <3>1, NotGateway
    <2>9. LinesFollow'
      BY <2>4, <2>8 DEF LinesFollow
    <2> QED
      BY <1>3, <1>4, <1>6, <2>1, <2>7, <2>8, <2>9, ReadRightly
  <1> QED
    BY <1>5, <1>6

LEMMA OtherLineFollows ==
    ASSUME LoadInv, FileInv, NEW l \in Line, Comment(l) \/ UnknownLine(l)
    PROVE  FileInv'
  <1>1. /\ Reading(l) /\ UNCHANGED <<table, globals, saw, indices>>
        /\ \/ l.kind = "comment" /\ UNCHANGED load
           \/ l.kind = "unknown" /\ load' = "refused"
    BY DEF Comment, UnknownLine, Refuse
  <1>2. load = "read" /\ (AllValid(file') <=> LineValid(l))
    BY <1>1, LineAdded
  <1>3. CASE l.kind = "comment"
    <2>1. load' = "read" /\ LineValid(l)
      BY <1>1, <1>2, <1>3 DEF LineValid
    <2>2. /\ Unmixed(file')
          /\ saw_gateway_keys' <=> Numbers(file')
          /\ saw_legacy_gateway_keys' <=> Where(file', OfKind("legacy")) # {}
          /\ \A n \in Slot : gateways'[n] = TableOf(file', n)
      BY <1>1, <1>3, NotGateway
    <2>3. KeysFollow' /\ \A k \in IntKey : setting'[k] = SettingGiven(file', k)
      BY <1>1, <1>3, NotGlobal
    <2>4. LinesFollow'
      BY <2>2, <2>3 DEF LinesFollow
    <2> QED
      BY <1>2, <2>1, <2>2, <2>3, <2>4, ReadRightly
  <1>4. CASE l.kind = "unknown"
    <2>1. load' = "refused" /\ ~LineValid(l)
      BY <1>1, <1>4 DEF LineValid
    <2> QED
      BY <1>2, <2>1, RefusedRightly
  <1> QED
    BY <1>1, <1>3, <1>4

-----------------------------------------------------------------------------
(***************************************************************************)
(* The table read, the gateways meant, and the slots they move to.          *)
(***************************************************************************)
LEMMA WantedAreSlots ==
    ASSUME NEW h, NEW r
    PROVE  Wanted(h) \in SUBSET Slot /\ IsFiniteSet(Wanted(h)) /\ IsFiniteSet(WantedBelow(h, r))
  <1>1. Wanted(h) \in SUBSET Slot
    BY Slots DEF Wanted, Spoken
  <1>2. IsFiniteSet(Slot)
    BY Slots, FS_Interval
  <1>3. WantedBelow(h, r) \in SUBSET Slot
    BY <1>1 DEF WantedBelow
  <1> QED
    BY <1>1, <1>2, <1>3, FS_Subset

\* The entries that are used are those of the wanted gateways, as the file means them.
LEMMA UsedIsWanted ==
    ASSUME NEW h \in Seq(Line), NEW n \in Slot
    PROVE  /\ Used(TableOf(h, n)) <=> n \in Wanted(h)
           /\ n \in Wanted(h) => TableOf(h, n) = Meant(h, n)
  <1> DEFINE D == DefaultGateway(n)
             yes == TRUE
  <1>1. /\ cut_name[D.name] = D.name /\ cut_host[D.slave_host] = D.slave_host
        /\ D = [name |-> D.name, slave_host |-> D.slave_host, slave_port |-> D.slave_port,
                common_address |-> D.common_address, enabled |-> yes, configured |-> yes]
    BY Fields
  <1>2. ~Used(NoGateway)
    BY DEF Used, NoGateway
  <1> DEFINE name == Value(h, n, "name")
             slave_host == Value(h, n, "slave_host")
             slave_port == Value(h, n, "slave_port")
             common_address == Value(h, n, "common_address")
  <1>3. Meant(h, n) = [name |-> cut_name[name], slave_host |-> cut_host[slave_host],
                       slave_port |-> slave_port, common_address |-> common_address,
                       enabled |-> yes, configured |-> yes]
    BY DEF Meant
  <1>4. CASE Numbers(h)
    <2>1. n \in Wanted(h) <=> Where(h, Numbered(n)) # {} /\ Enabled(h, n)
      BY <1>4 DEF Wanted, Spoken
    <2>2. /\ name = Given(h, GatewayField(n, "name"), D.name)
          /\ slave_host = Given(h, GatewayField(n, "slave_host"), D.slave_host)
          /\ slave_port = Given(h, GatewayField(n, "slave_port"), D.slave_port)
          /\ common_address = Given(h, GatewayField(n, "common_address"), D.common_address)
      BY <1>4 DEF Value
    <2> HIDE DEF D, name, slave_host, slave_port, common_address
    <2>3. NumberedGateway(h, n) =
              [name |-> cut_name[name], slave_host |-> cut_host[slave_host],
               slave_port |-> slave_port, common_address |-> common_address, enabled |-> Enabled(h, n),
               configured |-> yes]
      BY <2>2 DEF NumberedGateway, D
    <2>4. CASE Where(h, Numbered(n)) # {}
      <3>1. TableOf(h, n) = NumberedGateway(h, n)
        BY <1>4, <2>4 DEF TableOf
      <3>2. Used(TableOf(h, n)) <=> Enabled(h, n)
        BY <2>3, <3>1 DEF Used
      <3>3. ASSUME Enabled(h, n) PROVE TableOf(h, n) = Meant(h, n)
        <4>1. Enabled(h, n) = yes
          BY <3>3 DEF Enabled
        <4> QED
          BY <1>3, <2>3, <3>1, <4>1
      <3> QED
        BY <2>1, <2>4, <3>2, <3>3
    <2>5. CASE Where(h, Numbered(n)) = {}
      BY <1>2, <1>4, <2>1, <2>5 DEF TableOf
    <2> QED
      BY <2>4, <2>5
  <1>5. CASE ~Numbers(h)
    <2>1. Enabled(h, n)
      <3>1. Where(h, OfKind("gateway")) = {}
        BY <1>5 DEF Numbers
      <3>2. Where(h, GatewayField(n, "enabled")) = {}
        BY <3>1 DEF Where, GatewayField, Numbered
      <3> QED
        BY <3>2, GivenDefault DEF Enabled
    <2>2. n \in Wanted(h) <=> n = 1
      BY <1>5, <2>1 DEF Wanted, Spoken
    <2>3. CASE n # 1
      BY <1>2, <1>5, <2>2, <2>3 DEF TableOf
    <2>4. CASE n = 1
      <3>1. TableOf(h, n) = LegacyGateway(h)
        BY <1>5, <2>4 DEF TableOf
      <3>2. Used(LegacyGateway(h))
        BY DEF Used, LegacyGateway
      <3>3. name = D.name
        <4>1. Where(h, LegacyField("name")) = {}
          <5>1. \A l \in Line : l.kind = "legacy" => l.field # "name"
            BY LineKinds DEF LegacyLine
          <5>2. LegacyField("name") = {}
            BY <5>1 DEF LegacyField, OfKind
          <5> QED
            BY <5>2 DEF Where
        <4> QED
          BY <1>5, <4>1, GivenDefault DEF Value
      <3>4. /\ slave_host = Given(h, LegacyField("slave_host"), D.slave_host)
            /\ slave_port = Given(h, LegacyField("slave_port"), D.slave_port)
            /\ common_address = Given(h, LegacyField("common_address"), D.common_address)
        BY <1>5 DEF Value
      <3>5. D = DefaultGateway(1)
        BY <2>4
      <3> HIDE DEF D, name, slave_host, slave_port, common_address
      <3>6. LegacyGateway(h) =
                [name |-> D.name, slave_host |-> cut_host[slave_host], slave_port |-> slave_port,
                 common_address |-> common_address, enabled |-> yes, configured |-> yes]
        BY <3>4, <3>5 DEF LegacyGateway
      <3>7. LegacyGateway(h) = Meant(h, n)
        BY <1>1, <1>3, <3>3, <3>6
      <3> QED
        BY <2>2, <2>4, <3>1, <3>2, <3>7
    <2> QED
      BY <2>3, <2>4
  <1> QED
    BY <1>4, <1>5

\* A valid file gives no gateway an empty name or host.
LEMMA WantedHaveNames ==
    ASSUME NEW h \in Seq(Line), AllValid(h), NEW n \in Slot
    PROVE  Meant(h, n).name # "" /\ Meant(h, n).slave_host # ""
  <1> DEFINE M(f) == IF Numbers(h) THEN GatewayField(n, f) ELSE LegacyField(f)
             D == DefaultGateway(n)
  <1>1. D.name \in Text \ {""} /\ D.slave_host \in Text \ {""}
    <2>1. default_name[n] \in Text \ {""} /\ "127.0.0.1" \in Text
      BY ConfigAssumption
    <2> QED
      BY <2>1 DEF DefaultGateway
  <1>2. ASSUME NEW f \in {"name", "slave_host"}
        PROVE  Value(h, n, f) \in Text \ {""}
    <2>1. Value(h, n, f) = Given(h, M(f), D[f])
      BY DEF Value
    <2>2. CASE Where(h, M(f)) = {}
      BY <1>1, <2>1, <2>2, GivenDefault
    <2>3. CASE Where(h, M(f)) # {}
      <3> HIDE DEF M
      <3>1. PICK i \in DOMAIN h : h[i] \in M(f) /\ Value(h, n, f) = h[i].value
        BY <2>1, <2>3, GivenByLine
      <3>2. PICK l \in Line : l = h[i] /\ LineValid(l)
        BY <3>1 DEF AllValid
      <3>3. l.kind \in {"gateway", "legacy"} /\ l.field = f
        BY <3>1, <3>2 DEF M, GatewayField, LegacyField, Numbered, OfKind
      <3>4. FieldValid(l.field, l.value)
        BY <3>2, <3>3 DEF LineValid
      <3>5. l.value # ""
        BY <3>3, <3>4, TextValid
      <3>6. l.value \in Text
        <4>1. l \in GatewayLine \cup LegacyLine
          BY <3>3, LineKinds
        <4> QED
          BY <3>3, <4>1 DEF GatewayLine, LegacyLine
      <3> QED
        BY <3>1, <3>2, <3>5, <3>6
    <2> QED
      BY <2>2, <2>3
  <1>3. \A t \in Text : (cut_name[t] = "" <=> t = "") /\ (cut_host[t] = "" <=> t = "")
    BY ConfigAssumption
  <1>4. cut_name[Value(h, n, "name")] # "" /\ cut_host[Value(h, n, "slave_host")] # ""
    BY <1>2, <1>3
  <1>5. /\ Meant(h, n).name = cut_name[Value(h, n, "name")]
        /\ Meant(h, n).slave_host = cut_host[Value(h, n, "slave_host")]
    BY DEF Meant
  <1> QED
    BY <1>4, <1>5

-----------------------------------------------------------------------------
(***************************************************************************)
(* The compaction.                                                          *)
(***************************************************************************)
LEMMA OpenFailsFollows ==
    ASSUME OpenFails
    PROVE  FileInv'
  <1>1. load' = "refused" /\ file' = <<>>
    BY DEF OpenFails, Refuse
  <1> QED
    BY <1>1 DEF FileInv

LEMMA EndOfFileFollows ==
    ASSUME LoadInv, FileInv, EndOfFile
    PROVE  FileInv'
  <1>1. /\ load' = "compact" /\ read_index' = 1 /\ write_index' = 0
        /\ setting' = Consistent(setting)
        /\ UNCHANGED <<file, gateways, threshold, flag>>
    BY DEF EndOfFile, table
  <1>2. AllValid(file) /\ Unmixed(file) /\ KeysFollow /\ LinesFollow
    BY DEF EndOfFile, FileInv
  <1>3. KeysFollow'
    BY <1>1, <1>2 DEF KeysFollow, FlagFollows
  <1>4. ASSUME NEW k \in IntKey PROVE setting'[k] = SettingMeant(file, k)
    <2>1. /\ setting \in [IntKey -> Int]
          /\ "reconnect_max_sec" \in IntKey /\ "reconnect_initial_sec" \in IntKey
      BY IntKeys DEF LoadInv, LoadTypeOK
    <2>2. \A j \in IntKey : setting[j] = SettingGiven(file, j)
      BY <1>2 DEF LinesFollow
    <2>3. setting' = IF setting.reconnect_max_sec < setting.reconnect_initial_sec
                     THEN [setting EXCEPT !.reconnect_max_sec = setting.reconnect_initial_sec]
                     ELSE setting
      BY <1>1 DEF Consistent
    <2>4. CASE k = "reconnect_max_sec"
      <3>1. SettingMeant(file, k) =
                Larger(setting["reconnect_max_sec"], setting["reconnect_initial_sec"])
        BY <2>1, <2>2, <2>4 DEF SettingMeant
      <3>2. setting[k] \in Int /\ setting["reconnect_initial_sec"] \in Int
        BY <2>1
      <3> QED
        BY <2>1, <2>3, <2>4, <3>1, <3>2 DEF Larger
    <2>5. CASE k # "reconnect_max_sec"
      <3>1. setting'[k] = setting[k]
        BY <2>1, <2>3, <2>5
      <3> QED
        BY <2>2, <2>5, <3>1 DEF SettingMeant
    <2> QED
      BY <2>4, <2>5
  <1>5. Ranked(read_index, write_index)'
    <2>1. WantedBelow(file, 1) = {}
      <3>1. \A n \in Wanted(file) : ~(n < 1)
        BY WantedAreSlots, Slots
      <3> QED
        BY <3>1 DEF WantedBelow
    <2>2. Cardinality(WantedBelow(file, 1)) = 0
      BY <2>1, FS_EmptySet
    <2>3. file' = file
      BY <1>1
    <2> QED
      BY <1>1, <2>1, <2>2, <2>3 DEF Ranked
  <1>6. \A n \in Slot : gateways'[n] = TableOf(file', n)
    BY <1>1, <1>2 DEF LinesFollow
  <1>7. AllValid(file') /\ Unmixed(file') /\ \A k \in IntKey : setting'[k] = SettingMeant(file', k)
    BY <1>1, <1>2, <1>4
  <1> QED
    BY <1>1, <1>3, <1>5, <1>6, <1>7 DEF FileInv

\* One more slot has been read.
LEMMA SlotPassed ==
    ASSUME NEW h, NEW r \in Slot
    PROVE  /\ r \notin Wanted(h) => WantedBelow(h, r + 1) = WantedBelow(h, r)
           /\ r \in Wanted(h) =>
                 /\ WantedBelow(h, r + 1) = WantedBelow(h, r) \cup {r}
                 /\ Rank(h, r) = Cardinality(WantedBelow(h, r)) + 1
                 /\ Cardinality(WantedBelow(h, r + 1)) = Cardinality(WantedBelow(h, r)) + 1
  <1>1. Wanted(h) \in SUBSET Nat /\ r \in Nat
    BY WantedAreSlots, Slots
  <1>2. \A n \in Wanted(h) : n < r + 1 <=> n < r \/ n = r
    BY <1>1
  <1>3. \A n \in Wanted(h) : n <= r <=> n < r + 1
    BY <1>1
  <1>4. CASE r \notin Wanted(h)
    BY <1>2, <1>4 DEF WantedBelow
  <1>5. CASE r \in Wanted(h)
    <2>1. WantedBelow(h, r + 1) = WantedBelow(h, r) \cup {r}
      BY <1>2, <1>5 DEF WantedBelow
    <2>2. r \notin WantedBelow(h, r)
      BY <1>1 DEF WantedBelow
    <2>3. Cardinality(WantedBelow(h, r) \cup {r}) = Cardinality(WantedBelow(h, r)) + 1
      BY <2>2, WantedAreSlots, FS_AddElement
    <2>4. {m \in Wanted(h) : m <= r} = WantedBelow(h, r + 1)
      BY <1>3 DEF WantedBelow
    <2> QED
      BY <1>5, <2>1, <2>3, <2>4 DEF Rank
  <1> QED
    BY <1>4, <1>5

\* Nothing but the table and the indices changes.
LEMMA StillCompacting ==
    ASSUME FileInv, load = "compact", load' = "compact", UNCHANGED <<file, globals>>,
           Ranked(read_index, write_index)',
           \A n \in Slot : n >= read_index' => gateways'[n] = TableOf(file, n)
    PROVE  FileInv'
  <1>1. UNCHANGED <<file, setting, threshold, flag>>
    BY DEF globals
  <1>2. /\ AllValid(file) /\ Unmixed(file) /\ KeysFollow
        /\ \A k \in IntKey : setting[k] = SettingMeant(file, k)
    BY DEF FileInv
  <1>3. KeysFollow'
    BY <1>1, <1>2 DEF KeysFollow, FlagFollows
  <1>4. \A k \in IntKey : setting'[k] = SettingMeant(file', k)
    BY <1>1, <1>2
  <1> QED
    BY <1>1, <1>2, <1>3, <1>4 DEF FileInv

LEMMA CompactSlotFollows ==
    ASSUME LoadInv, FileInv, CompactSlot
    PROVE  FileInv'
  <1> DEFINE r == read_index
             w == write_index
             g == gateways[r]
             B == WantedBelow(file, r)
  <1>1. /\ load = "compact" /\ read_index' = r + 1 /\ UNCHANGED <<file, globals>>
        /\ w < r /\ r \in Slot /\ r \in Nat /\ w \in Nat
        /\ gateways \in [Slot -> Gateway] /\ file \in Seq(Line)
    <2>1. /\ load = "compact" /\ r <= GATEWAY_MAX /\ read_index' = r + 1
          /\ UNCHANGED <<file, globals>>
      BY DEF CompactSlot
    <2>2. /\ gateways \in [Slot -> Gateway] /\ file \in Seq(Line) /\ w < r
          /\ r \in 1..(GATEWAY_MAX + 1) /\ w \in 0..GATEWAY_MAX
      BY <2>1 DEF LoadInv, LoadTypeOK, Compacting
    <2> QED
      BY <2>1, <2>2, Slots
  <1>2. /\ Ranked(r, w) /\ AllValid(file)
        /\ \A n \in Slot : n >= r => gateways[n] = TableOf(file, n)
    BY <1>1 DEF FileInv
  <1>3. g = TableOf(file, r)
    BY <1>1, <1>2
  <1>4. CASE ~Used(g)
    <2>1. UNCHANGED <<gateways, write_index, load>>
      BY <1>4 DEF CompactSlot
    <2>2. r \notin Wanted(file)
      BY <1>1, <1>3, <1>4, UsedIsWanted
    <2>3. WantedBelow(file, r + 1) = B
      BY <1>1, <2>2, SlotPassed
    <2>4. Ranked(read_index, write_index)'
      BY <1>1, <1>2, <2>1, <2>3 DEF Ranked
    <2>5. \A n \in Slot : n >= r + 1 => gateways'[n] = TableOf(file, n)
      BY <1>1, <1>2, <2>1, Slots
    <2> QED
      BY <1>1, <2>1, <2>4, <2>5, StillCompacting
  <1>5. CASE Used(g)
    <2>1. r \in Wanted(file) /\ g = Meant(file, r)
      BY <1>1, <1>3, <1>5, UsedIsWanted
    <2>2. g.name # "" /\ g.slave_host # ""
      BY <1>1, <1>2, <2>1, WantedHaveNames
    <2>3. /\ gateways' = [gateways EXCEPT ![w + 1] = g]
          /\ write_index' = w + 1 /\ load' = "compact"
      BY <1>1, <1>5, <2>2 DEF CompactSlot
    <2>4. /\ WantedBelow(file, r + 1) = B \cup {r}
          /\ Rank(file, r) = w + 1
          /\ Cardinality(WantedBelow(file, r + 1)) = w + 1
      BY <1>1, <1>2, <2>1, SlotPassed DEF Ranked
    <2>5. w + 1 \in Slot
      BY <1>1, Slots
    <2>6. \A i \in Slot : gateways'[i] = IF i = w + 1 THEN g ELSE gateways[i]
      BY <1>1, <2>3, <2>5
    <2>7. \A n \in B : Rank(file, n) \in 1..w /\ gateways[Rank(file, n)] = Meant(file, n)
      BY <1>2 DEF Ranked
    <2>8. ASSUME NEW n \in B \cup {r}
          PROVE  Rank(file, n) \in 1..(w + 1) /\ gateways'[Rank(file, n)] = Meant(file, n)
      <3>1. CASE n = r
        BY <1>1, <2>1, <2>4, <2>5, <2>6, <3>1
      <3>2. CASE n \in B
        <4>1. Rank(file, n) \in 1..w /\ gateways[Rank(file, n)] = Meant(file, n)
          BY <2>7, <3>2
        <4>2. Rank(file, n) \in Slot /\ Rank(file, n) # w + 1
          BY <1>1, <4>1, Slots
        <4> QED
          BY <1>1, <2>6, <4>1, <4>2
      <3> QED
        BY <3>1, <3>2
    <2>9. ASSUME NEW i \in 1..(w + 1)
          PROVE  \E n \in B \cup {r} : Rank(file, n) = i
      <3>1. CASE i = w + 1
        BY <2>4, <3>1
      <3>2. CASE i # w + 1
        <4>1. i \in 1..w
          BY <1>1, <3>2
        <4> QED
          BY <1>2, <4>1 DEF Ranked
      <3> QED
        BY <3>1, <3>2
    <2>10. ASSUME NEW n \in B \cup {r}, NEW m \in B \cup {r}, Rank(file, n) = Rank(file, m)
           PROVE  n = m
      <3>1. \A x \in B : Rank(file, x) # w + 1
        BY <1>1, <2>7
      <3>2. CASE n \in B /\ m \in B
        BY <1>2, <2>10, <3>2 DEF Ranked
      <3>3. CASE n = r \/ m = r
        BY <2>4, <2>10, <3>1, <3>3
      <3> QED
        BY <3>2, <3>3
    <2>11. Ranked(read_index, write_index)'
      <3>1. file' = file
        BY <1>1
      <3> HIDE DEF B
      <3> QED
        BY <1>1, <2>3, <2>4, <2>8, <2>9, <2>10, <3>1 DEF Ranked
    <2>12. \A n \in Slot : n >= r + 1 => gateways'[n] = TableOf(file, n)
      BY <1>1, <1>2, <2>6, Slots
    <2> QED
      BY <1>1, <2>3, <2>11, <2>12, StillCompacting
  <1> QED
    BY <1>4, <1>5

LEMMA AllWanted ==
    ASSUME NEW h
    PROVE  WantedBelow(h, GATEWAY_MAX + 1) = Wanted(h)
  <1>1. \A n \in Wanted(h) : n < GATEWAY_MAX + 1
    BY WantedAreSlots, Slots
  <1> QED
    BY <1>1 DEF WantedBelow

LEMMA CompactedFollows ==
    ASSUME LoadInv, FileInv, Compacted
    PROVE  FileInv'
  <1> DEFINE r == read_index
             w == write_index
  <1>1. load = "compact" /\ UNCHANGED <<file, setting, threshold, flag>>
    BY DEF Compacted, globals
  <1>2. /\ r = GATEWAY_MAX + 1 /\ w \in 0..GATEWAY_MAX /\ GATEWAY_MAX \in Nat
        /\ gateways \in [Slot -> Gateway]
    <2>1. /\ r \in 1..(GATEWAY_MAX + 1) /\ w \in 0..GATEWAY_MAX
          /\ gateways \in [Slot -> Gateway]
      BY DEF LoadInv, LoadTypeOK
    <2>2. r > GATEWAY_MAX
      BY DEF Compacted
    <2> QED
      BY <2>1, <2>2, Slots
  <1>3. /\ Ranked(GATEWAY_MAX + 1, w) /\ AllValid(file) /\ Unmixed(file) /\ KeysFollow
        /\ \A k \in IntKey : setting[k] = SettingMeant(file, k)
    BY <1>1, <1>2 DEF FileInv
  <1>4. WantedBelow(file, GATEWAY_MAX + 1) = Wanted(file)
    BY AllWanted
  <1>5. CASE w = 0
    <2>1. load' = "refused"
      BY <1>5 DEF Compacted, Refuse
    <2>2. Wanted(file) = {}
      BY <1>3, <1>4, <1>5, WantedAreSlots, FS_EmptySet DEF Ranked
    <2>3. ~FileValid(file)
      BY <2>2 DEF FileValid
    <2> QED
      BY <1>1, <2>1, <2>3 DEF FileInv
  <1>6. CASE w # 0
    <2>1. /\ gateway_count' = w /\ load' = "unique"
          /\ gateways' = [i \in Slot |-> IF i <= w THEN gateways[i] ELSE NoGateway]
      BY <1>6 DEF Compacted
    <2>2. \A i \in 1..w : gateways'[i] = gateways[i]
      BY <1>2, <2>1, Slots
    <2>3. Ranked(GATEWAY_MAX + 1, gateway_count)'
      <3>1. \A n \in WantedBelow(file, GATEWAY_MAX + 1) :
                Rank(file, n) \in 1..w /\ gateways'[Rank(file, n)] = Meant(file, n)
        BY <1>3, <2>2 DEF Ranked
      <3>2. file' = file
        BY <1>1
      <3> QED
        BY <1>3, <2>1, <3>1, <3>2 DEF Ranked
    <2>4. KeysFollow'
      BY <1>1, <1>3 DEF KeysFollow, FlagFollows
    <2>5. \A k \in IntKey : setting'[k] = SettingMeant(file', k)
      BY <1>1, <1>3
    <2> QED
      BY <1>1, <1>3, <2>1, <2>3, <2>4, <2>5 DEF FileInv
  <1> QED
    BY <1>5, <1>6

LEMMA CheckNamesFollows ==
    ASSUME LoadInv, FileInv, CheckNames
    PROVE  FileInv'
  <1> DEFINE W == Wanted(file)
             c == gateway_count
  <1>1. /\ load = "unique" /\ UNCHANGED <<file, gateways, gateway_count, setting, threshold, flag>>
        /\ load' = IF NamesDiffer THEN "accepted" ELSE "refused"
    BY DEF CheckNames, table, globals
  <1>2. /\ Ranked(GATEWAY_MAX + 1, c) /\ AllValid(file) /\ Unmixed(file) /\ KeysFollow
        /\ \A k \in IntKey : setting[k] = SettingMeant(file, k)
    BY <1>1 DEF FileInv
  <1>3. c \in Nat \ {0}
    BY <1>1, Slots DEF LoadInv, Filled
  <1>4. /\ \A n \in W : Rank(file, n) \in 1..c /\ gateways[Rank(file, n)] = Meant(file, n)
        /\ \A i \in 1..c : \E n \in W : Rank(file, n) = i
        /\ \A n, m \in W : Rank(file, n) = Rank(file, m) => n = m
    BY <1>2, AllWanted DEF Ranked
  <1>5. W # {}
    <2>1. 1 \in 1..c
      BY <1>3
    <2> QED
      BY <1>4, <2>1
  <1>6. NamesDiffer <=> \A n, m \in W : Meant(file, n).name = Meant(file, m).name => n = m
    <2>1. ASSUME NamesDiffer, NEW n \in W, NEW m \in W, Meant(file, n).name = Meant(file, m).name
          PROVE  n = m
      <3>1. PICK i \in 1..c : i = Rank(file, n) /\ gateways[i] = Meant(file, n)
        BY <1>4
      <3>2. PICK j \in 1..c : j = Rank(file, m) /\ gateways[j] = Meant(file, m)
        BY <1>4
      <3>3. ~(i < j) /\ ~(j < i)
        BY <2>1, <3>1, <3>2 DEF NamesDiffer
      <3>4. i = j
        BY <1>3, <3>3
      <3> QED
        BY <1>4, <3>1, <3>2, <3>4
    <2>2. ASSUME \A n, m \in W : Meant(file, n).name = Meant(file, m).name => n = m
          PROVE  NamesDiffer
      <3> SUFFICES ASSUME NEW i \in 1..c, NEW j \in 1..c, i < j,
                          gateways[i].name = gateways[j].name
                   PROVE  FALSE
        BY DEF NamesDiffer
      <3>1. PICK n \in W : Rank(file, n) = i /\ gateways[i] = Meant(file, n)
        BY <1>4
      <3>2. PICK m \in W : Rank(file, m) = j /\ gateways[j] = Meant(file, m)
        BY <1>4
      <3>3. n = m
        BY <2>2, <3>1, <3>2
      <3>4. i = j
        BY <3>1, <3>2, <3>3
      <3> QED
        BY <1>3, <3>4
    <2> QED
      BY <2>1, <2>2
  <1>7. NamesDiffer <=> FileValid(file)
    BY <1>2, <1>5, <1>6 DEF FileValid, AllValid, Unmixed
  <1>8. Ranked(GATEWAY_MAX + 1, gateway_count)'
    <2>1. file' = file /\ gateways' = gateways /\ gateway_count' = gateway_count
      BY <1>1
    <2> QED
      BY <1>2, <2>1 DEF Ranked
  <1>9. KeysFollow'
    BY <1>1, <1>2 DEF KeysFollow, FlagFollows
  <1>10. file' = file /\ \A k \in IntKey : setting'[k] = SettingMeant(file', k)
    BY <1>1, <1>2
  <1> QED
    BY <1>1, <1>2, <1>7, <1>8, <1>9, <1>10 DEF FileInv

LEMMA FileStep == LoadInv /\ FileInv /\ [LoadNext]_load_vars => FileInv'
  <1> SUFFICES ASSUME LoadInv, FileInv, [LoadNext]_load_vars PROVE FileInv'
    OBVIOUS
  <1>1. ASSUME UNCHANGED load_vars PROVE FileInv'
    <2>1. UNCHANGED <<file, gateways, gateway_count, setting, threshold, flag, saw_gateway_keys,
                      saw_legacy_gateway_keys, load, read_index, write_index>>
      BY <1>1 DEF load_vars, table, globals, saw, indices
    <2>2. Ranked(read_index, write_index)' <=> Ranked(read_index, write_index)
      BY <2>1 DEF Ranked
    <2>3. Ranked(GATEWAY_MAX + 1, gateway_count)' <=> Ranked(GATEWAY_MAX + 1, gateway_count)
      BY <2>1 DEF Ranked
    <2>4. (KeysFollow' <=> KeysFollow) /\ (LinesFollow' <=> LinesFollow)
      BY <2>1 DEF KeysFollow, FlagFollows, LinesFollow
    <2> QED
      BY <2>1, <2>2, <2>3, <2>4 DEF FileInv
  <1> QED
    BY <1>1, GatewayKeyFollows, LegacyKeyFollows, GlobalKeyFollows, OtherLineFollows,
       OpenFailsFollows, EndOfFileFollows, CompactSlotFollows, CompactedFollows,
       CheckNamesFollows DEF LoadNext

LEMMA FollowsFromInv == FileInv => LoadFollowsFile
  <1> SUFFICES ASSUME FileInv, load = "accepted"
               PROVE  /\ FileValid(file)
                      /\ gateway_count = Cardinality(Wanted(file))
                      /\ \A n \in Wanted(file) : gateways[Rank(file, n)] = Meant(file, n)
                      /\ \A k \in IntKey : setting[k] = SettingMeant(file, k)
                      /\ \A k \in DoubleKey : threshold[k] = ThresholdMeant(file, k)
                      /\ \A k \in BoolKey \ {"daemonize"} : flag[k] <=> FlagMeant(file, k)
    <2> HIDE DEF FileValid
    <2> QED
      BY DEF FileInv, LoadFollowsFile
  <1>1. /\ FileValid(file) /\ KeysFollow /\ Ranked(GATEWAY_MAX + 1, gateway_count)
        /\ \A k \in IntKey : setting[k] = SettingMeant(file, k)
    BY DEF FileInv
  <1> QED
    BY <1>1, AllWanted DEF KeysFollow, FlagFollows, Ranked

\* For any file: a file is accepted exactly when it is valid, and then every gateway it
\* enables is in the table at its rank, as described, and every key has its last value.
THEOREM LoadedAsMeant == LoadSpec => []LoadFollowsFile
  <1>1. LoadInit => LoadInv /\ FileInv
    BY LoadInitInv, FileStart
  <1>2. LoadInv /\ FileInv /\ [LoadNext]_load_vars => (LoadInv /\ FileInv)'
    BY LoadNextInv, FileStep
  <1>3. LoadInv /\ FileInv => LoadFollowsFile
    BY FollowsFromInv
  <1> QED
    BY <1>1, <1>2, <1>3, PTL DEF LoadSpec
===============================================================================
