-------------------------------- MODULE Config --------------------------------
(***************************************************************************)
(* config_load (src/config/config.c) and the gateway table it fills         *)
(* (src/config/config_gateway.c): one line of the file per step, then the   *)
(* compaction of the table in place, slot by slot, and the test of names.   *)
(*                                                                          *)
(* A line is what fgets, config_trim and strchr make of it: a key of one of *)
(* three kinds with a value, a comment, or something no kind knows.  A      *)
(* number is an integer (a text that is none is UNREADABLE, which lies in   *)
(* no range), a Boolean "true", "false" or "other".  Keys that are two      *)
(* names for one field are one key here.                                    *)
(***************************************************************************)
EXTENDS Integers, Sequences, FiniteSets

CONSTANTS
    GATEWAY_MAX,        \* IEC104_GATEWAY_MAX
    Line,               \* the lines a file may hold
    MAX_LINES,          \* bound on the length of a file
    Text,               \* values of text keys; "" is the empty one
    cut_name, cut_host, \* what fits of a text into name[] and slave_host[] of gateway_config_t
    default_name,       \* "gateway1", "gateway2", ...
    ONE,                \* a double is a number of units, this many in 1.0, or
    NaN                 \* what strtod makes of "nan"

VARIABLES
    file,                       \* history: the lines read so far
    gateways, gateway_count,    \* the gateway table of app_config_t
    setting,                    \* its numbers
    threshold,                  \* its two doubles
    flag,                       \* its Booleans
    debug_level,
    saw_gateway_keys, saw_legacy_gateway_keys,
    load,                       \* "read", "compact", "unique", "accepted" or "refused"
    read_index, write_index     \* locals of config_gateway_finalize

table == <<gateways, gateway_count>>
globals == <<setting, threshold, flag, debug_level>>
saw == <<saw_gateway_keys, saw_legacy_gateway_keys>>
indices == <<read_index, write_index>>
load_vars == <<file, table, globals, saw, load, indices>>

UNREADABLE == -1
Slot == 1..GATEWAY_MAX

\* The bounds of parse_global_key.
int_min ==
    [connect_timeout_sec |-> 1, receive_timeout_sec |-> 1,
     reconnect_initial_sec |-> 1, reconnect_max_sec |-> 1,
     general_interrogation_interval_sec |-> 0, test_frame_interval_sec |-> 5,
     ack_timeout_ms |-> 1000, ack_window |-> 1]
int_max ==
    [connect_timeout_sec |-> 300, receive_timeout_sec |-> 300,
     reconnect_initial_sec |-> 3600, reconnect_max_sec |-> 86400,
     general_interrogation_interval_sec |-> 86400, test_frame_interval_sec |-> 3600,
     ack_timeout_ms |-> 60000, ack_window |-> 32767]
double_min == [energy_spike_abs_threshold |-> 0, energy_spike_rate_threshold |-> ONE]
IntKey == DOMAIN int_min
DoubleKey == DOMAIN double_min
BoolKey == {"daemonize", "log_all_yc", "log_unchanged_yx"}
Level == {"off", "info", "detail"}
Truth == {"true", "false", "other"}

GatewayLine ==
    [kind : {"gateway"}, index : Slot, field : {"name", "slave_host"}, value : Text]
    \cup [kind : {"gateway"}, index : Slot, field : {"slave_port", "common_address"}, value : Int]
    \cup [kind : {"gateway"}, index : Slot, field : {"enabled"}, value : Truth]
LegacyLine ==
    [kind : {"legacy"}, field : {"slave_host"}, value : Text]
    \cup [kind : {"legacy"}, field : {"slave_port", "common_address"}, value : Int]
GlobalLine ==
    [kind : {"int"}, key : IntKey, value : Int]
    \cup [kind : {"double"}, key : DoubleKey, value : Int \cup {NaN}]
    \cup [kind : {"bool"}, key : BoolKey, value : Truth]
    \cup [kind : {"debug_level"}, value : Level \cup {"other"}]
    \cup [kind : {"verbose"}, value : Truth]
\* A blank line or comment; a line without =, with an unknown key or field, or with a
\* gateway number outside 1..IEC104_GATEWAY_MAX.
OtherLine == [kind : {"comment", "unknown"}]

ASSUME ConfigAssumption ==
    /\ GATEWAY_MAX \in Nat \ {0} /\ MAX_LINES \in Nat
    /\ Line \subseteq GatewayLine \cup LegacyLine \cup GlobalLine \cup OtherLine
    /\ ONE \in Nat \ {0}
    /\ "" \in Text /\ "127.0.0.1" \in Text
    /\ cut_name \in [Text -> Text] /\ cut_host \in [Text -> Text]
    /\ \A t \in Text : (cut_name[t] = "" <=> t = "") /\ (cut_host[t] = "" <=> t = "")
    /\ default_name \in [Slot -> Text \ {""}]
    /\ \A i \in Slot : cut_name[default_name[i]] = default_name[i]
    /\ cut_host["127.0.0.1"] = "127.0.0.1"
    /\ \A i, j \in Slot : default_name[i] = default_name[j] => i = j

(***************************************************************************)
(* Defaults.                                                                *)
(***************************************************************************)
uint16_t == 0..65535
Gateway == [name : Text, slave_host : Text, slave_port : uint16_t,
            common_address : uint16_t, enabled : BOOLEAN, configured : BOOLEAN]

\* memset 0.
NoGateway == [name |-> "", slave_host |-> "", slave_port |-> 0, common_address |-> 0,
              enabled |-> FALSE, configured |-> FALSE]

DefaultGateway(i) ==
    [name |-> default_name[i], slave_host |-> "127.0.0.1", slave_port |-> 2404,
     common_address |-> 1, enabled |-> TRUE, configured |-> TRUE]

DefaultSetting ==
    [connect_timeout_sec |-> 5, receive_timeout_sec |-> 2,
     reconnect_initial_sec |-> 2, reconnect_max_sec |-> 60,
     general_interrogation_interval_sec |-> 300, test_frame_interval_sec |-> 20,
     ack_timeout_ms |-> 15000, ack_window |-> 8]
DefaultThreshold ==
    [energy_spike_abs_threshold |-> 1000 * ONE, energy_spike_rate_threshold |-> 5 * ONE]

LoadInit ==
    /\ file = <<>>
    /\ gateways = [i \in Slot |-> IF i = 1 THEN DefaultGateway(1) ELSE NoGateway]
    /\ gateway_count = 1
    /\ setting = DefaultSetting /\ threshold = DefaultThreshold
    /\ flag = [k \in BoolKey |-> FALSE] /\ debug_level = "info"
    /\ saw_gateway_keys = FALSE /\ saw_legacy_gateway_keys = FALSE
    /\ load = "read" /\ read_index = 1 /\ write_index = 0

(***************************************************************************)
(* config_parse_int_range, _double_min, _bool and the two tests for an      *)
(* empty text: is the value accepted?  A NaN is not below any minimum.      *)
(* A definition whose name ends in _faulty is its neighbour with a          *)
(* plausible mistake; it serves only to check the properties.               *)
(***************************************************************************)
FieldValid_faulty(field, value) ==
    CASE field \in {"name", "slave_host"} -> value # ""
      [] field \in {"slave_port", "common_address"} -> value >= 0
      [] field = "enabled" -> value # "other"
FieldValid(field, value) ==
    CASE field \in {"name", "slave_host"} -> value # ""
      [] field = "slave_port" -> value \in uint16_t \ {0}
      [] field = "common_address" -> value \in uint16_t
      [] field = "enabled" -> value # "other"

GlobalValid(l) ==
    CASE l.kind = "int" -> l.value \in int_min[l.key]..int_max[l.key]
      [] l.kind = "double" -> l.value = NaN \/ l.value >= double_min[l.key]
      [] OTHER -> l.value # "other"

\* The new value of a field, given that it is valid.
Stored(field, value) ==
    CASE field = "name" -> cut_name[value]
      [] field = "slave_host" -> cut_host[value]
      [] field = "enabled" -> value = "true"
      [] OTHER -> value

(***************************************************************************)
(* The loop over the lines.                                                 *)
(***************************************************************************)
Reading(l) == load = "read" /\ Len(file) < MAX_LINES /\ file' = Append(file, l)
Refuse == load' = "refused"

\* config_gateway_clear_all before the first gateway key, then config_gateway_ensure.
Cleared == IF saw_gateway_keys THEN gateways ELSE [i \in Slot |-> NoGateway]
Ensured(i) == IF Cleared[i].configured THEN Cleared[i] ELSE DefaultGateway(i)

GatewayKey(l) ==
    /\ Reading(l) /\ l.kind = "gateway"
    /\ IF saw_legacy_gateway_keys
       THEN Refuse /\ UNCHANGED <<table, saw>>
       ELSE /\ saw_gateway_keys' = TRUE
            /\ gateways' = [Cleared EXCEPT ![l.index] =
                  IF FieldValid(l.field, l.value)
                  THEN [Ensured(l.index) EXCEPT ![l.field] = Stored(l.field, l.value)]
                  ELSE Ensured(l.index)]
            /\ gateway_count' =
                  LET before == IF saw_gateway_keys THEN gateway_count ELSE 0
                  IN  IF before < l.index THEN l.index ELSE before
            /\ IF FieldValid(l.field, l.value) THEN UNCHANGED load ELSE Refuse
            /\ UNCHANGED saw_legacy_gateway_keys
    /\ UNCHANGED <<globals, indices>>

\* The value is stored before the test for gateway keys, which then ends the program.
LegacyKey_faulty(l) ==
    /\ Reading(l) /\ l.kind = "legacy"
    /\ IF FieldValid(l.field, l.value)
       THEN /\ gateways' = [gateways EXCEPT ![1] = [@ EXCEPT ![l.field] = Stored(l.field, l.value)]]
            /\ saw_legacy_gateway_keys' = TRUE
            /\ UNCHANGED load
       ELSE Refuse /\ UNCHANGED <<gateways, saw_legacy_gateway_keys>>
    /\ UNCHANGED <<gateway_count, saw_gateway_keys, globals, indices>>
LegacyKey(l) ==
    /\ Reading(l) /\ l.kind = "legacy"
    /\ IF FieldValid(l.field, l.value)
       THEN /\ gateways' = [gateways EXCEPT ![1] = [@ EXCEPT ![l.field] = Stored(l.field, l.value)]]
            /\ IF saw_gateway_keys
               THEN Refuse /\ UNCHANGED saw_legacy_gateway_keys
               ELSE saw_legacy_gateway_keys' = TRUE /\ UNCHANGED load
       ELSE Refuse /\ UNCHANGED <<gateways, saw_legacy_gateway_keys>>
    /\ UNCHANGED <<gateway_count, saw_gateway_keys, globals, indices>>

GlobalKey(l) ==
    /\ Reading(l) /\ l.kind \in {"int", "double", "bool", "debug_level", "verbose"}
    /\ IF ~GlobalValid(l)
       THEN Refuse /\ UNCHANGED globals
       ELSE /\ setting' = IF l.kind = "int" THEN [setting EXCEPT ![l.key] = l.value] ELSE setting
            /\ threshold' = IF l.kind = "double" THEN [threshold EXCEPT ![l.key] = l.value]
                                                 ELSE threshold
            /\ flag' = IF l.kind = "bool" THEN [flag EXCEPT ![l.key] = (l.value = "true")]
                                          ELSE flag
            /\ debug_level' =
                  CASE l.kind = "debug_level" -> l.value
                    [] l.kind = "verbose" -> IF l.value = "true" THEN "detail" ELSE "info"
                    [] OTHER -> debug_level
            /\ UNCHANGED load
    /\ UNCHANGED <<table, saw, indices>>

Comment(l) ==
    /\ Reading(l) /\ l.kind = "comment"
    /\ UNCHANGED <<table, globals, saw, load, indices>>

\* (An unknown field gets its gateway defaults first, in a table no one reads any more.)
UnknownLine(l) ==
    /\ Reading(l) /\ l.kind = "unknown"
    /\ Refuse
    /\ UNCHANGED <<table, globals, saw, indices>>

\* fopen fails.
OpenFails ==
    /\ load = "read" /\ file = <<>>
    /\ Refuse
    /\ UNCHANGED <<file, table, globals, saw, indices>>

\* fgets returns NULL: the pause is made consistent, whatever the order of its two keys.
Consistent(s) ==
    IF s.reconnect_max_sec < s.reconnect_initial_sec
    THEN [s EXCEPT !.reconnect_max_sec = s.reconnect_initial_sec]
    ELSE s

EndOfFile ==
    /\ load = "read"
    /\ setting' = Consistent(setting)
    /\ load' = "compact" /\ read_index' = 1 /\ write_index' = 0
    /\ UNCHANGED <<file, table, threshold, flag, debug_level, saw>>

(***************************************************************************)
(* config_gateway_finalize.                                                 *)
(***************************************************************************)
Used(g) == g.configured /\ g.enabled

CompactSlot_faulty ==
    /\ load = "compact" /\ read_index <= GATEWAY_MAX /\ Used(gateways[read_index])
    /\ gateways' = [gateways EXCEPT ![write_index + 1] = gateways[read_index]]
    /\ write_index' = write_index + 1
    /\ read_index' = read_index + 1
    /\ UNCHANGED <<file, gateway_count, globals, saw, load>>
CompactSlot ==
    /\ load = "compact" /\ read_index <= GATEWAY_MAX
    /\ LET g == gateways[read_index] IN
          IF ~Used(g)
          THEN UNCHANGED <<gateways, write_index, load>>
          ELSE IF g.name = "" \/ g.slave_host = ""
          THEN Refuse /\ UNCHANGED <<gateways, write_index>>
          ELSE /\ gateways' = [gateways EXCEPT ![write_index + 1] = g]
               /\ write_index' = write_index + 1
               /\ UNCHANGED load
    /\ read_index' = read_index + 1
    /\ UNCHANGED <<file, gateway_count, globals, saw>>

Compacted ==
    /\ load = "compact" /\ read_index > GATEWAY_MAX
    /\ IF write_index = 0
       THEN Refuse /\ UNCHANGED table
       ELSE /\ gateway_count' = write_index
            /\ gateways' = [i \in Slot |-> IF i <= write_index THEN gateways[i] ELSE NoGateway]
            /\ load' = "unique"
    /\ UNCHANGED <<file, globals, saw, indices>>

NamesDiffer_faulty ==
    \A i \in 1..(gateway_count - 1) : gateways[i].name # gateways[i + 1].name
NamesDiffer ==
    \A i, j \in 1..gateway_count : i < j => gateways[i].name # gateways[j].name

CheckNames ==
    /\ load = "unique"
    /\ load' = IF NamesDiffer THEN "accepted" ELSE "refused"
    /\ UNCHANGED <<file, table, globals, saw, indices>>

LoadNext ==
    \/ \E l \in Line :
          GatewayKey(l) \/ LegacyKey(l) \/ GlobalKey(l) \/ Comment(l) \/ UnknownLine(l)
    \/ OpenFails \/ EndOfFile \/ CompactSlot \/ Compacted \/ CheckNames

LoadSpec == LoadInit /\ [][LoadNext]_load_vars

(***************************************************************************)
(* Properties.                                                              *)
(***************************************************************************)
\* Types.
LoadTypeOK ==
    /\ file \in Seq(Line)
    /\ gateways \in [Slot -> Gateway] /\ gateway_count \in 0..GATEWAY_MAX
    /\ setting \in [IntKey -> Int] /\ \A k \in IntKey : setting[k] \in int_min[k]..int_max[k]
    /\ threshold \in [DoubleKey -> Nat \cup {NaN}]
    /\ flag \in [BoolKey -> BOOLEAN] /\ debug_level \in Level
    /\ saw_gateway_keys \in BOOLEAN /\ saw_legacy_gateway_keys \in BOOLEAN
    /\ load \in {"read", "compact", "unique", "accepted", "refused"}
    /\ read_index \in 1..(GATEWAY_MAX + 1) /\ write_index \in 0..GATEWAY_MAX

\* What the rest of the program takes for granted of a configuration that was accepted:
\* gateways at the front of the table and zeros behind them, each with a host and with a
\* name of its own (the point store tells gateways apart by name only), and a longest pause
\* that is no shorter than the first.
ConfigUsable ==
    load = "accepted" =>
        /\ gateway_count \in 1..GATEWAY_MAX
        /\ \A i \in Slot :
              IF i <= gateway_count
              THEN Used(gateways[i]) /\ gateways[i].name # "" /\ gateways[i].slave_host # ""
              ELSE gateways[i] = NoGateway
        /\ \A i, j \in 1..gateway_count : gateways[i].name = gateways[j].name => i = j
        /\ setting.reconnect_max_sec >= setting.reconnect_initial_sec

(***************************************************************************)
(* What a file means, read off the file h as a whole: which lines it has of *)
(* a set of lines, and the value of the last of them, or a default.         *)
(***************************************************************************)
Where(h, lines) == {i \in DOMAIN h : h[i] \in lines}
Given(h, lines, default) ==
    LET S == Where(h, lines) IN
    IF S = {} THEN default ELSE h[CHOOSE i \in S : \A j \in S : j <= i].value

OfKind(kind) == {l \in Line : l.kind = kind}
Keyed(kind, k) == {l \in OfKind(kind) : l.key = k}
Numbered(n) == {l \in OfKind("gateway") : l.index = n}
GatewayField(n, f) == {l \in Numbered(n) : l.field = f}
LegacyField(f) == {l \in OfKind("legacy") : l.field = f}

\* The gateways to run: those the file speaks of and does not end up disabling, or one
\* default gateway when no key names a gateway number.
Numbers(h) == Where(h, OfKind("gateway")) # {}
Spoken(h) == IF Numbers(h) THEN {n \in Slot : Where(h, Numbered(n)) # {}} ELSE {1}
Enabled(h, n) == Given(h, GatewayField(n, "enabled"), "true") = "true"
Wanted(h) == {n \in Spoken(h) : Enabled(h, n)}
Rank(h, n) == Cardinality({m \in Wanted(h) : m <= n})

Value(h, n, f) ==
    Given(h, IF Numbers(h) THEN GatewayField(n, f) ELSE LegacyField(f), DefaultGateway(n)[f])
Meant(h, n) ==
    [name |-> cut_name[Value(h, n, "name")], slave_host |-> cut_host[Value(h, n, "slave_host")],
     slave_port |-> Value(h, n, "slave_port"),
     common_address |-> Value(h, n, "common_address"),
     enabled |-> TRUE, configured |-> TRUE]

LineValid(l) ==
    CASE l.kind \in {"gateway", "legacy"} -> FieldValid(l.field, l.value)
      [] l.kind = "comment" -> TRUE
      [] l.kind = "unknown" -> FALSE
      [] OTHER -> GlobalValid(l)
FileValid(h) ==
    /\ \A i \in DOMAIN h : LineValid(h[i])
    /\ ~Numbers(h) \/ Where(h, OfKind("legacy")) = {}
    /\ Wanted(h) # {}
    /\ \A n, m \in Wanted(h) : Meant(h, n).name = Meant(h, m).name => n = m

Larger(a, b) == IF a > b THEN a ELSE b
SettingGiven(h, k) == Given(h, Keyed("int", k), DefaultSetting[k])
SettingMeant(h, k) ==
    IF k = "reconnect_max_sec"
    THEN Larger(SettingGiven(h, k), SettingGiven(h, "reconnect_initial_sec"))
    ELSE SettingGiven(h, k)
ThresholdMeant(h, k) == Given(h, Keyed("double", k), DefaultThreshold[k])
FlagMeant(h, k) == Given(h, Keyed("bool", k), "false") = "true"

\* A file is accepted exactly when each line is valid, the two ways to describe gateways
\* are not mixed, whichever comes first (README.md:92), and the gateways it enables have
\* different names; then those gateways run, in the order of their numbers, and every key
\* has the last value the file gives it, or its default.  (What becomes of daemonize is a
\* matter of the command line too: module Startup.)
LoadFollowsFile ==
    /\ load = "accepted" =>
          /\ FileValid(file)
          /\ gateway_count = Cardinality(Wanted(file))
          /\ \A n \in Wanted(file) : gateways[Rank(file, n)] = Meant(file, n)
          /\ \A k \in IntKey : setting[k] = SettingMeant(file, k)
          /\ \A k \in DoubleKey : threshold[k] = ThresholdMeant(file, k)
          /\ \A k \in BoolKey \ {"daemonize"} : flag[k] <=> FlagMeant(file, k)
    /\ load = "refused" => file = <<>> \/ ~FileValid(file)
=============================================================================
