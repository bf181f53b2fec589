------------------------------ MODULE MCStartup ------------------------------
(***************************************************************************)
(* Startup with three gateway numbers and files of up to three lines: keys   *)
(* of one, two or three gateways in any order, names that are equal by      *)
(* default or after truncation, legacy keys, values on both sides of their  *)
(* bounds.                                                                  *)
(***************************************************************************)
EXTENDS Startup

G(i, f, v) == [kind |-> "gateway", index |-> i, field |-> f, value |-> v]
L(f, v) == [kind |-> "legacy", field |-> f, value |-> v]
I(k, v) == [kind |-> "int", key |-> k, value |-> v]

MCText == {"", "127.0.0.1", "gateway1", "gateway2", "gateway3", "long name 1", "long name 2",
           "long name", "long host", "host"}
MCCutName == [t \in MCText |-> IF t \in {"long name 1", "long name 2"} THEN "long name" ELSE t]
MCCutHost == [t \in MCText |-> IF t = "long host" THEN "host" ELSE t]
MCDefaultName == <<"gateway1", "gateway2", "gateway3">>

MCLine ==
    { G(1, "enabled", "false"), G(1, "name", "long name 1"), G(2, "enabled", "true"),
      G(2, "enabled", "false"), G(2, "name", "gateway1"), G(2, "slave_port", 65536),
      G(3, "name", "long name 2"), G(3, "common_address", 0), G(3, "slave_host", ""),
      L("slave_host", "long host"), L("slave_port", UNREADABLE), L("common_address", 65535),
      I("reconnect_initial_sec", 3600), I("reconnect_initial_sec", 3601),
      I("reconnect_max_sec", 1),
      [kind |-> "double", key |-> "energy_spike_rate_threshold", value |-> NaN],
      [kind |-> "double", key |-> "energy_spike_rate_threshold", value |-> 1],
      [kind |-> "bool", key |-> "daemonize", value |-> "true"],
      [kind |-> "verbose", value |-> "true"], [kind |-> "comment"], [kind |-> "unknown"] }

MCOptions == { {}, {"d", "f", "v"}, {"d"}, {"h"}, {"?"} }
=============================================================================
