----------------------------- MODULE PointTable -----------------------------
(***************************************************************************)
(* What the gateway threads may rely on of the point store                  *)
(* (src/point_store/point_store.c): a table from point to last reading.     *)
(* Each update takes effect at one instant, on the point of the thread that *)
(* made it, and is lost only for a point that cannot be created.            *)
(***************************************************************************)
CONSTANTS Gateway, Reading, PointOf(_, _),
    Absent     \* not a Reading

VARIABLES
    table,     \* the last reading of each point, or Absent
    pending    \* the reading each thread is storing, or Absent

vars == <<table, pending>>

Points == {PointOf(g, r) : g \in Gateway, r \in Reading}

Init ==
    /\ table = [k \in Points |-> Absent]
    /\ pending = [g \in Gateway |-> Absent]

Call(g, r) ==
    /\ pending[g] = Absent
    /\ pending' = [pending EXCEPT ![g] = r]
    /\ UNCHANGED table

Apply(g) ==
    /\ pending[g] # Absent
    /\ table' = [table EXCEPT ![PointOf(g, pending[g])] = pending[g]]
    /\ pending' = [pending EXCEPT ![g] = Absent]

OutOfMemory(g) ==
    /\ pending[g] # Absent
    /\ table[PointOf(g, pending[g])] = Absent
    /\ pending' = [pending EXCEPT ![g] = Absent]
    /\ UNCHANGED table

Next == \E g \in Gateway :
    (\E r \in Reading : Call(g, r)) \/ Apply(g) \/ OutOfMemory(g)

Spec == Init /\ [][Next]_vars
=============================================================================
