--------------------------- MODULE MCPointStore ---------------------------
(***************************************************************************)
(* PointStore with two gateways that use the same address, all points in    *)
(* one bucket, and fewer entries than points, so that calloc can fail.      *)
(* The first two YC readings differ by EPS only.                            *)
(***************************************************************************)
EXTENDS PointStore

R(t, v, q) == [type |-> t, address |-> 1, value |-> v, quality |-> q]
MCReading == {R("YX", 0, 0), R("YX", 1, 0),
              R("YC", 0, 0), R("YC", 1, 0), R("YC", 2, 1),
              R("ENERGY", 2, 0), R("ENERGY", 5, 0)}
MCHash == [k \in Points |-> 1]
===========================================================================
