----------------------------- MODULE SessionCall -----------------------------
(***************************************************************************)
(* What one call of session_loop promises its caller, iec104_gateway_run:   *)
(* the connection may or may not reach the started state; the call may give *)
(* up with -1 at any moment; it returns 0 only because the stop flag was     *)
(* cleared; and once that happened it does return.                          *)
(***************************************************************************)
EXTENDS Integers

VARIABLES phase, running, rc
vars == <<phase, running, rc>>

Init == phase = "opening" /\ running = TRUE /\ rc = 0

\* STARTDT_CON arrived.
Confirm == phase = "opening" /\ phase' = "started" /\ UNCHANGED <<running, rc>>

GiveUp == phase # "returned" /\ phase' = "returned" /\ rc' = -1 /\ UNCHANGED running

Stop ==
    /\ phase # "returned" /\ ~running
    /\ phase' = "returned" /\ rc' = 0
    /\ UNCHANGED running

Signal == running /\ running' = FALSE /\ UNCHANGED <<phase, rc>>

Next == Confirm \/ GiveUp \/ Stop \/ Signal

Spec == Init /\ [][Next]_vars

FairSpec == Spec /\ WF_vars(~running /\ (GiveUp \/ Stop))
============================================================================
