------------------------------ MODULE Session ------------------------------
(***************************************************************************)
(* One call of session_loop (src/iec104/iec104.c) together with the frame   *)
(* layer it drives (src/iec104/iec104_frame.c): connect, STARTDT, then one  *)
(* iteration after the other of "wait for at most one frame, handle it, run *)
(* the timers", until an error, a silent gateway or the stop flag.          *)
(*                                                                          *)
(* pc names the next statement block of the loop.  Only the head of the     *)
(* loop reads the stop flag, so a stop that arrives while pc is "read" is   *)
(* noticed one iteration later.  The gateway, the network and the signal    *)
(* handler act between any two steps.                                       *)
(*                                                                          *)
(* Time.  clock is the wall clock in seconds; time(NULL) and gettimeofday   *)
(* both read it.  READ_MAX bounds the time one read and its handler may     *)
(* take (select, the receive timeouts of a slow frame), STALL_MAX the time  *)
(* the rest of an iteration may take (blocking sends, the scheduler).       *)
(* Sequence numbers.  The counters are uint16_t, the field on the wire has  *)
(* 15 bits: SEQ_MOD stands for 2^15, so a counter wraps at 2 * SEQ_MOD.     *)
(***************************************************************************)
EXTENDS Integers

CONSTANTS
    SEQ_MOD,                            \* values of a sequence field on the wire
    ack_window,                         \* I frames received before an S frame
    ack_timeout_ms,                     \* oldest unacknowledged I frame
    connect_timeout_sec,                \* also the limit for STARTDT_CON
    general_interrogation_interval_sec, \* 0: only once per connection
    test_frame_interval_sec,
    START,                              \* wall clock when the session starts
    MAX_CLOCK,                          \* bound of the model: the clock stops here
    READ_MAX, STALL_MAX,                \* longest read, longest rest of an iteration
    GW_SLIP                             \* how far a gateway may misnumber a frame

ASSUME ConfigAssumption ==
    /\ SEQ_MOD \in Nat /\ SEQ_MOD >= 2
    /\ ack_window \in 1..(SEQ_MOD - 1)
    /\ ack_timeout_ms \in Nat \ {0}
    /\ connect_timeout_sec \in Nat \ {0}
    /\ general_interrogation_interval_sec \in Nat
    /\ test_frame_interval_sec \in Nat \ {0}

ASSUME EnvironmentAssumption ==
    /\ START \in Nat \ {0} /\ START >= general_interrogation_interval_sec
    /\ MAX_CLOCK \in Nat
    /\ READ_MAX \in Nat /\ STALL_MAX \in Nat
    /\ GW_SLIP \in 0..(SEQ_MOD - 1)

VARIABLES
    pc,              \* the block of session_loop to run next
    clock,           \* wall clock, in seconds
    mark,            \* when the read, or the rest of the iteration, began
    running,         \* *running, cleared by the signal handler
    session,         \* iec104_session_t, without fd, gateway and last_rx
    sent_initial_gi,
    now,             \* now and tv_now of the iteration
    rc,              \* what session_loop returned
    cause,           \* which exit it took
    delivered,       \* history: index after the last I frame handed to the parser
    acked,           \* history: last N(R) the gateway was sent
    unacked_since,   \* history: arrival of the oldest unacknowledged I frame
    heard,           \* history: connect or the last TESTFR_CON
    started,         \* history: when STARTDT_ACT was sent
    asked            \* history: when the last general interrogation was sent, or 0

history == <<delivered, acked, unacked_since, heard, started, asked>>
vars == <<pc, clock, mark, running, session, sent_initial_gi, now, rc, cause, history>>

Counter == 0..(2 * SEQ_MOD - 1)

Session == [send_seq : Counter, recv_seq : Counter, last_ack_sent : Counter,
            unacked_received : Nat,
            startdt_confirmed : BOOLEAN, testfr_pending : BOOLEAN,
            last_tx : Nat, last_gi : Nat, last_testfr : Nat, last_data_ack : Nat]

(***************************************************************************)
(* The frame layer: what a successful call does to the session.  A          *)
(* definition whose name ends in _faulty is its neighbour with a plausible  *)
(* mistake in it; nothing uses it but the check that a property below would *)
(* notice the mistake.                                                      *)
(***************************************************************************)
Inc16(x) == (x + 1) % (2 * SEQ_MOD)

iec104_send_u_frame(s) == [s EXCEPT !.last_tx = clock]

iec104_send_s_frame(s) ==
    [s EXCEPT !.last_ack_sent = s.recv_seq, !.unacked_received = 0, !.last_tx = clock]

iec104_send_general_interrogation_faulty(s) ==
    [s EXCEPT !.send_seq = Inc16(@), !.last_tx = clock]
iec104_send_general_interrogation(s) ==
    [s EXCEPT !.send_seq = Inc16(@), !.last_tx = clock, !.last_gi = clock]

\* The receive sequence number an S or I frame carries (its low 15 bits are sent).
AckField_faulty(s) == s.last_ack_sent
AckField(s) == s.recv_seq

\* The I-frame branch of iec104_handle_frame, up to and after its guards.
InSequence_faulty(s, ns) == TRUE
InSequence(s, ns) == ns = s.recv_seq
TakeI_faulty(s) == [s EXCEPT !.recv_seq = Inc16(@), !.unacked_received = @ + 1,
                             !.last_data_ack = clock]
TakeI(s) == [s EXCEPT !.recv_seq = Inc16(@), !.unacked_received = @ + 1]
WindowFull_faulty(s) == s.unacked_received > ack_window
WindowFull(s) == s.unacked_received >= ack_window

(***************************************************************************)
(* The conditions of the timers of one iteration.                           *)
(***************************************************************************)
elapsed_ms(from, to) == 1000 * (to - from)

InitialGiDue == session.startdt_confirmed /\ ~sent_initial_gi
PeriodicGiDue_faulty ==
    /\ session.startdt_confirmed
    /\ now - session.last_tx >= general_interrogation_interval_sec
PeriodicGiDue ==
    /\ session.startdt_confirmed
    /\ general_interrogation_interval_sec > 0
    /\ now - session.last_gi >= general_interrogation_interval_sec
AckDue ==
    /\ session.unacked_received > 0
    /\ elapsed_ms(session.last_data_ack, now) >= ack_timeout_ms
TestfrDue_faulty == now - session.last_tx >= test_frame_interval_sec
TestfrDue == now - session.last_testfr >= test_frame_interval_sec
PeerSilent == TestfrDue /\ session.testfr_pending
ConfirmLate ==
    /\ ~session.startdt_confirmed
    /\ now - session.last_tx >= connect_timeout_sec

(***************************************************************************)
(* Control.                                                                 *)
(***************************************************************************)
Goto(label) == pc' = label /\ UNCHANGED <<rc, cause>>
Return(r, why) == pc' = "returned" /\ rc' = r /\ cause' = why

LoopHead_faulty == "read"
LoopHead == IF running THEN "read" ELSE "stop"

Init ==
    /\ pc = "connect" /\ clock = START /\ mark = START /\ now = START
    /\ running = TRUE
    /\ session = [send_seq |-> 0, recv_seq |-> 0, last_ack_sent |-> 0,
                  unacked_received |-> 0,
                  startdt_confirmed |-> FALSE, testfr_pending |-> FALSE,
                  last_tx |-> 0, last_gi |-> 0, last_testfr |-> 0, last_data_ack |-> 0]
    /\ sent_initial_gi = FALSE
    /\ rc = 0 /\ cause = "none"
    /\ delivered = 0 /\ acked = 0 /\ unacked_since = START
    /\ heard = START /\ started = START /\ asked = 0

Connect ==
    /\ pc = "connect"
    /\ session' = [session EXCEPT !.last_tx = clock, !.last_testfr = clock,
                                  !.last_data_ack = clock]
    /\ mark' = clock /\ heard' = clock
    /\ Goto("startdt")
    /\ UNCHANGED <<clock, running, sent_initial_gi, now, delivered, acked, unacked_since, started,
                   asked>>

ConnectFails ==
    /\ pc = "connect"
    /\ Return(-1, "connect")
    /\ UNCHANGED <<clock, mark, running, session, sent_initial_gi, now, history>>

SendStartdt ==
    /\ pc = "startdt"
    /\ session' = iec104_send_u_frame(session)
    /\ mark' = clock /\ started' = clock
    /\ Goto(LoopHead)
    /\ UNCHANGED <<clock, running, sent_initial_gi, now, delivered, acked, unacked_since, heard,
                   asked>>

\* A send of session_loop itself fails; the session is left as it was.
SendFails ==
    /\ \/ pc = "startdt"
       \/ pc = "gi" /\ InitialGiDue
       \/ pc = "period" /\ PeriodicGiDue
       \/ pc = "ack" /\ AckDue
       \/ pc = "testfr" /\ TestfrDue /\ ~session.testfr_pending
    /\ Return(-1, "io")
    /\ UNCHANGED <<clock, mark, running, session, sent_initial_gi, now, history>>

\* The read and its handler are over: now and tv_now are taken.
AfterRead == now' = clock /\ mark' = clock /\ Goto("gi")

\* select ran out or was interrupted, or only part of a header came (rc 1); or the
\* frame is one the handler ignores: an S frame, an unknown U frame or control field.
ReadIdle ==
    /\ pc = "read"
    /\ AfterRead
    /\ UNCHANGED <<clock, running, session, sent_initial_gi, history>>

\* The peer closed, an error, a bad header, a body that did not come (rc -1).
ReadFails ==
    /\ pc = "read"
    /\ Return(-1, "io")
    /\ UNCHANGED <<clock, mark, running, session, sent_initial_gi, now, history>>

\* An I frame of the gateway; n is its index, of which the wire carries 15 bits.
RecvI(n) ==
    /\ pc = "read"
    /\ InSequence(session, n % SEQ_MOD)
    /\ delivered' = n + 1
    /\ unacked_since' = IF session.unacked_received = 0 THEN clock ELSE unacked_since
    /\ \/ /\ ~WindowFull(TakeI(session))
          /\ session' = TakeI(session)
          /\ AfterRead
          /\ UNCHANGED acked
       \/ /\ WindowFull(TakeI(session))
          /\ session' = iec104_send_s_frame(TakeI(session))
          /\ acked' = AckField(TakeI(session))
          /\ AfterRead
       \/ /\ WindowFull(TakeI(session))
          /\ session' = TakeI(session)
          /\ Return(-1, "io")
          /\ UNCHANGED <<acked, now, mark>>
    /\ UNCHANGED <<clock, running, sent_initial_gi, heard, started, asked>>

RejectI(n) ==
    /\ pc = "read"
    /\ ~InSequence(session, n % SEQ_MOD)
    /\ Return(-1, "seq")
    /\ UNCHANGED <<clock, mark, running, session, sent_initial_gi, now, history>>

RecvStartdtCon ==
    /\ pc = "read"
    /\ session' = [session EXCEPT !.startdt_confirmed = TRUE]
    /\ AfterRead
    /\ UNCHANGED <<clock, running, sent_initial_gi, history>>

RecvStopdtCon_faulty ==
    /\ pc = "read"
    /\ Return(0, "stopdt")
    /\ UNCHANGED <<clock, mark, running, session, sent_initial_gi, now, history>>
RecvStopdtCon ==
    /\ pc = "read"
    /\ Return(-1, "stopdt")
    /\ UNCHANGED <<clock, mark, running, session, sent_initial_gi, now, history>>

\* Answered with TESTFR_CON; the send may fail.
RecvTestfrAct ==
    /\ pc = "read"
    /\ \/ session' = iec104_send_u_frame(session) /\ AfterRead
       \/ Return(-1, "io") /\ UNCHANGED <<session, now, mark>>
    /\ UNCHANGED <<clock, running, sent_initial_gi, history>>

RecvTestfrCon ==
    /\ pc = "read"
    /\ session' = [session EXCEPT !.testfr_pending = FALSE]
    /\ heard' = clock
    /\ AfterRead
    /\ UNCHANGED <<clock, running, sent_initial_gi, delivered, acked, unacked_since, started,
                   asked>>

InitialGi ==
    /\ pc = "gi"
    /\ IF InitialGiDue
       THEN /\ session' = iec104_send_general_interrogation(session)
            /\ sent_initial_gi' = TRUE /\ acked' = AckField(session) /\ asked' = clock
       ELSE UNCHANGED <<session, sent_initial_gi, acked, asked>>
    /\ Goto("period")
    /\ UNCHANGED <<clock, mark, running, now, delivered, unacked_since, heard, started>>

PeriodicGi ==
    /\ pc = "period"
    /\ IF PeriodicGiDue
       THEN /\ session' = iec104_send_general_interrogation(session)
            /\ acked' = AckField(session) /\ asked' = clock
       ELSE UNCHANGED <<session, acked, asked>>
    /\ Goto("ack")
    /\ UNCHANGED <<clock, mark, running, sent_initial_gi, now, delivered, unacked_since,
                   heard, started>>

\* last_data_ack restarts when the S frame goes out and whenever nothing is owed.
AckTimer ==
    /\ pc = "ack"
    /\ IF AckDue
       THEN /\ session' = [iec104_send_s_frame(session) EXCEPT !.last_data_ack = clock]
            /\ acked' = AckField(session)
       ELSE /\ session' = IF session.unacked_received = 0
                          THEN [session EXCEPT !.last_data_ack = clock] ELSE session
            /\ UNCHANGED acked
    /\ Goto("testfr")
    /\ UNCHANGED <<clock, mark, running, sent_initial_gi, now, delivered, unacked_since,
                   heard, started, asked>>

TestfrTimer ==
    /\ pc = "testfr"
    /\ IF PeerSilent
       THEN Return(-1, "testfr") /\ UNCHANGED session
       ELSE /\ session' = IF TestfrDue
                          THEN [iec104_send_u_frame(session) EXCEPT
                                   !.testfr_pending = TRUE, !.last_testfr = now]
                          ELSE session
            /\ Goto("confirm")
    /\ UNCHANGED <<clock, mark, running, sent_initial_gi, now, history>>

ConfirmTimer ==
    /\ pc = "confirm"
    /\ IF ConfirmLate
       THEN Return(-1, "startdt") /\ UNCHANGED mark
       ELSE Goto(LoopHead) /\ mark' = clock
    /\ UNCHANGED <<clock, running, session, sent_initial_gi, now, history>>

\* STOPDT_ACT is sent and its result ignored.
Stopdt ==
    /\ pc = "stop"
    /\ \/ session' = iec104_send_u_frame(session)
       \/ UNCHANGED session
    /\ Return(0, "stop")
    /\ UNCHANGED <<clock, mark, running, sent_initial_gi, now, history>>

\* The environment: the stop signal, and time.
Signal ==
    /\ running /\ running' = FALSE
    /\ UNCHANGED <<pc, clock, mark, session, sent_initial_gi, now, rc, cause, history>>

Tick ==
    /\ pc \notin {"connect", "returned"}
    /\ clock < MAX_CLOCK
    /\ clock - mark < (IF pc = "read" THEN READ_MAX ELSE STALL_MAX)
    /\ clock' = clock + 1
    /\ UNCHANGED <<pc, mark, running, session, sent_initial_gi, now, rc, cause, history>>

Terminated == pc = "returned" /\ UNCHANGED vars

Receive ==
    \/ \E n \in (delivered - GW_SLIP)..(delivered + GW_SLIP) :
          n >= 0 /\ (RecvI(n) \/ RejectI(n))
    \/ RecvStartdtCon \/ RecvStopdtCon \/ RecvTestfrAct \/ RecvTestfrCon

Timers == InitialGi \/ PeriodicGi \/ AckTimer \/ TestfrTimer \/ ConfirmTimer

Step ==
    \/ Connect \/ ConnectFails \/ SendStartdt \/ SendFails
    \/ ReadIdle \/ ReadFails \/ Receive \/ Timers \/ Stopdt

Next == Step \/ Signal \/ Tick \/ Terminated

Spec == Init /\ [][Next]_vars

(***************************************************************************)
(* The thread is scheduled and each of its calls ends: select by its        *)
(* timeout, recv and send by SO_RCVTIMEO and SO_SNDTIMEO.                    *)
(***************************************************************************)
FairSpec == Spec /\ WF_vars(Step)

(***************************************************************************)
(* Properties.                                                              *)
(***************************************************************************)
live == pc \notin {"connect", "startdt", "returned"}

\* Types and ranges.  The 16-bit receive counter never passes SEQ_MOD, and between
\* two frames fewer than ack_window frames are unacknowledged.
TypeOK ==
    /\ pc \in {"connect", "startdt", "read", "gi", "period", "ack", "testfr",
              "confirm", "stop", "returned"}
    /\ clock \in Nat /\ mark \in Nat /\ now \in Nat
    /\ running \in BOOLEAN /\ sent_initial_gi \in BOOLEAN
    /\ session \in Session
    /\ session.recv_seq <= SEQ_MOD
    /\ live => session.unacked_received < ack_window
    /\ rc \in {-1, 0}
    /\ cause \in {"none", "connect", "io", "seq", "stopdt", "testfr", "startdt", "stop"}
    /\ delivered \in Nat /\ acked \in Nat
    /\ unacked_since \in Nat /\ heard \in Nat /\ started \in Nat /\ asked \in Nat

\* Every I frame reaches the ASDU parser once and in order, also from a gateway that
\* repeats or skips frames: a frame counted twice is energy counted twice
\* (the sequence check of iec104_handle_frame).
DeliveredInOrder ==
    [][delivered' # delivered => delivered' = delivered + 1]_vars

\* While the session lives, the gateway has been sent an N(R) that leaves fewer than
\* ack_window frames unacknowledged, and never one for a frame not received: a gateway
\* with k >= ack_window never has to stop sending (window, timer and GI acknowledge).
AckWindow ==
    live => delivered - acked \in 0..(ack_window - 1)

\* A general interrogation is only sent in a started session, and after the first one
\* only every general_interrogation_interval_sec; with 0 there is exactly one
\* per session (the initial GI must hold back the periodic one of its iteration).
GiSpacing ==
    [][session'.send_seq # session.send_seq =>
          /\ session.startdt_confirmed
          /\ \/ asked = 0
             \/ /\ general_interrogation_interval_sec > 0
                /\ clock - asked >= general_interrogation_interval_sec]_vars

\* However the gateway keeps the loop busy, a periodic interrogation is late by at most
\* one read and two stalls: no frame or acknowledgement starves the timer.
GiOnTime ==
    live /\ sent_initial_gi /\ general_interrogation_interval_sec > 0 =>
        clock - asked <=
            general_interrogation_interval_sec - 1 + READ_MAX + 2 * STALL_MAX

\* An I frame waits for its acknowledgement at most ack_timeout_ms plus one read and
\* two stalls, whichever of window, timer and restart of the timer comes between.
AckOnTime ==
    live /\ session.unacked_received > 0 =>
        elapsed_ms(unacked_since, clock) <
            ack_timeout_ms + 1000 * (READ_MAX + 2 * STALL_MAX)

\* A session whose gateway has stopped answering TESTFR ends within two test intervals
\* and the delays of two iterations, whatever else the gateway sends.
DeadPeerDropped ==
    live => clock - heard <=
        2 * (test_frame_interval_sec - 1 + READ_MAX + STALL_MAX) + STALL_MAX

\* The loop is what iec104_gateway_run takes it for: it returns 0 only for a stop, and a
\* stopped one returns (the abstract call of module SessionCall).
phase ==
    IF pc = "returned" THEN "returned"
    ELSE IF session.startdt_confirmed THEN "started" ELSE "opening"
Call == INSTANCE SessionCall
ImplementsCall == Call!FairSpec

\* A stop request ends the session (the loop reads *running in every iteration).
StopsAfterSignal == ~running ~> pc = "returned"

\* README.md says the program is fit to run for long ("适合长时间连续运行"): a gateway that
\* numbers its frames correctly is never dropped for its sequence numbers, however many
\* frames one connection carries.
ConformingGatewayKept == cause # "seq"

\* What the log message "STARTDT confirm timeout" promises: a session that was not
\* confirmed ends connect_timeout_sec, and the delays of its steps, after STARTDT_ACT.
StartdtConfirmedInTime ==
    live /\ ~session.startdt_confirmed =>
        clock - started < connect_timeout_sec + READ_MAX + 2 * STALL_MAX
============================================================================
