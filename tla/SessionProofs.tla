---------------------------- MODULE SessionProofs ----------------------------
(***************************************************************************)
(* Proofs about Session for every value of its constants: the type          *)
(* invariant, exactly-once delivery, the acknowledgement window, and the     *)
(* bounds on how late each timer of session_loop may be.                    *)
(***************************************************************************)
EXTENDS Session, TLAPS

\* The session's part of what the window and the sequence check rely on.
SeqInv ==
    pc # "returned" =>
        /\ delivered = session.recv_seq
        /\ session.last_ack_sent + session.unacked_received = session.recv_seq
        /\ session.last_ack_sent <= acked /\ acked <= session.recv_seq
        /\ session.unacked_received < ack_window

\* How far the clock can be from the start of the current phase.
TimeInv ==
    /\ mark <= clock
    /\ pc = "read" => clock <= mark + READ_MAX
    /\ pc \notin {"connect", "read", "returned"} => clock <= mark + STALL_MAX
    /\ pc \in {"gi", "period", "ack", "testfr", "confirm"} => now = mark

\* How old the last TESTFR_ACT and the last answer can be at each block.
TestfrInv ==
    /\ pc # "returned" => session.last_testfr <= mark
    /\ pc = "startdt" => /\ ~session.testfr_pending
                         /\ session.last_testfr = mark /\ heard = mark
    /\ pc \in {"read", "stop"} =>
          mark - session.last_testfr <= test_frame_interval_sec - 1 + STALL_MAX
    /\ pc \in {"gi", "period", "ack", "testfr"} =>
          mark - session.last_testfr <=
              test_frame_interval_sec - 1 + STALL_MAX + READ_MAX
    /\ pc = "confirm" => mark - session.last_testfr <= test_frame_interval_sec - 1
    /\ live => IF session.testfr_pending
               THEN session.last_testfr - heard <=
                        test_frame_interval_sec - 1 + STALL_MAX + READ_MAX
               ELSE session.last_testfr <= heard
    /\ pc = "connect" => ~session.testfr_pending

\* How old the last interrogation can be at each block.
GiInv ==
    /\ pc # "returned" => asked = session.last_gi
    /\ pc # "returned" /\ ~sent_initial_gi => session.last_gi = 0
    /\ live /\ sent_initial_gi => session.startdt_confirmed
    /\ pc \in {"connect", "startdt"} => ~sent_initial_gi
    /\ pc \notin {"gi", "returned"} /\ session.startdt_confirmed => sent_initial_gi
    /\ sent_initial_gi /\ general_interrogation_interval_sec > 0 =>
          /\ pc \in {"read", "stop"} =>
                mark - session.last_gi <= general_interrogation_interval_sec - 1 + STALL_MAX
          /\ pc \in {"gi", "period"} =>
                mark - session.last_gi <=
                    general_interrogation_interval_sec - 1 + STALL_MAX + READ_MAX
          /\ pc \in {"ack", "testfr", "confirm"} =>
                mark - session.last_gi <= general_interrogation_interval_sec - 1

\* How old the oldest unacknowledged frame can be at each block.
AckInv ==
    /\ pc # "returned" => session.last_data_ack <= clock
    /\ pc \in {"connect", "startdt"} => session.unacked_received = 0
    /\ live /\ session.unacked_received > 0 =>
          /\ session.last_data_ack <= unacked_since
          /\ pc \in {"read", "stop"} =>
                1000 * (mark - unacked_since) < ack_timeout_ms + 1000 * STALL_MAX
          /\ pc \in {"gi", "period", "ack"} =>
                1000 * (mark - unacked_since) <
                    ack_timeout_ms + 1000 * (STALL_MAX + READ_MAX)
          /\ pc \in {"testfr", "confirm"} => 1000 * (mark - unacked_since) < ack_timeout_ms

-----------------------------------------------------------------------------
\* Arithmetic of the sequence counters.
LEMMA ModSmall ==
    ASSUME NEW n \in Nat, NEW m \in Nat \ {0}, n < m
    PROVE  n % m = n
  OBVIOUS

LEMMA ModRange ==
    ASSUME NEW n \in Nat, NEW m \in Nat \ {0}
    PROVE  n % m \in 0..(m - 1)
  OBVIOUS

LEMMA ModOnce ==
    ASSUME NEW n \in Nat, NEW m \in Nat \ {0}, m <= n, n < 2 * m
    PROVE  n % m = n - m
  OBVIOUS

\* A counter below the wrap goes up by one; any counter stays a counter.
LEMMA IncStep ==
    ASSUME NEW x \in Counter
    PROVE  /\ Inc16(x) \in Counter
           /\ x <= SEQ_MOD => Inc16(x) = x + 1
  <1> DEFINE w == 2 * SEQ_MOD
  <1>1. w \in Nat \ {0} /\ x + 1 \in Nat /\ (x <= SEQ_MOD => x + 1 < w)
    BY ConfigAssumption DEF Counter
  <1>2. (x + 1) % w \in 0..(w - 1)
    BY <1>1, ModRange
  <1>3. ASSUME x <= SEQ_MOD PROVE (x + 1) % w = x + 1
    BY <1>1, <1>3, ModSmall
  <1> QED
    BY <1>2, <1>3 DEF Counter, Inc16

\* A frame near the expected one passes the check of iec104_handle_frame only if it
\* is the expected one, and none passes once the counter has reached SEQ_MOD.
LEMMA SequenceCheck ==
    ASSUME NEW r \in 0..SEQ_MOD, NEW n \in Nat,
           n <= r + GW_SLIP, r - GW_SLIP <= n, n % SEQ_MOD = r
    PROVE  n = r /\ r < SEQ_MOD
  <1>1. SEQ_MOD \in Nat \ {0} /\ GW_SLIP \in Nat /\ GW_SLIP < SEQ_MOD
    BY ConfigAssumption, EnvironmentAssumption
  <1>2. r < SEQ_MOD
    BY <1>1, ModRange
  <1>3. n < 2 * SEQ_MOD
    BY <1>1, <1>2
  <1>4. CASE n < SEQ_MOD
    BY <1>1, <1>2, <1>4, ModSmall
  <1>5. CASE SEQ_MOD <= n
    BY <1>1, <1>2, <1>3, <1>5, ModOnce
  <1> QED
    BY <1>1, <1>4, <1>5

-----------------------------------------------------------------------------
\* What the operations of the frame layer make of a session.
LEMMA FrameLayer ==
    ASSUME NEW s \in Session, clock \in Nat
    PROVE  /\ iec104_send_u_frame(s) \in Session
           /\ iec104_send_s_frame(s) \in Session
           /\ iec104_send_general_interrogation(s) \in Session
           /\ TakeI(s) \in Session
           /\ TakeI(s).unacked_received = s.unacked_received + 1
           /\ TakeI(s).last_ack_sent = s.last_ack_sent
           /\ s.recv_seq < SEQ_MOD => TakeI(s).recv_seq = s.recv_seq + 1
  <1>1. Inc16(s.send_seq) \in Counter /\ Inc16(s.recv_seq) \in Counter
    BY IncStep DEF Session
  <1>2. s.recv_seq < SEQ_MOD => Inc16(s.recv_seq) = s.recv_seq + 1
    BY IncStep, ConfigAssumption DEF Session, Counter
  <1> QED
    <2>1. iec104_send_u_frame(s) \in Session
      BY DEF Session, iec104_send_u_frame
    <2>2. iec104_send_s_frame(s) \in Session
      BY DEF Session, iec104_send_s_frame, Counter
    <2>3. iec104_send_general_interrogation(s) \in Session
      BY <1>1 DEF Session, iec104_send_general_interrogation
    <2>4. TakeI(s) \in Session
      <3>1. [s EXCEPT !.recv_seq = Inc16(s.recv_seq)] \in Session
        BY <1>1 DEF Session
      <3>2. s.unacked_received + 1 \in Nat
        BY DEF Session
      <3>3. ASSUME NEW u \in Session, NEW k \in Nat
            PROVE  [u EXCEPT !.unacked_received = k] \in Session
        BY DEF Session
      <3> QED
        BY <3>1, <3>2, <3>3, Zenon DEF TakeI
    <2>5. /\ TakeI(s).unacked_received = s.unacked_received + 1
          /\ TakeI(s).last_ack_sent = s.last_ack_sent
          /\ TakeI(s).recv_seq = Inc16(s.recv_seq)
      BY <1>1 DEF Session, TakeI
    <2> QED
      BY <1>2, <2>1, <2>2, <2>3, <2>4, <2>5

BaseInv == TypeOK /\ SeqInv

LEMMA BaseInit == Init => BaseInv
  <1> SUFFICES ASSUME Init PROVE BaseInv
    OBVIOUS
  <1>1. 0 \in Counter /\ START \in Nat
    BY ConfigAssumption, EnvironmentAssumption DEF Counter
  <1>2. session \in Session
    BY <1>1 DEF Init, Session
  <1>3. session.recv_seq = 0 /\ session.last_ack_sent = 0 /\ session.unacked_received = 0
    BY DEF Init
  <1>4. 0 < ack_window /\ 0 <= SEQ_MOD
    BY ConfigAssumption
  <1>5. TypeOK
    BY <1>1, <1>2, <1>3, <1>4 DEF Init, TypeOK, live
  <1>6. SeqInv
    BY <1>1, <1>2, <1>3, <1>4 DEF Init, SeqInv
  <1> QED
    BY <1>5, <1>6 DEF BaseInv

\* The receive path: the only step that moves delivered and the receive counter.
LEMMA BaseRecvI ==
    ASSUME BaseInv, NEW n \in Nat,
           n <= delivered + GW_SLIP, delivered - GW_SLIP <= n, RecvI(n)
    PROVE  BaseInv' /\ delivered' = delivered + 1
  <1> USE ConfigAssumption
  <1>1. /\ session \in Session /\ clock \in Nat /\ pc = "read"
        /\ delivered = session.recv_seq /\ session.recv_seq \in 0..SEQ_MOD
        /\ session.unacked_received \in Nat /\ session.last_ack_sent \in Nat
        /\ ack_window \in Nat
    BY DEF BaseInv, TypeOK, SeqInv, RecvI, Session, Counter
  <1>2. n = delivered /\ session.recv_seq < SEQ_MOD
    BY <1>1, SequenceCheck DEF RecvI, InSequence
  <1> DEFINE t == TakeI(session)
  <1>3. /\ t \in Session /\ t.unacked_received = session.unacked_received + 1
        /\ t.last_ack_sent = session.last_ack_sent
        /\ t.recv_seq = session.recv_seq + 1
    BY <1>1, <1>2, FrameLayer
  <1>4. /\ delivered' = delivered + 1
        /\ clock' = clock /\ running' = running /\ heard' = heard /\ started' = started
        /\ sent_initial_gi' = sent_initial_gi /\ asked' = asked
        /\ unacked_since' \in Nat
    BY <1>1, <1>2 DEF RecvI, BaseInv, TypeOK
  <1>5. CASE /\ ~WindowFull(t) /\ session' = t /\ AfterRead /\ UNCHANGED acked
    BY <1>1, <1>2, <1>3, <1>4, <1>5
       DEF BaseInv, TypeOK, SeqInv, WindowFull, AfterRead, Goto, live
  <1>6. CASE /\ session' = iec104_send_s_frame(t) /\ acked' = AckField(t) /\ AfterRead
    <2>1. /\ session' \in Session /\ session'.recv_seq = t.recv_seq
          /\ session'.last_ack_sent = t.recv_seq /\ session'.unacked_received = 0
      BY <1>1, <1>3, <1>6, FrameLayer DEF iec104_send_s_frame, Session
    <2> QED
      BY <1>1, <1>2, <1>3, <1>4, <1>6, <2>1
         DEF BaseInv, TypeOK, SeqInv, AckField, AfterRead, Goto, live
  <1>7. CASE /\ session' = t /\ Return(-1, "io") /\ UNCHANGED <<acked, now, mark>>
    BY <1>1, <1>2, <1>3, <1>4, <1>7 DEF BaseInv, TypeOK, SeqInv, Return, live
  <1> QED
    BY <1>4, <1>5, <1>6, <1>7 DEF RecvI

\* One step of the loop, its environment or a stutter preserves types and counters.
LEMMA BaseNext == BaseInv /\ [Next]_vars => BaseInv'
  <1> SUFFICES ASSUME BaseInv, [Next]_vars PROVE BaseInv'
    OBVIOUS
  <1> USE ConfigAssumption
  <1> USE DEF BaseInv
  <1>0. session \in Session /\ clock \in Nat
    BY DEF TypeOK
  <1>1. CASE Connect
    <2>1. session' \in Session
      BY <1>0, <1>1 DEF Connect, Session
    <2> QED
      BY <1>0, <1>1, <2>1 DEF Connect, TypeOK, SeqInv, Session, Goto, live
  <1>2. CASE ConnectFails
    BY <1>2 DEF ConnectFails, TypeOK, SeqInv, Return, history, live
  <1>3. CASE SendStartdt
    <2>1. session' \in Session
      BY <1>0, <1>3, FrameLayer DEF SendStartdt
    <2> QED
      BY <1>0, <1>3, <2>1 DEF SendStartdt, iec104_send_u_frame, LoopHead,
         TypeOK, SeqInv, Session, Goto, live
  <1>4. CASE SendFails
    BY <1>4 DEF SendFails, TypeOK, SeqInv, Return, history, live
  <1>5. CASE ReadIdle
    BY <1>5 DEF ReadIdle, AfterRead, Goto, TypeOK, SeqInv, history, live
  <1>6. CASE ReadFails
    BY <1>6 DEF ReadFails, TypeOK, SeqInv, Return, history, live
  <1>7. ASSUME NEW n \in (delivered - GW_SLIP)..(delivered + GW_SLIP), n >= 0, RecvI(n)
        PROVE  BaseInv'
    BY <1>7, BaseRecvI, EnvironmentAssumption DEF TypeOK
  <1>8. ASSUME NEW n, RejectI(n) PROVE BaseInv'
    BY <1>8 DEF RejectI, TypeOK, SeqInv, Return, history, live
  <1>9. CASE RecvStartdtCon
    <2>1. session' \in Session
      BY <1>0, <1>9 DEF RecvStartdtCon, Session
    <2> QED
      BY <1>0, <1>9, <2>1 DEF RecvStartdtCon, AfterRead, Goto, TypeOK, SeqInv,
         Session, history, live
  <1>10. CASE RecvStopdtCon
    BY <1>10 DEF RecvStopdtCon, TypeOK, SeqInv, Return, history, live
  <1>11. CASE RecvTestfrAct
    <2>1. session' \in Session
      BY <1>0, <1>11, FrameLayer DEF RecvTestfrAct
    <2>2. /\ session'.recv_seq = session.recv_seq
          /\ session'.unacked_received = session.unacked_received
          /\ session'.last_ack_sent = session.last_ack_sent
      BY <1>0, <1>11 DEF RecvTestfrAct, iec104_send_u_frame, Session
    <2> QED
      BY <1>11, <2>1, <2>2 DEF RecvTestfrAct, AfterRead, Goto, Return, TypeOK, SeqInv,
         history, live
  <1>12. CASE RecvTestfrCon
    <2>1. session' \in Session
      BY <1>0, <1>12 DEF RecvTestfrCon, Session
    <2> QED
      BY <1>0, <1>12, <2>1 DEF RecvTestfrCon, AfterRead, Goto, TypeOK, SeqInv,
         Session, history, live
  <1>13. CASE InitialGi
    <2>1. session' \in Session
      BY <1>0, <1>13, FrameLayer DEF InitialGi
    <2>2. /\ session'.recv_seq = session.recv_seq
          /\ session'.unacked_received = session.unacked_received
          /\ session'.last_ack_sent = session.last_ack_sent
      BY <1>0, <1>13 DEF InitialGi, iec104_send_general_interrogation, Session
    <2>3. /\ acked' \in {acked, session.recv_seq} /\ session.recv_seq \in Nat
          /\ session.last_ack_sent \in Nat /\ session.unacked_received \in Nat
      BY <1>0, <1>13 DEF InitialGi, AckField, Session, Counter
    <2>4. sent_initial_gi' \in BOOLEAN
      BY <1>13 DEF InitialGi, TypeOK
    <2> QED
      BY <1>13, <2>1, <2>2, <2>3, <2>4 DEF InitialGi, Goto, TypeOK, SeqInv, live
  <1>14. CASE PeriodicGi
    <2>1. session' \in Session
      BY <1>0, <1>14, FrameLayer DEF PeriodicGi
    <2>2. /\ session'.recv_seq = session.recv_seq
          /\ session'.unacked_received = session.unacked_received
          /\ session'.last_ack_sent = session.last_ack_sent
      BY <1>0, <1>14 DEF PeriodicGi, iec104_send_general_interrogation, Session
    <2>3. /\ acked' \in {acked, session.recv_seq} /\ session.recv_seq \in Nat
          /\ session.last_ack_sent \in Nat /\ session.unacked_received \in Nat
      BY <1>0, <1>14 DEF PeriodicGi, AckField, Session, Counter
    <2> QED
      BY <1>14, <2>1, <2>2, <2>3 DEF PeriodicGi, Goto, TypeOK, SeqInv, live
  <1>15. CASE AckTimer
    <2>1. CASE AckDue
      <3>1. iec104_send_s_frame(session) \in Session
        BY <1>0, FrameLayer
      <3>2. session' = [iec104_send_s_frame(session) EXCEPT !.last_data_ack = clock]
        BY <1>15, <2>1 DEF AckTimer
      <3>3. session' \in Session
        BY <1>0, <3>1, <3>2 DEF Session
      <3>4. /\ session'.recv_seq = session.recv_seq
            /\ session'.unacked_received = 0
            /\ session'.last_ack_sent = session.recv_seq
        BY <1>0, <3>2 DEF iec104_send_s_frame, Session
      <3> QED
        BY <1>0, <1>15, <2>1, <3>3, <3>4 DEF AckTimer, AckField, Goto, TypeOK, SeqInv,
           Session, Counter, live
    <2>2. CASE ~AckDue
      <3>1. session' \in Session
        BY <1>0, <1>15, <2>2 DEF AckTimer, Session
      <3>2. /\ session'.recv_seq = session.recv_seq
            /\ session'.unacked_received = session.unacked_received
            /\ session'.last_ack_sent = session.last_ack_sent
        BY <1>0, <1>15, <2>2 DEF AckTimer, Session
      <3> QED
        BY <1>15, <2>2, <3>1, <3>2 DEF AckTimer, Goto, TypeOK, SeqInv, live
    <2> QED
      BY <2>1, <2>2
  <1>16. CASE TestfrTimer
    <2>1. iec104_send_u_frame(session) \in Session /\ now \in Nat
      BY <1>0, FrameLayer DEF TypeOK
    <2>2. session' \in Session
      <3>1. ASSUME NEW u \in Session
            PROVE  [u EXCEPT !.testfr_pending = TRUE, !.last_testfr = now] \in Session
        BY <2>1 DEF Session
      <3> QED
        BY <1>0, <1>16, <2>1, <3>1 DEF TestfrTimer
    <2>3. /\ session'.recv_seq = session.recv_seq
          /\ session'.unacked_received = session.unacked_received
          /\ session'.last_ack_sent = session.last_ack_sent
      BY <1>0, <1>16 DEF TestfrTimer, iec104_send_u_frame, Session
    <2> QED
      BY <1>16, <2>2, <2>3 DEF TestfrTimer, Goto, Return, TypeOK, SeqInv, history, live
  <1>17. CASE ConfirmTimer
    BY <1>17 DEF ConfirmTimer, LoopHead, Goto, Return, TypeOK, SeqInv, history, live
  <1>18. CASE Stopdt
    <2>1. session' \in Session /\ session'.recv_seq = session.recv_seq
      BY <1>0, <1>18, FrameLayer DEF Stopdt, iec104_send_u_frame, Session
    <2> QED
      BY <1>18, <2>1 DEF Stopdt, Return, TypeOK, SeqInv, history, live
  <1>19. CASE Signal
    BY <1>19 DEF Signal, TypeOK, SeqInv, history, live
  <1>20. CASE Tick
    BY <1>20 DEF Tick, TypeOK, SeqInv, history, live
  <1>21. CASE UNCHANGED vars
    BY <1>21 DEF vars, TypeOK, SeqInv, history, live
  <1> QED
    BY <1>1, <1>2, <1>3, <1>4, <1>5, <1>6, <1>7, <1>8, <1>9, <1>10, <1>11, <1>12,
       <1>13, <1>14, <1>15, <1>16, <1>17, <1>18, <1>19, <1>20, <1>21
       DEF Next, Step, Receive, Timers, Terminated

\* Types, the receive counter that stops at SEQ_MOD, and the bound on unacknowledged
\* frames hold in every reachable state of a session.
THEOREM TypeCorrect == Spec => []TypeOK
  <1>1. Spec => []BaseInv
    BY BaseInit, BaseNext, PTL DEF Spec
  <1> QED
    BY <1>1, PTL DEF BaseInv

\* The window, the ack timer and the interrogations together keep the gateway's count of
\* unacknowledged frames below ack_window.
THEOREM AckWindowHolds == Spec => []AckWindow
  <1>1. Spec => []BaseInv
    BY BaseInit, BaseNext, PTL DEF Spec
  <1>2. BaseInv => AckWindow
    BY ConfigAssumption DEF BaseInv, TypeOK, SeqInv, AckWindow, live, Session, Counter
  <1> QED
    BY <1>1, <1>2, PTL

\* The sequence check of iec104_handle_frame: frames are parsed once and in order.
THEOREM DeliveryInOrder == Spec => DeliveredInOrder
  <1>1. Spec => []BaseInv
    BY BaseInit, BaseNext, PTL DEF Spec
  <1>2. BaseInv /\ [Next]_vars =>
            [delivered' # delivered => delivered' = delivered + 1]_vars
    <2> SUFFICES ASSUME BaseInv, Next, delivered' # delivered
                 PROVE  delivered' = delivered + 1
      BY DEF vars, history
    <2>1. ASSUME NEW n \in (delivered - GW_SLIP)..(delivered + GW_SLIP), n >= 0, RecvI(n)
          PROVE  delivered' = delivered + 1
      BY <2>1, BaseRecvI, ConfigAssumption, EnvironmentAssumption DEF BaseInv, TypeOK
    <2> QED
      BY <2>1 DEF Next, Step, Receive, Timers, Terminated, Connect, ConnectFails,
         SendStartdt, SendFails, ReadIdle, ReadFails, RejectI, RecvStartdtCon,
         RecvStopdtCon, RecvTestfrAct, RecvTestfrCon, InitialGi, PeriodicGi, AckTimer,
         TestfrTimer, ConfirmTimer, Stopdt, Signal, Tick, history, vars
  <1> QED
    BY <1>1, <1>2, PTL DEF Spec, DeliveredInOrder

-----------------------------------------------------------------------------
\* No phase outlasts its bound, and the timers of an iteration all use the moment its
\* read ended.
LEMMA TimeInit == Init => TimeInv
  BY EnvironmentAssumption DEF Init, TimeInv

LEMMA TimeNext == BaseInv /\ TimeInv /\ [Next]_vars => TimeInv'
  <1> SUFFICES ASSUME BaseInv, TimeInv, [Next]_vars PROVE TimeInv'
    OBVIOUS
  <1> USE EnvironmentAssumption
  <1>0. clock \in Nat /\ mark \in Nat /\ now \in Nat
    BY DEF BaseInv, TypeOK
  <1>1. ASSUME pc' = "returned", UNCHANGED <<clock, mark>> PROVE TimeInv'
    BY <1>0, <1>1 DEF TimeInv
  <1>2. ASSUME AfterRead, UNCHANGED clock PROVE TimeInv'
    BY <1>0, <1>2 DEF TimeInv, AfterRead, Goto
  <1>3. CASE Connect \/ SendStartdt
    BY <1>0, <1>3 DEF Connect, SendStartdt, LoopHead, Goto, TimeInv
  <1>4. CASE ConnectFails \/ SendFails \/ ReadFails \/ RecvStopdtCon \/ Stopdt
    BY <1>1, <1>4 DEF ConnectFails, SendFails, ReadFails, RecvStopdtCon, Stopdt, Return
  <1>5. CASE ReadIdle \/ RecvStartdtCon \/ RecvTestfrAct \/ RecvTestfrCon
    BY <1>1, <1>2, <1>5 DEF ReadIdle, RecvStartdtCon, RecvTestfrAct, RecvTestfrCon, Return
  <1>6. ASSUME NEW n, RecvI(n) \/ RejectI(n) PROVE TimeInv'
    BY <1>1, <1>2, <1>6 DEF RecvI, RejectI, Return
  <1>7. CASE InitialGi \/ PeriodicGi \/ AckTimer
    BY <1>0, <1>7 DEF InitialGi, PeriodicGi, AckTimer, Goto, TimeInv
  <1>8. CASE TestfrTimer
    BY <1>0, <1>8 DEF TestfrTimer, Goto, Return, TimeInv
  <1>9. CASE ConfirmTimer
    BY <1>0, <1>9 DEF ConfirmTimer, LoopHead, Goto, Return, TimeInv
  <1>10. CASE Signal
    BY <1>10 DEF Signal, TimeInv
  <1>11. CASE Tick
    BY <1>0, <1>11 DEF Tick, TimeInv
  <1>12. CASE UNCHANGED vars
    BY <1>12 DEF vars, TimeInv
  <1> QED
    BY <1>3, <1>4, <1>5, <1>6, <1>7, <1>8, <1>9, <1>10, <1>11, <1>12
       DEF Next, Step, Receive, Timers, Terminated

-----------------------------------------------------------------------------
\* The age of the last TESTFR_ACT and of the last answer.
LEMMA TestfrInit == Init => TestfrInv
  BY EnvironmentAssumption DEF Init, TestfrInv, live

LEMMA TestfrNext == BaseInv /\ TimeInv /\ TestfrInv /\ [Next]_vars => TestfrInv'
  <1> SUFFICES ASSUME BaseInv, TimeInv, TestfrInv, [Next]_vars PROVE TestfrInv'
    OBVIOUS
  <1> USE EnvironmentAssumption, ConfigAssumption
  <1>0. /\ clock \in Nat /\ mark \in Nat /\ now \in Nat /\ heard \in Nat
        /\ session \in Session /\ session.last_testfr \in Nat
        /\ session.testfr_pending \in BOOLEAN
    BY DEF BaseInv, TypeOK, Session
  <1>1. ASSUME pc' = "returned" PROVE TestfrInv'
    BY <1>1 DEF TestfrInv, live
  \* A read took at most READ_MAX and left the stamps alone.
  <1>2. ASSUME pc = "read", AfterRead,
               session'.last_testfr = session.last_testfr,
               \/ session'.testfr_pending = session.testfr_pending /\ heard' = heard
               \/ ~session'.testfr_pending /\ heard' = clock
        PROVE  TestfrInv'
    BY <1>0, <1>2 DEF TestfrInv, TimeInv, AfterRead, Goto, live
  \* A step that leaves the stamps and the phase alone.
  <1>3. ASSUME UNCHANGED <<mark, heard>>,
               session'.last_testfr = session.last_testfr,
               session'.testfr_pending = session.testfr_pending,
               \/ pc' = pc
               \/ pc \in {"gi", "period", "ack"} /\ pc' \in {"period", "ack", "testfr"}
        PROVE  TestfrInv'
    BY <1>0, <1>3 DEF TestfrInv, live
  <1>4. CASE Connect
    BY <1>0, <1>4 DEF Connect, Session, Goto, TestfrInv, live
  <1>5. CASE SendStartdt
    <2>1. /\ session'.last_testfr = session.last_testfr
          /\ session'.testfr_pending = session.testfr_pending
      BY <1>0, <1>5 DEF SendStartdt, iec104_send_u_frame, Session
    <2> QED
      BY <1>0, <1>5, <2>1 DEF SendStartdt, LoopHead, Goto, TestfrInv, TimeInv, live
  <1>6. CASE ConnectFails \/ SendFails \/ ReadFails \/ RecvStopdtCon \/ Stopdt
    BY <1>1, <1>6 DEF ConnectFails, SendFails, ReadFails, RecvStopdtCon, Stopdt, Return
  <1>7. CASE ReadIdle \/ RecvStartdtCon \/ RecvTestfrAct
    <2>1. UNCHANGED <<heard, clock>>
      BY <1>7 DEF ReadIdle, RecvStartdtCon, RecvTestfrAct, history
    <2>2. /\ session'.last_testfr = session.last_testfr
          /\ session'.testfr_pending = session.testfr_pending
      BY <1>0, <1>7 DEF ReadIdle, RecvStartdtCon, RecvTestfrAct, iec104_send_u_frame, Session
    <2>3. pc = "read" /\ (AfterRead \/ pc' = "returned")
      BY <1>7 DEF ReadIdle, RecvStartdtCon, RecvTestfrAct, Return
    <2> QED
      BY <1>1, <1>2, <2>1, <2>2, <2>3
  <1>8. CASE RecvTestfrCon
    <2>1. session'.last_testfr = session.last_testfr /\ ~session'.testfr_pending
      BY <1>0, <1>8 DEF RecvTestfrCon, Session
    <2> QED
      BY <1>2, <1>8, <2>1 DEF RecvTestfrCon
  <1>9. ASSUME NEW n, RecvI(n) PROVE TestfrInv'
    <2>1. /\ session'.last_testfr = session.last_testfr
          /\ session'.testfr_pending = session.testfr_pending
      BY <1>0, <1>9 DEF RecvI, TakeI, iec104_send_s_frame, Session
    <2> QED
      BY <1>1, <1>2, <1>9, <2>1 DEF RecvI, Return
  <1>10. ASSUME NEW n, RejectI(n) PROVE TestfrInv'
    BY <1>1, <1>10 DEF RejectI, Return
  <1>11. CASE InitialGi \/ PeriodicGi \/ AckTimer
    <2>1. /\ session'.last_testfr = session.last_testfr
          /\ session'.testfr_pending = session.testfr_pending
      BY <1>0, <1>11 DEF InitialGi, PeriodicGi, AckTimer, iec104_send_s_frame,
         iec104_send_general_interrogation, Session
    <2> QED
      BY <1>3, <1>11, <2>1 DEF InitialGi, PeriodicGi, AckTimer, Goto
  <1>12. CASE TestfrTimer
    <2>1. CASE PeerSilent
      BY <1>1, <1>12, <2>1 DEF TestfrTimer, Return
    <2>2. CASE TestfrDue /\ ~PeerSilent
      <3>1. session'.last_testfr = now /\ session'.testfr_pending
        BY <1>0, <1>12, <2>2 DEF TestfrTimer, iec104_send_u_frame, Session
      <3> QED
        BY <1>0, <1>12, <2>2, <3>1 DEF TestfrTimer, PeerSilent, Goto, TestfrInv, TimeInv,
           history, live
    <2>3. CASE ~TestfrDue
      BY <1>0, <1>12, <2>3 DEF TestfrTimer, TestfrDue, PeerSilent, Goto, TestfrInv,
         TimeInv, history, live
    <2> QED
      BY <2>1, <2>2, <2>3
  <1>13. CASE ConfirmTimer
    BY <1>0, <1>13 DEF ConfirmTimer, LoopHead, Goto, Return, TestfrInv, TimeInv, history, live
  <1>14. CASE Signal \/ Tick \/ UNCHANGED vars
    BY <1>3, <1>14 DEF Signal, Tick, vars, history
  <1> QED
    BY <1>4, <1>5, <1>6, <1>7, <1>8, <1>9, <1>10, <1>11, <1>12, <1>13, <1>14
       DEF Next, Step, Receive, Timers, Terminated

\* The TESTFR timer: a gateway that stops answering is dropped within the bound, whatever
\* else it sends and however long each read and send of the loop takes within its limit.
THEOREM DeadPeerIsDropped == Spec => []DeadPeerDropped
  <1> DEFINE I == BaseInv /\ TimeInv /\ TestfrInv
  <1>1. Init => I
    BY BaseInit, TimeInit, TestfrInit
  <1>2. I /\ [Next]_vars => I'
    BY BaseNext, TimeNext, TestfrNext
  <1>3. I => DeadPeerDropped
    <2> SUFFICES ASSUME I, live
                 PROVE  clock - heard <=
                            2 * (test_frame_interval_sec - 1 + READ_MAX + STALL_MAX) + STALL_MAX
      BY DEF DeadPeerDropped
    <2>1. /\ clock \in Nat /\ mark \in Nat /\ heard \in Nat
          /\ session.last_testfr \in Nat /\ session.testfr_pending \in BOOLEAN
          /\ test_frame_interval_sec \in Nat \ {0} /\ READ_MAX \in Nat /\ STALL_MAX \in Nat
      BY ConfigAssumption, EnvironmentAssumption DEF BaseInv, TypeOK, Session
    <2>2. session.last_testfr - heard <= test_frame_interval_sec - 1 + STALL_MAX + READ_MAX
      BY <2>1 DEF TestfrInv
    <2>3. clock - session.last_testfr <=
              test_frame_interval_sec - 1 + STALL_MAX + READ_MAX + STALL_MAX
      BY <2>1 DEF TestfrInv, TimeInv, BaseInv, TypeOK, live
    <2> QED
      BY <2>1, <2>2, <2>3
  <1> QED
    BY <1>1, <1>2, <1>3, PTL DEF Spec

-----------------------------------------------------------------------------
\* The age of the last general interrogation.
LEMMA GiInit == Init => GiInv
  BY DEF Init, GiInv, live

LEMMA GiNext == BaseInv /\ TimeInv /\ GiInv /\ [Next]_vars => GiInv'
  <1> SUFFICES ASSUME BaseInv, TimeInv, GiInv, [Next]_vars PROVE GiInv'
    OBVIOUS
  <1> USE EnvironmentAssumption, ConfigAssumption
  <1>0. /\ clock \in Nat /\ mark \in Nat /\ now \in Nat
        /\ session \in Session /\ session.last_gi \in Nat /\ asked \in Nat
        /\ session.startdt_confirmed \in BOOLEAN /\ sent_initial_gi \in BOOLEAN
    BY DEF BaseInv, TypeOK, Session
  <1>1. ASSUME pc' = "returned" PROVE GiInv'
    BY <1>1 DEF GiInv, live
  <1>2. ASSUME pc = "read", AfterRead, sent_initial_gi' = sent_initial_gi, clock' = clock,
               session'.last_gi = session.last_gi, asked' = asked,
               session.startdt_confirmed => session'.startdt_confirmed
        PROVE  GiInv'
    BY <1>0, <1>2 DEF GiInv, TimeInv, AfterRead, Goto, live
  <1>3. ASSUME UNCHANGED <<mark, sent_initial_gi>>,
               session'.last_gi = session.last_gi, asked' = asked,
               session'.startdt_confirmed = session.startdt_confirmed,
               pc' = pc \/ (pc \in {"ack", "testfr"} /\ pc' \in {"testfr", "confirm"})
        PROVE  GiInv'
    BY <1>0, <1>3 DEF GiInv, live
  <1>4. CASE Connect
    BY <1>0, <1>4 DEF Connect, Session, Goto, GiInv, live
  <1>5. CASE SendStartdt
    <2>1. /\ session'.last_gi = session.last_gi /\ asked' = asked
          /\ session'.startdt_confirmed = session.startdt_confirmed
      BY <1>0, <1>5 DEF SendStartdt, iec104_send_u_frame, Session, history
    <2> QED
      BY <1>0, <1>5, <2>1 DEF SendStartdt, LoopHead, Goto, GiInv, live
  <1>6. CASE ConnectFails \/ SendFails \/ ReadFails \/ RecvStopdtCon \/ Stopdt
    BY <1>1, <1>6 DEF ConnectFails, SendFails, ReadFails, RecvStopdtCon, Stopdt, Return
  <1>7. CASE ReadIdle \/ RecvStartdtCon \/ RecvTestfrAct \/ RecvTestfrCon
    <2>1. UNCHANGED <<sent_initial_gi, clock>>
      BY <1>7 DEF ReadIdle, RecvStartdtCon, RecvTestfrAct, RecvTestfrCon
    <2>2. /\ session'.last_gi = session.last_gi /\ asked' = asked
          /\ session.startdt_confirmed => session'.startdt_confirmed
      BY <1>0, <1>7 DEF ReadIdle, RecvStartdtCon, RecvTestfrAct, RecvTestfrCon,
         iec104_send_u_frame, Session, history
    <2>3. pc = "read" /\ (AfterRead \/ pc' = "returned")
      BY <1>7 DEF ReadIdle, RecvStartdtCon, RecvTestfrAct, RecvTestfrCon, Return
    <2> QED
      BY <1>1, <1>2, <2>1, <2>2, <2>3
  <1>8. ASSUME NEW n, RecvI(n) PROVE GiInv'
    <2>1. /\ session'.last_gi = session.last_gi /\ asked' = asked
          /\ session'.startdt_confirmed = session.startdt_confirmed
      BY <1>0, <1>8 DEF RecvI, TakeI, iec104_send_s_frame, Session, history
    <2> QED
      BY <1>1, <1>2, <1>8, <2>1 DEF RecvI, Return
  <1>9. ASSUME NEW n, RejectI(n) PROVE GiInv'
    BY <1>1, <1>9 DEF RejectI, Return
  <1>10. CASE InitialGi
    <2>1. CASE InitialGiDue
      <3>1. session'.last_gi = clock /\ asked' = clock /\ session'.startdt_confirmed = session.startdt_confirmed
        BY <1>0, <1>10, <2>1 DEF InitialGi, iec104_send_general_interrogation, Session
      <3> QED
        BY <1>0, <1>10, <2>1, <3>1 DEF InitialGi, InitialGiDue, Goto, GiInv, TimeInv, live
    <2>2. CASE ~InitialGiDue
      BY <1>0, <1>10, <2>2 DEF InitialGi, InitialGiDue, Goto, GiInv, live
    <2> QED
      BY <2>1, <2>2
  <1>11. CASE PeriodicGi
    <2>1. CASE PeriodicGiDue
      <3>1. session'.last_gi = clock /\ asked' = clock /\ session'.startdt_confirmed = session.startdt_confirmed
        BY <1>0, <1>11, <2>1 DEF PeriodicGi, iec104_send_general_interrogation, Session
      <3>2. sent_initial_gi
        BY <1>11, <2>1 DEF PeriodicGi, PeriodicGiDue, GiInv
      <3> QED
        BY <1>0, <1>11, <2>1, <3>1, <3>2 DEF PeriodicGi, PeriodicGiDue, Goto, GiInv, TimeInv, live
    <2>2. CASE ~PeriodicGiDue
      BY <1>0, <1>11, <2>2 DEF PeriodicGi, PeriodicGiDue, Goto, GiInv, TimeInv, live
    <2> QED
      BY <2>1, <2>2
  <1>12. CASE AckTimer \/ TestfrTimer
    <2>1. /\ session'.last_gi = session.last_gi /\ asked' = asked
          /\ session'.startdt_confirmed = session.startdt_confirmed
      BY <1>0, <1>12 DEF AckTimer, TestfrTimer, iec104_send_s_frame, iec104_send_u_frame,
         Session, history
    <2> QED
      BY <1>1, <1>3, <1>12, <2>1 DEF AckTimer, TestfrTimer, Goto, Return
  <1>13. CASE ConfirmTimer
    BY <1>0, <1>13 DEF ConfirmTimer, LoopHead, Goto, Return, GiInv, TimeInv, history, live
  <1>14. CASE Signal \/ Tick \/ UNCHANGED vars
    <2>1. UNCHANGED <<pc, mark, sent_initial_gi, session, asked>>
      BY <1>14 DEF Signal, Tick, vars, history
    <2> QED
      BY <1>3, <2>1
  <1> QED
    BY <1>4, <1>5, <1>6, <1>7, <1>8, <1>9, <1>10, <1>11, <1>12, <1>13, <1>14
       DEF Next, Step, Receive, Timers, Terminated

\* The interrogation timer is never starved by the traffic the loop handles.
THEOREM GiIsOnTime == Spec => []GiOnTime
  <1> DEFINE I == BaseInv /\ TimeInv /\ GiInv
  <1>1. Init => I
    BY BaseInit, TimeInit, GiInit
  <1>2. I /\ [Next]_vars => I'
    BY BaseNext, TimeNext, GiNext
  <1>3. I => GiOnTime
    BY ConfigAssumption, EnvironmentAssumption
       DEF BaseInv, TypeOK, TimeInv, GiInv, GiOnTime, Session, live
  <1> QED
    BY <1>1, <1>2, <1>3, PTL DEF Spec

\* Interrogations only go out on a started link and never closer together than the
\* configured interval; with interval 0 the initial one is the only one.
THEOREM GiIsSpaced == Spec => GiSpacing
  <1> DEFINE I == BaseInv /\ TimeInv /\ GiInv
  <1>1. Init => I
    BY BaseInit, TimeInit, GiInit
  <1>2. I /\ [Next]_vars => I'
    BY BaseNext, TimeNext, GiNext
  <1> DEFINE Spaced ==
        /\ session.startdt_confirmed
        /\ \/ asked = 0
           \/ /\ general_interrogation_interval_sec > 0
              /\ clock - asked >= general_interrogation_interval_sec
  <1>3. I /\ [Next]_vars => [session'.send_seq # session.send_seq => Spaced]_vars
    <2> SUFFICES ASSUME I, Next, session'.send_seq # session.send_seq PROVE Spaced
      BY DEF vars
    <2>0. /\ session \in Session /\ clock \in Nat /\ mark \in Nat /\ now \in Nat
          /\ session.last_gi \in Nat /\ general_interrogation_interval_sec \in Nat
      BY ConfigAssumption DEF BaseInv, TypeOK, Session
    <2>1. CASE InitialGi
      BY <2>1 DEF InitialGi, InitialGiDue, GiInv
    <2>2. CASE PeriodicGi
      BY <2>0, <2>2 DEF PeriodicGi, PeriodicGiDue, TimeInv, GiInv
    <2>3. CASE Connect \/ SendStartdt \/ Stopdt \/ TestfrTimer \/ AckTimer
      BY <2>0, <2>3 DEF Connect, SendStartdt, Stopdt, TestfrTimer, AckTimer,
         iec104_send_u_frame, iec104_send_s_frame, Session
    <2>4. CASE RecvStartdtCon \/ RecvTestfrAct \/ RecvTestfrCon
      BY <2>0, <2>4 DEF RecvStartdtCon, RecvTestfrAct, RecvTestfrCon,
         iec104_send_u_frame, Session
    <2>5. ASSUME NEW n, RecvI(n) PROVE Spaced
      BY <2>0, <2>5 DEF RecvI, TakeI, iec104_send_s_frame, Session
    <2> QED
      BY <2>1, <2>2, <2>3, <2>4, <2>5 DEF Next, Step, Receive, Timers, Terminated,
         ConnectFails, SendFails, ReadIdle, ReadFails, RejectI, RecvStopdtCon,
         ConfirmTimer, Signal, Tick, vars
  <1> QED
    BY <1>1, <1>2, <1>3, PTL DEF Spec, GiSpacing

-----------------------------------------------------------------------------
\* The age of the oldest frame that was not acknowledged.
LEMMA AckInit == Init => AckInv
  BY EnvironmentAssumption DEF Init, AckInv, live

LEMMA AckNext == BaseInv /\ TimeInv /\ AckInv /\ [Next]_vars => AckInv'
  <1> SUFFICES ASSUME BaseInv, TimeInv, AckInv, [Next]_vars PROVE AckInv'
    OBVIOUS
  <1> USE EnvironmentAssumption, ConfigAssumption
  <1>0. /\ clock \in Nat /\ mark \in Nat /\ now \in Nat /\ unacked_since \in Nat
        /\ session \in Session /\ session.last_data_ack \in Nat
        /\ session.unacked_received \in Nat
    BY DEF BaseInv, TypeOK, Session
  <1>1. ASSUME pc' = "returned" PROVE AckInv'
    BY <1>1 DEF AckInv, live
  <1>2. ASSUME pc = "read", AfterRead, clock' = clock,
               session'.last_data_ack = session.last_data_ack,
               \/ /\ session'.unacked_received = session.unacked_received
                  /\ unacked_since' = unacked_since
               \/ /\ session'.unacked_received # 0
                  /\ unacked_since' = IF session.unacked_received = 0
                                      THEN clock ELSE unacked_since
               \/ session'.unacked_received = 0
        PROVE  AckInv'
    BY <1>0, <1>2 DEF AckInv, TimeInv, AfterRead, Goto, live
  <1>3. ASSUME UNCHANGED <<mark, unacked_since>>, clock' \in Nat, clock <= clock',
               session'.last_data_ack = session.last_data_ack,
               session'.unacked_received = session.unacked_received,
               \/ pc' = pc
               \/ pc \in {"gi", "period"} /\ pc' \in {"period", "ack"}
               \/ pc = "testfr" /\ pc' = "confirm"
        PROVE  AckInv'
    BY <1>0, <1>3 DEF AckInv, live
  <1>4. CASE Connect
    BY <1>0, <1>4 DEF Connect, Session, Goto, AckInv, BaseInv, SeqInv, live
  <1>5. CASE SendStartdt
    <2>1. /\ session'.last_data_ack = session.last_data_ack
          /\ session'.unacked_received = session.unacked_received
      BY <1>0, <1>5 DEF SendStartdt, iec104_send_u_frame, Session
    <2> QED
      BY <1>0, <1>5, <2>1 DEF SendStartdt, LoopHead, Goto, AckInv, live
  <1>6. CASE ConnectFails \/ SendFails \/ ReadFails \/ RecvStopdtCon \/ Stopdt
    BY <1>1, <1>6 DEF ConnectFails, SendFails, ReadFails, RecvStopdtCon, Stopdt, Return
  <1>7. CASE ReadIdle \/ RecvStartdtCon \/ RecvTestfrAct \/ RecvTestfrCon
    <2>1. UNCHANGED <<unacked_since, clock>>
      BY <1>7 DEF ReadIdle, RecvStartdtCon, RecvTestfrAct, RecvTestfrCon, history
    <2>2. /\ session'.last_data_ack = session.last_data_ack
          /\ session'.unacked_received = session.unacked_received
      BY <1>0, <1>7 DEF ReadIdle, RecvStartdtCon, RecvTestfrAct, RecvTestfrCon,
         iec104_send_u_frame, Session
    <2>3. pc = "read" /\ (AfterRead \/ pc' = "returned")
      BY <1>7 DEF ReadIdle, RecvStartdtCon, RecvTestfrAct, RecvTestfrCon, Return
    <2> QED
      BY <1>1, <1>2, <2>1, <2>2, <2>3
  <1>8. ASSUME NEW n, RecvI(n) PROVE AckInv'
    <2>1. session'.last_data_ack = session.last_data_ack
      BY <1>0, <1>8 DEF RecvI, TakeI, iec104_send_s_frame, Session
    <2>2. /\ TakeI(session).unacked_received = session.unacked_received + 1
          /\ TakeI(session) \in Session
      BY <1>0, FrameLayer
    <2>3. session'.unacked_received \in {0, session.unacked_received + 1}
      BY <1>0, <1>8, <2>2 DEF RecvI, iec104_send_s_frame, Session
    <2>4. /\ pc = "read" /\ clock' = clock
          /\ unacked_since' = IF session.unacked_received = 0 THEN clock ELSE unacked_since
          /\ AfterRead \/ pc' = "returned"
      BY <1>8 DEF RecvI, Return
    <2> QED
      BY <1>0, <1>1, <1>2, <2>1, <2>3, <2>4
  <1>9. ASSUME NEW n, RejectI(n) PROVE AckInv'
    BY <1>1, <1>9 DEF RejectI, Return
  <1>10. CASE InitialGi \/ PeriodicGi
    <2>1. /\ session'.last_data_ack = session.last_data_ack
          /\ session'.unacked_received = session.unacked_received
      BY <1>0, <1>10 DEF InitialGi, PeriodicGi, iec104_send_general_interrogation, Session
    <2> QED
      BY <1>0, <1>3, <1>10, <2>1 DEF InitialGi, PeriodicGi, Goto
  <1>11. CASE AckTimer
    <2>1. CASE AckDue
      <3>1. session'.last_data_ack = clock /\ session'.unacked_received = 0
        BY <1>0, <1>11, <2>1, FrameLayer DEF AckTimer, iec104_send_s_frame, Session
      <3> QED
        BY <1>0, <1>11, <3>1 DEF AckTimer, Goto, AckInv, live
    <2>2. CASE ~AckDue /\ session.unacked_received = 0
      <3>1. session'.last_data_ack = clock /\ session'.unacked_received = 0
        BY <1>0, <1>11, <2>2 DEF AckTimer, Session
      <3> QED
        BY <1>0, <1>11, <3>1 DEF AckTimer, Goto, AckInv, live
    <2>3. CASE ~AckDue /\ session.unacked_received # 0
      BY <1>0, <1>11, <2>3 DEF AckTimer, AckDue, elapsed_ms, Goto, AckInv, TimeInv, live
    <2> QED
      BY <2>1, <2>2, <2>3
  <1>12. CASE TestfrTimer
    <2>1. /\ session'.last_data_ack = session.last_data_ack
          /\ session'.unacked_received = session.unacked_received
      BY <1>0, <1>12 DEF TestfrTimer, iec104_send_u_frame, Session
    <2>2. UNCHANGED <<clock, mark, unacked_since>> /\ pc = "testfr"
      BY <1>12 DEF TestfrTimer, history
    <2> QED
      BY <1>0, <1>1, <1>3, <1>12, <2>1, <2>2 DEF TestfrTimer, Goto, Return
  <1>13. CASE ConfirmTimer
    BY <1>0, <1>13 DEF ConfirmTimer, LoopHead, Goto, Return, AckInv, TimeInv, history, live
  <1>14. CASE Signal \/ Tick \/ UNCHANGED vars
    BY <1>0, <1>3, <1>14 DEF Signal, Tick, vars, history
  <1> QED
    BY <1>4, <1>5, <1>6, <1>7, <1>8, <1>9, <1>10, <1>11, <1>12, <1>13, <1>14
       DEF Next, Step, Receive, Timers, Terminated

\* Window, timer and timer restart together never leave a frame unacknowledged for
\* longer than the timeout and the delays of the loop.
THEOREM AckIsOnTime == Spec => []AckOnTime
  <1> DEFINE I == BaseInv /\ TimeInv /\ AckInv
  <1>1. Init => I
    BY BaseInit, TimeInit, AckInit
  <1>2. I /\ [Next]_vars => I'
    BY BaseNext, TimeNext, AckNext
  <1>3. I => AckOnTime
    <2> SUFFICES ASSUME I, live, session.unacked_received > 0
                 PROVE  1000 * (clock - unacked_since) <
                            ack_timeout_ms + 1000 * (READ_MAX + 2 * STALL_MAX)
      BY DEF AckOnTime, elapsed_ms
    <2>1. /\ clock \in Nat /\ mark \in Nat /\ unacked_since \in Nat
          /\ ack_timeout_ms \in Nat /\ READ_MAX \in Nat /\ STALL_MAX \in Nat
      BY ConfigAssumption, EnvironmentAssumption DEF BaseInv, TypeOK
    <2> QED
      BY <2>1 DEF AckInv, TimeInv, BaseInv, TypeOK, live
  <1> QED
    BY <1>1, <1>2, <1>3, PTL DEF Spec

-----------------------------------------------------------------------------
\* session_loop keeps the promise its caller builds on: it starts open, is confirmed at
\* most once, and returns 0 only after the stop flag was cleared.  (The promise that a
\* stopped call does return is checked by TLC.)
THEOREM SessionImplementsCall == Spec => Call!Spec
  <1>1. Init => Call!Init
    BY DEF Init, Call!Init, phase
  <1> DEFINE StopSeen == pc = "stop" => ~running
  <1>2. Init => StopSeen
    BY DEF Init
  <1>3. BaseInv /\ StopSeen /\ [Next]_vars => StopSeen'
    <2> SUFFICES ASSUME StopSeen, [Next]_vars PROVE StopSeen'
      OBVIOUS
    <2>1. CASE SendStartdt \/ ConfirmTimer
      BY <2>1 DEF SendStartdt, ConfirmTimer, LoopHead, Goto, Return
    <2> QED
      BY <2>1 DEF Next, Step, Receive, Timers, Terminated, Connect, ConnectFails, SendFails,
         ReadIdle, ReadFails, RecvI, RejectI, RecvStartdtCon, RecvStopdtCon, RecvTestfrAct,
         RecvTestfrCon, InitialGi, PeriodicGi, AckTimer, TestfrTimer, Stopdt, Signal, Tick,
         AfterRead, Goto, Return, vars
  <1>4. BaseInv /\ StopSeen /\ [Next]_vars => [Call!Next]_(Call!vars)
    <2> SUFFICES ASSUME BaseInv, StopSeen, [Next]_vars
                 PROVE  Call!Next \/ UNCHANGED <<phase, running, rc>>
      BY DEF Call!vars
    <2>0. session \in Session /\ clock \in Nat /\ now \in Nat
          /\ session.startdt_confirmed \in BOOLEAN
      BY DEF BaseInv, TypeOK, Session
    <2> USE DEF phase
    \* Every error exit is GiveUp.
    <2>1. ASSUME NEW why, pc # "returned", Return(-1, why), UNCHANGED running
          PROVE  Call!Next
      BY <2>1 DEF Return, Call!Next, Call!GiveUp
    \* Every other step of the loop but STARTDT_CON and the end leaves the phase alone.
    <2>2. ASSUME NEW label, label # "returned", pc # "returned", Goto(label),
                 session'.startdt_confirmed = session.startdt_confirmed, UNCHANGED running
          PROVE  UNCHANGED <<phase, running, rc>>
      BY <2>2 DEF Goto
    <2>3. CASE Connect \/ SendStartdt
      <3>1. session'.startdt_confirmed = session.startdt_confirmed
        BY <2>0, <2>3 DEF Connect, SendStartdt, iec104_send_u_frame, Session
      <3> QED
        BY <2>3, <3>1 DEF Connect, SendStartdt, LoopHead, Goto
    <2>4. CASE ConnectFails \/ SendFails \/ ReadFails \/ RecvStopdtCon
      BY <2>1, <2>4 DEF ConnectFails, SendFails, ReadFails, RecvStopdtCon
    <2>5. CASE ReadIdle
      BY <2>2, <2>5 DEF ReadIdle, AfterRead
    <2>6. CASE RecvStartdtCon
      <3>1. session'.startdt_confirmed
        BY <2>0, <2>6 DEF RecvStartdtCon, Session
      <3> QED
        BY <2>0, <2>6, <3>1 DEF RecvStartdtCon, AfterRead, Goto, Call!Next, Call!Confirm
    <2>7. CASE RecvTestfrAct \/ RecvTestfrCon
      <3>1. session'.startdt_confirmed = session.startdt_confirmed
        BY <2>0, <2>7 DEF RecvTestfrAct, RecvTestfrCon, iec104_send_u_frame, Session
      <3> QED
        BY <2>1, <2>2, <2>7, <3>1 DEF RecvTestfrAct, RecvTestfrCon, AfterRead
    <2>8. ASSUME NEW n, RecvI(n) \/ RejectI(n) PROVE Call!Next \/ UNCHANGED <<phase, running, rc>>
      <3>1. RecvI(n) => session'.startdt_confirmed = session.startdt_confirmed
        BY <2>0 DEF RecvI, TakeI, iec104_send_s_frame, Session
      <3> QED
        BY <2>1, <2>2, <2>8, <3>1 DEF RecvI, RejectI, AfterRead
    <2>9. CASE InitialGi \/ PeriodicGi \/ AckTimer
      <3>1. session'.startdt_confirmed = session.startdt_confirmed
        BY <2>0, <2>9 DEF InitialGi, PeriodicGi, AckTimer, iec104_send_s_frame,
           iec104_send_general_interrogation, Session
      <3> QED
        BY <2>2, <2>9, <3>1 DEF InitialGi, PeriodicGi, AckTimer
    <2>10. CASE TestfrTimer
      <3>1. session'.startdt_confirmed = session.startdt_confirmed
        BY <2>0, <2>10 DEF TestfrTimer, iec104_send_u_frame, Session
      <3> QED
        BY <2>1, <2>2, <2>10, <3>1 DEF TestfrTimer
    <2>11. CASE ConfirmTimer
      BY <2>1, <2>2, <2>11 DEF ConfirmTimer, LoopHead
    <2>12. CASE Stopdt
      BY <2>12 DEF Stopdt, Return, Call!Next, Call!Stop
    <2>13. CASE Signal
      BY <2>13 DEF Signal, Call!Next, Call!Signal
    <2>14. CASE Tick \/ UNCHANGED vars
      BY <2>14 DEF Tick, vars
    <2> QED
      BY <2>3, <2>4, <2>5, <2>6, <2>7, <2>8, <2>9, <2>10, <2>11, <2>12, <2>13, <2>14
         DEF Next, Step, Receive, Timers, Terminated
  <1> QED
    BY BaseInit, BaseNext, <1>1, <1>2, <1>3, <1>4, PTL DEF Spec, Call!Spec
=============================================================================
