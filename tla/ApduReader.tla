----------------------------- MODULE ApduReader -----------------------------
(***************************************************************************)
(* The read path of src/iec104/iec104_io.c below session_loop: select, the   *)
(* two header bytes, the body, over a TCP stream whose bytes arrive in       *)
(* pieces of any size and with pauses anywhere.  One recv is one step.       *)
(*                                                                          *)
(* A recv that finds nothing for SO_RCVTIMEO ends receive_exact with 1: in   *)
(* the header that is passed on as "nothing this time", in the body it is    *)
(* an error.  session_loop calls again after 0 and 1 and closes after -1.    *)
(*                                                                          *)
(* Bytes are numbers.  START_BYTE, MIN_LEN and MAX_LEN stand for 0x68, 4 and *)
(* 253; as there, the start byte is also a legal length.                     *)
(***************************************************************************)
EXTENDS Integers, Sequences, SequencesExt

CONSTANTS
    START_BYTE, MIN_LEN, MAX_LEN,
    Messages            \* what gateways may send: sequences of frame bodies

ASSUME ReaderAssumption ==
    /\ MIN_LEN \in Nat /\ MAX_LEN \in 2..255
    /\ START_BYTE \in MIN_LEN..MAX_LEN
    /\ \A m \in Messages :
          m \in Seq(Seq(0..255)) /\ \A i \in DOMAIN m : Len(m[i]) \in MIN_LEN..MAX_LEN

VARIABLES
    messages,   \* what this gateway sends on this connection
    arrived,    \* bytes of the stream in the receive buffer so far
    fin,        \* the gateway closed its side
    running,    \* *running
    pos,        \* bytes of the stream read so far
    pc,         \* "select", "header", "body" or "closed"
    received,   \* local of receive_exact: bytes of this header or body
    handled,    \* history: bodies handed to iec104_handle_frame
    cause,      \* why -1 was returned
    lost        \* history: a header byte was read and forgotten

vars == <<messages, arrived, fin, running, pos, pc, received, handled, cause, lost>>
network == <<messages, arrived, fin, running>>

Encode(body) == <<START_BYTE, Len(body)>> \o body
stream == FlattenSeq([i \in DOMAIN messages |-> Encode(messages[i])])

Init ==
    /\ messages \in Messages
    /\ arrived = 0 /\ fin = FALSE /\ running = TRUE
    /\ pos = 0 /\ pc = "select" /\ received = 0
    /\ handled = <<>> /\ cause = "none" /\ lost = FALSE

(***************************************************************************)
(* The network and the signal.                                              *)
(***************************************************************************)
Arrive ==
    /\ ~fin
    /\ arrived' \in (arrived + 1)..Len(stream)
    /\ UNCHANGED <<messages, fin, running, pos, pc, received, handled, cause, lost>>

PeerCloses ==
    /\ ~fin /\ fin' = TRUE
    /\ UNCHANGED <<messages, arrived, running, pos, pc, received, handled, cause, lost>>

Signal ==
    /\ running /\ running' = FALSE
    /\ UNCHANGED <<messages, arrived, fin, pos, pc, received, handled, cause, lost>>

(***************************************************************************)
(* The reader.  A definition whose name ends in _faulty is its neighbour    *)
(* with a plausible mistake; it serves only to check the properties.        *)
(***************************************************************************)
Close(why) == pc' = "closed" /\ cause' = why
Readable == pos < arrived

\* select reports data or the end of the stream.  When it runs out, or is interrupted
\* while running, the call returns 1 and the next one starts here again.
Select ==
    /\ pc = "select" /\ (Readable \/ fin)
    /\ pc' = "header" /\ received' = 0
    /\ UNCHANGED <<network, pos, handled, cause, lost>>

\* select is interrupted by the stop signal.
SelectInterrupted ==
    /\ pc = "select" /\ ~running
    /\ Close("stop")
    /\ UNCHANGED <<network, pos, received, handled, lost>>

\* The two header bytes, once they are read.
header == <<stream[pos - 1], stream[pos]>>
HeaderValid_faulty(h) == h[1] = START_BYTE /\ h[2] >= MIN_LEN
HeaderValid(h) == h[1] = START_BYTE /\ h[2] \in MIN_LEN..MAX_LEN

\* How many bytes receive_exact was asked for.
length == IF pc = "header" THEN 2 ELSE stream[pos - received]

\* recv returns some of the bytes that are there.
Recv ==
    /\ pc \in {"header", "body"} /\ Readable /\ received < length
    /\ \E k \in 1..(length - received) :
          /\ pos + k <= arrived
          /\ pos' = pos + k /\ received' = received + k
    /\ UNCHANGED <<network, pc, handled, cause, lost>>

HeaderRead ==
    /\ pc = "header" /\ received = 2
    /\ IF HeaderValid(header)
       THEN pc' = "body" /\ received' = 0 /\ UNCHANGED cause
       ELSE Close("header") /\ UNCHANGED received
    /\ UNCHANGED <<network, pos, handled, lost>>

BodyRead_faulty ==
    /\ pc = "body" /\ received = length
    /\ handled' = Append(handled, SubSeq(stream, pos - received + 1, pos))
    /\ pc' = "select" /\ received' = 0 /\ pos' = arrived
    /\ UNCHANGED <<network, cause, lost>>
BodyRead ==
    /\ pc = "body" /\ received = length
    /\ handled' = Append(handled, SubSeq(stream, pos - received + 1, pos))
    /\ pc' = "select" /\ received' = 0
    /\ UNCHANGED <<network, pos, cause, lost>>

\* Nothing came for SO_RCVTIMEO.  The header's receive_exact returns 1, and so does the
\* call, although a byte may have been taken; an incomplete body is an error.
RecvTimeout_faulty ==
    /\ pc \in {"header", "body"} /\ received < length /\ ~Readable /\ ~fin
    /\ pc' = "select" /\ received' = 0
    /\ lost' = (lost \/ (pc = "header" /\ received > 0))
    /\ UNCHANGED <<network, pos, handled, cause>>
RecvTimeout ==
    /\ pc \in {"header", "body"} /\ received < length /\ ~Readable /\ ~fin
    /\ IF pc = "header"
       THEN /\ pc' = "select" /\ received' = 0 /\ lost' = (lost \/ received > 0)
            /\ UNCHANGED cause
       ELSE Close("timeout") /\ UNCHANGED <<received, lost>>
    /\ UNCHANGED <<network, pos, handled>>

\* recv returns 0 or an error: the gateway closed, or reset, and nothing is left.
RecvEnd ==
    /\ pc \in {"header", "body"} /\ received < length /\ ~Readable /\ fin
    /\ Close("peer")
    /\ UNCHANGED <<network, pos, received, handled, lost>>

Terminated == pc = "closed" /\ UNCHANGED vars

Reader ==
    Select \/ SelectInterrupted \/ Recv \/ HeaderRead \/ BodyRead \/ RecvTimeout \/ RecvEnd

Waiting == pc = "select" /\ ~Readable /\ ~fin /\ running /\ UNCHANGED vars

Next == Arrive \/ PeerCloses \/ Signal \/ Reader \/ Waiting \/ Terminated

Spec == Init /\ [][Next]_vars

\* Every call of the thread ends; nothing is promised about the network.
FairSpec == Spec /\ WF_vars(Reader)

(***************************************************************************)
(* Properties.                                                              *)
(***************************************************************************)
\* Types; the body never exceeds what fits in frame[IEC104_MAX_APDU] after the header,
\* also when the reader is out of step with the stream.
TypeOK ==
    /\ messages \in Messages
    /\ arrived \in 0..Len(stream) /\ pos \in 0..arrived
    /\ fin \in BOOLEAN /\ running \in BOOLEAN /\ lost \in BOOLEAN
    /\ pc \in {"select", "header", "body", "closed"}
    /\ received \in 0..MAX_LEN
    /\ pc = "body" => length <= MAX_LEN
    /\ cause \in {"none", "peer", "timeout", "header", "stop"}

\* However TCP cuts the stream, the handler is given exactly the frames the gateway sent,
\* in order, and a correct stream is never refused, unless a header byte was forgotten.
FramesIntactUnlessLost ==
    ~lost => IsPrefix(handled, messages) /\ cause # "header"

\* Every frame that arrived completely is handled, also when many wait in the receive
\* buffer, unless the connection is closed first.
ArrivedIsHandled ==
    \A n \in 1..2 :
        (Len(messages) >= n
         /\ arrived >= Len(FlattenSeq([i \in 1..n |-> Encode(messages[i])])) /\ ~lost)
            ~> (Len(handled) >= n \/ pc = "closed" \/ lost)

\* iec104_io.c:225 says of the return value 1 that the connection can go on: a stream of
\* correct frames is then never refused for its header.
CorrectStreamAccepted == cause # "header"
============================================================================
