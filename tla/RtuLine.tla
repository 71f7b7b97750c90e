------------------------------ MODULE RtuLine ------------------------------
(***************************************************************************)
(* ModbusRTUClient on its SerialPortManager: send_and_receive() byte group *)
(* by byte group, on a line that loses, garbles and delays them, beside a  *)
(* thread that disconnects the port.  A frame is a sequence of groups, so  *)
(* that a late rest of one answer can precede or displace the next; the    *)
(* checksum tells a whole frame from anything else, and nothing tells the  *)
(* answer to one request from the answer to another of the same length.    *)
(***************************************************************************)
EXTENDS Integers, Sequences

CONSTANTS
    Threads,
    MAX_REQUESTS,   \* bound: transactions
    None

VARIABLES
    holder,         \* the client's _transaction_lock
    pc,             \* the transaction: "idle", "send" or "receive"
    opening,        \* its thread has seen keep_running and is about to open
    number, kind,   \* requests so far and the kind of the last: "read" or "write"
    response,       \* the bytes received for it
    outcome,        \* what each thread's last transaction returned
    is_open, keep_running, \* SerialPortManager
    disconnecting,  \* disconnect(): "no", "close" or "done"
    buffer,         \* the input buffer of the port
    wire,           \* the requests the drive has still to decide on
    verdict,        \* what the drive made of each request
    answering,      \* the rest of its answer
    late,           \* history: bytes came after a later request was sent
    raced           \* history: disconnect() found a thread about to open

client == <<holder, pc, number, kind, response, outcome>>
port == <<opening, is_open, keep_running, disconnecting, raced>>
drive == <<wire, verdict, answering>>
vars == <<client, port, drive, buffer, late>>

Init ==
    /\ holder = None /\ pc = "idle" /\ number = 0 /\ kind = "read"
    /\ response = <<>> /\ outcome = [t \in Threads |-> None]
    /\ is_open = TRUE /\ keep_running = TRUE
    /\ opening = FALSE /\ disconnecting = "no"
    /\ buffer = <<>> /\ wire = <<>> /\ answering = <<>>
    /\ verdict = [i \in 1..MAX_REQUESTS |-> None]
    /\ late = FALSE /\ raced = FALSE

-----------------------------------------------------------------------------
(* Frames: read answers are the longest, exceptions the shortest. *)

ExpectedLength(k) == IF k = "read" THEN 3 ELSE 2

Frame(i, v, length) == [n \in 1..length |-> [of |-> i, verdict |-> v, group |-> n, length |-> length]]

\* ModbusRTUResponse: the checksum is good for exactly the whole frames.
Whole(bytes) ==
    bytes # <<>> /\ bytes[1] # None
        /\ bytes = Frame(bytes[1].of, bytes[1].verdict, bytes[1].length)

Parse(bytes) == IF Whole(bytes) THEN [of |-> bytes[1].of, verdict |-> bytes[1].verdict] ELSE None

-----------------------------------------------------------------------------
(* send_and_receive(), by the thread that holds the lock. *)

Begin(t) ==
    /\ holder = None /\ number < MAX_REQUESTS
    /\ holder' = t /\ pc' = "send" /\ number' = number + 1
    /\ kind' \in {"read", "write"}
    /\ response' = <<>> /\ outcome' = [outcome EXCEPT ![t] = None]
    /\ UNCHANGED <<port, drive, buffer, late>>

\* The transaction returns.
Return(o) ==
    /\ outcome' = [outcome EXCEPT ![holder] = o]
    /\ pc' = "idle" /\ holder' = None /\ response' = <<>>
    /\ UNCHANGED <<number, kind, port, drive, buffer, late>>

\* connect(): keep_running is looked at first...
Connect ==
    /\ pc # "idle" /\ ~is_open /\ keep_running /\ ~opening
    /\ opening' = TRUE
    /\ UNCHANGED <<client, is_open, keep_running, disconnecting, raced, drive, buffer, late>>

\* ... and then a port is opened, with an input buffer of its own, or none can be.
AttemptConnection(opened) ==
    /\ opening /\ opening' = FALSE
    /\ is_open' = opened
    /\ buffer' = <<>>
    /\ UNCHANGED <<client, keep_running, disconnecting, raced, drive, late>>

\* Mutant of ResetInputBuffer: what an earlier answer left is kept.
ResetInputBuffer_Not == UNCHANGED buffer

\* serial_instance.reset_input_buffer()
ResetInputBuffer == buffer' = <<>>

\* send(): what has been received so far is discarded, then the request is written.
Send ==
    /\ pc = "send" /\ is_open
    /\ ResetInputBuffer
    /\ pc' = "receive"
    /\ wire' \in {wire, Append(wire, [of |-> number, length |-> ExpectedLength(kind)])}
    /\ UNCHANGED <<holder, number, kind, response, outcome, port, verdict, answering, late>>

\* Without a connection nothing is sent, and receive() runs anyway.
SendFails ==
    /\ pc = "send" /\ ~is_open /\ ~opening /\ pc' = "receive"
    /\ UNCHANGED <<holder, number, kind, response, outcome, port, drive, buffer, late>>

\* receive(): at most what is missing of this response.
Receive ==
    /\ pc = "receive" /\ is_open /\ buffer # <<>>
    /\ Len(response) < ExpectedLength(kind)
    /\ response' = Append(response, Head(buffer))
    /\ buffer' = Tail(buffer)
    /\ UNCHANGED <<holder, pc, number, kind, outcome, port, drive, late>>

Complete ==
    /\ pc = "receive" /\ Len(response) = ExpectedLength(kind)
    /\ Return(Parse(response))

\* Half a second without a byte: what has come is the response.
ReceiveTimesOut ==
    /\ pc = "receive" /\ is_open /\ buffer = <<>>
    /\ Len(response) < ExpectedLength(kind)
    /\ Return(Parse(response))

\* Without a connection, or on an error, there is none.
ReceiveFails ==
    /\ pc = "receive" /\ ~opening
    /\ Return(None)

-----------------------------------------------------------------------------
(* disconnect(), by the thread that replaces the connection. *)

\* Mutant of Disconnect: the port is closed, but may be opened again.
Disconnect_KeepsRunning ==
    /\ disconnecting = "no" /\ disconnecting' = "close"
    /\ raced' = opening
    /\ UNCHANGED <<client, opening, is_open, keep_running, drive, buffer, late>>

Disconnect ==
    /\ disconnecting = "no" /\ disconnecting' = "close"
    /\ keep_running' = FALSE
    /\ raced' = opening
    /\ UNCHANGED <<client, opening, is_open, drive, buffer, late>>

Close ==
    /\ disconnecting = "close" /\ disconnecting' = "done"
    /\ is_open' = FALSE
    /\ UNCHANGED <<client, opening, keep_running, raced, drive, buffer, late>>

\* The operating system closes a port of its own accord.
Drop ==
    /\ is_open /\ disconnecting = "no" /\ is_open' = FALSE
    /\ UNCHANGED <<client, opening, keep_running, disconnecting, raced, drive, buffer, late>>

-----------------------------------------------------------------------------
(* The drive and the line. *)

\* The drive decides; its answer is an exception, whole, garbled or lost.
Decide(v) ==
    /\ wire # <<>> /\ wire' = Tail(wire) /\ answering = <<>>
    /\ LET request == Head(wire)
           frame == Frame(request.of, v, IF v = "refused" THEN 1 ELSE request.length)
       IN  /\ verdict' = [verdict EXCEPT ![request.of] = v]
           /\ answering' \in {frame, <<>>} \union {[frame EXCEPT ![n] = None] : n \in DOMAIN frame}
    /\ UNCHANGED <<client, port, buffer, late>>

Deliver ==
    /\ answering # <<>>
    /\ answering' = Tail(answering)
    /\ buffer' = IF is_open THEN Append(buffer, Head(answering)) ELSE buffer
    /\ late' = (late \/ (Head(answering) # None /\ Head(answering).of # number /\ pc = "receive"))
    /\ UNCHANGED <<client, port, wire, verdict>>

Next ==
    \/ \E t \in Threads : Begin(t)
    \/ Connect \/ Send \/ SendFails \/ Receive \/ Complete \/ ReceiveTimesOut \/ ReceiveFails
    \/ \E opened \in BOOLEAN : AttemptConnection(opened)
    \/ Disconnect \/ Close \/ Drop
    \/ \E v \in {"done", "refused"} : Decide(v)
    \/ Deliver

Spec == Init /\ [][Next]_vars

-----------------------------------------------------------------------------
Outcome == INSTANCE FrameOutcome WITH owner <- holder

\* Until bytes of an answer arrive after the next request has been sent, every
\* transaction of the client is one of FrameOutcome: no caller gets half an answer,
\* another thread's, or one to an earlier request.
ImplementsOutcome == Outcome!Init /\ [][late' \/ Outcome!Next]_(Outcome!vars)

\* A port that disconnect() has closed stays closed, unless a thread had passed its
\* check of keep_running before: that thread opens the port again, for good.
DisconnectIsFinal == disconnecting = "done" /\ ~raced => ~is_open
=============================================================================
