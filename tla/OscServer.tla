----------------------------- MODULE OscServer -----------------------------
(***************************************************************************)
(* OSCInputServer (osc_server.py).  The library runs the handler of every  *)
(* message in a thread of its own; /servo goes through a filter of resent  *)
(* values that no lock guards; the other addresses forward to the          *)
(* controller (JogControl, HomeReference and DriveCommands have their      *)
(* effects).  A server that starts registers with the controller before it *)
(* binds its port; the poll thread reports every motion to all registered. *)
(***************************************************************************)
EXTENDS Integers, FiniteSets

CONSTANTS
    Handlers,       \* handler threads that may run together
    MAX_STARTS,     \* bound: servers started, each an instance of its own
    MAX_MESSAGES,   \* bound: /servo messages
    MAX_OTHER,      \* bound: switches of the servo by the web page
    None

VARIABLES
    started,        \* number of instances made so far; each is a number
    server,         \* app: the instance in use, or None
    stopping,       \* where stop() is: "no", "shutdown" or "close"
    listeners,      \* the controller's listeners: instances
    previous_data,  \* self._previous_data: None, TRUE (1.0) or FALSE (0.0)
    pc,             \* the handler threads
    data,           \* what each one was called with
    servo,          \* the drive: servo on
    messages, other, \* bounds
    changes,        \* history: messages unlike the one before
    calls,          \* history: calls of servo_on and servo_off
    last,           \* history: the last message to this instance
    overlapped,     \* history: two /servo handlers ran together
    foreign,        \* history: someone else switched, or a frame was lost
    failed          \* history: a start failed

filter == <<previous_data, changes, calls, last, overlapped>>
life == <<started, server, stopping, listeners, failed>>
vars == <<life, filter, pc, data, servo, messages, other, foreign>>

Init ==
    /\ started = 0 /\ server = None /\ stopping = "no" /\ listeners = {}
    /\ failed = FALSE
    /\ previous_data = None /\ changes = 0 /\ calls = 0 /\ last = None
    /\ overlapped = FALSE
    /\ pc = [h \in Handlers |-> "idle"]
    /\ data = [h \in Handlers |-> None]
    /\ servo = FALSE
    /\ messages = 0 /\ other = 0 /\ foreign = FALSE

-----------------------------------------------------------------------------
(* __init__, start() and stop(). *)

\* Mutant of New: what the last instance filtered is still filtered.
New_KeepsFilter ==
    /\ started' = started + 1
    /\ changes' = 0 /\ calls' = 0 /\ last' = None
    /\ overlapped' = FALSE /\ foreign' = FALSE
    /\ UNCHANGED previous_data

\* The state of a new instance.
New ==
    /\ started' = started + 1
    /\ previous_data' = None
    /\ changes' = 0 /\ calls' = 0 /\ last' = None
    /\ overlapped' = FALSE /\ foreign' = FALSE

\* start(): the listeners come first, so a port that cannot be bound leaves them.
Start(bound) ==
    /\ server = None /\ started < MAX_STARTS
    /\ New
    /\ listeners' = listeners \union {started + 1}
    /\ server' = IF bound THEN started + 1 ELSE None
    /\ failed' = (failed \/ ~bound)
    /\ UNCHANGED <<stopping, pc, data, servo, messages, other>>

\* stop() takes the listeners back first.
BeginStop ==
    /\ server # None /\ stopping = "no"
    /\ listeners' = listeners \ {server}
    /\ stopping' = "shutdown"
    /\ UNCHANGED <<started, server, failed, filter, pc, data, servo, messages, other,
                   foreign>>

\* shutdown() has returned: no further message is taken.
Shutdown ==
    /\ stopping = "shutdown" /\ stopping' = "close"
    /\ UNCHANGED <<started, server, listeners, failed, filter, pc, data, servo,
                   messages, other, foreign>>

\* Mutant of CloseWaits: nothing waits for handlers that still run.
CloseWaits_Not == TRUE

\* server_close() of a threading socket server joins its handler threads.
CloseWaits == \A h \in Handlers : pc[h] = "idle"

Close ==
    /\ stopping = "close" /\ CloseWaits
    /\ stopping' = "no" /\ server' = None
    /\ UNCHANGED <<started, listeners, failed, filter, pc, data, servo, messages, other,
                   foreign>>

-----------------------------------------------------------------------------
(* The handlers. *)

Serving == server # None /\ stopping # "close"

\* A /servo message arrives; its thread is about to compare.
Message(h, d) ==
    /\ Serving /\ pc[h] = "idle" /\ messages < MAX_MESSAGES
    /\ messages' = messages + 1
    /\ pc' = [pc EXCEPT ![h] = "compare"]
    /\ data' = [data EXCEPT ![h] = d]
    /\ changes' = IF d = last THEN changes ELSE changes + 1
    /\ last' = d
    /\ overlapped' = (overlapped \/ \E o \in Handlers : pc[o] \in {"compare", "record", "call"})
    /\ UNCHANGED <<life, previous_data, calls, servo, other, foreign>>

\* _check_duplicated: the comparison...
Compare(h) ==
    /\ pc[h] = "compare"
    /\ pc' = [pc EXCEPT ![h] = IF data[h] # previous_data THEN "record" ELSE "idle"]
    /\ UNCHANGED <<life, filter, data, servo, messages, other, foreign>>

\* ... and the assignment, before anything is sent.
Record(h) ==
    /\ pc[h] = "record"
    /\ previous_data' = data[h]
    /\ pc' = [pc EXCEPT ![h] = "call"]
    /\ UNCHANGED <<life, changes, calls, last, overlapped, data, servo, messages, other,
                   foreign>>

\* servo_on() or servo_off(): a frame whose answer is not looked at.
Call(h) ==
    /\ pc[h] = "call"
    /\ calls' = calls + 1
    /\ \/ servo' = data[h] /\ UNCHANGED foreign
       \/ UNCHANGED servo /\ foreign' = TRUE
    /\ pc' = [pc EXCEPT ![h] = "idle"]
    /\ UNCHANGED <<life, previous_data, changes, last, overlapped, data, messages, other>>

\* The handlers of the other addresses call the controller and send feedback; an
\* exception of theirs is logged.  A move begins with a frame that switches SON off.
Command(h) ==
    \/ /\ Serving /\ pc[h] = "idle"
       /\ pc' = [pc EXCEPT ![h] = "command"]
       /\ UNCHANGED <<life, filter, data, servo, messages, other, foreign>>
    \/ /\ pc[h] = "command"
       /\ pc' = [pc EXCEPT ![h] = "idle"]
       /\ servo' \in {servo, FALSE}
       /\ foreign' = (foreign \/ servo' # servo)
       /\ UNCHANGED <<life, filter, data, messages, other>>

\* The web page switches the servo.
Web(level) ==
    /\ other < MAX_OTHER /\ other' = other + 1
    /\ servo' = level
    /\ foreign' = (foreign \/ server # None)
    /\ UNCHANGED <<life, filter, pc, data, messages>>

Next ==
    \/ \E bound \in BOOLEAN : Start(bound)
    \/ BeginStop \/ Shutdown \/ Close
    \/ \E h \in Handlers :
         \/ \E d \in BOOLEAN : Message(h, d)
         \/ Compare(h) \/ Record(h) \/ Call(h) \/ Command(h)
    \/ \E level \in BOOLEAN : Web(level)

Spec == Init /\ [][Next]_vars

-----------------------------------------------------------------------------
\* Once its handlers are done, the servo is what the last /servo message said,
\* unless two handlers ran together, a frame was lost or somebody else, a move of
\* this very sender included, switched it: then the filter suppresses every resend.
\* A sender that repeats its level on every frame causes one call per change.
ServoFollowsSender ==
    /\ /\ server # None /\ last # None /\ ~overlapped /\ ~foreign
       /\ \A h \in Handlers : pc[h] = "idle"
       => servo = last
    /\ ~overlapped => calls <= changes

\* No handler of a stopped server commands the drive, and none reports a motion; a
\* start that failed, though, leaves its listeners registered for good.
StoppedIsSilent ==
    /\ server = None => \A h \in Handlers : pc[h] = "idle"
    /\ server # None /\ stopping = "no" => server \in listeners
    /\ ~failed => listeners \subseteq {server}
=============================================================================
