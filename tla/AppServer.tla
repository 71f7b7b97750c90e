------------------------------ MODULE AppServer ------------------------------
(***************************************************************************)
(* The process around the controller: the one serial connection, the       *)
(* endpoints that replace it, the endpoints that use it, and the OSC and   *)
(* Art-Net servers that are handed a reference to it (app.py,              *)
(* hardware_lock.py).                                                      *)
(*                                                                         *)
(* Flask runs every request in a thread of its own.  Most handlers hold    *)
(* hardware_lock for their whole length and are refused while it is held;  *)
(* /server/start and /server/stop do not take it, check the globals        *)
(* without a lock and act under _state_lock.  A step is what runs between  *)
(* two accesses to a global that another thread may change.  A section     *)
(* under _state_lock that changes nothing unlocked code reads before its   *)
(* end is one step.                                                        *)
(***************************************************************************)
EXTENDS Integers, FiniteSets

CONSTANTS
    None,          \* Python's None
    Requests,      \* threads that serve requests, the EEPROM guard among them
    Controllers    \* ServoController objects, each with its SerialPortManager

ServerTypes == {"osc", "artnet"}
\* "action" stands for every handler that commands or reads the drive.
Operations == {"action", "profile", "reconnect", "stop"} \union ServerTypes

ASSUME NoneAssumption == None \notin Controllers \union Requests \union ServerTypes
ASSUME DownAssumption == "down" \notin Controllers \union {None}

VARIABLES
    hardware_lock,         \* _hardware_busy_lock: its holder or None
    state_lock,            \* _state_lock: its holder or None
    servo_ctrller,         \* the global, with serial_manager: both are set or neither
    open,                  \* the controllers whose serial port is open
    active_input_server,   \* the global: "osc", "artnet" or None
    input_server_instance, \* the global _input_server_instance, by its type
    servers,               \* per type: the controller the listening server has, or "down"
    pc,                    \* where each request is
    operation,             \* what each request asks for
    using,                 \* the controller each action works with
    raced                  \* history: someone acted on a check that no longer held

connection == <<servo_ctrller, open>>
input == <<active_input_server, input_server_instance, servers>>
vars == <<hardware_lock, state_lock, connection, input, pc, operation, using, raced>>

Goto(r, place) == pc' = [pc EXCEPT ![r] = place]

Init ==
    /\ hardware_lock = None
    /\ state_lock = None
    /\ servo_ctrller \in Controllers \union {None}
    /\ open = {servo_ctrller} \ {None}
    /\ active_input_server = None
    /\ input_server_instance = None
    /\ servers = [t \in ServerTypes |-> "down"]
    /\ pc = [r \in Requests |-> "idle"]
    /\ operation = [r \in Requests |-> "action"]
    /\ using = [r \in Requests |-> None]
    /\ raced = FALSE

-----------------------------------------------------------------------------
(* Arrival and the hardware lock. *)

\* _require_serial_connection: without a controller only these get through.
WorksWithoutSerial == {"profile", "reconnect"}

Arrive(r, o) ==
    /\ pc[r] = "idle"
    /\ servo_ctrller # None \/ o \in WorksWithoutSerial
    /\ Goto(r, IF o \in ServerTypes \union {"stop"} THEN "check" ELSE "ask")
    /\ operation' = [operation EXCEPT ![r] = o]
    /\ UNCHANGED <<hardware_lock, state_lock, connection, input, using, raced>>

\* Mutant of TakeHardware: waits for nobody and refuses nobody.
TakeHardware_Unchecked(r) ==
    /\ pc[r] = "ask"
    /\ Goto(r, "locked")
    /\ hardware_lock' = r
    /\ UNCHANGED <<state_lock, connection, input, operation, using, raced>>

\* Mutant of TakeHardware: queues instead of refusing.
TakeHardware_Waits(r) ==
    /\ pc[r] = "ask" /\ hardware_lock = None
    /\ Goto(r, "locked")
    /\ hardware_lock' = r
    /\ UNCHANGED <<state_lock, connection, input, operation, using, raced>>

\* hardware_serialized, and run_when_idle for the guard: taken at once or refused.
TakeHardware(r) ==
    /\ pc[r] = "ask"
    /\ IF hardware_lock = None
         THEN Goto(r, "locked") /\ hardware_lock' = r
         ELSE Goto(r, "idle") /\ UNCHANGED hardware_lock
    /\ UNCHANGED <<state_lock, connection, input, operation, using, raced>>

\* The handler is over, by a return or an exception.
Reply(r) ==
    /\ Goto(r, "idle")
    /\ hardware_lock' = None

-----------------------------------------------------------------------------
(* Handlers that use the drive. *)

\* The connection may be gone since Arrive: servo_ctrller is None, and it raises.
BeginAction(r) ==
    /\ pc[r] = "locked" /\ operation[r] = "action"
    /\ IF servo_ctrller = None
         THEN Reply(r) /\ UNCHANGED using
         ELSE /\ Goto(r, "work") /\ UNCHANGED hardware_lock
              /\ using' = [using EXCEPT ![r] = servo_ctrller]
    /\ UNCHANGED <<state_lock, connection, input, operation, raced>>

EndAction(r) ==
    /\ pc[r] = "work"
    /\ Reply(r)
    /\ using' = [using EXCEPT ![r] = None]
    /\ UNCHANGED <<state_lock, connection, input, operation, raced>>

-----------------------------------------------------------------------------
(* Handlers that replace the connection. *)

\* set_profile: not under a server, and nothing to do for the profile in use.
\* reconnect_serial: nothing to do with a connection.
MayKeep(r) ==
    IF operation[r] = "profile" THEN active_input_server # None \/ servo_ctrller # None
                                ELSE servo_ctrller # None
MaySwitch(r) ==
    IF operation[r] = "profile" THEN active_input_server = None ELSE servo_ctrller = None

BeginSwitch(r) ==
    /\ pc[r] = "locked" /\ operation[r] \in {"profile", "reconnect"}
    /\ \/ MayKeep(r) /\ Reply(r)
       \/ MaySwitch(r) /\ Goto(r, "switch") /\ UNCHANGED hardware_lock
    /\ UNCHANGED <<state_lock, connection, input, operation, using, raced>>

\* _connect_profile under _state_lock: first what is there is closed.
CloseConnection(r) ==
    /\ pc[r] = "switch" /\ state_lock = None
    /\ Goto(r, "connect")
    /\ state_lock' = r
    /\ servo_ctrller' = None
    /\ open' = open \ {servo_ctrller}
    /\ raced' = (raced \/ active_input_server # None)
    /\ UNCHANGED <<hardware_lock, input, operation, using>>

\* Nobody refers to this controller any more.
Fresh(k) ==
    /\ k \notin open
    /\ \A t \in ServerTypes : servers[t] # k
    /\ \A r \in Requests : using[r] # k

\* Then a new one is opened, or not: that leaves no connection.
OpenConnection(r) ==
    /\ pc[r] = "connect"
    /\ \/ /\ Reply(r)
          /\ state_lock' = None
          /\ UNCHANGED connection
       \/ \E k \in Controllers :
            /\ Fresh(k)
            /\ servo_ctrller' = k
            /\ open' = open \union {k}
            /\ Goto(r, "greet")
            /\ UNCHANGED <<hardware_lock, state_lock>>
    /\ UNCHANGED <<input, operation, using, raced>>

\* The first frames to the drive are over, whether or not they were answered.
EndSwitch(r) ==
    /\ pc[r] = "greet"
    /\ Reply(r)
    /\ state_lock' = None
    /\ UNCHANGED <<connection, input, operation, using, raced>>

-----------------------------------------------------------------------------
(* /server/start and /server/stop. *)

\* The unlocked check: a start wants no server, a stop wants one.
Check(r) ==
    /\ pc[r] = "check"
    /\ Goto(r, IF (operation[r] = "stop") = (active_input_server = None)
                 THEN "idle" ELSE "section")
    /\ UNCHANGED <<hardware_lock, state_lock, connection, input, operation, using, raced>>

\* A server of this type can be constructed and bound: an OSC server registers
\* with the controller first, and the UDP port must not be taken.
\* (Two OSC servers on different ports, which a start past a stale check may leave, are
\* left out: at most one server of each type listens here.)
CanListen(t) == servers[t] = "down" /\ (t = "osc" => servo_ctrller # None)

\* The section of a start: a server with the controller of now, or an error.
StartServer(r) ==
    /\ pc[r] = "section" /\ operation[r] \in ServerTypes /\ state_lock = None
    /\ Goto(r, "idle")
    /\ \/ UNCHANGED <<input, raced>>
       \/ /\ CanListen(operation[r])
          /\ servers' = [servers EXCEPT ![operation[r]] = servo_ctrller]
          /\ input_server_instance' = operation[r]
          /\ active_input_server' = operation[r]
          /\ raced' = (raced \/ active_input_server # None \/ servo_ctrller = None)
    /\ UNCHANGED <<hardware_lock, state_lock, connection, operation, using>>

\* Mutant of StopServer: the server is dropped, and still listens.
StopServer_Drops(r) ==
    /\ pc[r] = "section" /\ operation[r] = "stop" /\ state_lock = None
    /\ Goto(r, "idle")
    /\ input_server_instance' = None
    /\ active_input_server' = None
    /\ UNCHANGED <<hardware_lock, state_lock, connection, servers, operation, using, raced>>

\* The section of a stop; without an instance its error is caught.
StopServer(r) ==
    /\ pc[r] = "section" /\ operation[r] = "stop" /\ state_lock = None
    /\ Goto(r, "idle")
    /\ servers' = [t \in ServerTypes |->
                     IF t = input_server_instance THEN "down" ELSE servers[t]]
    /\ input_server_instance' = None
    /\ active_input_server' = None
    /\ UNCHANGED <<hardware_lock, state_lock, connection, operation, using, raced>>

-----------------------------------------------------------------------------
Handler(r) ==
    \/ TakeHardware(r)
    \/ BeginAction(r) \/ EndAction(r)
    \/ BeginSwitch(r) \/ OpenConnection(r) \/ EndSwitch(r)
    \/ Check(r)

Section(r) == CloseConnection(r) \/ StartServer(r) \/ StopServer(r)

Next ==
    \E r \in Requests :
        \/ \E o \in Operations : Arrive(r, o)
        \/ Handler(r)
        \/ Section(r)

Spec == Init /\ [][Next]_vars

\* A request that arrived runs.  _state_lock is free again and again, and nobody
\* is passed over for good.
Fairness == \A r \in Requests : WF_vars(Handler(r)) /\ SF_vars(Section(r))

FairSpec == Spec /\ Fairness

-----------------------------------------------------------------------------
\* Types of all the variables.
TypeOK ==
    /\ hardware_lock \in Requests \union {None}
    /\ state_lock \in Requests \union {None}
    /\ servo_ctrller \in Controllers \union {None}
    /\ open \subseteq Controllers
    /\ active_input_server \in ServerTypes \union {None}
    /\ input_server_instance \in ServerTypes \union {None}
    /\ servers \in [ServerTypes -> Controllers \union {None, "down"}]
    /\ pc \in [Requests -> {"idle", "ask", "locked", "work", "switch", "connect", "greet",
                            "check", "section"}]
    /\ operation \in [Requests -> Operations]
    /\ using \in [Requests -> Controllers \union {None}]
    /\ raced \in BOOLEAN

Listening == {t \in ServerTypes : servers[t] # "down"}

\* A handler works with one controller from its first frame to its last, and that
\* controller's port is open: no profile switch can pull it away.
ActionKeepsController ==
    \A r \in Requests :
        pc[r] = "work" => using[r] = servo_ctrller /\ using[r] \in open

\* Only the current controller has the serial port open, whatever connects and
\* switches have failed before: no port is left behind, none is open twice.
OnePort == open = {servo_ctrller} \ {None}

\* The server the status page names is one that listens, so a stop stops it.
ActiveListens == active_input_server # None => active_input_server \in Listening

\* Unless someone acted on a check that no longer held, the one server that
\* listens is the one on record, and it commands the controller in use.
ServerIsKnown ==
    ~raced => /\ Listening \subseteq {active_input_server}
              /\ \A t \in Listening : servers[t] = servo_ctrller

\* A handler has the one open port, whatever connects and switches came before.
HandlersOwnThePort == ActionKeepsController /\ OnePort

\* The record of the input servers is true, but for stale checks.
ServersAreKnown == ActiveListens /\ ServerIsKnown

\* The docstring of start_input_server (app.py:594-597): only one server may run
\* at a time.
OneServerAtATime == Cardinality(Listening) <= 1

\* Every request is answered: the two locks never wait for each other.
RequestEnds == \A r \in Requests : pc[r] # "idle" ~> pc[r] = "idle"
=============================================================================
