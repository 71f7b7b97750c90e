-------------------------- MODULE AppServer_proofs --------------------------
(***************************************************************************)
(* Proofs about AppServer, for any number of requests at a time and any    *)
(* set of controllers.                                                     *)
(***************************************************************************)
EXTENDS AppServer, TLAPS

Holding == {"locked", "work", "switch", "connect", "greet"}

\* Both locks are held exactly where the code is inside their blocks.
LocksHeld ==
    \A r \in Requests :
        /\ hardware_lock = r <=> pc[r] \in Holding
        /\ state_lock = r <=> pc[r] \in {"connect", "greet"}

\* Between closing and opening there is no connection, and no server that a
\* check was still good for.
NothingWhileConnecting ==
    \A r \in Requests :
        pc[r] = "connect" => servo_ctrller = None /\ (raced \/ active_input_server = None)

\* What the actions that use a controller rely on.
Using ==
    \A r \in Requests :
        pc[r] = "work" => using[r] = servo_ctrller /\ servo_ctrller # None

\* The two globals of the input server are written together.
ActiveIsInstance == active_input_server = input_server_instance

AppInv ==
    /\ TypeOK
    /\ LocksHeld
    /\ NothingWhileConnecting
    /\ Using
    /\ OnePort
    /\ ActiveIsInstance
    /\ ActiveListens
    /\ ServerIsKnown

USE NoneAssumption, DownAssumption

-----------------------------------------------------------------------------
\* The initial states satisfy the invariant.
LEMMA AppInit == Init => AppInv
<1> SUFFICES ASSUME Init PROVE AppInv
  OBVIOUS
<1>1. TypeOK
  BY DEF Init, TypeOK, Operations
<1>2. LocksHeld /\ NothingWhileConnecting /\ Using
  BY DEF Init, LocksHeld, Holding, NothingWhileConnecting, Using
<1>3. OnePort /\ ActiveIsInstance /\ ActiveListens /\ ServerIsKnown
  BY DEF Init, OnePort, ActiveIsInstance, ActiveListens, ServerIsKnown, Listening
<1> QED
  BY <1>1, <1>2, <1>3 DEF AppInv

\* The types are preserved, action by action.
LEMMA AppTypes == TypeOK /\ [Next]_vars => TypeOK'
<1> SUFFICES ASSUME TypeOK, [Next]_vars PROVE TypeOK'
  OBVIOUS
<1> USE DEF TypeOK, Goto, Reply, connection, input, Operations
<1>1. ASSUME NEW r \in Requests, NEW o \in Operations, Arrive(r, o) PROVE TypeOK'
  BY <1>1 DEF Arrive
<1>2. ASSUME NEW r \in Requests, TakeHardware(r) PROVE TypeOK'
  BY <1>2 DEF TakeHardware
<1>3. ASSUME NEW r \in Requests, BeginAction(r) PROVE TypeOK'
  BY <1>3 DEF BeginAction
<1>4. ASSUME NEW r \in Requests, EndAction(r) PROVE TypeOK'
  BY <1>4 DEF EndAction
<1>5. ASSUME NEW r \in Requests, BeginSwitch(r) PROVE TypeOK'
  BY <1>5 DEF BeginSwitch
<1>6. ASSUME NEW r \in Requests, CloseConnection(r) PROVE TypeOK'
  <2>1. raced' \in BOOLEAN
    BY <1>6, Zenon DEF CloseConnection
  <2> QED
    BY <1>6, <2>1 DEF CloseConnection
<1>7. ASSUME NEW r \in Requests, OpenConnection(r) PROVE TypeOK'
  BY <1>7 DEF OpenConnection
<1>8. ASSUME NEW r \in Requests, EndSwitch(r) PROVE TypeOK'
  BY <1>8 DEF EndSwitch
<1>9. ASSUME NEW r \in Requests, Check(r) PROVE TypeOK'
  BY <1>9 DEF Check
<1>10. ASSUME NEW r \in Requests, StartServer(r) PROVE TypeOK'
  <2>1. raced' \in BOOLEAN
    BY <1>10, Zenon DEF StartServer
  <2> QED
    BY <1>10, <2>1 DEF StartServer
<1>11. ASSUME NEW r \in Requests, StopServer(r) PROVE TypeOK'
  BY <1>11 DEF StopServer
<1>12. CASE UNCHANGED vars
  BY <1>12 DEF vars
<1> QED
  BY <1>1, <1>2, <1>3, <1>4, <1>5, <1>6, <1>7, <1>8, <1>9, <1>10, <1>11, <1>12
     DEF Next, Handler, Section

\* Both locks: taken when free, and given back by their holder.
LEMMA AppLocks == AppInv /\ [Next]_vars => LocksHeld'
<1> SUFFICES ASSUME AppInv, [Next]_vars PROVE LocksHeld'
  OBVIOUS
<1> USE DEF AppInv, TypeOK, LocksHeld, Holding, Goto, Reply
<1>1. ASSUME NEW r \in Requests, NEW o \in Operations, Arrive(r, o) PROVE LocksHeld'
  BY <1>1 DEF Arrive
<1>2. ASSUME NEW r \in Requests, TakeHardware(r) PROVE LocksHeld'
  BY <1>2 DEF TakeHardware
<1>3. ASSUME NEW r \in Requests, BeginAction(r) PROVE LocksHeld'
  BY <1>3 DEF BeginAction
<1>4. ASSUME NEW r \in Requests, EndAction(r) PROVE LocksHeld'
  BY <1>4 DEF EndAction
<1>5. ASSUME NEW r \in Requests, BeginSwitch(r) PROVE LocksHeld'
  BY <1>5 DEF BeginSwitch
<1>6. ASSUME NEW r \in Requests, CloseConnection(r) PROVE LocksHeld'
  BY <1>6 DEF CloseConnection
<1>7. ASSUME NEW r \in Requests, OpenConnection(r) PROVE LocksHeld'
  BY <1>7 DEF OpenConnection
<1>8. ASSUME NEW r \in Requests, EndSwitch(r) PROVE LocksHeld'
  BY <1>8 DEF EndSwitch
<1>9. ASSUME NEW r \in Requests, Check(r) PROVE LocksHeld'
  BY <1>9 DEF Check
<1>10. ASSUME NEW r \in Requests, StartServer(r) PROVE LocksHeld'
  BY <1>10 DEF StartServer
<1>11. ASSUME NEW r \in Requests, StopServer(r) PROVE LocksHeld'
  BY <1>11 DEF StopServer
<1>12. CASE UNCHANGED vars
  BY <1>12 DEF vars
<1> QED
  BY <1>1, <1>2, <1>3, <1>4, <1>5, <1>6, <1>7, <1>8, <1>9, <1>10, <1>11, <1>12
     DEF Next, Handler, Section

\* The connection: only the holder of hardware_lock replaces it, and nobody works
\* with it meanwhile.
LEMMA AppConnection ==
  AppInv /\ [Next]_vars => NothingWhileConnecting' /\ Using' /\ OnePort'
<1> DEFINE Goal == NothingWhileConnecting' /\ Using' /\ OnePort'
<1> SUFFICES ASSUME AppInv, [Next]_vars PROVE Goal
  OBVIOUS
<1> USE DEF AppInv, TypeOK, LocksHeld, Holding, Goto, Reply, connection, input,
            NothingWhileConnecting, Using, OnePort
<1>1. ASSUME NEW r \in Requests, NEW o \in Operations, Arrive(r, o) PROVE Goal
  BY <1>1 DEF Arrive
<1>2. ASSUME NEW r \in Requests, TakeHardware(r) PROVE Goal
  BY <1>2 DEF TakeHardware
<1>3. ASSUME NEW r \in Requests, BeginAction(r) PROVE Goal
  BY <1>3 DEF BeginAction
<1>4. ASSUME NEW r \in Requests, EndAction(r) PROVE Goal
  BY <1>4 DEF EndAction
<1>5. ASSUME NEW r \in Requests, BeginSwitch(r) PROVE Goal
  BY <1>5 DEF BeginSwitch
<1>6. ASSUME NEW r \in Requests, CloseConnection(r) PROVE Goal
  BY <1>6 DEF CloseConnection
<1>7. ASSUME NEW r \in Requests, OpenConnection(r) PROVE Goal
  BY <1>7 DEF OpenConnection
<1>8. ASSUME NEW r \in Requests, EndSwitch(r) PROVE Goal
  BY <1>8 DEF EndSwitch
<1>9. ASSUME NEW r \in Requests, Check(r) PROVE Goal
  BY <1>9 DEF Check
<1>10. ASSUME NEW r \in Requests, StartServer(r) PROVE Goal
  BY <1>10 DEF StartServer
<1>11. ASSUME NEW r \in Requests, StopServer(r) PROVE Goal
  BY <1>11 DEF StopServer
<1>12. CASE UNCHANGED vars
  BY <1>12 DEF vars
<1> QED
  BY <1>1, <1>2, <1>3, <1>4, <1>5, <1>6, <1>7, <1>8, <1>9, <1>10, <1>11, <1>12
     DEF Next, Handler, Section

\* The input servers: a section starts or stops one, and the connection is
\* replaced only under none, unless a check was stale.
LEMMA AppServers ==
  AppInv /\ [Next]_vars => ActiveIsInstance' /\ ActiveListens' /\ ServerIsKnown'
<1> DEFINE Goal == ActiveIsInstance' /\ ActiveListens' /\ ServerIsKnown'
<1> SUFFICES ASSUME AppInv, [Next]_vars PROVE Goal
  OBVIOUS
<1> USE DEF AppInv, TypeOK, connection, input, ServerTypes,
            ActiveIsInstance, ActiveListens, ServerIsKnown, Listening
<1>1. ASSUME NEW r \in Requests, CloseConnection(r) PROVE Goal
  BY <1>1 DEF CloseConnection
<1>2. ASSUME NEW r \in Requests, OpenConnection(r) PROVE Goal
  BY <1>2 DEF OpenConnection, NothingWhileConnecting
<1>3. ASSUME NEW r \in Requests, StartServer(r) PROVE Goal
  <2> DEFINE t == operation[r]
  <2>1. UNCHANGED connection /\ t \in ServerTypes
    BY <1>3 DEF StartServer
  <2>2. CASE UNCHANGED <<input, raced>>
    BY <2>1, <2>2
  <2>3. CASE /\ servers' = [servers EXCEPT ![t] = servo_ctrller]
             /\ input_server_instance' = t /\ active_input_server' = t
             /\ raced' = (raced \/ active_input_server # None \/ servo_ctrller = None)
    <3>1. ActiveIsInstance'
      BY <2>3
    <3>2. servers'[t] = servo_ctrller /\ servo_ctrller # "down"
      BY <2>1, <2>3
    <3>3. ActiveListens'
      BY <2>1, <2>3, <3>2
    <3>4. ASSUME ~raced' PROVE Listening = {}
      BY <2>3, <3>4
    <3>5. ASSUME ~raced', NEW u \in Listening' PROVE u = t
      BY <2>1, <2>3, <3>4, <3>5
    <3>6. ServerIsKnown'
      BY <2>1, <2>3, <3>2, <3>5
    <3> QED
      BY <3>1, <3>3, <3>6
  <2> QED
    BY <1>3, <2>2, <2>3 DEF StartServer
<1>4. ASSUME NEW r \in Requests, StopServer(r) PROVE Goal
  BY <1>4 DEF StopServer
<1>5. CASE UNCHANGED <<connection, input, raced>>
  BY <1>5
<1> QED
  BY <1>1, <1>2, <1>3, <1>4, <1>5
     DEF Next, Handler, Section, Arrive, TakeHardware, BeginAction, EndAction, BeginSwitch,
         EndSwitch, Check, vars

\* The inductive invariant holds in every reachable state.
LEMMA AppInvariant == Spec => []AppInv
<1>1. AppInv /\ [Next]_vars => AppInv'
  BY AppTypes, AppLocks, AppConnection, AppServers DEF AppInv
<1> QED
  BY <1>1, AppInit, PTL DEF Spec

-----------------------------------------------------------------------------
\* Types of all the variables (AppServer's TypeOK).
THEOREM AppTypeOK == Spec => []TypeOK
<1>1. AppInv => TypeOK
  BY DEF AppInv
<1> QED
  BY <1>1, AppInvariant, PTL

\* A hardware_serialized handler keeps its controller and its open port until it
\* replies: _connect_profile runs under the same lock.
THEOREM AppActionKeepsController == Spec => []ActionKeepsController
<1>1. AppInv => ActionKeepsController
  BY DEF AppInv, Using, OnePort, ActionKeepsController
<1> QED
  BY <1>1, AppInvariant, PTL

\* The serial port is open once at most, by the current controller
\* (_connect_profile closes before it opens, and cleans up after a failure).
THEOREM AppOnePort == Spec => []OnePort
<1>1. AppInv => OnePort
  BY DEF AppInv
<1> QED
  BY <1>1, AppInvariant, PTL

\* The server on record listens, so /server/stop stops it.
THEOREM AppActiveListens == Spec => []ActiveListens
<1>1. AppInv => ActiveListens
  BY DEF AppInv
<1> QED
  BY <1>1, AppInvariant, PTL

\* A second server, or one with another controller, takes a stale check in
\* /server/start or /profile.
THEOREM AppServerIsKnown == Spec => []ServerIsKnown
<1>1. AppInv => ServerIsKnown
  BY DEF AppInv
<1> QED
  BY <1>1, AppInvariant, PTL

\* No switch takes the port from a handler, and no port is left open behind one.
THEOREM AppHandlersOwnThePort == Spec => []HandlersOwnThePort
  BY AppActionKeepsController, AppOnePort, PTL DEF HandlersOwnThePort

\* What /server/status and /server/stop go by is true, but for stale checks.
THEOREM AppServersAreKnown == Spec => []ServersAreKnown
  BY AppActiveListens, AppServerIsKnown, PTL DEF ServersAreKnown
=============================================================================
