-------------------------- MODULE MotionSequence --------------------------
(***************************************************************************)
(* The first generation of the program, for the drive with numbered points *)
(* (servo_communication; web/app.py, which uses its controller; examples,  *)
(* with a controller of its own).  Requests and the thread that repeats a  *)
(* sequence of points write bits of one input word of the drive, over one  *)
(* port, and no lock orders them.                                          *)
(*                                                                         *)
(* A read of the drive finds whatever bytes are there: an answer, none, or *)
(* a mixture that does not parse.  Not here: SET_PARAM_2, PAUSE (a motion  *)
(* may take any time) and the reads of the page, which only show bytes.    *)
(***************************************************************************)
EXTENDS Integers, Sequences

CONSTANTS
    Requests,       \* threads of the web server
    None,
    Offered,        \* bound: the actions of the page that are asked for, and ...
    MAX_COMMANDS    \* ... how often

VARIABLES
    program,        \* "package", "web" or "examples"
    inputs,         \* the drive's input bits, ...
    motion,         \* ... and the point it moves to, or None
    monitoring_active,
    motion_thread,  \* the last sequence thread, or None
    todo,           \* what each thread has still to do; a finished thread, nothing
    asked,          \* the request each thread of the server carries out
    commands,       \* bound
    history         \* of each request: "clean", "restart" if it also found a sequence running,
                    \* "lost" (a frame of it) or "crossed" by another

vars == <<program, inputs, motion, monitoring_active, motion_thread, todo, asked, commands, history>>

Workers == 1..MAX_COMMANDS
Threads == Requests \union Workers
Alive(w) == todo[w] # <<>>
Running == motion_thread # None /\ Alive(motion_thread)

\* Of two starts at a time, one leaves a sequence that no stop waits for.
Orphaned == \E w \in Workers : Alive(w) /\ w # motion_thread

\* Nobody crossed the request, and it lost no frame.
Uncrossed(r) == history[r] \in {"clean", "restart"}

Do(op) == [op |-> op]
Set(bit, value) == [op |-> "set", bit |-> bit, value |-> value]

-----------------------------------------------------------------------------
(* The sequences and the requests. *)

Points == <<3, 4>>

\* The point is started by the rising edge; only the last one is waited for.
execute_motion_start_sequence ==
    LET Visit(point) == <<Set("SEL_NO", point), Set("START1", 1), Set("START1", 0)>>
    IN  Visit(Points[1]) \o Visit(Points[2]) \o <<Do("monitor")>>

\* examples waits at each point.
execute_motion_start_sequence_of_examples ==
    LET Visit(point) == <<Set("SEL_NO", point), Set("START1", 0), Set("START1", 1), Do("monitor")>>
    IN  <<Set("SVON", 1)>> \o Visit(Points[1]) \o Visit(Points[2])

execute_motion_stop_sequence == <<Set("SEL_NO", 1), Set("START1", 0), Set("START1", 1)>>

execute_motion_stop_sequence_of_examples ==
    execute_motion_stop_sequence \o <<Do("monitor"), Set("SVON", 0)>>

stop_motion_sequence == <<Do("deactivate"), Do("join")>> \o
    IF program = "examples" THEN execute_motion_stop_sequence_of_examples
                            ELSE execute_motion_stop_sequence

start_motion_sequence == <<Do("activate"), Do("stop_running"), Do("spawn")>>

\* servo_communication/app.py.
handle_action(action) ==
    CASE action = "start" -> <<Set("SVON", 1)>> \o start_motion_sequence
      [] action = "stop" -> stop_motion_sequence
      [] action = "servoOn" -> <<Set("SVON", 1)>>
      [] action = "servoOff" -> <<Set("SVON", 0)>>
      [] action = "setPoint_1" -> <<Set("SEL_NO", 3)>>
      [] action = "setPoint_2" -> <<Set("SEL_NO", 4)>>
      [] action = "Home" -> <<Set("SEL_NO", 1)>>
      [] action = "motionStart" -> <<Set("START1", 0), Set("START1", 1)>>
      [] action = "motionCancel" -> <<Set("CANCEL", 1), Set("CANCEL", 0)>>

\* web/app.py starts a sequence whether the servo is on or not; all else is the same.
handle_action_of_web(action) ==
    IF action = "start" THEN start_motion_sequence ELSE handle_action(action)

\* examples/app.py is the page of web/app.py.
handle_action_of_examples(action) == handle_action_of_web(action)

-----------------------------------------------------------------------------
Init ==
    /\ program \in {"package", "web", "examples"}
    /\ inputs = [SVON |-> 0, SEL_NO |-> 1, START1 |-> 0, CANCEL |-> 0] /\ motion = None
    /\ monitoring_active = FALSE /\ motion_thread = None
    /\ todo = [t \in Threads |-> <<>>] /\ asked = [r \in Requests |-> None] /\ commands = 0
    /\ history = [r \in Requests |-> "clean"]

Begin(r, action) ==
    /\ asked[r] = None /\ commands < MAX_COMMANDS /\ commands' = commands + 1
    /\ asked' = [asked EXCEPT ![r] = action]
    /\ todo' = [todo EXCEPT ![r] =
          CASE program = "package" -> handle_action(action)
            [] program = "web" -> handle_action_of_web(action)
            [] program = "examples" -> handle_action_of_examples(action)]
    /\ history' = [q \in Requests |->
          IF \A p \in Requests : asked[p] = None THEN IF Orphaned THEN "crossed" ELSE "clean"
          ELSE IF q = r \/ asked[q] # None THEN "crossed" ELSE history[q]]
    /\ UNCHANGED <<program, inputs, motion, monitoring_active, motion_thread>>

At(t, op) == Alive(t) /\ Head(todo[t]).op = op

\* A request whose last step is done has answered.
Continue(t, rest) ==
    /\ todo' = [todo EXCEPT ![t] = rest]
    /\ asked' = IF t \in Requests /\ rest = <<>> THEN [asked EXCEPT ![t] = None] ELSE asked

\* set_bit_status: the mask leaves the other bits as they are.
set_bit_status(bit, value) == [inputs EXCEPT ![bit] = value]

\* The drive; a start while it moves may count or not.
Moves(new) ==
    CASE new.SVON = 0 \/ new.CANCEL = 1 -> {None}
      [] new.START1 > inputs.START1 /\ new.SVON = 1 ->
            IF motion = None THEN {new.SEL_NO} ELSE {motion, new.SEL_NO}
      [] OTHER -> {motion}

\* send_command_and_wait_for_response: whether it was answered makes no difference.
SendCommand(t) ==
    /\ At(t, "set") /\ Continue(t, Tail(todo[t]))
    /\ \/ LET new == set_bit_status(Head(todo[t]).bit, Head(todo[t]).value)
          IN  inputs' = new /\ motion' \in Moves(new) /\ UNCHANGED history
       \/ /\ history' = [r \in Requests |-> IF r = t /\ Uncrossed(r) THEN "lost" ELSE history[r]]
          /\ UNCHANGED <<inputs, motion>>
    /\ UNCHANGED <<program, monitoring_active, motion_thread, commands>>

\* Mutant of Watching: the loop does not look at monitoring_active.
Watching_Always == TRUE

Watching == monitoring_active

\* What the parser makes of the bytes that are there.
response_parser == {"none", "mixed", IF motion = None THEN "MEND" ELSE "moving"}

\* The loop of examples, whose send_servo_command returns nothing.
monitor_end_status_of_examples(t) == Continue(t, <<Do("monitor")>> \o Tail(todo[t]))

monitor_end_status(t) ==
    /\ \/ /\ At(t, "monitor")
          /\ Continue(t, (IF Watching THEN <<Do("read")>> ELSE <<>>) \o Tail(todo[t]))
       \/ /\ At(t, "read") /\ program = "examples" /\ monitor_end_status_of_examples(t)
       \/ /\ At(t, "read") /\ program # "examples"
          /\ \E answer \in response_parser :
               Continue(t, CASE answer = "MEND" -> Tail(todo[t])
                             [] answer = "mixed" -> <<>> \* the parser raises
                             [] OTHER -> <<Do("monitor")>> \o Tail(todo[t]))
    /\ UNCHANGED <<program, inputs, motion, monitoring_active, motion_thread, commands, history>>

SetMonitoring(r) ==
    /\ \E op \in {"activate", "deactivate"} : At(r, op) /\ monitoring_active' = (op = "activate")
    /\ Continue(r, Tail(todo[r]))
    /\ UNCHANGED <<program, inputs, motion, motion_thread, commands, history>>

\* A start stops the sequence that runs, and with it what it has just activated.
StopRunning(r) ==
    /\ At(r, "stop_running")
    /\ Continue(r, (IF Running THEN stop_motion_sequence ELSE <<>>) \o Tail(todo[r]))
    /\ history' = [history EXCEPT ![r] = IF Running /\ @ = "clean" THEN "restart" ELSE @]
    /\ UNCHANGED <<program, inputs, motion, monitoring_active, motion_thread, commands>>

\* Mutant of Joined: the stop does not wait for the thread.
Joined_AtOnce(w) == TRUE

Joined(w) == ~Alive(w)

\* The thread to join is the one that is there now.
Join(r) ==
    /\ \/ /\ At(r, "join")
          /\ Continue(r, (IF motion_thread = None THEN <<>> ELSE <<[op |-> "wait", thread |-> motion_thread]>>)
                            \o Tail(todo[r]))
       \/ At(r, "wait") /\ Joined(Head(todo[r]).thread) /\ Continue(r, Tail(todo[r]))
    /\ UNCHANGED <<program, inputs, motion, monitoring_active, motion_thread, commands, history>>

Spawn(r) ==
    /\ At(r, "spawn")
    /\ LET w == IF motion_thread = None THEN 1 ELSE motion_thread + 1
       IN  /\ motion_thread' = w
           /\ todo' = [todo EXCEPT ![r] = Tail(@), ![w] = <<Do("loop")>>]
    /\ asked' = [asked EXCEPT ![r] = None]
    /\ UNCHANGED <<program, inputs, motion, monitoring_active, commands, history>>

execute_motion_sequence_thread(w) ==
    /\ At(w, "loop")
    /\ Continue(w, IF ~monitoring_active THEN <<>>
                    ELSE (IF program = "examples" THEN execute_motion_start_sequence_of_examples
                                                  ELSE execute_motion_start_sequence) \o <<Do("loop")>>)
    /\ UNCHANGED <<program, inputs, motion, monitoring_active, motion_thread, commands, history>>

Arrive ==
    /\ motion # None /\ motion' = None
    /\ UNCHANGED <<program, inputs, monitoring_active, motion_thread, todo, asked, commands, history>>

Step(t) ==
    \/ SendCommand(t) \/ monitor_end_status(t)
    \/ t \in Requests /\ (SetMonitoring(t) \/ StopRunning(t) \/ Join(t) \/ Spawn(t))
    \/ t \in Workers /\ execute_motion_sequence_thread(t)

Next ==
    \/ \E r \in Requests, action \in Offered : Begin(r, action)
    \/ \E t \in Threads : Step(t)
    \/ Arrive

Spec == Init /\ [][Next]_vars /\ \A t \in Threads : WF_vars(Step(t))

-----------------------------------------------------------------------------
Sequencing == \E w \in Workers : Alive(w)

HomeSelected == inputs.SEL_NO = 1 /\ inputs.START1 = 1

\* A start that finds no sequence running leaves one that goes on; one that finds a
\* sequence running leaves what a stop leaves, and a thread that ends at its first look.
Effect(r, action) ==
    CASE action = "start" /\ history[r] = "clean" ->
            Running /\ monitoring_active /\ (program = "package" => inputs.SVON = 1)
      [] action = "start" /\ history[r] = "restart" ->
            /\ \A w \in Workers : Alive(w) => todo[w] = <<Do("loop")>>
            /\ ~monitoring_active /\ HomeSelected
      [] action = "stop" ->
            /\ ~Sequencing /\ ~monitoring_active
            /\ HomeSelected /\ (program = "examples" => inputs.SVON = 0)
      [] action = "motionStart" -> ~Sequencing => inputs.START1 = 1

\* A request that is not crossed by another, and loses no frame, has the effect it is named
\* for, but for a start that finds a sequence running ("restart"): that one ends it and starts
\* none, though the page answers that it has (servo_communication/app.py:92).  In
\* particular nothing of the sequence is left running when a stop answers, and the last
\* point it selected was not overwritten by the sequence.
SequenceCommandsTakeEffect ==
    [][\A r \in Requests, action \in Offered :
         asked[r] = action /\ asked'[r] = None /\ Uncrossed(r)' => Effect(r, action)']_vars

\* A request is answered, whatever the drive answers and however long the motion takes:
\* the loop a stop waits for looks at monitoring_active.
SequenceRequestsReturn ==
    \A r \in Requests : asked[r] # None ~> asked[r] = None \/ history[r] = "crossed"
=============================================================================
