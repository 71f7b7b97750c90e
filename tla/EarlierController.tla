------------------------- MODULE EarlierController -------------------------
(***************************************************************************)
(* The controllers of the two earlier packages: servo_comm_shihlin with    *)
(* its web page and OSC server ("app"), and servo_comm_shihlin_50W, once   *)
(* as its web page and once as its OSC script.  The reading session sits   *)
(* under a lock that is not reentrant; a command is a sequence of frames   *)
(* nobody confirms; a move is the difference to an angle that is read from *)
(* the drive ("app") or remembered (50W).                                  *)
(*                                                                         *)
(* Not here: the two words of the pulses and their arithmetic, revolutions *)
(* of the encoder (EncoderPulseTracker), the wait of initial_abs_home.     *)
(***************************************************************************)
EXTENDS TestModeDrive

CONSTANTS
    web, osc,       \* two threads that call the controller
    Angles,         \* targets of moves, from home
    HALF_TURN,      \* 180 degrees
    COMPLETED,      \* completed readings before the loop stops itself (6)
    MAX_COMMANDS    \* bound

VARIABLES
    package,        \* "app", "50W app" or "50W osc"
    steps, asked,   \* each thread's command, and what it has still to do
    lock,           \* ServoController.lock: a thread or None
    reading_active, \* the session, ...
    stop_event,     \* ... read_thread_stop_event, ...
    poll,           \* ... its thread: "none", "read", or "stop" once it stops itself
    completed_cnt,
    shaft,          \* where the motor is
    home,           \* abs_home_pos, ...
    saved_home,     \* ... the same in servo_config.json
    home_set_since_start,
    current_encoder, \* "app": what it takes for the position of the shaft
    current_angle,  \* what the controller takes for the angle
    set_point,      \* SET POINT, or None
    path,           \* PF82
    alarm_code,     \* /alarm/clear: its last read
    commands,       \* bound
    clean,          \* history: nothing lost, nobody interfered, the angle known
    collided        \* history: a lock cycle of the kinds below was entered

caller == <<steps, asked>>
session == <<lock, reading_active, stop_event, poll, completed_cnt>>
home_vars == <<home, saved_home, home_set_since_start>>
position == <<shaft, home_vars, current_encoder, current_angle, set_point>>
vars == <<package, caller, session, position, drive, path, alarm_code, commands, clean, collided>>

Threads == {web, osc}
Packages == {"app", "50W app", "50W osc"}
Position == shaft - home

-----------------------------------------------------------------------------
(* The frames of each operation. *)

write_PD_16 == <<W("sdi", TRUE)>>
clear_alarm_12 == <<W("itst", "released")>>
servo_on == <<W("itst", "on")>>
servo_off == <<W("itst", "off")>>
Enable_Position_Mode(enable) == <<W("mode", IF enable THEN 4 ELSE 0)>>
Enable_JOG_Mode == <<W("mode", 3)>>
config_move(pulses) == <<W("speed", 1), W("low", pulses)>>
pos_step_motion_test(cw) == <<Do("start"), W("trigger", cw)>>
speed_ctrl_action(value) == <<W("jog", value)>>
write_PF82(value) == <<W("path", value)>>

\* The trigger comes after start_continuous_reading, and the servo is left as it is.
Execute_positioning(diff) ==
    Enable_Position_Mode(TRUE) \o config_move(IF diff < 0 THEN -diff ELSE diff)
        \o pos_step_motion_test(diff > 0)

enable_speed_ctrl == Enable_JOG_Mode \o <<W("speed", 1), Do("start")>>

\* 50W: "enable" leaves the test mode, and its opposite enters the positioning mode.
enable_speed_ctrl_50W(enable) ==
    (IF enable THEN Enable_Position_Mode(FALSE) ELSE <<W("speed", 1)>> \o Enable_Position_Mode(TRUE))
        \o <<Do("start")>>

Aim(target) == <<[op |-> "aim", target |-> target]>>

-----------------------------------------------------------------------------
(* The commands. *)

Servo == [name : {"servoOn", "servoOff", "clear"}]
Moves == [name : {"goto"}, target : Angles]
Jogs == [name : {"motion"}, value : 0..2]
OfPage == [name : {"enablePosMode", "cancel", "jog", "refused"}] \union [name : {"posTestStart"}, cw : BOOLEAN]

\* app.py: handle_action, after write_PD_16_Enable_DI_Control, and /alarm/clear.
PageCommands ==
    Servo \union Jogs \union OfPage
        \union [name : {"record", "gotoSetPoint", "home", "setHome", "alarmClear"}]

AlarmClearSteps ==
    <<Do("read_alarm"), Do("need")>> \o write_PD_16 \o clear_alarm_12
        \o <<Do("read_alarm"), Do("fallback")>>

PageSteps(c) ==
    CASE c.name = "servoOn" -> clear_alarm_12 \o servo_on
      [] c.name = "servoOff" -> servo_off
      [] c.name = "clear" -> clear_alarm_12
      [] c.name = "enablePosMode" -> Enable_Position_Mode(TRUE) \o config_move(1) \o <<Do("start")>>
      [] c.name = "cancel" -> <<Do("stop")>> \o Enable_Position_Mode(FALSE)
      [] c.name = "posTestStart" -> pos_step_motion_test(c.cw)
      [] c.name = "jog" -> enable_speed_ctrl
      [] c.name = "motion" -> speed_ctrl_action(c.value)
      [] c.name = "home" -> Aim(0)
      [] c.name = "gotoSetPoint" -> IF set_point = None THEN <<>> ELSE Aim(set_point)
      [] c.name = "record" -> <<Do("record")>>
      [] c.name = "setHome" -> <<Do("set_home_unless_reading")>>
      [] c.name = "refused" -> <<>>

\* osc_server.py.
OscCommands ==
    Servo \union Moves \union [name : {"backHome", "setHome"}] \union [name : {"path"}, value : {0, 2}]

OscSteps(c) ==
    CASE c.name = "servoOn" -> servo_on
      [] c.name = "servoOff" -> servo_off
      [] c.name = "clear" -> clear_alarm_12
      [] c.name = "goto" -> Aim(c.target)
      [] c.name = "backHome" -> <<Do("aim_home")>>
      [] c.name = "path" -> write_PF82(c.value)
      [] c.name = "setHome" -> <<Do("set_home")>>

\* 50W, app.py: what differs from PageSteps.  enablePosMode fails before the session.
PageCommands50W == Servo \union Moves \union Jogs \union OfPage

PageSteps50W(c) ==
    CASE c.name = "enablePosMode" -> Enable_Position_Mode(TRUE) \o config_move(1)
      [] c.name = "jog" -> enable_speed_ctrl_50W(TRUE)
      [] c.name = "goto" -> Aim(c.target)
      [] OTHER -> PageSteps(c)

\* 50W, osc_2.py: what differs from OscSteps.
OscCommands50W ==
    Servo \union Moves \union Jogs \union [name : {"backHome", "setHome", "cancelLoop"}]
        \union [name : {"jog"}, enable : BOOLEAN]

OscSteps50W(c) ==
    CASE c.name = "jog" -> enable_speed_ctrl_50W(c.enable)
      [] c.name = "motion" -> speed_ctrl_action(c.value)
      [] c.name = "cancelLoop" -> <<Do("cancel")>>
      [] OTHER -> OscSteps(c)

Offered(t) ==
    CASE package = "app" -> IF t = web THEN PageCommands ELSE OscCommands
      [] package = "50W app" -> PageCommands50W
      [] package = "50W osc" -> OscCommands50W

Steps(t, c) ==
    CASE c.name = "alarmClear" -> AlarmClearSteps
      [] package = "app" /\ t = web -> write_PD_16 \o PageSteps(c)
      [] package = "app" /\ t = osc -> OscSteps(c)
      [] package = "50W app" -> write_PD_16 \o PageSteps50W(c)
      [] package = "50W osc" -> OscSteps50W(c)

-----------------------------------------------------------------------------
\* The inputs and the motor are as an earlier process left them; osc_2.py writes PD16 as
\* it starts.
Init ==
    /\ package \in Packages /\ sdi \in BOOLEAN /\ itst \in {"off", "released", "on"}
    /\ package = "50W osc" => sdi
    /\ mode = 0 /\ speed = 0 /\ low = 0 /\ high = 0 /\ motion = None /\ fault = FALSE
    /\ steps = [t \in Threads |-> <<>>] /\ asked = [t \in Threads |-> None]
    /\ lock = None /\ reading_active = FALSE /\ stop_event = FALSE
    /\ poll = "none" /\ completed_cnt = 0
    /\ shaft \in Angles /\ home = 0 /\ saved_home = 0 /\ home_set_since_start = FALSE
    /\ current_encoder = 0 /\ current_angle = 0 /\ set_point = None
    /\ path = 1 /\ alarm_code = None /\ commands = 0
    /\ clean = [t \in Threads |-> FALSE] /\ collided = FALSE

\* A command begins.  The page of "app" sends one at a time, and so does each thread here.
Begin(t, c) ==
    /\ asked[t] = None /\ commands < MAX_COMMANDS /\ commands' = commands + 1
    /\ steps' = [steps EXCEPT ![t] = Steps(t, c)]
    /\ asked' = [asked EXCEPT ![t] = IF steps'[t] = <<>> THEN None ELSE c]
    /\ clean' = [o \in Threads |-> o = t /\ motion = None /\ \A p \in Threads : steps[p] = <<>>]
    /\ alarm_code' = None
    /\ UNCHANGED <<package, session, position, drive, path, collided>>

At(t, op) == steps[t] # <<>> /\ Head(steps[t]).op = op

Continue(t, rest) ==
    /\ steps' = [steps EXCEPT ![t] = rest]
    /\ asked' = [asked EXCEPT ![t] = IF rest = <<>> THEN None ELSE @]

Spoil(t) == clean' = [clean EXCEPT ![t] = FALSE]

\* A frame, which may be lost.
Write(t) ==
    /\ At(t, "write")
    /\ Continue(t, Tail(steps[t]))
    /\ LET frame == Head(steps[t]).frame
       IN  \/ /\ Execute(frame[1], frame[2])
              /\ path' = IF frame[1] = "path"
                         THEN IF package = "app" THEN frame[2] ELSE 1 ELSE path
              /\ UNCHANGED clean
           \/ Spoil(t) /\ UNCHANGED <<drive, path>>
    /\ UNCHANGED <<package, session, position, alarm_code, commands, collided>>

\* start_continuous_reading: with a session it calls stop_continuous_reading, which
\* takes the lock this thread already holds.
StartReading(t) ==
    /\ At(t, "start") /\ lock = None
    /\ IF reading_active
       THEN /\ lock' = t /\ collided' = TRUE
            /\ Continue(t, <<Do("relock")>> \o Tail(steps[t]))
            /\ UNCHANGED <<reading_active, stop_event, poll>>
       ELSE /\ reading_active' = TRUE /\ stop_event' = FALSE /\ poll' = "read"
            /\ Continue(t, Tail(steps[t]))
            /\ UNCHANGED <<lock, collided>>
    /\ UNCHANGED <<package, completed_cnt, position, drive, path, alarm_code, commands, clean>>

\* stop_continuous_reading and cancel_continuous_reading, up to the join.
StopReading(t) ==
    /\ \E op \in {"stop", "cancel"} : At(t, op)
    /\ lock = None
    /\ IF reading_active
       THEN /\ lock' = t /\ reading_active' = FALSE /\ stop_event' = TRUE
            /\ collided' = (collided \/ poll = "stop")
            /\ Continue(t, <<Do(IF At(t, "stop") THEN "join" ELSE "join_and_read")>> \o Tail(steps[t]))
       ELSE /\ Continue(t, Tail(steps[t]))
            /\ UNCHANGED <<lock, reading_active, stop_event, collided>>
    /\ UNCHANGED <<package, poll, completed_cnt, position, drive, path, alarm_code, commands, clean>>

\* ... and after it.  cancel_continuous_reading reads the encoder once more.
Joined(t) ==
    /\ \E op \in {"join", "join_and_read"} : At(t, op)
    /\ poll = "none" /\ lock' = None /\ completed_cnt' = 0
    /\ Continue(t, Tail(steps[t]))
    /\ current_angle' \in {current_angle} \union (IF At(t, "join") THEN {} ELSE {Position})
    /\ UNCHANGED <<package, reading_active, stop_event, poll, shaft, home_vars, current_encoder,
                   set_point, drive, path, alarm_code, commands, clean, collided>>

\* A reading is kept.
EncoderRead == current_encoder' = IF package = "app" THEN shaft ELSE current_encoder

\* One turn of _read_continuously; PF82 may read as completed at any time.
PollRead(completed) ==
    /\ poll = "read" /\ ~stop_event
    /\ current_angle' = Position /\ EncoderRead
    /\ completed_cnt' = IF completed THEN completed_cnt + 1 ELSE completed_cnt
    /\ poll' = IF completed /\ completed_cnt + 1 > COMPLETED THEN "stop" ELSE "read"
    /\ UNCHANGED <<package, caller, lock, reading_active, stop_event, shaft, home_vars, set_point, drive,
                   path, alarm_code, commands, clean, collided>>

\* (keep_running is cleared only where the process ends or has no controller.)
PollEnds ==
    /\ poll = "read" /\ stop_event /\ poll' = "none"
    /\ UNCHANGED <<package, caller, lock, reading_active, stop_event, completed_cnt, position, drive,
                   path, alarm_code, commands, clean, collided>>

\* Mutant of PollStops: it joins whatever thread the session has, itself included.
PollStops_Joins ==
    /\ poll = "stop" /\ lock = None /\ poll' = "joining" /\ lock' = "poll"
    /\ reading_active' = FALSE /\ stop_event' = TRUE
    /\ UNCHANGED <<package, caller, completed_cnt, position, drive, path, alarm_code, commands, clean, collided>>

\* The loop calls stop_continuous_reading itself, which then joins nobody.
PollStops ==
    /\ poll = "stop" /\ lock = None /\ poll' = "none"
    /\ IF reading_active
       THEN reading_active' = FALSE /\ stop_event' = TRUE /\ completed_cnt' = 0
       ELSE UNCHANGED <<reading_active, stop_event, completed_cnt>>
    /\ UNCHANGED <<package, caller, lock, position, drive, path, alarm_code, commands, clean, collided>>

\* Mutant of From: the angle of the last reading, not that of the drive.
From_Remembered == current_angle

\* post_step_motion_by: the angle a move starts from.
From == IF package = "app" THEN Position ELSE current_angle

AimAt(t) ==
    /\ At(t, "aim")
    /\ \/ LET target == Head(steps[t]).target
          IN  /\ Continue(t, IF target = From THEN <<>> ELSE Execute_positioning(target - From))
              /\ current_angle' = (IF package = "app" THEN Position ELSE target) /\ EncoderRead
              /\ clean' = [clean EXCEPT ![t] = @ /\ (package = "app" \/ current_angle = Position)]
       \/ /\ package = "app" \* the position cannot be read
          /\ Continue(t, <<>>) /\ Spoil(t)
          /\ UNCHANGED <<current_encoder, current_angle>>
    /\ UNCHANGED <<package, session, shaft, home_vars, set_point, drive, path, alarm_code, commands, collided>>

\* pos_step_motion_by(abs_home_pos); 50W refuses half a turn, in one direction.
AimHome(t) ==
    /\ At(t, "aim_home")
    /\ LET refused == package # "app" /\ -Position >= HALF_TURN
       IN  \/ /\ ~refused
              /\ Continue(t, Execute_positioning(-Position))
              /\ UNCHANGED clean
           \/ Continue(t, <<>>) /\ Spoil(t)
    /\ UNCHANGED <<package, session, position, drive, path, alarm_code, commands, collided>>

\* set_home_position, up to its delay: the reading becomes the angle 0; abs_home_pos stays
\* as it was.  50W does no more than zero its angle.
SetHome(t) ==
    /\ \E op \in {"set_home", "set_home_unless_reading"} : At(t, op)
    /\ \/ /\ At(t, "set_home") \/ ~reading_active
          /\ Continue(t, (IF package = "app" THEN <<Do("save_home")>> ELSE <<>>) \o Tail(steps[t]))
          /\ current_angle' = 0 /\ EncoderRead
          /\ UNCHANGED clean
       \/ /\ package = "app" /\ Spoil(t)
          /\ Continue(t, Tail(steps[t]))
          /\ UNCHANGED <<current_encoder, current_angle>>
    /\ UNCHANGED <<package, session, shaft, home_vars, set_point, drive, path, alarm_code, commands,
                   collided>>

\* ... and after it: what is saved is current_encoder as the readers have left it.
SaveHome(t) ==
    /\ At(t, "save_home")
    /\ Continue(t, Tail(steps[t]))
    /\ saved_home' = current_encoder /\ home_set_since_start' = TRUE
    /\ UNCHANGED <<package, session, shaft, home, current_encoder, current_angle, set_point, drive,
                   path, alarm_code, commands, clean, collided>>

\* record_set_point: the angle read now, saved.
Record(t) ==
    /\ At(t, "record")
    /\ Continue(t, Tail(steps[t]))
    /\ \/ /\ set_point' = Position /\ current_angle' = Position /\ EncoderRead
          /\ UNCHANGED clean
       \/ Spoil(t) /\ UNCHANGED <<set_point, current_encoder, current_angle>>
    /\ UNCHANGED <<package, session, shaft, home_vars, drive, path, alarm_code, commands, collided>>

\* The alarm reads of /alarm/clear, and what it makes of them.
Alarms(t) ==
    /\ \/ /\ At(t, "read_alarm")
          /\ Continue(t, Tail(steps[t]))
          /\ \/ alarm_code' = (IF Alarm THEN "active" ELSE "clear") /\ UNCHANGED clean
             \/ alarm_code' = None /\ Spoil(t)
       \/ /\ At(t, "need")
          /\ Continue(t, IF alarm_code = None THEN <<>> ELSE Tail(steps[t]))
          /\ UNCHANGED <<alarm_code, clean>>
       \/ /\ At(t, "fallback")
          /\ Continue(t, IF alarm_code = "clear" THEN <<>> ELSE <<W("alarm", 0), Do("read_alarm")>>)
          /\ UNCHANGED <<alarm_code, clean>>
    /\ UNCHANGED <<package, session, position, drive, path, commands, collided>>

-----------------------------------------------------------------------------
(* The motor, and the process. *)

Displacement == IF motion = None \/ "jog" \in DOMAIN motion THEN 0
                ELSE IF motion.cw THEN motion.low ELSE -motion.low

Arrive ==
    /\ Arrives
    /\ shaft' = shaft + Displacement
    /\ UNCHANGED <<package, caller, session, home_vars, current_encoder, current_angle, set_point,
                   path, alarm_code, commands, clean, collided>>

Timeout ==
    /\ ~reading_active /\ \A t \in Threads : steps[t] = <<>>
    /\ Leaves
    /\ UNCHANGED <<package, caller, session, position, path, alarm_code, commands, clean, collided>>

Fault ==
    /\ Fails /\ clean' = [t \in Threads |-> FALSE]
    /\ UNCHANGED <<package, caller, session, position, path, alarm_code, commands, collided>>

\* The process is restarted: what it saved is read back, the angle is 0 until it is read.
Restart ==
    /\ steps' = [t \in Threads |-> <<>>] /\ asked' = [t \in Threads |-> None]
    /\ lock' = None /\ reading_active' = FALSE /\ stop_event' = FALSE
    /\ poll' = "none" /\ completed_cnt' = 0 /\ current_encoder' = 0 /\ current_angle' = 0
    /\ home' = saved_home /\ home_set_since_start' = FALSE
    /\ clean' = [t \in Threads |-> FALSE] /\ collided' = FALSE /\ alarm_code' = None
    /\ UNCHANGED <<package, shaft, saved_home, set_point, drive, path, commands>>

Step(t) ==
    \/ Write(t) \/ StartReading(t) \/ StopReading(t) \/ Joined(t)
    \/ AimAt(t) \/ AimHome(t) \/ SetHome(t) \/ SaveHome(t) \/ Record(t) \/ Alarms(t)

Poll == (\E completed \in BOOLEAN : PollRead(completed)) \/ PollEnds \/ PollStops

Next ==
    \/ \E t \in Threads : Step(t) \/ \E c \in Offered(t) : Begin(t, c)
    \/ Poll \/ Arrive \/ Timeout \/ Fault \/ Restart

Spec == Init /\ [][Next]_vars /\ WF_vars(Poll) /\ \A t \in Threads : WF_vars(Step(t))

-----------------------------------------------------------------------------
Ready == sdi /\ itst = "released" /\ ~fault

\* Measured from the home in use, which is the one on file unless this process has had a
\* SET HOME.
Reaches(angle) ==
    /\ Ready => Position + Displacement = angle
    /\ home_set_since_start \/ home = saved_home

\* What the drive is after the last step of a command; of 50W, where it is as named.
Effect(c) ==
    CASE c.name = "servoOn" -> sdi => ServoOn
      [] c.name = "servoOff" -> sdi => ~ServoOn
      [] c.name = "goto" -> Reaches(c.target)
      [] c.name \in {"home", "backHome"} -> Reaches(0)
      [] c.name = "gotoSetPoint" -> set_point # None => Reaches(set_point)
      [] c.name = "record" -> set_point = Position
      [] c.name = "posTestStart" -> mode = 4 => motion # None
      [] c.name = "enablePosMode" -> Ready => mode = 4 /\ (package = "app" => reading_active)
      [] c.name = "cancel" -> mode = 0 /\ motion = None /\ ~reading_active
      [] c.name = "alarmClear" -> ~Alarm /\ alarm_code = "clear"
      [] package = "app" /\ c.name = "jog" -> Ready => mode = 3 /\ reading_active
      [] package = "app" /\ c.name = "path" -> path = c.value
      [] package = "app" /\ c.name = "setHome" -> saved_home = shaft
      [] OTHER -> TRUE

\* A command of the earlier packages that returns has the effect it is named for, when
\* no frame of it was lost, nothing crossed it and, for a move of 50W, the angle it
\* remembered was that of the drive.  A SET HOME is saved, but counts only from the next start
\* of the process: until then (home_set_since_start) moves are measured from the home that
\* process began with, though the page says (servo_comm_shihlin/app.py:499-500) that the
\* current position becomes 0 degrees.
EarlierCommandsTakeEffect ==
    [][\A t \in Threads, c \in PageCommands \union OscCommands \union PageCommands50W \union OscCommands50W :
         asked[t] = c /\ asked'[t] = None /\ clean'[t] => Effect(c)']_vars

\* A command returns, unless a session was started inside a session or stopped just as
\* its own loop was stopping it: nothing else makes the lock wait for itself.
EarlierCommandsReturn == \A t \in Threads : steps[t] # <<>> ~> steps[t] = <<>> \/ collided
=============================================================================
