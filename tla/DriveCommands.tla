--------------------------- MODULE DriveCommands ---------------------------
(***************************************************************************)
(* The commands as the frames they send.  A command of the web page, of    *)
(* OSC or of Art-Net is a sequence of write frames whose answers nobody    *)
(* looks at; what the drive makes of one depends on those before it.       *)
(*                                                                         *)
(* Not here: the direction guard of JOG (JogControl), the arithmetic of a  *)
(* move (PositionMove), the poll thread itself (ReadingSession).           *)
(***************************************************************************)
EXTENDS TestModeDrive

CONSTANTS
    web, input,     \* the web page (serialised by hardware_lock), OSC or Art-Net
    Targets,        \* moves: [low, high (the words of the pulses), speed, cw]
    MAX_COMMANDS    \* bound

VARIABLES
    steps,          \* what each command under way has still to do
    asked,          \* the command of each thread, or None
    alarm_code,     \* /alarm/clear: what its last read said, "clear", "active" or None
    reading_active, \* the keep-alive session
    auto_stop,      \* its kind: "no" (JOG), or "still" or "moved" (_motion_seen)
    commands,       \* bound
    clean,          \* history: since it began nothing was lost, nobody interfered
    armed           \* history: the target of a clean "enablePosMode", still valid

session == <<reading_active, auto_stop>>
vars == <<steps, asked, alarm_code, session, drive, commands, clean, armed>>

Threads == {web, input}
Speeds == {target.speed : target \in Targets}

-----------------------------------------------------------------------------
(* The frames of each operation of the controller. *)

write_PD_16 == <<W("sdi", TRUE)>>
clear_alarm_12 == <<W("itst", "released")>>
servo_on == <<W("itst", "on")>>
servo_off == <<W("itst", "off")>>
Enable_Position_Mode(enable) == <<W("mode", IF enable THEN 4 ELSE 0)>>

config_move(target) ==
    <<W("speed", target.speed), W("low", target.low), W("high", target.high)>>

\* The keep-alive is there before the trigger.
pos_step_motion_test(cw) == <<Do("start"), W("trigger", cw)>>

\* Mutant of Execute_positioning: the mode is entered whatever the servo does.
Execute_positioning_ServoStaysOn(target) ==
    Enable_Position_Mode(TRUE) \o config_move(target) \o pos_step_motion_test(target.cw)

\* _execute_positioning: PD25 first, which switches the servo off.
Execute_positioning(target) ==
    clear_alarm_12 \o Enable_Position_Mode(TRUE) \o config_move(target)
        \o pos_step_motion_test(target.cw)

enable_speed_ctrl(rpm, enable) ==
    IF enable THEN clear_alarm_12 \o <<W("mode", 3), W("speed", rpm), Do("start_jog")>>
              ELSE <<W("mode", 0), Do("stop")>>

-----------------------------------------------------------------------------
(* The commands: of the page (/action, /alarm/clear) and of the input. *)

Plain == {"servoOn", "servoOff", "cancel", "alarmClear", "alarm12Clear", "refused"}
Commands ==
    [name : Plain] \union [name : {"goto", "enablePosMode"}, target : Targets]
        \union [name : {"posTestStart"}, cw : BOOLEAN]
        \union [name : {"speedCtrl"}, rpm : Speeds, enable : BOOLEAN]

\* handle_action, after write_PD_16_Enable_DI_Control.
ActionSteps(c) ==
    CASE c.name = "servoOn" -> clear_alarm_12 \o servo_on
      [] c.name = "servoOff" -> servo_off
      [] c.name = "enablePosMode" ->
            clear_alarm_12 \o Enable_Position_Mode(TRUE) \o config_move(c.target)
                \o <<Do("start")>>
      [] c.name = "posTestStart" -> pos_step_motion_test(c.cw)
      [] c.name = "goto" -> Execute_positioning(c.target)
      [] c.name = "speedCtrl" -> enable_speed_ctrl(c.rpm, c.enable)
      [] c.name = "cancel" -> <<Do("stop")>> \o Enable_Position_Mode(FALSE)
      [] c.name = "refused" -> <<>>

\* /alarm/clear: PD16 and PD25, then 0x0130 if the alarm is still there.
AlarmClearSteps ==
    <<Do("read_alarm"), Do("need")>> \o write_PD_16 \o clear_alarm_12
        \o <<Do("read_alarm"), Do("fallback")>>

FallbackSteps == <<W("alarm", 0), Do("read_alarm")>>

WebSteps(c) ==
    IF c.name = "alarmClear" THEN AlarmClearSteps ELSE write_PD_16 \o ActionSteps(c)

\* The handlers of OSC and Art-Net call the controller themselves.
InputSteps(c) ==
    CASE c.name = "servoOn" -> servo_on
      [] c.name = "alarm12Clear" -> clear_alarm_12
      [] OTHER -> ActionSteps(c)

Offered(t) ==
    IF t = web THEN {c \in Commands : c.name # "alarm12Clear" /\ (c.name = "speedCtrl" => c.enable)}
    ELSE {c \in Commands : c.name \notin {"alarmClear", "enablePosMode", "posTestStart", "refused"}}

-----------------------------------------------------------------------------
(* The drive. *)

Init ==
    /\ DriveInit
    /\ steps = [t \in Threads |-> <<>>] /\ asked = [t \in Threads |-> None]
    /\ alarm_code = None
    /\ reading_active = FALSE /\ auto_stop = "still"
    /\ commands = 0 /\ clean = [t \in Threads |-> FALSE] /\ armed = None

Arrive ==
    /\ Arrives
    /\ UNCHANGED <<steps, asked, alarm_code, session, commands, clean, armed>>

\* The poll loop sees the motion, and later stillness.
AutoStop ==
    /\ reading_active
    /\ \/ /\ auto_stop = "still" /\ motion # None
          /\ auto_stop' = "moved"
          /\ UNCHANGED reading_active
       \/ /\ auto_stop = "moved" /\ motion = None
          /\ reading_active' = FALSE
          /\ UNCHANGED auto_stop
    /\ UNCHANGED <<steps, asked, alarm_code, drive, commands, clean, armed>>

\* Nothing is sent for a second.
Timeout ==
    /\ ~reading_active /\ \A t \in Threads : steps[t] = <<>>
    /\ Leaves /\ armed' = None
    /\ UNCHANGED <<steps, asked, alarm_code, session, commands, clean>>

Fault ==
    /\ Fails
    /\ clean' = [t \in Threads |-> FALSE] /\ armed' = None
    /\ UNCHANGED <<steps, asked, alarm_code, session, commands>>

-----------------------------------------------------------------------------
(* A command, step by step. *)

Begin(t, c) ==
    /\ asked[t] = None /\ commands < MAX_COMMANDS /\ commands' = commands + 1
    /\ steps' = [steps EXCEPT ![t] = IF t = web THEN WebSteps(c) ELSE InputSteps(c)]
    /\ asked' = [asked EXCEPT ![t] = c]
    /\ clean' = [o \in Threads |-> o = t /\ motion = None /\ \A p \in Threads : steps[p] = <<>>]
    /\ alarm_code' = IF t = web THEN None ELSE alarm_code
    /\ UNCHANGED <<session, drive, armed>>

\* Thread t goes on with `rest`.
Continue(t, rest) ==
    /\ steps' = [steps EXCEPT ![t] = rest]
    /\ asked' = [asked EXCEPT ![t] = IF rest = <<>> THEN None ELSE @]

\* A frame, which the line may lose.
Write(t) ==
    /\ steps[t] # <<>> /\ Head(steps[t]).op = "write"
    /\ Continue(t, Tail(steps[t]))
    /\ \/ /\ Execute(Head(steps[t]).frame[1], Head(steps[t]).frame[2])
          /\ UNCHANGED clean
       \/ /\ clean' = [clean EXCEPT ![t] = FALSE]
          /\ UNCHANGED drive
    /\ armed' = IF clean'[t] /\ asked[t].name = "posTestStart" THEN armed ELSE None
    /\ UNCHANGED <<alarm_code, session, commands>>

\* start_continuous_reading and stop_continuous_reading.
Session(t) ==
    /\ steps[t] # <<>> /\ Head(steps[t]).op \in {"start", "start_jog", "stop"}
    /\ Continue(t, Tail(steps[t]))
    /\ reading_active' = (Head(steps[t]).op # "stop")
    /\ auto_stop' = CASE Head(steps[t]).op = "start" -> "still"
                       [] Head(steps[t]).op = "start_jog" -> "no"
                       [] OTHER -> auto_stop
    /\ armed' = IF asked[t].name = "enablePosMode" /\ clean[t] /\ mode = 4 THEN asked[t].target
                ELSE IF asked[t].name = "posTestStart" THEN armed ELSE None
    /\ UNCHANGED <<alarm_code, drive, commands, clean>>

\* The alarm reads of /alarm/clear, and what it makes of them.
Alarms(t) ==
    /\ steps[t] # <<>>
    /\ \/ /\ Head(steps[t]).op = "read_alarm"
          /\ Continue(t, Tail(steps[t]))
          /\ \/ alarm_code' = (IF Alarm THEN "active" ELSE "clear") /\ UNCHANGED clean
             \/ alarm_code' = None /\ clean' = [clean EXCEPT ![t] = FALSE]
       \/ /\ Head(steps[t]).op = "need"
          /\ Continue(t, IF alarm_code = None THEN <<>> ELSE Tail(steps[t]))
          /\ UNCHANGED <<alarm_code, clean>>
       \/ /\ Head(steps[t]).op = "fallback"
          /\ Continue(t, IF alarm_code = "clear" THEN <<>> ELSE FallbackSteps)
          /\ UNCHANGED <<alarm_code, clean>>
    /\ UNCHANGED <<session, drive, commands, armed>>

Next ==
    \/ \E t \in Threads :
         \/ \E c \in Offered(t) : Begin(t, c)
         \/ Write(t) \/ Session(t) \/ Alarms(t)
    \/ Arrive \/ AutoStop \/ Timeout \/ Fault

Spec == Init /\ [][Next]_vars

-----------------------------------------------------------------------------
\* What the drive and the session are after the last step of a command whose frames
\* all arrived and which no other command crossed.
Effect(c) ==
    CASE c.name = "servoOn" -> sdi => ServoOn
      [] c.name = "servoOff" -> sdi => ~ServoOn /\ mode = 0
      [] c.name = "goto" -> ~fault => motion = c.target /\ reading_active /\ auto_stop # "no"
      [] c.name = "enablePosMode" -> ~fault => mode = 4 /\ reading_active
      [] c.name = "posTestStart" ->
            armed # None => motion = [armed EXCEPT !.cw = c.cw] /\ reading_active
      [] c.name = "speedCtrl" ->
            IF c.enable THEN ~fault => mode = 3 /\ speed = c.rpm /\ reading_active /\ auto_stop = "no"
            ELSE mode = 0 /\ ~reading_active
      [] c.name = "cancel" -> mode = 0 /\ ~reading_active /\ motion = None
      [] c.name = "alarmClear" -> ~Alarm /\ alarm_code = "clear"
      [] c.name = "alarm12Clear" -> ~ServoOn /\ (Alarm => fault)
      [] c.name = "refused" -> sdi \* PD16 is written before the action is looked at

\* A command has the effect it is named for, whatever was commanded before it, on a
\* line that loses none of its frames: the drive moves by the pulses and at the
\* speed of this very request, is in the mode asked for with the keep-alive that
\* mode needs, and its alarm is gone.
CommandsTakeEffect ==
    [][\A t \in Threads, c \in Commands :
         asked[t] = c /\ asked'[t] = None /\ clean'[t] => Effect(c)']_vars
=============================================================================
