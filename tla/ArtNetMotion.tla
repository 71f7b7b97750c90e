---------------------------- MODULE ArtNetMotion ----------------------------
(***************************************************************************)
(* Continuous motion from Art-Net: channels 1 to 3, the loss-of-signal     *)
(* watchdog and the live speed of ArtNetInputServer (artnet_server.py), on *)
(* the ServoController and the drive they command.                         *)
(*                                                                         *)
(* One receive thread does everything, so handling a frame is one step.    *)
(* What makes it hard is that it is edge triggered: a frame repeated 40    *)
(* times a second acts once, so the server must remember what the drive    *)
(* has accepted, forget it when the drive does, and never take a failed    *)
(* call for a done one.  Times appear as flags that an action clears.      *)
(***************************************************************************)
EXTENDS Integers

CONSTANTS
    None,               \* Python's None
    EnableChannels,     \* values of channel 1 that are sent
    DirectionChannels,  \* values of channel 2 that are sent
    MAX_SPEED_RPM,      \* max_speed_rpm
    Outcomes,           \* what may become of a frame to the drive
    Restarts            \* whether the server may be stopped and started again

\* "done": executed and answered.  "unanswered": executed, the answer is missing
\* or damaged.  "lost": it never reached the drive.
AllOutcomes == {"done", "unanswered", "lost"}

ASSUME ChannelsAssumption ==
    /\ EnableChannels \subseteq 0..255 /\ 0 \in EnableChannels
    /\ DirectionChannels \subseteq 0..255
    /\ None \notin 0..255
ASSUME SpeedAssumption == MAX_SPEED_RPM \in Nat \ {0}
ASSUME OutcomesAssumption == Outcomes \subseteq AllOutcomes /\ "done" \in Outcomes
ASSUME RestartsAssumption == Restarts \in BOOLEAN

VARIABLES
    console,                 \* the sender's faders: what the next frame carries
    silent,                  \* no frame for signal_timeout_s
    last_enable_channel,     \* self._last_enable_channel
    last_direction_channel,  \* self._last_direction_channel
    refused_direction,       \* self._refused_direction
    last_cancel_channel,     \* self._last_cancel_channel, 0 or 1
    cancel_latched,          \* self._cancel_latched
    watchdog_tripped,        \* self._watchdog_tripped
    desired_speed,           \* self._desired_speed_rpm
    applied_speed,           \* self._applied_speed_rpm
    direction_wait,          \* a direction failed within DIRECTION_RETRY_INTERVAL_S
    speed_wait,              \* a speed was written within SPEED_UPDATE_MIN_INTERVAL_S
    last_motion_direction,   \* ServoController: the direction it recorded
    reading_active,          \* ServoController: the keep-alive polls
    in_jog,                  \* the drive: in JOG mode
    running,                 \* the drive: what the motor does
    drive_speed,             \* the drive: register 0x0903
    owed_zero,               \* history: a cancel or trip not yet followed by channel 1 = 0
    stop_lost                \* history: the stop of the watchdog's last trip was lost

latches == <<cancel_latched, watchdog_tripped>>
speeds == <<desired_speed, applied_speed>>
server == <<last_enable_channel, last_direction_channel, refused_direction,
            last_cancel_channel, latches, speeds, direction_wait, speed_wait>>
servo == <<last_motion_direction, reading_active, in_jog, running, drive_speed>>
history == <<owed_zero, stop_lost>>
vars == <<console, silent, server, servo, history>>

Frames == [enable : EnableChannels, direction : DirectionChannels, cancel : {0, 1}]

Turns == {"cw", "ccw"}

\* The action_value of a direction channel.
ActionOf(direction) ==
    IF direction = 0 THEN "stop" ELSE IF direction < 128 THEN "ccw" ELSE "cw"

\* max(1, round(enable / 255 * max_speed_rpm))
SpeedOf(enable) ==
    LET rpm == (2 * enable * MAX_SPEED_RPM + 255) \div 510
    IN  IF rpm = 0 THEN 1 ELSE rpm

Speeds == 1..MAX_SPEED_RPM

\* Continuous motion is on as far as the server knows.
Enabled == last_enable_channel \notin {None, 0}

Init ==
    /\ console \in Frames
    /\ silent = FALSE
    /\ last_enable_channel = None
    /\ last_direction_channel = None
    /\ refused_direction = None
    /\ last_cancel_channel = 0
    /\ cancel_latched = FALSE
    /\ watchdog_tripped = FALSE
    /\ desired_speed = None
    /\ applied_speed = None
    /\ direction_wait = FALSE
    /\ speed_wait = FALSE
    /\ last_motion_direction = None
    /\ reading_active = FALSE
    /\ in_jog = FALSE
    /\ running = "stop"
    /\ drive_speed = None
    /\ owed_zero = FALSE
    /\ stop_lost = FALSE

-----------------------------------------------------------------------------
(* What the calls to ServoController do. *)

\* The guard of speed_ctrl_action against a direct reversal.
Refused(action) ==
    /\ action \in Turns /\ last_motion_direction \in Turns
    /\ action # last_motion_direction

\* The frame of speed_ctrl_action on a drive in state (jog, turning); it raises
\* unless answered, and only then records the direction.
SpeedCtrlAction(jog, turning, action, outcome) ==
    /\ running' = IF jog /\ outcome # "lost" THEN action ELSE turning
    /\ last_motion_direction' =
         IF outcome = "done" THEN action ELSE last_motion_direction

\* speed_ctrl_action(0), which the guard never refuses.
StopMotor(outcome) ==
    /\ SpeedCtrlAction(in_jog, running, "stop", outcome)
    /\ UNCHANGED <<reading_active, in_jog, drive_speed>>

\* cancel_continuous_reading: the session ends, then the mode is quit.
CancelReading(outcome) ==
    /\ reading_active' = FALSE
    /\ last_motion_direction' = IF reading_active THEN None ELSE last_motion_direction
    /\ in_jog' = (in_jog /\ outcome = "lost")
    /\ running' = IF outcome = "lost" THEN running ELSE "stop"
    /\ UNCHANGED drive_speed

\* config_speed_0x0903: whether it was answered is not looked at.
WriteSpeed(rpm, outcome) ==
    drive_speed' = IF outcome = "lost" THEN drive_speed ELSE rpm

-----------------------------------------------------------------------------
(* The server. *)

\* Mutant of ResetMotionState: the accepted direction is kept.
ResetMotionState_KeepsDirection ==
    /\ refused_direction' = None
    /\ desired_speed' = None
    /\ applied_speed' = None
    /\ UNCHANGED last_direction_channel

\* _reset_motion_state
ResetMotionState ==
    /\ last_direction_channel' = None
    /\ refused_direction' = None
    /\ desired_speed' = None
    /\ applied_speed' = None

\* Mutant of ApplyDirection: a failed write counts as applied.
ApplyDirection_FailedIsDone(direction, accepted, refused, jog, turning, outcome) ==
    LET action == ActionOf(direction)
    IN  IF direction = accepted \/ direction = refused \/ direction_wait \/ Refused(action)
          THEN /\ last_direction_channel' = accepted
               /\ refused_direction' =
                    IF direction = accepted THEN None
                    ELSE IF direction # refused /\ ~direction_wait THEN direction
                    ELSE refused
               /\ running' = turning
               /\ UNCHANGED <<last_motion_direction, direction_wait>>
          ELSE /\ SpeedCtrlAction(jog, turning, action, outcome)
               /\ last_direction_channel' = direction
               /\ refused_direction' = None
               /\ UNCHANGED direction_wait

\* _apply_direction, when the drive is in state (jog, turning) and the server has
\* `accepted` and `refused` on record.
ApplyDirection(direction, accepted, refused, jog, turning, outcome) ==
    LET action == ActionOf(direction)
        asked == direction # accepted /\ direction # refused /\ ~direction_wait
    IN  \/ \* Nothing new, refused already, or too soon after a failure.
           /\ ~asked
           /\ last_direction_channel' = accepted
           /\ refused_direction' = IF direction = accepted THEN None ELSE refused
           /\ running' = turning
           /\ UNCHANGED <<last_motion_direction, direction_wait>>
        \/ \* A direct reversal.
           /\ asked /\ Refused(action)
           /\ last_direction_channel' = accepted
           /\ refused_direction' = direction
           /\ running' = turning
           /\ UNCHANGED <<last_motion_direction, direction_wait>>
        \/ \* Sent: done, or no usable answer.
           /\ asked /\ ~Refused(action)
           /\ SpeedCtrlAction(jog, turning, action, outcome)
           /\ IF outcome = "done"
                THEN /\ last_direction_channel' = direction
                     /\ refused_direction' = None
                     /\ UNCHANGED direction_wait
                ELSE /\ last_direction_channel' = accepted
                     /\ refused_direction' = refused
                     /\ direction_wait' = TRUE

\* _apply_pending_speed with `desired` on record: at most one write per interval,
\* and a write that was made counts as applied.
ApplyPendingSpeed(desired, outcome) ==
    /\ desired_speed' = desired
    /\ IF desired # None /\ desired # applied_speed /\ ~speed_wait
         THEN /\ WriteSpeed(desired, outcome)
              /\ applied_speed' = desired
              /\ speed_wait' = TRUE
         ELSE UNCHANGED <<drive_speed, applied_speed, speed_wait>>

\* Mutant of Held: only the watchdog holds motion off.
Held_WatchdogOnly == watchdog_tripped

\* Motion is held off until channel 1 has been 0.
Held == watchdog_tripped \/ cancel_latched

\* What every frame does.
Receive ==
    /\ silent' = FALSE
    /\ last_cancel_channel' = console.cancel
    /\ UNCHANGED <<console, stop_lost>>

CancelRises == console.cancel > 0 /\ last_cancel_channel = 0

\* A frame in which channel 3 rises.  Motion that was on or asked for is held
\* off, unless channel 1 is 0 already, in which case this frame re-arms it.
CancelFrame(outcome) ==
    /\ Receive
    /\ CancelRises
    /\ CancelReading(outcome)
    /\ ResetMotionState
    /\ last_enable_channel' = 0
    /\ cancel_latched' = (console.enable # 0)
    /\ watchdog_tripped' = (watchdog_tripped /\ console.enable # 0)
    /\ owed_zero' = (console.enable # 0)
    /\ UNCHANGED <<direction_wait, speed_wait>>

\* A frame that asks for motion while it is held off.
HeldFrame ==
    /\ Receive
    /\ ~CancelRises
    /\ Held /\ console.enable # 0
    /\ UNCHANGED <<last_enable_channel, last_direction_channel, refused_direction,
                   latches, speeds, direction_wait, speed_wait, servo, owed_zero>>

\* Mutant of DisableFrame: a stop that failed counts as made.
DisableFrame_FailedIsDone(outcome) ==
    /\ Receive
    /\ ~CancelRises
    /\ console.enable = 0
    /\ cancel_latched' = FALSE
    /\ watchdog_tripped' = FALSE
    /\ owed_zero' = FALSE
    /\ IF Enabled THEN StopMotor(outcome) ELSE UNCHANGED servo
    /\ last_enable_channel' = 0
    /\ ResetMotionState
    /\ UNCHANGED <<direction_wait, speed_wait>>

\* A frame with channel 1 = 0: re-arms, and stops motion that is on.  If the stop
\* gets no answer the rest of the handler is skipped.
DisableFrame(outcome) ==
    /\ Receive
    /\ ~CancelRises
    /\ console.enable = 0
    /\ cancel_latched' = FALSE
    /\ watchdog_tripped' = FALSE
    /\ owed_zero' = FALSE
    /\ IF Enabled THEN StopMotor(outcome) ELSE UNCHANGED servo
    /\ IF Enabled /\ outcome # "done"
         THEN UNCHANGED <<last_enable_channel, last_direction_channel,
                          refused_direction, speeds>>
         ELSE last_enable_channel' = 0 /\ ResetMotionState
    /\ UNCHANGED <<direction_wait, speed_wait>>

\* A frame that starts motion: JOG mode, speed, keep-alive, then the direction.
StartFrame(entered, written, outcome) ==
    LET jog == in_jog \/ entered # "lost"
    IN  /\ Receive
        /\ ~CancelRises
        /\ ~Held /\ console.enable # 0 /\ ~Enabled
        /\ in_jog' = jog
        /\ reading_active' = TRUE
        /\ WriteSpeed(SpeedOf(console.enable), written)
        /\ last_enable_channel' = console.enable
        /\ desired_speed' = SpeedOf(console.enable)
        /\ applied_speed' = SpeedOf(console.enable)
        /\ speed_wait' = TRUE
        /\ \E turning \in {running, "stop"} :
             ApplyDirection(console.direction, None, None, jog, turning, outcome)
        /\ UNCHANGED <<latches, owed_zero>>

\* A frame while motion is on: the speed, then the direction.
RunFrame(written, outcome) ==
    /\ Receive
    /\ ~CancelRises
    /\ ~Held /\ console.enable # 0 /\ Enabled
    /\ ApplyPendingSpeed(SpeedOf(console.enable), written)
    /\ ApplyDirection(console.direction, last_direction_channel, refused_direction,
                      in_jog, running, outcome)
    /\ last_enable_channel' = console.enable
    /\ UNCHANGED <<latches, reading_active, in_jog, owed_zero>>

Frame(entered, written, outcome) ==
    \/ CancelFrame(outcome)
    \/ HeldFrame
    \/ DisableFrame(outcome)
    \/ StartFrame(entered, written, outcome)
    \/ RunFrame(written, outcome)

\* _apply_pending_speed from the receive loop, without a frame.
PendingSpeed(outcome) ==
    /\ ~Held /\ Enabled
    /\ desired_speed # applied_speed /\ ~speed_wait
    /\ ApplyPendingSpeed(desired_speed, outcome)
    /\ UNCHANGED <<console, silent, last_enable_channel, last_direction_channel,
                   refused_direction, last_cancel_channel, latches, direction_wait,
                   last_motion_direction, reading_active, in_jog, running, history>>

\* Mutant of Watchdog: it latches without stopping the motor.
Watchdog_OnlyLatches(outcome) ==
    /\ silent /\ ~watchdog_tripped /\ Enabled
    /\ watchdog_tripped' = TRUE
    /\ owed_zero' = TRUE
    /\ stop_lost' = (outcome = "lost")
    /\ ResetMotionState
    /\ UNCHANGED <<console, silent, last_enable_channel, last_cancel_channel,
                   cancel_latched, direction_wait, speed_wait, servo>>

\* _check_signal_watchdog: one attempt to stop, whatever becomes of it.
Watchdog(outcome) ==
    /\ silent /\ ~watchdog_tripped /\ Enabled
    /\ watchdog_tripped' = TRUE
    /\ StopMotor(outcome)
    /\ ResetMotionState
    /\ owed_zero' = TRUE
    /\ stop_lost' = (outcome = "lost")
    /\ UNCHANGED <<console, silent, last_enable_channel, last_cancel_channel,
                   cancel_latched, direction_wait, speed_wait>>

\* stop() and a start() with a new instance: the motor is not asked.
Restart ==
    /\ Restarts
    /\ last_enable_channel' = None
    /\ last_cancel_channel' = 0
    /\ cancel_latched' = FALSE
    /\ watchdog_tripped' = FALSE
    /\ direction_wait' = FALSE
    /\ speed_wait' = FALSE
    /\ ResetMotionState
    /\ silent' = FALSE
    /\ owed_zero' = FALSE
    /\ stop_lost' = FALSE
    /\ UNCHANGED <<console, servo>>

-----------------------------------------------------------------------------
(* The sender, the clock and the drive. *)

MoveFaders ==
    /\ console' \in Frames \ {console}
    /\ UNCHANGED <<silent, server, servo, history>>

SignalLost ==
    /\ ~silent /\ silent' = TRUE
    /\ UNCHANGED <<console, server, servo, history>>

DirectionWaitOver ==
    /\ direction_wait /\ direction_wait' = FALSE
    /\ UNCHANGED <<console, silent, last_enable_channel, last_direction_channel,
                   refused_direction, last_cancel_channel, latches, speeds,
                   speed_wait, servo, history>>

SpeedWaitOver ==
    /\ speed_wait /\ speed_wait' = FALSE
    /\ UNCHANGED <<console, silent, last_enable_channel, last_direction_channel,
                   refused_direction, last_cancel_channel, latches, speeds,
                   direction_wait, servo, history>>

\* The drive leaves JOG mode a second after the last frame it saw.
DriveTimeout ==
    /\ in_jog
    /\ reading_active => "lost" \in Outcomes
    /\ in_jog' = FALSE
    /\ running' = "stop"
    /\ UNCHANGED <<console, silent, server, last_motion_direction, reading_active,
                   drive_speed, history>>

AnyFrame == \E entered, written, outcome \in Outcomes : Frame(entered, written, outcome)
AnsweredFrame == Frame("done", "done", "done")

Next ==
    \/ AnyFrame
    \/ \E outcome \in Outcomes : PendingSpeed(outcome) \/ Watchdog(outcome)
    \/ Restart
    \/ MoveFaders
    \/ SignalLost
    \/ DirectionWaitOver
    \/ SpeedWaitOver
    \/ DriveTimeout

Spec == Init /\ [][Next]_vars

\* The receive loop turns every half second at most, and time passes.
LoopFairness ==
    /\ WF_vars(\E outcome \in Outcomes : Watchdog(outcome))
    /\ WF_vars(\E outcome \in Outcomes : PendingSpeed(outcome))
    /\ WF_vars(DirectionWaitOver)
    /\ WF_vars(SpeedWaitOver)

LoopSpec == Spec /\ LoopFairness

\* The sender keeps transmitting, to a drive that answers time and again, not
\* only while a failed direction is waiting to be retried.
Sending == WF_vars(AnyFrame) /\ SF_vars(AnsweredFrame /\ ~direction_wait)

\* No browser shows the page.  One that does polls /status every second, and the
\* drive, which sees those frames too, need not time out after the session ended.
NobodyWatches == WF_vars(DriveTimeout /\ ~reading_active)

-----------------------------------------------------------------------------
\* Types of all the variables.
TypeOK ==
    /\ console \in Frames
    /\ last_enable_channel \in EnableChannels \union {None}
    /\ last_direction_channel \in DirectionChannels \union {None}
    /\ refused_direction \in DirectionChannels \union {None}
    /\ last_cancel_channel \in {0, 1}
    /\ desired_speed \in Speeds \union {None}
    /\ applied_speed \in Speeds \union {None}
    /\ drive_speed \in Speeds \union {None}
    /\ last_motion_direction \in Turns \union {"stop", None}
    /\ running \in Turns \union {"stop"}
    /\ {silent, cancel_latched, watchdog_tripped, direction_wait, speed_wait,
        reading_active, in_jog, owed_zero, stop_lost} \subseteq BOOLEAN

\* The direction the server takes for accepted is the one the controller has on
\* record, and one it takes for refused is the opposite: neither the server nor
\* the controller forgets alone.
RecordsAgree ==
    /\ last_direction_channel # None =>
         last_motion_direction = ActionOf(last_direction_channel)
    /\ refused_direction # None => Refused(ActionOf(refused_direction))

\* After a cancel or a loss of signal the motor does not start before a frame
\* has carried channel 1 = 0.
NoSurpriseStart == [][running = "stop" /\ running' # "stop" => ~owed_zero]_vars

\* A motor that turns without a signal is stopped (the docstring of
\* _check_signal_watchdog, artnet_server.py:580-585), if the watchdog's one stop
\* reaches the drive: nothing else in the server keeps a motor turning that nobody
\* asks for, or the watchdog from tripping.
SilenceStopsUnlessLost ==
    NobodyWatches =>
      (running # "stop" /\ silent /\ ~watchdog_tripped ~>
         running = "stop" \/ ~silent \/ (watchdog_tripped /\ stop_lost))

\* If the sender rests with channel 1 up, the motor ends up turning as channel 2
\* says, unless motion is held off, the direction was refused, or the drive has
\* left JOG mode.
FollowsConsole ==
    Sending =>
      \A f \in {g \in Frames : g.enable # 0 /\ g.cancel = 0} :
        <>[](console = f) =>
          <>[](\/ Held \/ ~in_jog
               \/ refused_direction = f.direction
               \/ running = ActionOf(f.direction))

\* If the sender rests with channel 1 = 0, the motor ends up standing still (the
\* channel table, artnet_server.py:17-20: "0 = disable continuous motion").
DisabledStops ==
    Sending /\ NobodyWatches => (<>[](console.enable = 0) => <>[](running = "stop"))
=============================================================================
