----------------------------- MODULE JogControl -----------------------------
(***************************************************************************)
(* Continuous (JOG) motion: enable_speed_ctrl, speed_ctrl_action and the   *)
(* cancel of servo_control.py, against the drive they command.             *)
(*                                                                         *)
(* The guard against a direct reversal looks at what the program believes  *)
(* (self._last_motion_direction), while the motor follows what reached the *)
(* drive.  The two part when an answer is missing, when two threads        *)
(* command the motor, or when the reading session ends under a running     *)
(* motor.  A step is what runs between two accesses to shared state; one   *)
(* frame to the drive is one step, with one of three outcomes.             *)
(* Positioning moves share the session; that sharing is ReadingSession's.  *)
(***************************************************************************)
EXTENDS Integers

CONSTANTS
    Clients,         \* threads that command the motor
    Outcomes         \* what may become of a frame, see AllOutcomes

\* "done": executed and answered.  "unanswered": executed, the answer is missing
\* or damaged.  "lost": it never reached the drive.
AllOutcomes == {"done", "unanswered", "lost"}
Directions == {"cw", "ccw"}
Actions == Directions \union {"stop"}

ASSUME OutcomesAssumption == Outcomes \subseteq AllOutcomes /\ "done" \in Outcomes

VARIABLES
    last_motion_direction,   \* self._last_motion_direction
    reading_active,          \* self.reading_active: the keep-alive polls
    pc,                      \* where each client is
    requested,               \* action_value of each client's speed_ctrl_action
    mode,                    \* the drive: CTRL_MODE_SEL, "jog" or "normal"
    running,                 \* the drive: what the motor does
    watched,                 \* a browser shows the page and polls /status
    uncertain                \* history: a frame failed since the motor last stood

belief == <<last_motion_direction, reading_active>>
drive == <<mode, running>>
vars == <<belief, pc, requested, drive, watched, uncertain>>

Goto(c, place) == pc' = [pc EXCEPT ![c] = place]

Init ==
    /\ last_motion_direction = "none"
    /\ reading_active = FALSE
    /\ pc = [c \in Clients |-> "idle"]
    /\ requested = [c \in Clients |-> "stop"]
    /\ mode = "normal"
    /\ running = "stop"
    /\ watched \in BOOLEAN
    /\ uncertain = FALSE

\* History: from a failed frame on, until the motor stands still, nobody can
\* tell from the program's state which way it turns.
Remember(failed) ==
    uncertain' = (running' # "stop" /\ (uncertain \/ failed))

-----------------------------------------------------------------------------
\* Mutant of StopReading: the poll thread is left running.
StopReading_KeepsPolling ==
    /\ last_motion_direction' = IF reading_active THEN "none" ELSE last_motion_direction
    /\ UNCHANGED reading_active

\* stop_continuous_reading: without a session it returns at once; with one, the
\* poll thread is gone when it returns.
StopReading ==
    /\ last_motion_direction' = IF reading_active THEN "none" ELSE last_motion_direction
    /\ reading_active' = FALSE

\* enable_speed_ctrl(enable=True), its frames: Servo OFF, JOG mode, ramp, speed.
\* Entering the mode may or may not stop a motor that is already running in it.
EnableSpeedCtrl(c, outcome) ==
    /\ pc[c] = "idle"
    /\ Goto(c, "start")
    /\ IF outcome = "lost"
         THEN UNCHANGED drive
         ELSE mode' = "jog" /\ running' \in {running, "stop"}
    /\ Remember(FALSE)
    /\ UNCHANGED <<belief, requested>>

\* Its last call: the keep-alive, not to be stopped by a pause.
StartJogReading(c) ==
    /\ pc[c] = "start"
    /\ Goto(c, "idle")
    /\ reading_active' = TRUE
    /\ UNCHANGED <<last_motion_direction, requested, drive, uncertain>>

\* A frame that quits the test mode; the answer is not looked at.
QuitFrame(outcome) ==
    /\ IF outcome = "lost"
         THEN UNCHANGED drive
         ELSE mode' = "normal" /\ running' = "stop"
    /\ Remember(outcome = "lost")

\* enable_speed_ctrl(enable=False): quit the mode, then end the session.
DisableSpeedCtrl(c, outcome) ==
    /\ pc[c] = "idle"
    /\ Goto(c, "end")
    /\ QuitFrame(outcome)
    /\ UNCHANGED <<belief, requested>>

EndReading(c) ==
    /\ pc[c] = "end"
    /\ Goto(c, "idle")
    /\ StopReading
    /\ UNCHANGED <<requested, drive, uncertain>>

\* cancel_continuous_reading and MOTION CANCEL: end the session, then quit.
CancelReading(c) ==
    /\ pc[c] = "idle"
    /\ Goto(c, "quit")
    /\ StopReading
    /\ UNCHANGED <<requested, drive, uncertain>>

QuitTestMode(c, outcome) ==
    /\ pc[c] = "quit"
    /\ Goto(c, "idle")
    /\ QuitFrame(outcome)
    /\ UNCHANGED <<belief, requested>>

\* Mutant of Refused: only a reversal from clockwise is refused.
Refused_OneWay(action) == action = "ccw" /\ last_motion_direction = "cw"

\* The guard of speed_ctrl_action.
Refused(action) ==
    /\ action \in Directions
    /\ last_motion_direction \in Directions
    /\ action # last_motion_direction

\* speed_ctrl_action: the guard, 100 ms before the frame is sent.
SpeedCtrlAction(c, action) ==
    /\ pc[c] = "idle"
    /\ ~Refused(action)
    /\ Goto(c, "frame")
    /\ requested' = [requested EXCEPT ![c] = action]
    /\ UNCHANGED <<belief, drive, uncertain>>

\* The JOG_OPERATION frame.  Outside JOG mode the drive ignores it.  A missing
\* or damaged answer raises, and the direction is not recorded.
OperationFrame(c, outcome) ==
    /\ pc[c] = "frame"
    /\ Goto(c, IF outcome = "done" THEN "record" ELSE "idle")
    /\ running' = IF outcome # "lost" /\ mode = "jog" THEN requested[c] ELSE running
    /\ Remember(outcome = "unanswered")
    /\ UNCHANGED <<belief, requested, mode>>

\* Mutant of RecordDirection: the first direction is kept until a stop.
RecordDirection_KeepsFirst(c) ==
    /\ pc[c] = "record"
    /\ Goto(c, "idle")
    /\ last_motion_direction' =
         IF last_motion_direction = "stop" THEN "stop" ELSE requested[c]
    /\ UNCHANGED <<reading_active, requested, drive, uncertain>>

\* The last assignment of speed_ctrl_action.
RecordDirection(c) ==
    /\ pc[c] = "record"
    /\ Goto(c, "idle")
    /\ last_motion_direction' = requested[c]
    /\ UNCHANGED <<reading_active, requested, drive, uncertain>>

-----------------------------------------------------------------------------
\* The drive leaves test mode a second after the last frame it saw, and the
\* motor with it: nobody polls, or the polls are lost.
DriveTimeout ==
    /\ mode = "jog"
    /\ reading_active => "lost" \in Outcomes
    /\ mode' = "normal"
    /\ running' = "stop"
    /\ Remember(FALSE)
    /\ UNCHANGED <<belief, pc, requested>>

ClientStep(c) ==
    \/ StartJogReading(c)
    \/ EndReading(c)
    \/ RecordDirection(c)
    \/ \E outcome \in Outcomes : QuitTestMode(c, outcome) \/ OperationFrame(c, outcome)

ClientCall(c) ==
    \/ \E outcome \in Outcomes : EnableSpeedCtrl(c, outcome) \/ DisableSpeedCtrl(c, outcome)
    \/ CancelReading(c)
    \/ \E action \in Actions : SpeedCtrlAction(c, action)

\* The page is opened or closed.  Its polls, one a second, reach the drive too
\* and all but keep it from timing out.
WatchPage ==
    /\ watched' = ~watched
    /\ UNCHANGED <<belief, pc, requested, drive, uncertain>>

Next ==
    \/ /\ DriveTimeout \/ \E c \in Clients : ClientStep(c) \/ ClientCall(c)
       /\ UNCHANGED watched
    \/ WatchPage

Spec == Init /\ [][Next]_vars

\* A call in progress proceeds; a drive nobody polls times out, neither the
\* session nor a page.  Nobody has to call.
Fairness ==
    /\ \A c \in Clients : WF_vars(ClientStep(c) /\ UNCHANGED watched)
    /\ WF_vars(DriveTimeout /\ ~reading_active /\ UNCHANGED watched /\ ~watched)

FairSpec == Spec /\ Fairness

-----------------------------------------------------------------------------
\* Types of all the variables.
TypeOK ==
    /\ last_motion_direction \in Actions \union {"none"}
    /\ reading_active \in BOOLEAN
    /\ pc \in [Clients -> {"idle", "start", "end", "quit", "frame", "record"}]
    /\ requested \in [Clients -> Actions]
    /\ mode \in {"normal", "jog"}
    /\ running \in Actions
    /\ watched \in BOOLEAN
    /\ uncertain \in BOOLEAN

\* As long as every frame was answered since the motor last stood, the program
\* knows which way it turns whenever a command can be accepted: the recorded
\* direction is the motor's, but for a call that is about to record or to quit.
RunningIsKnown ==
    running # "stop" /\ ~uncertain =>
        \/ last_motion_direction = running
        \/ \E c \in Clients : pc[c] = "record" /\ requested[c] = running
        \/ \E c \in Clients : pc[c] = "quit"

Reverses == running \in Directions /\ running' \in Directions /\ running' # running

\* The comment of speed_ctrl_action (servo_control.py:1695-1700) says that the
\* motor is never sent from one direction straight into the other.  With one
\* command at a time that takes a frame that failed while the motor was turning.
ReversalNeedsFailure == [][Reverses => uncertain]_vars

\* A cancelled motor stops even if the quit frame is lost, unless its client
\* sends the drive something else first, or a page is watched meanwhile.
CancelStops ==
    \A c \in Clients :
        pc[c] = "quit" ~> \/ running = "stop"
                         \/ pc[c] \notin {"idle", "quit"}
                         \/ watched
=============================================================================
