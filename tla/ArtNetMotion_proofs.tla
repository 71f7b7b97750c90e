------------------------ MODULE ArtNetMotion_proofs ------------------------
(***************************************************************************)
(* Proofs of the safety properties of ArtNetMotion, for every set of       *)
(* channel values, every maximum speed and every fate of a frame.          *)
(***************************************************************************)
EXTENDS ArtNetMotion, TLAPS

\* What is owed a frame with channel 1 = 0 is held off until there is one: the
\* two latches that the handlers test are all the memory it takes.
OwedIsHeld == owed_zero => Held

ArtNetInv ==
    /\ TypeOK
    /\ RecordsAgree
    /\ OwedIsHeld

USE ChannelsAssumption, SpeedAssumption, OutcomesAssumption

-----------------------------------------------------------------------------
\* A channel value becomes a speed between 1 and the maximum: full scale does not
\* exceed it, and the rounding does not reach 0.
LEMMA SpeedInRange ==
  ASSUME NEW enable \in 0..255
  PROVE  SpeedOf(enable) \in Speeds
<1> DEFINE top == 2 * enable * MAX_SPEED_RPM + 255
<1>1. enable * MAX_SPEED_RPM \in Nat /\ enable * MAX_SPEED_RPM <= 255 * MAX_SPEED_RPM
  OBVIOUS
<1>2. top \in Nat /\ top <= 510 * MAX_SPEED_RPM + 255
  <2>1. 2 * enable * MAX_SPEED_RPM = 2 * (enable * MAX_SPEED_RPM)
    OBVIOUS
  <2> QED
    BY <1>1, <2>1
<1> HIDE DEF top
<1>3. top \div 510 \in 0..MAX_SPEED_RPM
  BY <1>2
<1> QED
  BY <1>3 DEF SpeedOf, Speeds, top

\* A direction channel stands for one of the three actions.
LEMMA ActionType ==
  ASSUME NEW direction \in 0..255
  PROVE  ActionOf(direction) \in Turns \union {"stop"}
  BY DEF ActionOf, Turns

\* What _apply_direction does to the records and to the motor, whatever becomes
\* of its frame: the types are kept, the records agree if the ones it was given
\* did, and the motor does what it did or what channel 2 asks.
LEMMA ApplyDirectionEffect ==
  ASSUME TypeOK,
         NEW direction \in DirectionChannels,
         NEW accepted \in DirectionChannels \union {None},
         NEW refused \in DirectionChannels \union {None},
         NEW jog \in BOOLEAN, NEW turning \in Turns \union {"stop"},
         NEW outcome \in Outcomes,
         accepted # None => last_motion_direction = ActionOf(accepted),
         refused # None => Refused(ActionOf(refused)),
         ApplyDirection(direction, accepted, refused, jog, turning, outcome)
  PROVE  /\ last_direction_channel' \in DirectionChannels \union {None}
         /\ refused_direction' \in DirectionChannels \union {None}
         /\ direction_wait' \in BOOLEAN
         /\ last_motion_direction' \in Turns \union {"stop", None}
         /\ running' \in {turning, ActionOf(direction)}
         /\ RecordsAgree'
<1> DEFINE action == ActionOf(direction)
           asked == direction # accepted /\ direction # refused /\ ~direction_wait
<1>1. action \in Turns \union {"stop"} /\ direction # None
  BY ActionType
<1>2. direction_wait \in BOOLEAN /\ last_motion_direction \in Turns \union {"stop", None}
  BY DEF TypeOK
<1>3. CASE /\ ~asked
           /\ last_direction_channel' = accepted
           /\ refused_direction' = IF direction = accepted THEN None ELSE refused
           /\ running' = turning
           /\ UNCHANGED <<last_motion_direction, direction_wait>>
  BY <1>2, <1>3 DEF RecordsAgree, Refused
<1>4. CASE /\ asked /\ Refused(action)
           /\ last_direction_channel' = accepted
           /\ refused_direction' = direction
           /\ running' = turning
           /\ UNCHANGED <<last_motion_direction, direction_wait>>
  BY <1>2, <1>4 DEF RecordsAgree, Refused
<1>5. CASE /\ asked /\ ~Refused(action)
           /\ SpeedCtrlAction(jog, turning, action, outcome)
           /\ IF outcome = "done"
                THEN /\ last_direction_channel' = direction
                     /\ refused_direction' = None
                     /\ UNCHANGED direction_wait
                ELSE /\ last_direction_channel' = accepted
                     /\ refused_direction' = refused
                     /\ direction_wait' = TRUE
  <2>1. CASE outcome = "done"
    BY <1>1, <1>2, <1>5, <2>1 DEF SpeedCtrlAction, RecordsAgree
  <2>2. CASE outcome # "done"
    BY <1>1, <1>2, <1>5, <2>2 DEF SpeedCtrlAction, RecordsAgree, Refused
  <2> QED
    BY <2>1, <2>2
<1> QED
  BY <1>3, <1>4, <1>5 DEF ApplyDirection

\* What a stop of the motor and a quit of the mode can do to it: it stops, or
\* goes on as it was.
LEMMA StopEffect ==
  ASSUME TypeOK, NEW outcome \in Outcomes,
         StopMotor(outcome) \/ CancelReading(outcome)
  PROVE  /\ running' \in {"stop", running}
         /\ in_jog' \in BOOLEAN /\ reading_active' \in BOOLEAN
         /\ last_motion_direction' \in Turns \union {"stop", None}
         /\ UNCHANGED drive_speed
<1>1. running \in Turns \union {"stop"} /\ in_jog \in BOOLEAN /\ reading_active \in BOOLEAN
      /\ last_motion_direction \in Turns \union {"stop", None}
  BY DEF TypeOK
<1>2. CASE StopMotor(outcome)
  BY <1>1, <1>2 DEF StopMotor, SpeedCtrlAction
<1>3. CASE CancelReading(outcome)
  BY <1>1, <1>3 DEF CancelReading
<1> QED
  BY <1>2, <1>3

-----------------------------------------------------------------------------
\* Nothing is on record when the server starts.
LEMMA ArtNetInit == Init => ArtNetInv
<1> SUFFICES ASSUME Init PROVE ArtNetInv
  OBVIOUS
<1>1. TypeOK
  BY DEF Init, TypeOK, Turns
<1>2. RecordsAgree /\ OwedIsHeld
  BY DEF Init, RecordsAgree, OwedIsHeld
<1> QED
  BY <1>1, <1>2 DEF ArtNetInv

\* A cancel forgets both records, and latches unless channel 1 is 0 already.
LEMMA CancelFrameKeeps ==
  ASSUME ArtNetInv, NEW outcome \in Outcomes, CancelFrame(outcome)
  PROVE  ArtNetInv' /\ running' \in {"stop", running}
<1>1. TypeOK
  BY DEF ArtNetInv
<1>2. /\ running' \in {"stop", running}
      /\ in_jog' \in BOOLEAN /\ reading_active' \in BOOLEAN
      /\ last_motion_direction' \in Turns \union {"stop", None}
      /\ UNCHANGED drive_speed
  BY <1>1, StopEffect DEF CancelFrame
<1>3. console \in Frames /\ console.enable \in EnableChannels /\ console.cancel \in {0, 1}
  BY <1>1 DEF TypeOK, Frames
<1>4. TypeOK'
  <2>1. {cancel_latched, watchdog_tripped, owed_zero}' \subseteq BOOLEAN
    BY <1>1 DEF CancelFrame, TypeOK
  <2>2. /\ UNCHANGED <<console, direction_wait, speed_wait, stop_lost>>
        /\ silent' = FALSE /\ last_cancel_channel' = console.cancel
        /\ last_enable_channel' = 0
        /\ ResetMotionState
    BY DEF CancelFrame, Receive
  <2> QED
    BY <1>1, <1>2, <1>3, <2>1, <2>2, ZenonT(40) DEF ResetMotionState, TypeOK
<1>5. RecordsAgree' /\ OwedIsHeld'
  BY DEF CancelFrame, ResetMotionState, RecordsAgree, OwedIsHeld, Held
<1> QED
  BY <1>2, <1>4, <1>5 DEF ArtNetInv

\* A frame that asks for motion while it is held off changes neither.
LEMMA HeldFrameKeeps ==
  ASSUME ArtNetInv, HeldFrame
  PROVE  ArtNetInv' /\ running' = running
<1>1. TypeOK' /\ running' = running
  BY DEF ArtNetInv, TypeOK, HeldFrame, Receive, latches, speeds, servo, Frames
<1>2. RecordsAgree' /\ OwedIsHeld'
  BY DEF ArtNetInv, HeldFrame, latches, speeds, servo, RecordsAgree, Refused, OwedIsHeld, Held
<1> QED
  BY <1>1, <1>2 DEF ArtNetInv

\* Channel 1 = 0 settles the debt, and either stops the motor and forgets the
\* direction or, when the stop is not answered, keeps the records it had.
LEMMA DisableFrameKeeps ==
  ASSUME ArtNetInv, NEW outcome \in Outcomes, DisableFrame(outcome)
  PROVE  ArtNetInv' /\ running' \in {"stop", running}
<1>1. TypeOK
  BY DEF ArtNetInv
<1>2. /\ running' \in {"stop", running}
      /\ in_jog' \in BOOLEAN /\ reading_active' \in BOOLEAN
      /\ last_motion_direction' \in Turns \union {"stop", None}
      /\ UNCHANGED drive_speed
  <2>1. CASE Enabled
    BY <1>1, <2>1, StopEffect DEF DisableFrame
  <2>2. CASE ~Enabled
    BY <1>1, <2>2 DEF DisableFrame, TypeOK, servo
  <2> QED
    BY <2>1, <2>2
<1>3. console \in Frames /\ console.cancel \in {0, 1}
  BY <1>1 DEF TypeOK, Frames
<1>4. TypeOK'
  <2>1. /\ UNCHANGED <<console, direction_wait, speed_wait, stop_lost>>
        /\ silent' = FALSE /\ last_cancel_channel' = console.cancel
        /\ cancel_latched' = FALSE /\ watchdog_tripped' = FALSE /\ owed_zero' = FALSE
    BY DEF DisableFrame, Receive
  <2>2. CASE UNCHANGED <<last_enable_channel, last_direction_channel,
                         refused_direction, speeds>>
    BY <1>1, <1>2, <1>3, <2>1, <2>2, ZenonT(40) DEF speeds, TypeOK
  <2>3. CASE last_enable_channel' = 0 /\ ResetMotionState
    BY <1>1, <1>2, <1>3, <2>1, <2>3 DEF ResetMotionState, TypeOK
  <2> QED
    BY <2>2, <2>3 DEF DisableFrame
<1>5. RecordsAgree'
  <2>1. CASE Enabled /\ outcome # "done"
    BY <2>1 DEF ArtNetInv, DisableFrame, StopMotor, SpeedCtrlAction, RecordsAgree, Refused
  <2>2. CASE ~(Enabled /\ outcome # "done")
    BY <2>2 DEF DisableFrame, ResetMotionState, RecordsAgree
  <2> QED
    BY <2>1, <2>2
<1>6. OwedIsHeld'
  BY DEF DisableFrame, OwedIsHeld
<1> QED
  BY <1>2, <1>4, <1>5, <1>6 DEF ArtNetInv

\* Motion starts in a frame that nothing holds off, with records that are new.
LEMMA StartFrameKeeps ==
  ASSUME ArtNetInv,
         NEW entered \in Outcomes, NEW written \in Outcomes, NEW outcome \in Outcomes,
         StartFrame(entered, written, outcome)
  PROVE  ArtNetInv' /\ ~owed_zero
<1> DEFINE jog == in_jog \/ entered # "lost"
<1>1. TypeOK
  BY DEF ArtNetInv
<1>2. PICK turning \in {running, "stop"} :
         ApplyDirection(console.direction, None, None, jog, turning, outcome)
  BY DEF StartFrame
<1>3. /\ console \in Frames /\ console.enable \in EnableChannels
      /\ console.direction \in DirectionChannels /\ console.cancel \in {0, 1}
      /\ jog \in BOOLEAN /\ turning \in Turns \union {"stop"}
  BY <1>1 DEF TypeOK, Frames
<1>4. /\ last_direction_channel' \in DirectionChannels \union {None}
      /\ refused_direction' \in DirectionChannels \union {None}
      /\ direction_wait' \in BOOLEAN
      /\ last_motion_direction' \in Turns \union {"stop", None}
      /\ running' \in {turning, ActionOf(console.direction)}
      /\ RecordsAgree'
  <2> HIDE DEF jog
  <2> QED
    BY <1>1, <1>2, <1>3, ApplyDirectionEffect
<1>5. running' \in Turns \union {"stop"}
  BY <1>3, <1>4, ActionType, ZenonT(40)
<1>6. SpeedOf(console.enable) \in Speeds
  BY <1>3, SpeedInRange
<1>7. TypeOK'
  BY <1>1, <1>3, <1>4, <1>5, <1>6 DEF StartFrame, Receive, WriteSpeed, latches, TypeOK
<1>8. OwedIsHeld' /\ ~owed_zero
  BY DEF ArtNetInv, StartFrame, latches, OwedIsHeld, Held
<1> QED
  BY <1>4, <1>7, <1>8 DEF ArtNetInv

\* What a pending speed changes, whoever applies it.
LEMMA ApplyPendingSpeedEffect ==
  ASSUME TypeOK, NEW desired \in Speeds \union {None}, NEW outcome \in Outcomes,
         ApplyPendingSpeed(desired, outcome)
  PROVE  /\ desired_speed' \in Speeds \union {None}
         /\ applied_speed' \in Speeds \union {None}
         /\ drive_speed' \in Speeds \union {None}
         /\ speed_wait' \in BOOLEAN
  BY ZenonT(40) DEF ApplyPendingSpeed, WriteSpeed, TypeOK

\* So does a direction that is applied while motion is on.
LEMMA RunFrameKeeps ==
  ASSUME ArtNetInv, NEW written \in Outcomes, NEW outcome \in Outcomes,
         RunFrame(written, outcome)
  PROVE  ArtNetInv' /\ ~owed_zero
<1>1. TypeOK /\ RecordsAgree
  BY DEF ArtNetInv
<1>2. /\ console \in Frames /\ console.enable \in EnableChannels
      /\ console.direction \in DirectionChannels /\ console.cancel \in {0, 1}
  BY <1>1 DEF TypeOK, Frames
<1>3. /\ last_direction_channel' \in DirectionChannels \union {None}
      /\ refused_direction' \in DirectionChannels \union {None}
      /\ direction_wait' \in BOOLEAN
      /\ last_motion_direction' \in Turns \union {"stop", None}
      /\ running' \in {running, ActionOf(console.direction)}
      /\ RecordsAgree'
  <2>1. /\ last_direction_channel \in DirectionChannels \union {None}
        /\ refused_direction \in DirectionChannels \union {None}
        /\ in_jog \in BOOLEAN /\ running \in Turns \union {"stop"}
    BY <1>1 DEF TypeOK
  <2>2. /\ last_direction_channel # None =>
             last_motion_direction = ActionOf(last_direction_channel)
        /\ refused_direction # None => Refused(ActionOf(refused_direction))
    BY <1>1 DEF RecordsAgree
  <2>3. ApplyDirection(console.direction, last_direction_channel, refused_direction,
                       in_jog, running, outcome)
    BY DEF RunFrame
  <2> QED
    BY <1>1, <1>2, <2>1, <2>2, <2>3, ApplyDirectionEffect, ZenonT(40)
<1>4. running' \in Turns \union {"stop"}
  BY <1>1, <1>2, <1>3, ActionType DEF TypeOK
<1>5. /\ desired_speed' \in Speeds \union {None}
      /\ applied_speed' \in Speeds \union {None}
      /\ drive_speed' \in Speeds \union {None}
      /\ speed_wait' \in BOOLEAN
  <2>1. SpeedOf(console.enable) \in Speeds \union {None}
    BY <1>2, SpeedInRange
  <2> QED
    BY <1>1, <2>1, ApplyPendingSpeedEffect DEF RunFrame
<1>6. TypeOK'
  BY <1>1, <1>2, <1>3, <1>4, <1>5, ZenonT(40) DEF RunFrame, Receive, latches, TypeOK
<1>7. OwedIsHeld' /\ ~owed_zero
  BY DEF ArtNetInv, RunFrame, latches, OwedIsHeld, Held
<1> QED
  BY <1>3, <1>6, <1>7 DEF ArtNetInv

\* A speed that is written late disturbs neither.
LEMMA PendingSpeedKeeps ==
  ASSUME ArtNetInv, NEW outcome \in Outcomes, PendingSpeed(outcome)
  PROVE  ArtNetInv' /\ running' = running
<1>1. TypeOK /\ desired_speed \in Speeds \union {None}
  BY DEF ArtNetInv, TypeOK
<1>2. /\ desired_speed' \in Speeds \union {None}
      /\ applied_speed' \in Speeds \union {None}
      /\ drive_speed' \in Speeds \union {None}
      /\ speed_wait' \in BOOLEAN
  BY <1>1, ApplyPendingSpeedEffect DEF PendingSpeed
<1>3. TypeOK'
  BY <1>1, <1>2 DEF PendingSpeed, latches, history, TypeOK
<1>4. RecordsAgree' /\ OwedIsHeld' /\ running' = running
  BY DEF ArtNetInv, PendingSpeed, latches, history, RecordsAgree, Refused, OwedIsHeld, Held
<1> QED
  BY <1>3, <1>4 DEF ArtNetInv

\* A loss of signal forgets both records and latches.
LEMMA WatchdogKeeps ==
  ASSUME ArtNetInv, NEW outcome \in Outcomes, Watchdog(outcome)
  PROVE  ArtNetInv' /\ running' \in {"stop", running}
<1>1. TypeOK
  BY DEF ArtNetInv
<1>2. /\ running' \in {"stop", running}
      /\ in_jog' \in BOOLEAN /\ reading_active' \in BOOLEAN
      /\ last_motion_direction' \in Turns \union {"stop", None}
      /\ UNCHANGED drive_speed
  BY <1>1, StopEffect DEF Watchdog
<1>3. TypeOK'
  <2>1. stop_lost' \in BOOLEAN /\ watchdog_tripped' = TRUE /\ owed_zero' = TRUE
    BY DEF Watchdog
  <2>2. /\ UNCHANGED <<console, silent, last_enable_channel, last_cancel_channel,
                       cancel_latched, direction_wait, speed_wait>>
        /\ ResetMotionState
    BY DEF Watchdog
  <2> QED
    BY <1>1, <1>2, <2>1, <2>2 DEF ResetMotionState, TypeOK
<1>4. RecordsAgree' /\ OwedIsHeld'
  BY DEF Watchdog, ResetMotionState, RecordsAgree, OwedIsHeld, Held
<1> QED
  BY <1>2, <1>3, <1>4 DEF ArtNetInv

\* A new instance of the server has nothing on record and is owed nothing.
LEMMA RestartKeeps ==
  ASSUME ArtNetInv, Restart
  PROVE  ArtNetInv' /\ running' = running
<1>1. TypeOK' /\ running' = running
  BY DEF ArtNetInv, TypeOK, Restart, ResetMotionState, servo
<1>2. RecordsAgree' /\ OwedIsHeld'
  BY DEF Restart, ResetMotionState, RecordsAgree, OwedIsHeld
<1> QED
  BY <1>1, <1>2 DEF ArtNetInv

\* The sender, the clock and the drive change no record, and the drive can only
\* stop the motor.
LEMMA EnvironmentKeeps ==
  ASSUME ArtNetInv,
         \/ MoveFaders \/ SignalLost \/ DirectionWaitOver \/ SpeedWaitOver \/ DriveTimeout
         \/ UNCHANGED vars
  PROVE  ArtNetInv' /\ running' \in {"stop", running}
<1>1. CASE MoveFaders
  BY <1>1 DEF MoveFaders, ArtNetInv, TypeOK, RecordsAgree, Refused, OwedIsHeld, Held,
     server, servo, history, latches, speeds
<1>2. CASE SignalLost
  BY <1>2 DEF SignalLost, ArtNetInv, TypeOK, RecordsAgree, Refused, OwedIsHeld, Held,
     server, servo, history, latches, speeds
<1>3. CASE DirectionWaitOver
  BY <1>3, ZenonT(40) DEF DirectionWaitOver, ArtNetInv, TypeOK, RecordsAgree, Refused, OwedIsHeld, Held,
     servo, history, latches, speeds
<1>4. CASE SpeedWaitOver
  BY <1>4, ZenonT(40) DEF SpeedWaitOver, ArtNetInv, TypeOK, RecordsAgree, Refused, OwedIsHeld, Held,
     servo, history, latches, speeds
<1>5. CASE DriveTimeout
  BY <1>5, ZenonT(40) DEF DriveTimeout, ArtNetInv, TypeOK, RecordsAgree, Refused, OwedIsHeld, Held,
     server, history, latches, speeds
<1>6. CASE UNCHANGED vars
  BY <1>6 DEF vars, ArtNetInv, TypeOK, RecordsAgree, Refused, OwedIsHeld, Held,
     server, servo, history, latches, speeds
<1> QED
  BY <1>1, <1>2, <1>3, <1>4, <1>5, <1>6

\* Every step keeps the invariant, and one that starts the motor is a frame that
\* nothing holds off.
LEMMA ArtNetStep ==
  ASSUME ArtNetInv, [Next]_vars
  PROVE  ArtNetInv' /\ (running' \in {"stop", running} \/ ~owed_zero)
<1>1. CASE AnyFrame
  <2>1. PICK entered \in Outcomes, written \in Outcomes, outcome \in Outcomes :
           Frame(entered, written, outcome)
    BY <1>1 DEF AnyFrame
  <2>2. CASE CancelFrame(outcome)
    BY <2>2, CancelFrameKeeps
  <2>3. CASE HeldFrame
    BY <2>3, HeldFrameKeeps
  <2>4. CASE DisableFrame(outcome)
    BY <2>4, DisableFrameKeeps
  <2>5. CASE StartFrame(entered, written, outcome)
    BY <2>5, StartFrameKeeps
  <2>6. CASE RunFrame(written, outcome)
    BY <2>6, RunFrameKeeps
  <2> QED
    BY <2>1, <2>2, <2>3, <2>4, <2>5, <2>6 DEF Frame
<1>2. ASSUME NEW outcome \in Outcomes, PendingSpeed(outcome)
      PROVE  ArtNetInv' /\ running' \in {"stop", running}
  BY <1>2, PendingSpeedKeeps
<1>3. ASSUME NEW outcome \in Outcomes, Watchdog(outcome)
      PROVE  ArtNetInv' /\ running' \in {"stop", running}
  BY <1>3, WatchdogKeeps
<1>4. CASE Restart
  BY <1>4, RestartKeeps
<1>5. CASE \/ MoveFaders \/ SignalLost \/ DirectionWaitOver \/ SpeedWaitOver
           \/ DriveTimeout \/ UNCHANGED vars
  BY <1>5, EnvironmentKeeps
<1> QED
  BY <1>1, <1>2, <1>3, <1>4, <1>5 DEF Next

\* ArtNetInv holds in every reachable state.
THEOREM ArtNetInvariant == Spec => []ArtNetInv
<1>1. Init => ArtNetInv
  BY ArtNetInit
<1>2. ArtNetInv /\ [Next]_vars => ArtNetInv'
  BY ArtNetStep
<1> QED
  BY <1>1, <1>2, PTL DEF Spec

\* Every variable keeps its type; a speed is never 0 and never above the maximum.
THEOREM ArtNetTypeCorrect == Spec => []TypeOK
<1>1. ArtNetInv => TypeOK
  BY DEF ArtNetInv
<1> QED
  BY <1>1, ArtNetInvariant, PTL

\* The direction the server has on record is the one the controller recorded,
\* and one it holds for refused is the opposite, whatever frames were lost.
THEOREM ArtNetRecordsAgree == Spec => []RecordsAgree
<1>1. ArtNetInv => RecordsAgree
  BY DEF ArtNetInv
<1> QED
  BY <1>1, ArtNetInvariant, PTL

\* After a cancel or a loss of signal, the motor does not start before a frame
\* has carried channel 1 = 0.
THEOREM ArtNetNoSurpriseStart == Spec => NoSurpriseStart
<1>1. ArtNetInv /\ [Next]_vars =>
        [running = "stop" /\ running' # "stop" => ~owed_zero]_vars
  BY ArtNetStep
<1> QED
  BY <1>1, ArtNetInvariant, PTL DEF Spec, NoSurpriseStart
=============================================================================
