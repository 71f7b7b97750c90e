--------------------------- MODULE HomeReference ---------------------------
(***************************************************************************)
(* The home references of ServoController (servo_control.py) on top of the *)
(* encoder tracker: SET HOME in incremental and in absolute mode, the      *)
(* angle computed by one-shot reads and by the poll loop, the reset of the *)
(* absolute scale (PA29), and restarts of the program with and without a   *)
(* power cycle of the drive.                                               *)
(*                                                                         *)
(* Angles are in pulses; the file is written in one step (ConfigFile has   *)
(* the steps); the mode the drive is in is read right (EepromProtection);  *)
(* what a move makes of the angle just read is in PositionMove; the shaft  *)
(* stands still while a one-shot read puts its position together.          *)
(***************************************************************************)
EXTENDS EncoderPulseTracker

CONSTANT MAX_RESTARTS   \* bound: restarts of the program

VARIABLES
    base,                  \* environment: the shaft where the counter was 0
    zero,                  \* environment: the shaft where the absolute scale is 0
    absolute_mode,         \* self.absolute_mode, PA28 = 1
    abs_home_pos,          \* self.abs_home_pos
    abs_home_pos_absolute, \* self.abs_home_pos_absolute, and the same in the file
    absolute_offset,       \* self._absolute_offset
    current_angle,         \* self.current_angle
    home_set_since_start,  \* self.home_set_since_start
    file,                  \* the configuration file: abs_home_pos
    saving,                \* SET HOME has reset the tracker and not yet saved
    restarts,              \* bound
    home_shaft,            \* history: the shaft at the last SET HOME, NotRead if the file has another home
    angle_shaft,           \* history: the shaft current_angle was computed for
    adopted                \* history: the reference in use is that SET HOME's

references == <<abs_home_pos, abs_home_pos_absolute, absolute_offset>>
environment == <<base, zero, absolute_mode>>
home_vars == <<environment, references, current_angle, home_set_since_start, file, saving,
               restarts, home_shaft, angle_shaft, adopted>>

shaft == base + position

HomeInit ==
    /\ Init
    /\ base = 0 /\ zero = 0 /\ absolute_mode \in BOOLEAN
    /\ abs_home_pos = 0           \* abs_home_pos_default of the profile
    /\ abs_home_pos_absolute = NotRead
    /\ absolute_offset = NotRead
    /\ current_angle = 0
    /\ home_set_since_start = FALSE
    /\ file = 0 /\ saving = FALSE
    /\ restarts = 0
    /\ home_shaft = NotRead /\ angle_shaft = NotRead
    /\ adopted = FALSE

\* The motor is turned: by hand, in JOG mode or by a move.
Turn(target) ==
    /\ Move(target)
    /\ UNCHANGED <<environment, references, current_angle, home_set_since_start, file, saving,
                   restarts, home_shaft, angle_shaft, adopted>>

-----------------------------------------------------------------------------
(* Reading the position. *)

\* read_absolute_position_pulses, when PA30, PA31 and the two registers are good.
AbsolutePulses == shaft - zero

\* _active_home_pos
ActiveHome == IF absolute_mode THEN abs_home_pos_absolute ELSE abs_home_pos

\* _read_reference_encoder: the tracker, and in absolute mode the offset between
\* the two scales, from the same moment.
ReadReferenceEncoder ==
    /\ Update
    /\ absolute_offset' = IF absolute_mode THEN AbsolutePulses - cumulative' ELSE absolute_offset

ReferenceRead == IF absolute_mode THEN AbsolutePulses ELSE cumulative'

\* _refresh_current_angle_from_hardware; a cancelled session ends with it.
Refresh ==
    /\ ReadReferenceEncoder
    /\ IF ActiveHome = NotRead
       THEN UNCHANGED <<current_angle, angle_shaft>>
       ELSE current_angle' = ReferenceRead - ActiveHome /\ angle_shaft' = shaft
    /\ UNCHANGED <<environment, abs_home_pos, abs_home_pos_absolute, home_set_since_start,
                   file, saving, restarts, home_shaft, adopted>>

\* The counter is read, the absolute registers are not or cannot be trusted.
RefreshFails ==
    /\ absolute_mode /\ Update
    /\ UNCHANGED home_vars

\* A round of the poll loop: _encoder_and_angle_for.  In absolute mode, before the
\* first one-shot read, the angle it computes is in neither scale.
Poll ==
    /\ Update
    /\ IF absolute_mode /\ absolute_offset # NotRead /\ abs_home_pos_absolute # NotRead
       THEN current_angle' = cumulative' + absolute_offset - abs_home_pos_absolute
       ELSE current_angle' = cumulative' - abs_home_pos
    /\ angle_shaft' = IF absolute_mode /\ absolute_offset = NotRead THEN NotRead ELSE shaft
    /\ UNCHANGED <<environment, references, home_set_since_start, file, saving,
                   restarts, home_shaft, adopted>>

-----------------------------------------------------------------------------
(* SET HOME, set points, the absolute scale, restarts. *)

\* The reference in use is that of the last SET HOME, and the counter's window, in
\* incremental mode, still the one the home was set in.
HomeTrusted ==
    /\ adopted
    /\ ~absolute_mode => Tracking /\ reset_seen \div RAW_RANGE
                                       = (home_shaft - base) \div RAW_RANGE

\* What both forms of SET HOME do once they have read the position.
HomeIsHere ==
    /\ Reset
    /\ current_angle' = 0 /\ angle_shaft' = shaft
    /\ home_shaft' = shaft

\* set_home_position, up to its delay; self.abs_home_pos stays as it is.
SetHome ==
    /\ ~absolute_mode /\ ~saving
    /\ HomeIsHere
    /\ saving' = TRUE
    /\ adopted' = FALSE
    /\ UNCHANGED <<environment, references, home_set_since_start, file, restarts>>

\* ... and after it: what is saved is self.current_encoder as the readers have left it.
SaveHome ==
    /\ saving /\ saving' = FALSE
    /\ file' = cumulative
    /\ home_set_since_start' = TRUE
    /\ home_shaft' = IF base + last_seen = home_shaft THEN home_shaft ELSE NotRead
    /\ UNCHANGED <<vars, environment, references, current_angle, restarts, angle_shaft, adopted>>

\* Mutant of SetHomeAbsolute: the offset survives the reset of the tracker.
SetHomeAbsolute_OldOffset ==
    /\ absolute_mode
    /\ HomeIsHere
    /\ UNCHANGED absolute_offset
    /\ abs_home_pos_absolute' = AbsolutePulses
    /\ adopted' = TRUE
    /\ home_set_since_start' = TRUE
    /\ UNCHANGED <<environment, abs_home_pos, file, saving, restarts>>

\* _set_home_position_absolute
SetHomeAbsolute ==
    /\ absolute_mode
    /\ HomeIsHere
    /\ absolute_offset' = AbsolutePulses - cumulative'
    /\ abs_home_pos_absolute' = AbsolutePulses
    /\ adopted' = TRUE
    /\ home_set_since_start' = TRUE
    /\ UNCHANGED <<environment, abs_home_pos, file, saving, restarts>>

\* write_PA29_Initial_Abs_Pos: the drive's absolute scale starts here.
WritePA29 ==
    /\ absolute_mode /\ zero # shaft
    /\ zero' = shaft
    /\ adopted' = FALSE
    /\ UNCHANGED <<vars, base, absolute_mode, references, current_angle, home_set_since_start,
                   file, saving, restarts, home_shaft, angle_shaft>>

\* __init__ reads the file.
LoadReferences ==
    /\ abs_home_pos' = file
    /\ UNCHANGED abs_home_pos_absolute

\* The program starts anew; the counter starts at 0 when the drive does too.
ProgramRestart(power) ==
    /\ restarts < MAX_RESTARTS /\ restarts' = restarts + 1
    /\ base' = IF power THEN shaft ELSE base
    /\ position' = IF power THEN 0 ELSE position
    /\ last_raw' = NotRead /\ cumulative' = NotRead /\ reset_value' = NotRead
    /\ last_seen' = position' /\ reset_seen' = position'
    /\ LoadReferences
    /\ absolute_offset' = NotRead
    /\ current_angle' = 0 /\ angle_shaft' = NotRead
    /\ home_set_since_start' = FALSE /\ saving' = FALSE
    /\ IF absolute_mode
       THEN UNCHANGED <<adopted, home_shaft>>
       ELSE /\ adopted' = (home_shaft # NotRead /\ ~power /\ ~saving)
            /\ home_shaft' = IF power \/ saving THEN NotRead ELSE home_shaft
    /\ UNCHANGED <<zero, absolute_mode, file>>

HomeNext ==
    \/ \E target \in Positions : Turn(target)
    \/ Refresh \/ RefreshFails \/ Poll
    \/ SetHome \/ SaveHome \/ SetHomeAbsolute \/ WritePA29
    \/ \E power \in BOOLEAN : ProgramRestart(power)

HomeSpec == HomeInit /\ [][HomeNext]_<<vars, home_vars>>

-----------------------------------------------------------------------------
\* While the reference in use is the one last set, the angle, which every move and
\* every set point starts from, is measured from the place where SET HOME was
\* pressed: through wraps, mixed one-shot and polled reads, restarts and, in
\* absolute mode, power cycles.
MeasuredFromHome ==
    HomeTrusted /\ angle_shaft # NotRead => current_angle = angle_shaft - home_shaft

\* SET HOME (app.py:862-864): "The current position becomes 0 deg and is persisted
\* as the home reference" for the angles that are computed afterwards.
HomeIsAdopted ==
    home_set_since_start /\ angle_shaft # NotRead /\ home_shaft # NotRead =>
        current_angle = angle_shaft - home_shaft
=============================================================================
