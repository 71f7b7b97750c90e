---------------------------- MODULE PositionMove ----------------------------
(***************************************************************************)
(* From an angle to the two command-pulse registers: post_step_motion_by   *)
(* and pos_step_motion_by of ServoController (servo_control.py).           *)
(*                                                                         *)
(* An angle times base_pulse_per_degree is rarely a whole number of        *)
(* pulses.  post_step_motion_by truncates it, keeps the remainder in       *)
(* float_error and adds a pulse once a whole one has built up.  Amounts    *)
(* are counted here in units of 1/UNIT pulse, positive clockwise.          *)
(***************************************************************************)
EXTENDS Integers

CONSTANTS
    UNIT,                    \* units in a pulse: how finely angles are told apart
    WORD_RANGE,              \* values of one register, 2^16 on the drive
    MAX_POSITIONING_PULSES,  \* 2^31 - 1: half of what two words can hold
    Differences,             \* the moves asked for, in units
    MOVES_BOUND              \* bound: moves since the last SET HOME

ASSUME UnitAssumption == UNIT \in Nat \ {0}
ASSUME WordAssumption ==
    /\ WORD_RANGE \in Nat \ {0}
    /\ MAX_POSITIONING_PULSES \in Nat
    /\ MAX_POSITIONING_PULSES < WORD_RANGE * WORD_RANGE
ASSUME DifferencesAssumption == Differences \subseteq Int
ASSUME MovesAssumption == MOVES_BOUND \in Nat

VARIABLES
    float_error,       \* self.float_error, in units
    accumulate_pulse,  \* self.accumulate_pulse
    low_word,          \* register 0x0905
    high_word,         \* register 0x0906
    pulses,            \* integer_pulse of the last move
    asked,             \* history: units the last move asked for, unsigned
    exact,             \* history: units asked for since SET HOME, signed
    sent,              \* history: pulses commanded since SET HOME, signed
    backward,          \* history: a counterclockwise move was made since then
    moves              \* history: moves since then

vars == <<float_error, accumulate_pulse, low_word, high_word, pulses, asked,
          exact, sent, backward, moves>>

Abs(n) == IF n < 0 THEN -n ELSE n

\* Python's int(): towards zero.
Truncated(units) ==
    IF units < 0 THEN -((-units) \div UNIT) ELSE units \div UNIT

Init ==
    /\ float_error = 0
    /\ accumulate_pulse = 0
    /\ low_word = 0
    /\ high_word = 0
    /\ pulses = 0
    /\ asked = 0
    /\ exact = 0
    /\ sent = 0
    /\ backward = FALSE
    /\ moves = 0

\* The two words sent to the drive: `& 0xFFFF` and `(>> 16) & 0xFFFF`, which on
\* a negative number are those of its two's complement.
WritePulses(n) ==
    /\ low_word' = n % WORD_RANGE
    /\ high_word' = (n \div WORD_RANGE) % WORD_RANGE

\* Mutant of Remainder: total_pulse is added to the error, not its fraction.
Remainder_OfWhole(difference) == difference

\* What float_error holds once the remainder of a move is added to it, on the
\* side of the direction of the move.
Remainder(difference) ==
    IF difference > 0 THEN Abs(difference) % UNIT
                      ELSE -(Abs(difference) % UNIT)

\* Mutant of WholePulses: round() instead of int().
WholePulses_Rounded(total) == (total + UNIT \div 2) \div UNIT

\* int(total_pulse)
WholePulses(total) == total \div UNIT

\* Mutant of AfterCarry: without `self.float_error -= integer_error`.
AfterCarry_Kept(error) == error

\* What is left of an error once its whole pulses are moved to the command.
AfterCarry(error) == error - Truncated(error) * UNIT

\* History of a move of `difference` units for which n pulses were commanded.
Account(difference, n) ==
    /\ asked' = Abs(difference)
    /\ exact' = exact + difference
    /\ sent' = IF difference > 0 THEN sent + n ELSE sent - n
    /\ backward' = (backward \/ difference < 0)
    /\ moves' = moves + 1

\* post_step_motion_by, once the position is read: `difference` units to go.
\* (Nothing changes when it is 0, out of range, or the position unreadable.)
PostStepMotionBy(difference) ==
    LET total == Abs(difference)
        error == float_error + Remainder(difference)
        integer_pulse == WholePulses(total) + Truncated(error)
    IN  /\ difference # 0
        /\ total <= MAX_POSITIONING_PULSES * UNIT
        /\ float_error' = AfterCarry(error)
        /\ accumulate_pulse' = accumulate_pulse + integer_pulse
        /\ pulses' = integer_pulse
        /\ WritePulses(integer_pulse)
        /\ Account(difference, integer_pulse)

\* pos_step_motion_by: the target is a pulse count, nothing is carried, and a
\* difference of 0 is sent as a counterclockwise move of 0 pulses.
PosStepMotionBy(difference) ==
    /\ difference % UNIT = 0
    /\ Abs(difference) <= MAX_POSITIONING_PULSES * UNIT
    /\ pulses' = Abs(difference) \div UNIT
    /\ WritePulses(pulses')
    /\ Account(difference, pulses')
    /\ UNCHANGED <<float_error, accumulate_pulse>>

\* SET HOME (either encoder mode) starts the bookkeeping afresh.
SetHomePosition ==
    /\ float_error' = 0
    /\ accumulate_pulse' = 0
    /\ exact' = 0
    /\ sent' = 0
    /\ backward' = FALSE
    /\ moves' = 0
    /\ UNCHANGED <<low_word, high_word, pulses, asked>>

Next ==
    \/ \E difference \in Differences :
         /\ moves < MOVES_BOUND
         /\ PostStepMotionBy(difference) \/ PosStepMotionBy(difference)
    \/ SetHomePosition

Spec == Init /\ [][Next]_vars

-----------------------------------------------------------------------------
\* Types of all the variables.
TypeOK ==
    /\ float_error \in Int
    /\ accumulate_pulse \in Int
    /\ low_word \in 0..WORD_RANGE - 1
    /\ high_word \in 0..WORD_RANGE - 1
    /\ pulses \in Int
    /\ asked \in Nat
    /\ exact \in Int
    /\ sent \in Int
    /\ backward \in BOOLEAN
    /\ moves \in Nat

\* After every move less than one pulse is owed in either direction, whatever
\* the order and the sizes of the moves.
ErrorBelowOnePulse == -UNIT < float_error /\ float_error < UNIT

\* As long as all moves go forward, the pulses commanded since SET HOME are
\* those of the whole distance asked for: no rounding adds up.
ForwardMovesAddUp ==
    ~backward => /\ sent = exact \div UNIT
                 /\ exact = sent * UNIT + float_error

\* No single command is off by two pulses from what was asked for.
NearRequest ==
    /\ pulses * UNIT - asked < 2 * UNIT
    /\ asked - pulses * UNIT < 2 * UNIT

\* A command leaves the range of its registers (as the two's complement of -1,
\* 2^32 - 1 pulses on the drive) only in a counterclockwise move of less than a
\* pulse that takes back the pulse built up before it.
NegativeOnlyBelowPulse == pulses < 0 => pulses = -1 /\ asked < UNIT

\* What the drive is told is the move that was asked for, to within two pulses, and
\* in its registers, but for the one case above.
CommandFits == NearRequest /\ NegativeOnlyBelowPulse
=============================================================================
