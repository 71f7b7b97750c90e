------------------------ MODULE EncoderPulseTracker ------------------------
(***************************************************************************)
(* EncoderPulseTracker (servo_comm_shihlin_unified/encoder_pulse_tracker   *)
(* .py): unwraps the drive's 32-bit motor feedback counter, which restarts *)
(* at 0 every 2^32 pulses, into a signed count that never wraps.           *)
(*                                                                         *)
(* The motor and the register are the environment: `position` is where the *)
(* shaft really is, in pulses, and a read returns position % RAW_RANGE.    *)
(* The module relies on one physical fact, which Move states: between two  *)
(* reads the shaft moves by less than half of the range.                   *)
(***************************************************************************)
EXTENDS Integers

CONSTANTS
    RAW_RANGE,       \* 1 << 32 in the code
    HALF_RAW_RANGE,  \* 1 << 31
    NotRead,         \* Python's None
    POSITION_BOUND   \* TLC only looks at positions up to this far from 0

ASSUME RangeAssumption ==
    /\ HALF_RAW_RANGE \in Nat \ {0}
    /\ RAW_RANGE = 2 * HALF_RAW_RANGE
ASSUME NotReadAssumption == NotRead \notin Int
ASSUME BoundAssumption == POSITION_BOUND \in Nat

VARIABLES
    position,     \* environment: the true shaft position
    last_raw,     \* self._last_raw
    cumulative,   \* self._cumulative
    last_seen,    \* history: the true position at the last read
    reset_seen,   \* history: the true position when tracking was seeded
    reset_value   \* history: the count tracking was seeded with

vars == <<position, last_raw, cumulative, last_seen, reset_seen, reset_value>>

\* What the two-word register at 0x0000 answers.
RawRegister == position % RAW_RANGE

Init ==
    /\ position \in -POSITION_BOUND..POSITION_BOUND
    /\ last_raw = NotRead
    /\ cumulative = NotRead
    /\ last_seen = position
    /\ reset_seen = position
    /\ reset_value = NotRead

\* The shaft turns.  Before tracking starts it may be anywhere; afterwards it
\* stays within half a range of where it was read last.
Move(target) ==
    /\ last_raw # NotRead =>
         target \in (last_seen - HALF_RAW_RANGE)..(last_seen + HALF_RAW_RANGE - 1)
    /\ position' = target
    /\ UNCHANGED <<last_raw, cumulative, last_seen, reset_seen, reset_value>>

\* reset(raw_value)
Reset ==
    /\ last_raw' = RawRegister
    /\ cumulative' = RawRegister
    /\ last_seen' = position
    /\ reset_seen' = position
    /\ reset_value' = RawRegister
    /\ UNCHANGED position

\* Mutant of SignedDelta: `>` instead of `>=`.
SignedDelta_OffByOne(raw, last) ==
    LET delta == (raw - last) % RAW_RANGE
    IN  IF delta > HALF_RAW_RANGE THEN delta - RAW_RANGE ELSE delta

\* The difference of two register values, the short way round.
SignedDelta(raw, last) ==
    LET delta == (raw - last) % RAW_RANGE
    IN  IF delta >= HALF_RAW_RANGE THEN delta - RAW_RANGE ELSE delta

\* update(raw_value): the first call seeds, every other adds a difference.
Update ==
    \/ /\ last_raw = NotRead
       /\ Reset
    \/ /\ last_raw # NotRead
       /\ cumulative' = cumulative + SignedDelta(RawRegister, last_raw)
       /\ last_raw' = RawRegister
       /\ last_seen' = position
       /\ UNCHANGED <<position, reset_seen, reset_value>>

\* The program is restarted: a new tracker knows nothing of the old one.
Restart ==
    /\ last_raw' = NotRead
    /\ cumulative' = NotRead
    /\ reset_value' = NotRead
    /\ UNCHANGED <<position, last_seen, reset_seen>>

Positions == -POSITION_BOUND..POSITION_BOUND

Next ==
    \/ \E target \in Positions : Move(target)
    \/ Reset
    \/ Update
    \/ Restart

Spec == Init /\ [][Next]_vars

-----------------------------------------------------------------------------
Tracking == last_raw # NotRead

\* Types of all the variables: the register value is a residue, the count any
\* integer.
TypeOK ==
    /\ position \in Int
    /\ last_seen \in Int
    /\ reset_seen \in Int
    /\ last_raw \in (0..RAW_RANGE - 1) \union {NotRead}
    /\ cumulative \in Int \union {NotRead}
    /\ reset_value \in Int \union {NotRead}
    /\ cumulative = NotRead <=> last_raw = NotRead
    /\ reset_value = NotRead <=> last_raw = NotRead

\* The unwrapped count has advanced, since tracking was seeded, by exactly the
\* pulses the shaft has turned, whatever number of times the register wrapped
\* in either direction.
CountFollowsShaft ==
    Tracking => cumulative - reset_value = last_seen - reset_seen

\* The stored register value is that of the last read: the next difference
\* starts where this one ended.
LastRawIsLastSeen == Tracking => last_raw = last_seen % RAW_RANGE

\* The shaft is never further from the last read than the difference can tell.
WithinHalfRange ==
    Tracking => position \in (last_seen - HALF_RAW_RANGE)
                                ..(last_seen + HALF_RAW_RANGE - 1)

IInv == TypeOK /\ CountFollowsShaft /\ LastRawIsLastSeen /\ WithinHalfRange
=============================================================================
