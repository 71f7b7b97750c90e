------------------------ MODULE HomeReference_proofs ------------------------
(***************************************************************************)
(* Proofs about EncoderPulseTracker and, on top of it, HomeReference, for  *)
(* every even register range (the code's 2^32 is one of them); and about   *)
(* the access to the drive's registers (DriveParameters), for every        *)
(* number of threads, every value of 31 bits and every assignment of the   *)
(* pins.                                                                   *)
(***************************************************************************)
EXTENDS HomeAndRegisters, Sequences, TLAPS

\* The register has at least one value.
LEMMA Range == RAW_RANGE \in Nat \ {0}
  BY RangeAssumption

\* Every integer is a multiple of the range plus its residue.
LEMMA Division ==
    ASSUME NEW a \in Int
    PROVE  /\ (a % RAW_RANGE) \in 0..(RAW_RANGE - 1)
           /\ (a \div RAW_RANGE) \in Int
           /\ a = (RAW_RANGE * (a \div RAW_RANGE)) + (a % RAW_RANGE)
  BY Range, SMTT(30)

\* Two residues of the same number are equal.
LEMMA Unique ==
    ASSUME NEW p \in Int, NEW q \in Int,
           NEW r \in 0..(RAW_RANGE - 1), NEW s \in 0..(RAW_RANGE - 1),
           (RAW_RANGE * p) + r = (RAW_RANGE * q) + s
    PROVE  r = s
  <1>1. RAW_RANGE * (p - q) = s - r
    BY Range, SMTT(30)
  <1>2. CASE p > q
    <2>1. RAW_RANGE * (p - q) >= RAW_RANGE
      BY <1>2, Range, SMTT(30)
    <2> QED
      BY <1>1, <2>1, Range
  <1>3. CASE p < q
    <2>1. RAW_RANGE * (q - p) >= RAW_RANGE
      BY <1>3, Range, SMTT(30)
    <2>2. RAW_RANGE * (p - q) = -(RAW_RANGE * (q - p))
      BY Range, SMTT(30)
    <2> QED
      BY <1>1, <2>1, <2>2, Range
  <1>4. CASE p = q
    BY <1>4, Range, SMTT(30)
  <1> QED
    BY <1>2, <1>3, <1>4

\* The difference of two register values is the true difference of the two
\* positions, when those are less than half a range apart.
LEMMA SignedDeltaIsTrueDelta ==
    ASSUME NEW a \in Int, NEW b \in Int,
           a \in (b - HALF_RAW_RANGE)..(b + HALF_RAW_RANGE - 1)
    PROVE  SignedDelta(a % RAW_RANGE, b % RAW_RANGE) = a - b
  <1> DEFINE x == (a % RAW_RANGE) - (b % RAW_RANGE)
             e == x % RAW_RANGE
             qa == a \div RAW_RANGE
             qb == b \div RAW_RANGE
             k == x \div RAW_RANGE
  <1>1. /\ qa \in Int /\ (a % RAW_RANGE) \in Int
        /\ a = (RAW_RANGE * qa) + (a % RAW_RANGE)
    BY Division, Range
  <1>2. /\ qb \in Int /\ (b % RAW_RANGE) \in Int
        /\ b = (RAW_RANGE * qb) + (b % RAW_RANGE)
    BY Division, Range
  <1>3. x \in Int
    BY <1>1, <1>2
  <1> HIDE DEF x
  <1>4. /\ k \in Int /\ e \in 0..(RAW_RANGE - 1)
        /\ x = (RAW_RANGE * k) + e
    BY <1>3, Division
  <1>5. x = (a % RAW_RANGE) - (b % RAW_RANGE)
    BY DEF x
  <1> HIDE DEF e, k, qa, qb
  <1>6. a - b = (RAW_RANGE * (k + qa - qb)) + e
    <2>1. a - b = (RAW_RANGE * qa) - (RAW_RANGE * qb) + (RAW_RANGE * k) + e
      BY <1>1, <1>2, <1>4, <1>5, Range
    <2>2. RAW_RANGE * (k + qa - qb)
            = (RAW_RANGE * qa) - (RAW_RANGE * qb) + (RAW_RANGE * k)
      BY <1>1, <1>2, <1>4, Range, SMTT(30)
    <2> QED
      BY <2>1, <2>2, <1>1, <1>2, <1>4, Range
  <1>7. SignedDelta(a % RAW_RANGE, b % RAW_RANGE)
          = IF e >= HALF_RAW_RANGE THEN e - RAW_RANGE ELSE e
    BY DEF SignedDelta, e, x
  <1>8. k + qa - qb \in Int
    BY <1>1, <1>2, <1>4
  <1>9. CASE a - b >= 0
    <2>1. a - b \in 0..(RAW_RANGE - 1) /\ a - b < HALF_RAW_RANGE
      BY <1>9, RangeAssumption
    <2>2. (RAW_RANGE * 0) + (a - b) = (RAW_RANGE * (k + qa - qb)) + e
      BY <1>6, Range
    <2>3. e = a - b
      BY <2>1, <2>2, <1>4, <1>8, Unique
    <2> QED
      BY <2>1, <2>3, <1>7, RangeAssumption
  <1>10. CASE a - b < 0
    <2>1. /\ a - b + RAW_RANGE \in 0..(RAW_RANGE - 1)
          /\ a - b + RAW_RANGE >= HALF_RAW_RANGE
      BY <1>10, RangeAssumption
    <2>2. (RAW_RANGE * (-1)) + (a - b + RAW_RANGE)
            = (RAW_RANGE * (k + qa - qb)) + e
      BY <1>6, Range
    <2>3. e = a - b + RAW_RANGE
      BY <2>1, <2>2, <1>4, <1>8, Unique
    <2> QED
      BY <2>1, <2>3, <1>7, <1>4, RangeAssumption
  <1> QED
    BY <1>9, <1>10

-----------------------------------------------------------------------------
\* Nothing is tracked at first.
LEMMA InitIInv == ASSUME Init PROVE IInv
  BY BoundAssumption
     DEF Init, IInv, TypeOK, CountFollowsShaft, LastRawIsLastSeen,
         WithinHalfRange, Tracking

\* What a reset establishes, whatever was tracked before.
LEMMA ResetIInv == ASSUME IInv, Reset PROVE IInv'
  <1>1. RawRegister \in 0..(RAW_RANGE - 1) /\ RawRegister # NotRead
    BY Division, NotReadAssumption, Range
       DEF IInv, TypeOK, RawRegister
  <1> QED
    BY <1>1, RangeAssumption
       DEF IInv, TypeOK, CountFollowsShaft, LastRawIsLastSeen,
           WithinHalfRange, Tracking, Reset, RawRegister

\* An update adds the true difference, also across a wrap.
LEMMA UpdateIInv == ASSUME IInv, Update PROVE IInv'
  <1>1. CASE last_raw = NotRead
    BY <1>1, ResetIInv DEF Update
  <1>2. CASE last_raw # NotRead
    <2> USE DEF IInv, TypeOK, CountFollowsShaft, LastRawIsLastSeen,
                WithinHalfRange, Tracking, RawRegister
    <2>1. (position % RAW_RANGE) \in 0..(RAW_RANGE - 1)
          /\ position % RAW_RANGE # NotRead
      BY Division, NotReadAssumption, Range
    <2>2. SignedDelta(position % RAW_RANGE, last_raw) = position - last_seen
      BY <1>2, SignedDeltaIsTrueDelta
    <2>3. /\ cumulative \in Int /\ reset_value \in Int
          /\ cumulative' = cumulative + (position - last_seen)
          /\ last_raw' = position % RAW_RANGE
          /\ last_seen' = position
          /\ UNCHANGED <<position, reset_seen, reset_value>>
      BY <1>2, <2>2, NotReadAssumption DEF Update
    <2>4. cumulative' \in Int /\ cumulative' # NotRead
      BY <2>3, NotReadAssumption
    <2>5. TypeOK'
      BY <2>1, <2>3, <2>4, NotReadAssumption
    <2>6. CountFollowsShaft'
      BY <1>2, <2>3
    <2>7. LastRawIsLastSeen' /\ WithinHalfRange'
      BY <2>3, RangeAssumption
    <2> QED
      BY <2>5, <2>6, <2>7
  <1> QED
    BY <1>1, <1>2

\* The invariant is inductive.
LEMMA NextIInv == ASSUME IInv, [Next]_vars PROVE IInv'
  <1> USE DEF IInv, TypeOK, CountFollowsShaft, LastRawIsLastSeen,
              WithinHalfRange, Tracking
  <1>1. ASSUME NEW target \in Positions, Move(target) PROVE IInv'
    BY <1>1, BoundAssumption DEF Move, Positions
  <1>2. CASE Reset
    BY <1>2, ResetIInv
  <1>3. CASE Update
    BY <1>3, UpdateIInv
  <1>4. CASE Restart
    BY <1>4 DEF Restart
  <1>5. CASE UNCHANGED vars
    BY <1>5 DEF vars
  <1> QED
    BY <1>1, <1>2, <1>3, <1>4, <1>5 DEF Next

\* The inductive invariant holds in every reachable state.
THEOREM TrackerInvariant == Spec => []IInv
  <1>1. Init => IInv
    BY InitIInv
  <1>2. IInv /\ [Next]_vars => IInv'
    BY NextIInv
  <1> QED
    BY <1>1, <1>2, PTL DEF Spec

\* Type correctness of the tracker.
THEOREM TrackerTypeOK == Spec => []TypeOK
  <1>1. IInv => TypeOK
    BY DEF IInv
  <1> QED
    BY <1>1, TrackerInvariant, PTL

\* Whatever the register range, however often the counter wraps, the unwrapped
\* count moves with the shaft.
THEOREM TrackerFollowsShaft == Spec => []CountFollowsShaft
  <1>1. IInv => CountFollowsShaft
    BY DEF IInv
  <1> QED
    BY <1>1, TrackerInvariant, PTL

-----------------------------------------------------------------------------
(* The home references. *)

HomeTypeOK ==
    /\ base \in Int /\ zero \in Int /\ absolute_mode \in BOOLEAN
    /\ abs_home_pos \in Int /\ file \in Int /\ current_angle \in Int
    /\ abs_home_pos_absolute \in Int \union {NotRead}
    /\ absolute_offset \in Int \union {NotRead}
    /\ home_shaft \in Int \union {NotRead}
    /\ angle_shaft \in Int \union {NotRead}
    /\ saving \in BOOLEAN /\ adopted \in BOOLEAN

\* The count is the shaft, less the whole ranges it was away from 0 when tracking
\* was seeded.
CountIsShaft ==
    Tracking => cumulative = last_seen - RAW_RANGE * (reset_seen \div RAW_RANGE)

\* Where the file's home is: the register value of the last SET HOME.
FileIsHome ==
    /\ saving => /\ ~absolute_mode /\ ~adopted /\ Tracking
                 /\ home_shaft = base + reset_seen
    /\ ~absolute_mode /\ ~saving /\ home_shaft # NotRead => file = (home_shaft - base) % RAW_RANGE

\* What the reference in use is, in either mode, while it is the last SET HOME's.
ReferenceIsHome ==
    adopted => /\ home_shaft # NotRead
               /\ IF absolute_mode
                  THEN abs_home_pos_absolute = home_shaft - zero
                  ELSE abs_home_pos = (home_shaft - base) % RAW_RANGE

\* The offset between the two scales holds for the tracker it was computed with.
OffsetHolds ==
    absolute_mode /\ absolute_offset # NotRead =>
        /\ Tracking
        /\ adopted => absolute_offset = base - zero + RAW_RANGE * (reset_seen \div RAW_RANGE)

\* Before the first read after a restart there is no angle.
AngleWasRead ==
    ~absolute_mode /\ ~Tracking => angle_shaft = NotRead

HomeInv ==
    /\ IInv /\ HomeTypeOK /\ CountIsShaft /\ FileIsHome /\ ReferenceIsHome
    /\ OffsetHolds /\ AngleWasRead /\ MeasuredFromHome

\* What every read of the counter does.
LEMMA ReadCounts ==
  ASSUME IInv, CountIsShaft, Update
  PROVE  /\ IInv' /\ CountIsShaft' /\ Tracking'
         /\ last_seen' = position /\ position' = position /\ cumulative' \in Int
         /\ Tracking => reset_seen' = reset_seen
<1>1. IInv' /\ IInv
  BY UpdateIInv
<1>2. last_seen' = position /\ position' = position
  BY DEF Update, Reset
<1>3. CASE last_raw = NotRead
  <2>1. last_raw' = RawRegister /\ cumulative' = RawRegister /\ reset_seen' = position
    BY <1>3 DEF Update, Reset
  <2>2. position \in Int /\ RawRegister \in 0..(RAW_RANGE - 1) /\ RawRegister # NotRead
    BY Division, NotReadAssumption, Range DEF IInv, TypeOK, RawRegister
  <2>3. position = (RAW_RANGE * (position \div RAW_RANGE)) + RawRegister
        /\ (position \div RAW_RANGE) \in Int
    BY <2>2, Division DEF RawRegister
  <2>4. RAW_RANGE * (position \div RAW_RANGE) \in Int
    BY <2>3, Range
  <2>5. cumulative' = last_seen' - RAW_RANGE * (reset_seen' \div RAW_RANGE)
    BY <1>2, <2>1, <2>2, <2>3, <2>4
  <2> QED
    BY <1>1, <1>2, <1>3, <2>1, <2>2, <2>5, Range DEF CountIsShaft, Tracking
<1>4. CASE last_raw # NotRead
  <2>1. last_raw' = RawRegister /\ reset_seen' = reset_seen /\ reset_value' = reset_value
    BY <1>4 DEF Update, Reset
  <2>2. last_raw' # NotRead
    BY <2>1, Division, NotReadAssumption, Range DEF IInv, TypeOK, RawRegister
  <2>3. /\ cumulative \in Int /\ cumulative' \in Int /\ reset_value \in Int
        /\ reset_seen \in Int /\ last_seen \in Int /\ position \in Int
        /\ cumulative - reset_value = last_seen - reset_seen
        /\ cumulative' - reset_value = position - reset_seen
    BY <1>1, <1>2, <1>4, <2>1, <2>2 DEF IInv, TypeOK, CountFollowsShaft, Tracking
  <2>4. RAW_RANGE * (reset_seen \div RAW_RANGE) \in Int
    BY <2>3, Division, Range
  <2>5. cumulative = last_seen - RAW_RANGE * (reset_seen \div RAW_RANGE)
    BY <1>4 DEF CountIsShaft, Tracking
  <2>6. cumulative' = position - RAW_RANGE * (reset_seen \div RAW_RANGE)
    <3>1. PICK w \in Int : w = RAW_RANGE * (reset_seen \div RAW_RANGE)
      BY <2>4
    <3>2. cumulative = last_seen - w
      BY <2>5, <3>1
    <3>3. PICK c \in Int, d \in Int, v \in Int, p \in Int, l \in Int, r \in Int :
            /\ c = cumulative /\ d = cumulative' /\ v = reset_value
            /\ p = position /\ l = last_seen /\ r = reset_seen
      BY <2>3
    <3>4. c - v = l - r /\ d - v = p - r /\ c = l - w
      BY <2>3, <3>2, <3>3
    <3>5. d = p - w
      BY <3>4
    <3>6. cumulative' = position - w
      BY <3>3, <3>5
    <3> QED
      BY <3>1, <3>6
  <2> QED
    BY <1>1, <1>2, <2>1, <2>2, <2>3, <2>6 DEF CountIsShaft, Tracking
<1> QED
  BY <1>3, <1>4

\* What SET HOME does to the tracker.
LEMMA ResetCounts ==
  ASSUME IInv, Reset
  PROVE  /\ IInv' /\ CountIsShaft' /\ Tracking'
         /\ last_seen' = position /\ position' = position /\ reset_seen' = position
         /\ cumulative' \in Int /\ position \in Int
         /\ cumulative' = position - RAW_RANGE * (position \div RAW_RANGE)
         /\ RAW_RANGE * (position \div RAW_RANGE) \in Int
<1>1. IInv'
  BY ResetIInv
<1>2. /\ last_raw' = RawRegister /\ cumulative' = RawRegister /\ reset_seen' = position
      /\ last_seen' = position /\ position' = position
  BY DEF Reset
<1>3. position \in Int /\ RawRegister \in 0..(RAW_RANGE - 1) /\ RawRegister # NotRead
  BY Division, NotReadAssumption, Range DEF IInv, TypeOK, RawRegister
<1>4. position = (RAW_RANGE * (position \div RAW_RANGE)) + RawRegister
      /\ (position \div RAW_RANGE) \in Int
  BY <1>3, Division DEF RawRegister
<1>5. RAW_RANGE * (position \div RAW_RANGE) \in Int
  BY <1>4, Range
<1>6. cumulative' = position - RAW_RANGE * (position \div RAW_RANGE)
  BY <1>2, <1>3, <1>4, <1>5
<1> QED
  BY <1>1, <1>2, <1>3, <1>5, <1>6, Range DEF CountIsShaft, Tracking

LEMMA HomeInitInv == HomeInit => HomeInv
<1> SUFFICES ASSUME HomeInit PROVE HomeInv
  OBVIOUS
<1>1. IInv /\ last_raw = NotRead
  BY InitIInv DEF HomeInit, Init
<1>2. HomeTypeOK
  <2>1. absolute_mode \in BOOLEAN /\ saving \in BOOLEAN /\ adopted \in BOOLEAN
    BY Zenon DEF HomeInit
  <2>2. /\ base = 0 /\ zero = 0 /\ abs_home_pos = 0 /\ file = 0 /\ current_angle = 0
        /\ abs_home_pos_absolute = NotRead /\ absolute_offset = NotRead
        /\ home_shaft = NotRead /\ angle_shaft = NotRead
    BY DEF HomeInit
  <2> QED
    BY <2>1, <2>2 DEF HomeTypeOK
<1>3. /\ ~saving /\ home_shaft = NotRead /\ ~adopted /\ absolute_offset = NotRead
      /\ angle_shaft = NotRead
  BY DEF HomeInit
<1> QED
  BY <1>1, <1>2, <1>3
     DEF HomeInv, CountIsShaft, FileIsHome, ReferenceIsHome, OffsetHolds, AngleWasRead,
         MeasuredFromHome, Tracking

LEMMA HomeTurn ==
  ASSUME HomeInv, NEW target \in Positions, Turn(target)
  PROVE  HomeInv'
<1>1. IInv'
  <2>1. [Next]_vars
    BY DEF Turn, Next
  <2> QED
    BY <2>1, NextIInv DEF HomeInv
<1>2. /\ UNCHANGED <<last_raw, cumulative, last_seen, reset_seen, reset_value>>
      /\ UNCHANGED home_vars
  BY DEF Turn, Move, home_vars
<1> QED
  BY <1>1, <1>2
     DEF HomeInv, home_vars, environment, references, HomeTypeOK, CountIsShaft, FileIsHome,
         ReferenceIsHome, OffsetHolds, AngleWasRead, MeasuredFromHome, HomeTrusted, Tracking

\* The numbers the invariant adds up.
LEMMA HomeNumbers ==
  ASSUME HomeInv
  PROVE  /\ position \in Int /\ last_seen \in Int /\ reset_seen \in Int
         /\ base \in Int /\ zero \in Int
         /\ RAW_RANGE * (reset_seen \div RAW_RANGE) \in Int
         /\ home_shaft # NotRead =>
              /\ home_shaft \in Int
              /\ (home_shaft - base) % RAW_RANGE \in Int
              /\ RAW_RANGE * ((home_shaft - base) \div RAW_RANGE) \in Int
              /\ home_shaft - base = RAW_RANGE * ((home_shaft - base) \div RAW_RANGE)
                                       + ((home_shaft - base) % RAW_RANGE)
<1>1. position \in Int /\ last_seen \in Int /\ reset_seen \in Int /\ base \in Int /\ zero \in Int
  BY DEF HomeInv, IInv, TypeOK, HomeTypeOK
<1>2. RAW_RANGE * (reset_seen \div RAW_RANGE) \in Int
  <2>1. (reset_seen \div RAW_RANGE) \in Int
    BY <1>1, Division
  <2> QED
    BY <2>1, Range
<1>3. ASSUME home_shaft # NotRead
      PROVE  /\ home_shaft \in Int
             /\ (home_shaft - base) % RAW_RANGE \in Int
             /\ RAW_RANGE * ((home_shaft - base) \div RAW_RANGE) \in Int
             /\ home_shaft - base = RAW_RANGE * ((home_shaft - base) \div RAW_RANGE)
                                      + ((home_shaft - base) % RAW_RANGE)
  <2>1. home_shaft \in Int
    BY <1>3 DEF HomeInv, HomeTypeOK
  <2>2. home_shaft - base \in Int
    BY <1>1, <2>1
  <2>3. /\ ((home_shaft - base) % RAW_RANGE) \in 0..(RAW_RANGE - 1)
        /\ ((home_shaft - base) \div RAW_RANGE) \in Int
        /\ home_shaft - base = (RAW_RANGE * ((home_shaft - base) \div RAW_RANGE))
                                 + ((home_shaft - base) % RAW_RANGE)
    BY <2>2, Division
  <2>4. RAW_RANGE * ((home_shaft - base) \div RAW_RANGE) \in Int
    BY <2>3, Range
  <2>5. ((home_shaft - base) % RAW_RANGE) \in Int
    <3>1. PICK m \in 0..(RAW_RANGE - 1) : m = (home_shaft - base) % RAW_RANGE
      BY <2>3
    <3> QED
      BY <3>1, Range
  <2> QED
    BY <2>1, <2>3, <2>4, <2>5
<1> QED
  BY <1>1, <1>2, <1>3

\* The angle of a read while the reference is the last SET HOME's.  With the
\* absolute scale p is what the drive answers, without it the register is unwrapped
\* in the window the home was set in.
LEMMA AngleOfScale ==
  ASSUME NEW b \in Int, NEW z \in Int, NEW p \in Int, NEW h \in Int
  PROVE  ((b + p) - z) - (h - z) = (b + p) - h
  OBVIOUS

LEMMA AngleOfOffset ==
  ASSUME NEW b \in Int, NEW z \in Int, NEW p \in Int, NEW h \in Int, NEW w \in Int
  PROVE  /\ ((p - w) + ((b - z) + w)) - (h - z) = (b + p) - h
         /\ ((b + p) - z) - (p - w) = (b - z) + w
  OBVIOUS

\* The window the tracker counts in, and what it counts, after a read.
LEMMA Window ==
  ASSUME HomeInv, Update
  PROVE  \E w \in Int : /\ w = RAW_RANGE * (reset_seen' \div RAW_RANGE)
                        /\ cumulative' = position - w
                        /\ Tracking => w = RAW_RANGE * (reset_seen \div RAW_RANGE)
<1>1. IInv' /\ CountIsShaft' /\ Tracking' /\ last_seen' = position
      /\ (Tracking => reset_seen' = reset_seen)
  BY ReadCounts DEF HomeInv
<1>2. (reset_seen' \div RAW_RANGE) \in Int
  BY <1>1, Division DEF IInv, TypeOK
<1>3. RAW_RANGE * (reset_seen' \div RAW_RANGE) \in Int
  BY <1>2, Range
<1> QED
  BY <1>1, <1>3 DEF CountIsShaft

\* An angle in pulses of the unwrapped count.
LEMMA CountedAngle ==
  ASSUME HomeInv, Update, ~absolute_mode, UNCHANGED <<base, home_shaft, adopted, absolute_mode>>,
         current_angle' = cumulative' - abs_home_pos, angle_shaft' = shaft
  PROVE  MeasuredFromHome'
<1> SUFFICES ASSUME HomeTrusted'
             PROVE  current_angle' = angle_shaft' - home_shaft'
  BY DEF MeasuredFromHome
<1>1. /\ adopted /\ reset_seen' \div RAW_RANGE = (home_shaft - base) \div RAW_RANGE
  BY DEF HomeTrusted
<1>2. home_shaft # NotRead /\ abs_home_pos = (home_shaft - base) % RAW_RANGE
  BY <1>1 DEF HomeInv, ReferenceIsHome
<1>3. PICK w \in Int : w = RAW_RANGE * (reset_seen' \div RAW_RANGE) /\ cumulative' = position - w
  BY Window
<1>4. PICK b \in Int, h \in Int, m \in Int, p \in Int :
        b = base /\ h = home_shaft /\ m = abs_home_pos /\ p = position
  BY <1>2, HomeNumbers
<1>5. h - b = w + m
  BY <1>1, <1>2, <1>3, <1>4, HomeNumbers
<1>6. (p - w) - m = (b + p) - h
  BY <1>5
<1> QED
  BY <1>3, <1>4, <1>6 DEF shaft

LEMMA HomeRefresh ==
  ASSUME HomeInv, Refresh
  PROVE  HomeInv'
<1>1. /\ Update
      /\ absolute_offset' = IF absolute_mode THEN AbsolutePulses - cumulative' ELSE absolute_offset
      /\ UNCHANGED <<base, zero, absolute_mode, abs_home_pos, abs_home_pos_absolute, file, saving,
                     home_shaft, adopted>>
      /\ IF ActiveHome = NotRead
         THEN UNCHANGED <<current_angle, angle_shaft>>
         ELSE current_angle' = ReferenceRead - ActiveHome /\ angle_shaft' = shaft
  BY DEF Refresh, ReadReferenceEncoder, environment
<1>2. /\ IInv' /\ CountIsShaft' /\ Tracking' /\ cumulative' \in Int
      /\ (Tracking => reset_seen' = reset_seen)
  BY <1>1, ReadCounts DEF HomeInv
<1>3. HomeTypeOK
  BY DEF HomeInv
<1>4. PICK w \in Int : w = RAW_RANGE * (reset_seen' \div RAW_RANGE) /\ cumulative' = position - w
  BY <1>1, Window
<1>5. AbsolutePulses \in Int /\ shaft \in Int /\ absolute_offset' \in Int \union {NotRead}
  BY <1>1, <1>2, <1>3, HomeNumbers DEF AbsolutePulses, shaft, HomeTypeOK
<1>6. current_angle' \in Int /\ angle_shaft' \in Int \union {NotRead}
  BY <1>1, <1>2, <1>3, <1>5 DEF ActiveHome, ReferenceRead, HomeTypeOK
<1>7. HomeTypeOK'
  BY <1>1, <1>3, <1>5, <1>6 DEF HomeTypeOK
<1>8. FileIsHome' /\ ReferenceIsHome' /\ AngleWasRead'
  BY <1>1, <1>2 DEF HomeInv, FileIsHome, ReferenceIsHome, AngleWasRead
<1>9. OffsetHolds'
  <2>1. ASSUME absolute_mode PROVE absolute_offset' = base - zero + w
    <3>1. PICK b \in Int, z \in Int, p \in Int : b = base /\ z = zero /\ p = position
      BY HomeNumbers
    <3>2. ((b + p) - z) - (p - w) = (b - z) + w
      OBVIOUS
    <3> QED
      BY <1>1, <1>4, <2>1, <3>1, <3>2 DEF AbsolutePulses, shaft
  <2> QED
    BY <1>1, <1>2, <1>4, <2>1 DEF OffsetHolds
<1>10. MeasuredFromHome'
  <2>1. CASE ~absolute_mode
    <3>1. current_angle' = cumulative' - abs_home_pos /\ angle_shaft' = shaft
      BY <1>1, <1>3, <2>1, NotReadAssumption DEF ActiveHome, ReferenceRead, HomeTypeOK
    <3> QED
      BY <1>1, <2>1, <3>1, CountedAngle
  <2>2. CASE absolute_mode /\ adopted
    <3>1. home_shaft \in Int /\ abs_home_pos_absolute = home_shaft - zero
          /\ base \in Int /\ zero \in Int /\ position \in Int
      BY <2>2, HomeNumbers DEF HomeInv, ReferenceIsHome
    <3>2. ActiveHome = home_shaft - zero /\ ActiveHome # NotRead
      BY <2>2, <3>1, NotReadAssumption DEF ActiveHome
    <3>3. current_angle' = ((base + position) - zero) - (home_shaft - zero) /\ angle_shaft' = base + position
      BY <1>1, <2>2, <3>2 DEF ReferenceRead, AbsolutePulses, shaft
    <3>4. current_angle' = (base + position) - home_shaft
      BY <3>1, <3>3, AngleOfScale
    <3> QED
      BY <1>1, <3>3, <3>4 DEF MeasuredFromHome
  <2>3. CASE ~adopted
    BY <1>1, <2>3 DEF MeasuredFromHome, HomeTrusted
  <2> QED
    BY <2>1, <2>2, <2>3
<1> QED
  BY <1>2, <1>7, <1>8, <1>9, <1>10 DEF HomeInv

LEMMA HomeRefreshFails ==
  ASSUME HomeInv, RefreshFails
  PROVE  HomeInv'
<1>1. Update /\ absolute_mode /\ UNCHANGED home_vars
  BY DEF RefreshFails
<1>2. /\ IInv' /\ CountIsShaft' /\ Tracking'
      /\ (Tracking => reset_seen' = reset_seen)
  BY <1>1, ReadCounts DEF HomeInv
<1>3. HomeTypeOK' /\ ReferenceIsHome' /\ AngleWasRead' /\ FileIsHome'
  BY <1>1, <1>2
     DEF HomeInv, home_vars, environment, references, HomeTypeOK, ReferenceIsHome, AngleWasRead,
         FileIsHome
<1>4. OffsetHolds' /\ MeasuredFromHome'
  BY <1>1, <1>2
     DEF HomeInv, home_vars, environment, references, OffsetHolds, MeasuredFromHome, HomeTrusted
<1> QED
  BY <1>2, <1>3, <1>4 DEF HomeInv

LEMMA HomePoll ==
  ASSUME HomeInv, Poll
  PROVE  HomeInv'
<1>1. /\ Update
      /\ IF absolute_mode /\ absolute_offset # NotRead /\ abs_home_pos_absolute # NotRead
         THEN current_angle' = cumulative' + absolute_offset - abs_home_pos_absolute
         ELSE current_angle' = cumulative' - abs_home_pos
      /\ angle_shaft' = IF absolute_mode /\ absolute_offset = NotRead THEN NotRead ELSE shaft
      /\ UNCHANGED <<base, zero, absolute_mode, abs_home_pos, abs_home_pos_absolute,
                     absolute_offset, file, saving, home_shaft, adopted>>
  BY DEF Poll, environment, references
<1>2. /\ IInv' /\ CountIsShaft' /\ Tracking' /\ cumulative' \in Int
      /\ (Tracking => reset_seen' = reset_seen)
  BY <1>1, ReadCounts DEF HomeInv
<1>3. HomeTypeOK
  BY DEF HomeInv
<1>4. PICK w \in Int : /\ w = RAW_RANGE * (reset_seen' \div RAW_RANGE) /\ cumulative' = position - w
                       /\ Tracking => w = RAW_RANGE * (reset_seen \div RAW_RANGE)
  BY <1>1, Window
<1>5. shaft \in Int
  BY HomeNumbers DEF shaft
<1>6. current_angle' \in Int /\ angle_shaft' \in Int \union {NotRead}
  BY <1>1, <1>2, <1>3, <1>5 DEF HomeTypeOK
<1>7. HomeTypeOK'
  BY <1>1, <1>3, <1>6 DEF HomeTypeOK
<1>8. FileIsHome' /\ ReferenceIsHome' /\ AngleWasRead' /\ OffsetHolds'
  BY <1>1, <1>2 DEF HomeInv, FileIsHome, ReferenceIsHome, AngleWasRead, OffsetHolds
<1>9. MeasuredFromHome'
  <2>1. CASE ~absolute_mode
    BY <1>1, <2>1, CountedAngle
  <2>2. CASE absolute_mode /\ adopted /\ absolute_offset # NotRead
    <3>1. /\ home_shaft \in Int /\ abs_home_pos_absolute = home_shaft - zero
          /\ base \in Int /\ zero \in Int /\ position \in Int
      BY <2>2, HomeNumbers DEF HomeInv, ReferenceIsHome
    <3>2. absolute_offset = (base - zero) + w
      BY <1>4, <2>2 DEF HomeInv, OffsetHolds
    <3>3. abs_home_pos_absolute # NotRead
      BY <3>1, NotReadAssumption
    <3>4. current_angle' = ((position - w) + ((base - zero) + w)) - (home_shaft - zero)
          /\ angle_shaft' = base + position
      BY <1>1, <1>4, <2>2, <3>1, <3>2, <3>3 DEF shaft
    <3>5. current_angle' = (base + position) - home_shaft
      BY <3>1, <3>4, AngleOfOffset
    <3> QED
      BY <1>1, <3>4, <3>5 DEF MeasuredFromHome
  <2>3. CASE absolute_mode /\ absolute_offset = NotRead
    BY <1>1, <2>3 DEF MeasuredFromHome
  <2>4. CASE ~adopted
    BY <1>1, <2>4 DEF MeasuredFromHome, HomeTrusted
  <2> QED
    BY <2>1, <2>2, <2>3, <2>4
<1> QED
  BY <1>2, <1>7, <1>8, <1>9 DEF HomeInv

LEMMA HomeSetHome ==
  ASSUME HomeInv, SetHome
  PROVE  HomeInv'
<1>1. /\ ~absolute_mode /\ Reset /\ saving' = TRUE /\ adopted' = FALSE
      /\ current_angle' = 0 /\ angle_shaft' = shaft /\ home_shaft' = shaft
      /\ UNCHANGED <<base, zero, absolute_mode, abs_home_pos, abs_home_pos_absolute,
                     absolute_offset, file>>
  BY DEF SetHome, HomeIsHere, environment, references
<1>2. IInv' /\ CountIsShaft' /\ Tracking' /\ reset_seen' = position
  BY <1>1, ResetCounts DEF HomeInv
<1>3. shaft \in Int /\ HomeTypeOK
  BY HomeNumbers DEF shaft, HomeInv
<1>4. HomeTypeOK'
  <2>1. saving' \in BOOLEAN /\ adopted' \in BOOLEAN
    BY <1>1, Zenon
  <2> QED
    BY <1>1, <1>3, <2>1 DEF HomeTypeOK
<1>5. FileIsHome' /\ ReferenceIsHome' /\ OffsetHolds' /\ AngleWasRead' /\ MeasuredFromHome'
  BY <1>1, <1>2
     DEF FileIsHome, ReferenceIsHome, OffsetHolds, AngleWasRead, MeasuredFromHome, HomeTrusted, shaft
<1> QED
  BY <1>2, <1>4, <1>5 DEF HomeInv

LEMMA HomeSaveHome ==
  ASSUME HomeInv, SaveHome
  PROVE  HomeInv'
<1>1. /\ saving /\ saving' = FALSE /\ file' = cumulative
      /\ home_shaft' = IF base + last_seen = home_shaft THEN home_shaft ELSE NotRead
      /\ UNCHANGED vars
      /\ UNCHANGED <<base, zero, absolute_mode, abs_home_pos, abs_home_pos_absolute,
                     absolute_offset, current_angle, angle_shaft, adopted>>
  BY DEF SaveHome, environment, references
<1>2. /\ ~absolute_mode /\ ~adopted /\ Tracking /\ home_shaft = base + reset_seen
      /\ cumulative = last_seen - RAW_RANGE * (reset_seen \div RAW_RANGE)
  BY <1>1 DEF HomeInv, FileIsHome, CountIsShaft
<1>3. IInv' /\ CountIsShaft'
  <2>1. IInv'
    BY <1>1, NextIInv DEF HomeInv
  <2> QED
    BY <1>1, <2>1 DEF HomeInv, CountIsShaft, vars, Tracking
<1>4. cumulative \in Int /\ HomeTypeOK
  BY <1>2 DEF HomeInv, IInv, TypeOK, Tracking
<1>5. HomeTypeOK'
  BY <1>1, <1>4 DEF HomeTypeOK
<1>6. ReferenceIsHome' /\ OffsetHolds' /\ AngleWasRead' /\ MeasuredFromHome'
  BY <1>1, <1>2
     DEF HomeInv, ReferenceIsHome, OffsetHolds, AngleWasRead, MeasuredFromHome, HomeTrusted,
         Tracking, vars
<1>7. FileIsHome'
  <2> SUFFICES ASSUME home_shaft' # NotRead
               PROVE  file' = (home_shaft' - base') % RAW_RANGE
    BY <1>1 DEF FileIsHome
  <2>1. home_shaft' = home_shaft /\ base + last_seen = home_shaft
    BY <1>1
  <2>2. base \in Int /\ last_seen \in Int /\ reset_seen \in Int
    BY HomeNumbers
  <2>3. last_seen = reset_seen /\ home_shaft - base = reset_seen
    BY <1>2, <2>1, <2>2
  <2>4. PICK q \in Int, m \in Int : /\ q = RAW_RANGE * (reset_seen \div RAW_RANGE)
                                    /\ m = reset_seen % RAW_RANGE
                                    /\ reset_seen = q + m
    <3>1. /\ (reset_seen % RAW_RANGE) \in 0..(RAW_RANGE - 1)
          /\ reset_seen = (RAW_RANGE * (reset_seen \div RAW_RANGE)) + (reset_seen % RAW_RANGE)
      BY <2>2, Division
    <3>2. PICK m \in 0..(RAW_RANGE - 1) : m = reset_seen % RAW_RANGE
      BY <3>1
    <3> QED
      BY <3>1, <3>2, Range, HomeNumbers
  <2>5. cumulative = m
    BY <1>2, <2>2, <2>3, <2>4
  <2> QED
    BY <1>1, <2>1, <2>3, <2>4, <2>5
<1> QED
  BY <1>3, <1>5, <1>6, <1>7 DEF HomeInv

LEMMA HomeSetHomeAbsolute ==
  ASSUME HomeInv, SetHomeAbsolute
  PROVE  HomeInv'
<1>1. /\ absolute_mode /\ Reset /\ adopted' = TRUE
      /\ current_angle' = 0 /\ angle_shaft' = shaft /\ home_shaft' = shaft
      /\ absolute_offset' = AbsolutePulses - cumulative'
      /\ abs_home_pos_absolute' = AbsolutePulses
      /\ UNCHANGED <<base, zero, absolute_mode, abs_home_pos, file, saving>>
  BY DEF SetHomeAbsolute, HomeIsHere, environment
<1>2. /\ IInv' /\ CountIsShaft' /\ Tracking' /\ reset_seen' = position /\ position \in Int
      /\ cumulative' \in Int
      /\ cumulative' = position - RAW_RANGE * (position \div RAW_RANGE)
      /\ RAW_RANGE * (position \div RAW_RANGE) \in Int
  BY <1>1, ResetCounts DEF HomeInv
<1>3. /\ shaft \in Int /\ AbsolutePulses \in Int /\ shaft # NotRead
      /\ AbsolutePulses = shaft - zero /\ shaft = base + position
      /\ base \in Int /\ zero \in Int /\ HomeTypeOK
  BY HomeNumbers, NotReadAssumption DEF shaft, AbsolutePulses, HomeInv
<1>4. HomeTypeOK'
  <2>1. adopted' \in BOOLEAN /\ absolute_offset' \in Int
    BY <1>1, <1>2, <1>3
  <2> QED
    BY <1>1, <1>3, <2>1 DEF HomeTypeOK
<1>5. FileIsHome' /\ ReferenceIsHome' /\ AngleWasRead'
  BY <1>1, <1>2, <1>3 DEF HomeInv, FileIsHome, ReferenceIsHome, AngleWasRead
<1>6. MeasuredFromHome'
  BY <1>1, <1>3 DEF MeasuredFromHome
<1>7. OffsetHolds'
  <2>1. PICK w \in Int : w = RAW_RANGE * (position \div RAW_RANGE) /\ cumulative' = position - w
    BY <1>2
  <2>2. ((base + position) - zero) - (position - w) = (base - zero) + w
    BY <1>2, <1>3, AngleOfOffset
  <2> QED
    BY <1>1, <1>2, <1>3, <2>1, <2>2 DEF OffsetHolds
<1> QED
  BY <1>2, <1>4, <1>5, <1>6, <1>7 DEF HomeInv

LEMMA HomeWritePA29 ==
  ASSUME HomeInv, WritePA29
  PROVE  HomeInv'
<1>1. /\ absolute_mode /\ zero' = shaft /\ adopted' = FALSE /\ UNCHANGED vars
      /\ UNCHANGED <<base, absolute_mode, abs_home_pos, abs_home_pos_absolute, absolute_offset,
                     current_angle, file, saving, home_shaft, angle_shaft>>
  BY DEF WritePA29, references
<1>2. IInv' /\ CountIsShaft'
  <2>1. IInv'
    BY <1>1, NextIInv DEF HomeInv
  <2> QED
    BY <1>1, <2>1 DEF HomeInv, CountIsShaft, vars, Tracking
<1>3. HomeTypeOK'
  <2>1. zero' \in Int
    BY <1>1, HomeNumbers DEF shaft
  <2>2. adopted' \in BOOLEAN
    BY <1>1, Zenon
  <2> QED
    BY <1>1, <2>1, <2>2 DEF HomeInv, HomeTypeOK
<1>4. FileIsHome' /\ ReferenceIsHome' /\ OffsetHolds' /\ AngleWasRead' /\ MeasuredFromHome'
  BY <1>1
     DEF HomeInv, FileIsHome, ReferenceIsHome, OffsetHolds, AngleWasRead, MeasuredFromHome,
         HomeTrusted, Tracking, vars
<1> QED
  BY <1>2, <1>3, <1>4 DEF HomeInv

LEMMA HomeProgramRestart ==
  ASSUME HomeInv, NEW power \in BOOLEAN, ProgramRestart(power)
  PROVE  HomeInv'
<1>1. /\ base' = IF power THEN shaft ELSE base
      /\ position' = IF power THEN 0 ELSE position
      /\ last_raw' = NotRead /\ cumulative' = NotRead /\ reset_value' = NotRead
      /\ last_seen' = position' /\ reset_seen' = position'
      /\ abs_home_pos' = file /\ abs_home_pos_absolute' = abs_home_pos_absolute
      /\ absolute_offset' = NotRead
      /\ current_angle' = 0 /\ angle_shaft' = NotRead
      /\ saving' = FALSE
      /\ IF absolute_mode
         THEN UNCHANGED <<adopted, home_shaft>>
         ELSE /\ adopted' = (home_shaft # NotRead /\ ~power /\ ~saving)
              /\ home_shaft' = IF power \/ saving THEN NotRead ELSE home_shaft
      /\ UNCHANGED <<zero, absolute_mode, file>>
  BY DEF ProgramRestart, LoadReferences
<1>2. IInv'
  BY <1>1, HomeNumbers
     DEF IInv, TypeOK, CountFollowsShaft, LastRawIsLastSeen, WithinHalfRange, Tracking
<1>3. HomeTypeOK'
  <2>1. saving' \in BOOLEAN /\ adopted' \in BOOLEAN
    BY <1>1 DEF HomeInv, HomeTypeOK
  <2>2. base' \in Int /\ home_shaft' \in Int \union {NotRead}
    BY <1>1, HomeNumbers DEF shaft, HomeInv, HomeTypeOK
  <2> QED
    BY <1>1, <2>1, <2>2 DEF HomeInv, HomeTypeOK
<1>4. CountIsShaft' /\ OffsetHolds' /\ AngleWasRead' /\ MeasuredFromHome'
  BY <1>1 DEF CountIsShaft, OffsetHolds, AngleWasRead, MeasuredFromHome, Tracking
<1>5. FileIsHome' /\ ReferenceIsHome'
  BY <1>1 DEF HomeInv, FileIsHome, ReferenceIsHome
<1> QED
  BY <1>2, <1>3, <1>4, <1>5 DEF HomeInv

\* HomeInv holds in every reachable state of the program with its home references.
THEOREM HomeInvariant == HomeSpec => []HomeInv
<1>1. HomeInv /\ [HomeNext]_<<vars, home_vars>> => HomeInv'
  <2> SUFFICES ASSUME HomeInv, [HomeNext]_<<vars, home_vars>> PROVE HomeInv'
    OBVIOUS
  <2>1. CASE UNCHANGED <<vars, home_vars>>
    <3>1. UNCHANGED vars /\ UNCHANGED home_vars /\ IInv'
      BY <2>1, NextIInv DEF HomeInv
    <3> QED
      BY <3>1
         DEF vars, home_vars, environment, references, HomeInv, HomeTypeOK, CountIsShaft,
             FileIsHome, ReferenceIsHome, OffsetHolds, AngleWasRead, MeasuredFromHome,
             HomeTrusted, Tracking
  <2> QED
    BY <2>1, HomeTurn, HomeRefresh, HomeRefreshFails, HomePoll, HomeSetHome, HomeSaveHome,
       HomeSetHomeAbsolute, HomeWritePA29, HomeProgramRestart DEF HomeNext
<1> QED
  BY <1>1, HomeInitInv, PTL DEF HomeSpec

\* For every even register range and any number of restarts: while the reference in
\* use is the one last set, the angle is measured from where SET HOME was pressed.
THEOREM HomeMeasuredFromHome == HomeSpec => []MeasuredFromHome
<1>1. HomeInv => MeasuredFromHome
  BY DEF HomeInv
<1> QED
  BY <1>1, HomeInvariant, PTL

\* The unwrapped count still follows the shaft when SET HOME, one-shot reads and
\* restarts of program and drive come between the reads.
THEOREM HomeCountFollowsShaft == HomeSpec => []CountFollowsShaft
<1>1. HomeInv => CountFollowsShaft
  BY DEF HomeInv, IInv
<1> QED
  BY <1>1, HomeInvariant, PTL

-----------------------------------------------------------------------------
(* The registers of the drive (DriveParameters).                           *)

\* The registers the model knows, and their addresses.
LEMMA Addresses ==
    /\ Drive!Registers = {<<"PA", 28>>, <<"PA", 29>>, <<"PA", 30>>, <<"PA", 32>>, <<"PA", 33>>, <<"PF", 82>>}
    /\ Drive!UAP = <<"PA", 30>> /\ Drive!Pulses = <<"PA", 32>> /\ Drive!Revolutions = <<"PA", 33>>
    /\ Drive!AddressOf(<<"PA", 28>>) = 822 /\ Drive!AddressOf(<<"PA", 29>>) = 824
    /\ Drive!AddressOf(<<"PA", 30>>) = 826 /\ Drive!AddressOf(<<"PA", 32>>) = 830
    /\ Drive!AddressOf(<<"PA", 33>>) = 832 /\ Drive!AddressOf(<<"PF", 82>>) = 2210
  <1>1. /\ Drive!UAP = <<"PA", 30>> /\ Drive!Pulses = <<"PA", 32>> /\ Drive!Revolutions = <<"PA", 33>>
    BY DEF Drive!UAP, Drive!Pulses, Drive!Revolutions, Drive!PA
  <1>2. Drive!Registers = {<<"PA", 28>>, <<"PA", 29>>, <<"PA", 30>>, <<"PA", 32>>, <<"PA", 33>>, <<"PF", 82>>}
    BY <1>1 DEF Drive!Registers, Drive!PA, Drive!PF
  <1> QED
    BY <1>1, <1>2 DEF Drive!AddressOf

\* The program's address of a register is the drive's.
LEMMA AddressAgrees ==
    ASSUME NEW r \in Drive!Registers
    PROVE  /\ Drive!calculate_address(r[1], r[2]) = Drive!AddressOf(r)
           /\ Drive!AddressOf(r) \in Nat
  BY Addresses DEF Drive!calculate_address, Drive!AddressOf

\* The words of two registers do not overlap.
LEMMA Apart ==
    ASSUME NEW q \in Drive!Registers, NEW r \in Drive!Registers, NEW v \in {1, 2}, NEW w \in {1, 2},
           Drive!AddressOf(q) + v = Drive!AddressOf(r) + w
    PROVE  q = r /\ v = w
  BY Addresses

\* The word at an address.
LEMMA OneCell ==
    ASSUME NEW r \in Drive!Registers, NEW w \in {1, 2}
    PROVE  Drive!Cells(Drive!AddressOf(r) + w - 1) = {<<r, w>>}
  <1> DEFINE C == Drive!Cells(Drive!AddressOf(r) + w - 1)
  <1>1. <<r, w>> \in C
    BY AddressAgrees DEF Drive!Cells
  <1>2. ASSUME NEW c \in C PROVE c = <<r, w>>
    <2>1. PICK q \in Drive!Registers, v \in {1, 2} : c = <<q, v>>
      BY <1>2 DEF Drive!Cells
    <2>2. Drive!AddressOf(q) + v - 1 = Drive!AddressOf(r) + w - 1
      BY <1>2, <2>1 DEF Drive!Cells
    <2>3. Drive!AddressOf(q) + v = Drive!AddressOf(r) + w
      BY <2>2, AddressAgrees
    <2> QED
      BY <2>1, <2>3, Apart
  <1> QED
    BY <1>1, <1>2

\* A read of a register's words gives its words.
LEMMA ReadsRegister ==
    ASSUME NEW r \in Drive!Registers
    PROVE  /\ Drive!ReadWords(Drive!AddressOf(r), 1) = <<memory[r][1]>>
           /\ Drive!ReadWords(Drive!AddressOf(r), 2) = <<memory[r][1], memory[r][2]>>
  <1> DEFINE a == Drive!AddressOf(r)
             Word(i) == LET cells == Drive!Cells(a + i - 1)
                        IN  IF cells = {} THEN 0
                            ELSE LET c == CHOOSE c \in cells : TRUE IN memory[c[1]][c[2]]
  <1>1. ASSUME NEW w \in {1, 2} PROVE Word(w) = memory[r][w]
    <2>1. Drive!Cells(a + w - 1) = {<<r, w>>}
      BY OneCell
    <2>2. (CHOOSE c \in {<<r, w>>} : TRUE) = <<r, w>>
      OBVIOUS
    <2> HIDE DEF a
    <2> QED
      BY <2>1, <2>2
  <1>2. Drive!ReadWords(a, 1) = [i \in 1..1 |-> Word(i)] /\ Drive!ReadWords(a, 2) = [i \in 1..2 |-> Word(i)]
    BY DEF Drive!ReadWords
  <1> HIDE DEF Word, a
  <1>3. [i \in 1..1 |-> Word(i)] = <<Word(1)>> /\ [i \in 1..2 |-> Word(i)] = <<Word(1), Word(2)>>
    OBVIOUS
  <1> QED
    BY <1>1, <1>2, <1>3 DEF a

\* A write changes the words of its register and no others: function 0x10 both of
\* them, function 0x06 the first (the drive may set the other to 0).
LEMMA WritesRegister ==
    ASSUME NEW r \in Drive!Registers, NEW q \in Drive!Registers, NEW w \in {1, 2}, NEW a, NEW b
    PROVE  /\ Drive!Written(Drive!AddressOf(r), <<a, b>>)[q][w] =
                 IF q = r THEN <<a, b>>[w] ELSE memory[q][w]
           /\ Drive!Written(Drive!AddressOf(r), <<a>>)[q][w] =
                 IF q = r /\ w = 1 THEN a ELSE memory[q][w]
  <1>1. Drive!AddressOf(r) \in Nat /\ Drive!AddressOf(q) \in Nat
    BY AddressAgrees
  <1> DEFINE i == Drive!AddressOf(q) + w - Drive!AddressOf(r)
  <1>2. i \in {1, 2} => q = r
    BY <1>1, Apart
  <1>3. q = r => i = w
    BY <1>1
  <1>4. i \in Int
    BY <1>1
  <1>5. /\ Drive!Written(Drive!AddressOf(r), <<a, b>>)[q][w] =
              IF i \in DOMAIN <<a, b>> THEN <<a, b>>[i] ELSE memory[q][w]
        /\ Drive!Written(Drive!AddressOf(r), <<a>>)[q][w] =
              IF i \in DOMAIN <<a>> THEN <<a>>[i] ELSE memory[q][w]
    BY DEF Drive!Written
  <1>6. DOMAIN <<a, b>> = {1, 2} /\ DOMAIN <<a>> = {1}
    OBVIOUS
  <1> HIDE DEF i
  <1>7. CASE q = r
    BY <1>3, <1>5, <1>6, <1>7
  <1>8. CASE q # r
    BY <1>2, <1>5, <1>6, <1>8
  <1> QED
    BY <1>7, <1>8

\* The values of a word, and the numbers of revolutions.
Word == {n \in Nat : n < 65536}
Half == 32768
Turns == {n \in Int : -32768 <= n /\ n <= 32767}

\* What a decoded pair of words stands for.
LEMMA Decoded ==
    ASSUME NEW low \in Word, NEW high \in Word
    PROVE  /\ Drive!get_value(<<low>>, FALSE) = low /\ Drive!get_value(<<low>>, TRUE) = low
           /\ Drive!get_value(<<low, high>>, TRUE) = Drive!Number(<<low, high>>)
           /\ Drive!get_value(<<low, high>>, FALSE) = low + Drive!WORD * high
           /\ high < Half => Drive!Number(<<low, high>>) = low + Drive!WORD * high
           /\ high >= Half => Drive!Number(<<low, high>>) = low + Drive!WORD * (high - Drive!WORD)
  BY SMT DEF Drive!get_value, Drive!Number, Drive!WORD, Word, Half

\* A number of 31 bits fits two words, and comes back from them.
LEMMA TwoWords ==
    ASSUME NEW v \in Longs
    PROVE  /\ v \in Nat
           /\ (v % Drive!WORD) \in Word /\ (v \div Drive!WORD) \in Word /\ v \div Drive!WORD < Half
           /\ (v % Drive!WORD) + Drive!WORD * (v \div Drive!WORD) = v
           /\ v < Drive!WORD => v % Drive!WORD = v /\ v \div Drive!WORD = 0
  BY SMT DEF Longs, Word, Half, Drive!WORD

\* The drive's two words of a number, read back by the program.
LEMMA SignedWords ==
    ASSUME NEW n \in Longs \union Turns
    PROVE  \E low \in Word, high \in Word :
              /\ Drive!Signed(n) = <<low, high>>
              /\ Drive!Number(<<low, high>>) = n
              /\ n >= 0 => low + Drive!WORD * high = n
  <1>1. n \in Int /\ (n >= 0 => n \in Longs) /\ (n < 0 => n \in Turns)
    BY SMT DEF Longs, Turns
  <1>2. /\ n % Drive!WORD \in Word /\ (n \div Drive!WORD) % Drive!WORD \in Word
        /\ n >= 0 => /\ (n \div Drive!WORD) % Drive!WORD = n \div Drive!WORD
                     /\ n \div Drive!WORD < Half
                     /\ (n % Drive!WORD) + Drive!WORD * (n \div Drive!WORD) = n
        /\ n < 0 => /\ (n \div Drive!WORD) % Drive!WORD = Drive!WORD - 1
                    /\ n % Drive!WORD = n + Drive!WORD
    BY <1>1, SMT DEF Longs, Turns, Word, Half, Drive!WORD
  <1>3. PICK low \in Word, high \in Word :
          /\ low = n % Drive!WORD /\ high = (n \div Drive!WORD) % Drive!WORD
          /\ n >= 0 => high < Half /\ low + Drive!WORD * high = n
          /\ n < 0 => high = Drive!WORD - 1 /\ low = n + Drive!WORD
    BY <1>2
  <1>4. Drive!Signed(n) = <<low, high>>
    BY <1>3 DEF Drive!Signed
  <1>5. Drive!Number(<<low, high>>) = n
    <2>1. CASE n >= 0
      BY <1>3, <2>1, Decoded
    <2>2. CASE n < 0
      BY <1>1, <1>3, <2>2, SMT DEF Drive!Number, Drive!WORD, Word
    <2> QED
      BY <1>1, <2>1, <2>2
  <1> QED
    BY <1>3, <1>4, <1>5

\* The position of the shaft in revolutions and pulses, and back.
LEMMA ShaftDivides ==
    ASSUME NEW s \in -MAX_SHAFT..MAX_SHAFT
    PROVE  /\ s \div PULSES_PER_REV \in Turns
           /\ s % PULSES_PER_REV \in Longs
           /\ (s \div PULSES_PER_REV) * PULSES_PER_REV + (s % PULSES_PER_REV) = s
  <1>1. PULSES_PER_REV \in Longs \ {0} /\ MAX_SHAFT \in Nat
    BY ShaftAssumption, SMT
  <1>2. PULSES_PER_REV \in Nat \ {0} /\ \A k \in Nat : k < PULSES_PER_REV => k \in Longs
    BY <1>1, SMT DEF Longs
  <1>3. s \in Int
    BY <1>1, SMT
  <1>4. s \div PULSES_PER_REV \in Turns
    BY <1>2, <1>3, ShaftAssumption, SMT DEF Turns
  <1>5. s % PULSES_PER_REV \in 0..(PULSES_PER_REV - 1)
    BY <1>2, <1>3, SMTT(30)
  <1>6. (s \div PULSES_PER_REV) * PULSES_PER_REV + (s % PULSES_PER_REV) = s
    BY <1>2, <1>3, SMTT(30)
  <1> QED
    BY <1>2, <1>4, <1>5, <1>6, SMT

-----------------------------------------------------------------------------
\* The position a memory stands for.
PositionOf(m) == Drive!AbsolutePosition(m[Drive!Revolutions], m[Drive!Pulses])

\* The drive's memory: two words to each register.
Memories == [Drive!Registers -> [{1, 2} -> Word]]

\* A pair of words is a function of the numbers 1 and 2.
LEMMA Pair ==
    ASSUME NEW S, NEW a \in S, NEW b \in S
    PROVE  <<a, b>> \in [{1, 2} -> S]
  OBVIOUS

LEMMA PairOf ==
    ASSUME NEW S, NEW f \in [{1, 2} -> S]
    PROVE  f = <<f[1], f[2]>>
  OBVIOUS

\* What the drive copies is its position: the registers hold it and the request is done.
LEMMA Latches ==
    ASSUME memory \in Memories, drive_shaft \in -MAX_SHAFT..MAX_SHAFT
    PROVE  /\ Drive!Latched \in Memories
           /\ \A r \in Drive!Registers \ {Drive!UAP, Drive!Revolutions, Drive!Pulses} :
                 Drive!Latched[r] = memory[r]
           /\ Drive!Latched[Drive!UAP] = <<0, 0>>
           /\ PositionOf(Drive!Latched) = drive_shaft
  <1> DEFINE rev == drive_shaft \div PULSES_PER_REV
             pul == drive_shaft % PULSES_PER_REV
  <1>0. 0 \in Word
    BY SMT DEF Word
  <1>1. rev \in Turns /\ pul \in Longs /\ rev * PULSES_PER_REV + pul = drive_shaft
    BY ShaftDivides
  <1>2. /\ Drive!UAP \in Drive!Registers /\ Drive!Revolutions \in Drive!Registers /\ Drive!Pulses \in Drive!Registers
        /\ Drive!UAP # Drive!Revolutions /\ Drive!UAP # Drive!Pulses /\ Drive!Pulses # Drive!Revolutions
    BY Addresses
  <1>3. Drive!Latched = [memory EXCEPT ![Drive!UAP] = <<0, 0>>, ![Drive!Pulses] = Drive!Signed(pul),
                                       ![Drive!Revolutions] = Drive!Signed(rev)]
    BY DEF Drive!Latched
  <1> HIDE DEF rev, pul
  <1>4. PICK a \in Word, b \in Word :
          Drive!Signed(rev) = <<a, b>> /\ Drive!Number(<<a, b>>) = rev
    BY <1>1, SignedWords
  <1>11. pul >= 0 /\ pul \in Longs \union Turns
    BY <1>1, SMT DEF Longs
  <1>5. PICK c \in Word, d \in Word : Drive!Signed(pul) = <<c, d>> /\ c + Drive!WORD * d = pul
    BY <1>1, <1>11, SignedWords
  <1>6. /\ <<a, b>> \in [{1, 2} -> Word] /\ <<c, d>> \in [{1, 2} -> Word]
        /\ <<0, 0>> \in [{1, 2} -> Word]
    BY <1>0, Pair
  <1>7. Drive!Latched \in Memories
    BY <1>3, <1>4, <1>5, <1>6 DEF Memories
  <1>8. /\ Drive!Latched[Drive!UAP] = <<0, 0>>
        /\ Drive!Latched[Drive!Revolutions] = <<a, b>> /\ Drive!Latched[Drive!Pulses] = <<c, d>>
        /\ \A r \in Drive!Registers \ {Drive!UAP, Drive!Revolutions, Drive!Pulses} :
                 Drive!Latched[r] = memory[r]
    BY <1>2, <1>3, <1>4, <1>5 DEF Memories
  <1>9. PositionOf(Drive!Latched) = rev * PULSES_PER_REV + pul
    <2>1. /\ Drive!get_value(<<a, b>>, TRUE) = rev
          /\ Drive!get_value(<<c, d>>, FALSE) = pul
      BY <1>4, <1>5, Decoded
    <2> QED
      BY <1>8, <2>1 DEF PositionOf, Drive!AbsolutePosition
  <1> QED
    BY <1>1, <1>7, <1>8, <1>9

-----------------------------------------------------------------------------
(* The invariant of DriveParameters.                                       *)

RegistersTypeOK ==
    /\ memory \in Memories /\ drive_shaft \in -MAX_SHAFT..MAX_SHAFT
    /\ single \in BOOLEAN /\ keeps \in BOOLEAN
    /\ function \in [1..6 -> 0..31] /\ on \in SUBSET (1..6)
    /\ operation \in [Threads -> Drive!Operations \union {None}]
    /\ disturbed \in [Threads -> BOOLEAN]
    /\ DOMAIN left = Threads /\ DOMAIN got = Threads /\ DOMAIN seen = Threads

\* Only the registers of the position hold what an unsigned reader would take amiss.
SmallWords ==
    \A r \in Drive!Registers \ {Drive!Revolutions, Drive!Pulses} : memory[r][2] < Half

\* The pins of one function are in one state.
PinsAlike == \A p, q \in 1..6 : function[p] = function[q] => (p \in on <=> q \in on)

\* The frames an operation has still to try, and what its value allows.
FramesLeft(t) ==
    operation[t] # None =>
        /\ operation[t].name = "read" => left[t] = <<3>>
        /\ operation[t].name = "mc_ok" => left[t] \in {<<3, 3, 3>>, <<3, 3>>, <<3>>}
        /\ operation[t].name = "write" =>
              \/ left[t] = <<16>>
              \/ left[t] \in {<<6, 16>>, <<16, 6>>} /\ operation[t].value < Drive!WORD
        /\ operation[t] \in Drive!Positions =>
              left[t] \in {<<16>>, <<6, 16>>, <<16, 6>>, <<3, 3, 3>>, <<3, 3>>, <<3>>}

\* The words a reader of the outputs has are still those of the drive.
PinsHeld(t) ==
    Drive!Doing(t, "mc_ok") /\ ~disturbed[t] =>
        /\ left[t] = <<3, 3, 3>> => got[t] = <<>>
        /\ left[t] = <<3, 3>> => got[t] = <<Drive!PackedFunctions(1)>>
        /\ left[t] = <<3>> => got[t] = <<Drive!PackedFunctions(1), Drive!PackedFunctions(4)>>

\* A reader of the position has seen the shaft where it is; from its request on, the
\* registers hold a position it has seen or the drive has still to copy it, and the half
\* it has read belongs to the half that is still there.
PositionHeld(t) ==
    Drive!Locating(t) =>
        /\ drive_shaft \in seen[t]
        /\ left[t] = <<3, 3, 3>> =>
              memory[Drive!UAP] # <<0, 0>> \/ PositionOf(memory) \in seen[t]
        /\ left[t] = <<3, 3>> => PositionOf(memory) \in seen[t]
        /\ left[t] = <<3>> => got[t] # <<>>
        /\ left[t] = <<3>> /\ ~disturbed[t] =>
              got[t] = memory[Drive!Revolutions] /\ PositionOf(memory) \in seen[t]

ThreadHolds(t) == FramesLeft(t) /\ PinsHeld(t) /\ PositionHeld(t)

RegistersInv ==
    /\ RegistersTypeOK /\ SmallWords /\ PinsAlike
    /\ \A t \in Threads : ThreadHolds(t)

\* Lists of frames.
LEMMA Heads ==
    /\ Head(<<16>>) = 16 /\ Head(<<6, 16>>) = 6 /\ Head(<<16, 6>>) = 16
    /\ Head(<<3>>) = 3 /\ Head(<<3, 3>>) = 3 /\ Head(<<3, 3, 3>>) = 3
  <1>1. Head(<<16>>) = 16 /\ Head(<<6, 16>>) = 6 /\ Head(<<16, 6>>) = 16
    OBVIOUS
  <1>2. Head(<<3>>) = 3 /\ Head(<<3, 3>>) = 3 /\ Head(<<3, 3, 3>>) = 3
    OBVIOUS
  <1> QED
    BY <1>1, <1>2

LEMMA Tails ==
    Tail(<<6, 16>>) = <<16>> /\ Tail(<<3, 3, 3>>) = <<3, 3>> /\ Tail(<<3, 3>>) = <<3>>
  <1>1. Tail(<<6, 16>>) = <<16>>
    OBVIOUS
  <1>2. Tail(<<3, 3, 3>>) = <<3, 3>> /\ Tail(<<3, 3>>) = <<3>>
    OBVIOUS
  <1> QED
    BY <1>1, <1>2

LEMMA Lengths == Len(<<3>>) = 1 /\ Len(<<3, 3>>) = 2 /\ Len(<<3, 3, 3>>) = 3
  OBVIOUS

LEMMA Differ ==
    /\ <<3>> # <<3, 3>> /\ <<3>> # <<3, 3, 3>> /\ <<3, 3>> # <<3, 3, 3>>
    /\ \A l \in {<<16>>, <<6, 16>>, <<16, 6>>} : l \notin {<<3>>, <<3, 3>>, <<3, 3, 3>>}
    /\ <<16>> # <<>> /\ <<3>> # <<>> /\ <<16>> # <<6, 16>> /\ <<16>> # <<16, 6>>
  OBVIOUS

\* A sequence of two or three elements is what it consists of.
LEMMA Elements ==
    ASSUME NEW s \in Seq(Nat)
    PROVE  /\ Len(s) = 2 => s = <<s[1], s[2]>>
           /\ Len(s) = 3 => s = <<s[1], s[2], s[3]>>
  <1>1. s = [i \in 1..Len(s) |-> s[i]]
    OBVIOUS
  <1>2. CASE Len(s) = 2
    <2>1. [i \in 1..2 |-> s[i]] = <<s[1], s[2]>>
      OBVIOUS
    <2> QED
      BY <1>1, <1>2, <2>1
  <1>3. CASE Len(s) = 3
    <2>1. [i \in 1..3 |-> s[i]] = <<s[1], s[2], s[3]>>
      OBVIOUS
    <2> QED
      BY <1>1, <1>3, <2>1
  <1> QED
    BY <1>2, <1>3

\* Adding a word to one word, or to none.
LEMMA Adding ==
    ASSUME NEW a \in Nat, NEW b \in Nat, NEW c \in Nat
    PROVE  /\ Append(<<>>, a) = <<a>> /\ Append(<<a>>, b) = <<a, b>>
           /\ Append(<<a, b>>, c) = <<a, b, c>>
           /\ <<a>> \o <<b>> = <<a, b>>
  <1>1. Append(<<>>, a) = <<a>>
    OBVIOUS
  <1>2. Append(<<a>>, b) = <<a, b>>
    <2>1. <<a>> \in Seq(Nat) /\ Len(<<a>>) = 1
      OBVIOUS
    <2>2. Append(<<a>>, b) \in Seq(Nat) /\ Len(Append(<<a>>, b)) = 2
      BY <2>1
    <2>3. Append(<<a>>, b)[1] = a /\ Append(<<a>>, b)[2] = b
      BY <2>1
    <2> QED
      BY <2>2, <2>3, Elements, Zenon
  <1>3. Append(<<a, b>>, c) = <<a, b, c>>
    <2>1. <<a, b>> \in Seq(Nat) /\ Len(<<a, b>>) = 2
      OBVIOUS
    <2>2. Append(<<a, b>>, c) \in Seq(Nat) /\ Len(Append(<<a, b>>, c)) = 3
      BY <2>1
    <2>3. /\ Append(<<a, b>>, c)[1] = a /\ Append(<<a, b>>, c)[2] = b
          /\ Append(<<a, b>>, c)[3] = c
      BY <2>1
    <2> QED
      BY <2>2, <2>3, Elements, Zenon
  <1>4. <<a>> \o <<b>> = <<a, b>>
    <2>1. <<a>> \in Seq(Nat) /\ Len(<<a>>) = 1 /\ <<b>> \in Seq(Nat) /\ Len(<<b>>) = 1
      OBVIOUS
    <2>2. <<a>> \o <<b>> \in Seq(Nat) /\ Len(<<a>> \o <<b>>) = 2
      BY <2>1
    <2>3. (<<a>> \o <<b>>)[1] = a /\ (<<a>> \o <<b>>)[2] = b
      BY <2>1
    <2> QED
      BY <2>2, <2>3, Elements, Zenon
  <1> QED
    BY <1>1, <1>2, <1>3, <1>4

\* The operations, by their names.
LEMMA OperationKinds ==
    ASSUME NEW op \in Drive!Operations
    PROVE  /\ op # None
           /\ op.name \in {"read", "write", "mc_ok", "angle", "home"}
           /\ op.name = "read" =>
                 /\ op.register \in Drive!Registers \ {Drive!UAP, Drive!Pulses}
                 /\ op.value \in {1, 2} /\ (op.value = 1 => op.register # Drive!Revolutions)
           /\ op.name = "write" =>
                 /\ op.register \in Drive!Registers \ {Drive!UAP, Drive!Pulses, Drive!Revolutions}
                 /\ op.value \in Longs
           /\ op \in Drive!Positions <=> op.name \in {"angle", "home"}
  <1>1. op # None
    BY NoOperationAssumption
  <1>2. \/ op \in {Drive!Read(r, 2) : r \in Drive!Registers \ {Drive!UAP, Drive!Pulses}}
        \/ op = Drive!Read(<<"PA", 29>>, 1)
        \/ op \in {Drive!Write(w[1], w[2]) : w \in Writes}
        \/ op = Drive!ReadMcOk
        \/ op \in Drive!Positions
    BY Addresses DEF Drive!Operations, Drive!StateWords, Drive!PA
  <1>3. CASE op \in {Drive!Read(r, 2) : r \in Drive!Registers \ {Drive!UAP, Drive!Pulses}}
    <2>1. PICK r \in Drive!Registers \ {Drive!UAP, Drive!Pulses} : op = Drive!Read(r, 2)
      BY <1>3
    <2>2. op.name = "read" /\ op.register = r /\ op.value = 2
      BY <2>1 DEF Drive!Read
    <2> QED
      BY <1>1, <2>2 DEF Drive!Positions
  <1>4. CASE op = Drive!Read(<<"PA", 29>>, 1)
    <2>1. op.name = "read" /\ op.register = <<"PA", 29>> /\ op.value = 1
      BY <1>4 DEF Drive!Read
    <2>2. <<"PA", 29>> \in Drive!Registers \ {Drive!UAP, Drive!Pulses, Drive!Revolutions}
      BY Addresses
    <2> QED
      BY <1>1, <2>1, <2>2 DEF Drive!Positions
  <1>5. CASE op \in {Drive!Write(w[1], w[2]) : w \in Writes}
    <2>1. PICK w \in Writes : op = Drive!Write(w[1], w[2])
      BY <1>5
    <2>2. op.name = "write" /\ op.register = w[1] /\ op.value = w[2]
      BY <2>1 DEF Drive!Write
    <2>3. w[1] \in {<<"PA", 29>>, <<"PF", 82>>} /\ w[2] \in Longs
      BY WritesAssumption
    <2>4. {<<"PA", 29>>, <<"PF", 82>>} \subseteq
              Drive!Registers \ {Drive!UAP, Drive!Pulses, Drive!Revolutions}
      BY Addresses
    <2> QED
      BY <1>1, <2>2, <2>3, <2>4 DEF Drive!Positions
  <1>6. CASE op = Drive!ReadMcOk
    BY <1>1, <1>6 DEF Drive!ReadMcOk, Drive!Positions
  <1>7. CASE op \in Drive!Positions
    BY <1>1, <1>7 DEF Drive!Positions
  <1> QED
    BY <1>2, <1>3, <1>4, <1>5, <1>6, <1>7

\* A thread that writes: which function it tries, into which register, which value.
LEMMA WhatIsWritten ==
    ASSUME RegistersInv, NEW t \in Threads, Drive!Writing(t)
    PROVE  /\ Drive!Target(t) \in Drive!Registers \ {Drive!Revolutions, Drive!Pulses}
           /\ Drive!Content(t) \in Longs
           /\ left[t] \in {<<16>>, <<6, 16>>, <<16, 6>>}
           /\ Head(left[t]) \in {6, 16} /\ (Head(left[t]) = 6 <=> left[t] = <<6, 16>>)
           /\ Head(left[t]) = 6 => Drive!Content(t) < Drive!WORD
           /\ Drive!Locating(t) => Drive!Target(t) = Drive!UAP /\ Drive!Content(t) = 1
           /\ ~Drive!Locating(t) =>
                 /\ operation[t].name = "write"
                 /\ Drive!Target(t) = operation[t].register /\ Drive!Content(t) = operation[t].value
                 /\ Drive!Target(t) # Drive!UAP
  <1> DEFINE op == operation[t]
  <1>1. op # None /\ op \in Drive!Operations
    BY DEF RegistersInv, RegistersTypeOK, Drive!Writing, Drive!Doing, Drive!Locating
  <1>2. Drive!Target(t) = (IF Drive!Locating(t) THEN Drive!UAP ELSE op.register)
        /\ Drive!Content(t) = (IF Drive!Locating(t) THEN 1 ELSE op.value)
    BY DEF Drive!Target, Drive!Content
  <1>3. 1 \in Longs /\ 1 < Drive!WORD
    BY SMT DEF Longs, Drive!WORD
  <1>4. /\ Drive!UAP \in Drive!Registers
        /\ Drive!UAP # Drive!Revolutions /\ Drive!UAP # Drive!Pulses
    BY Addresses
  <1>5. CASE Drive!Locating(t)
    <2>1. op \in Drive!Positions
      BY <1>5 DEF Drive!Locating
    <2>2. op.name # "write"
      BY <1>1, <2>1, OperationKinds
    <2>3. Head(left[t]) # 3
      BY <2>2 DEF Drive!Writing, Drive!Doing
    <2>4. left[t] \in {<<16>>, <<6, 16>>, <<16, 6>>}
      BY <1>1, <2>1, <2>3, Heads DEF RegistersInv, ThreadHolds, FramesLeft
    <2>5. Head(left[t]) \in {6, 16} /\ (Head(left[t]) = 6 <=> left[t] = <<6, 16>>)
      BY <2>4, Heads
    <2> QED
      BY <1>2, <1>3, <1>4, <1>5, <2>4, <2>5
  <1>6. CASE ~Drive!Locating(t)
    <2>1. op.name = "write"
      BY <1>6 DEF Drive!Writing, Drive!Doing
    <2>2. /\ op.register \in Drive!Registers \ {Drive!UAP, Drive!Pulses, Drive!Revolutions}
          /\ op.value \in Longs
      BY <1>1, <2>1, OperationKinds
    <2>3. \/ left[t] = <<16>>
          \/ left[t] \in {<<6, 16>>, <<16, 6>>} /\ op.value < Drive!WORD
      BY <1>1, <2>1 DEF RegistersInv, ThreadHolds, FramesLeft
    <2>4. Head(left[t]) \in {6, 16} /\ (Head(left[t]) = 6 <=> left[t] = <<6, 16>>)
      BY <2>3, Heads
    <2>5. Head(left[t]) = 6 => op.value < Drive!WORD
      BY <2>3, <2>4, Heads
    <2> QED
      BY <1>2, <1>6, <2>1, <2>2, <2>3, <2>4, <2>5
  <1> QED
    BY <1>5, <1>6

\* What a frame that the drive executes does to its memory.
LEMMA Executed ==
    ASSUME RegistersInv, NEW t \in Threads, Drive!Writing(t), Drive!Execute(t, Head(left[t]))
    PROVE  /\ memory' \in Memories
           /\ \A q \in Drive!Registers : q # Drive!Target(t) => memory'[q] = memory[q]
           /\ memory'[Drive!Target(t)][1] = Drive!Content(t) % Drive!WORD
           /\ \/ memory'[Drive!Target(t)][2] = Drive!Content(t) \div Drive!WORD
              \/ /\ keeps /\ Head(left[t]) = 6
                 /\ memory'[Drive!Target(t)][2] = memory[Drive!Target(t)][2]
           /\ UNCHANGED <<drive_shaft, single, keeps, function, on, disturbed>>
  <1> DEFINE code == Head(left[t])
             r == Drive!Target(t)
             v == Drive!Content(t)
  <1>1. /\ r \in Drive!Registers /\ v \in Longs /\ code \in {6, 16}
        /\ code = 6 => v < Drive!WORD
    BY WhatIsWritten
  <1>2. /\ v \in Nat /\ (v % Drive!WORD) \in Word /\ (v \div Drive!WORD) \in Word
        /\ v < Drive!WORD => v % Drive!WORD = v /\ v \div Drive!WORD = 0
    BY <1>1, TwoWords
  <1>3. memory \in Memories
    BY DEF RegistersInv, RegistersTypeOK
  <1>4. Drive!calculate_address(r[1], r[2]) = Drive!AddressOf(r)
    BY <1>1, AddressAgrees
  <1>5. /\ memory' = Drive!Written(Drive!calculate_address(r[1], r[2]),
                                   IF code = 6 /\ ~keeps THEN Drive!WordsOf(code, v) \o <<0>>
                                                         ELSE Drive!WordsOf(code, v))
        /\ UNCHANGED <<drive_shaft, single, keeps, function, on, disturbed>>
    BY DEF Drive!Execute
  <1> HIDE DEF code, r, v
  <1>6. \/ memory' = Drive!Written(Drive!AddressOf(r), <<v % Drive!WORD, v \div Drive!WORD>>)
        \/ keeps /\ code = 6 /\ memory' = Drive!Written(Drive!AddressOf(r), <<v % Drive!WORD>>)
    <2>1. CASE code = 16
      <3>1. Drive!WordsOf(code, v) = <<v % Drive!WORD, v \div Drive!WORD>>
        BY <2>1 DEF Drive!WordsOf
      <3> QED
        BY <1>4, <1>5, <2>1, <3>1
    <2>2. CASE code = 6 /\ keeps
      <3>1. Drive!WordsOf(code, v) = <<v>>
        BY <2>2 DEF Drive!WordsOf
      <3> QED
        BY <1>1, <1>2, <1>4, <1>5, <2>2, <3>1
    <2>3. CASE code = 6 /\ ~keeps
      <3>1. Drive!WordsOf(code, v) = <<v>>
        BY <2>3 DEF Drive!WordsOf
      <3>2. <<v>> \o <<0>> = <<v, 0>>
        BY <1>2, Adding
      <3> QED
        BY <1>1, <1>2, <1>4, <1>5, <2>3, <3>1, <3>2
    <2> QED
      BY <1>1, <2>1, <2>2, <2>3
  <1>7. \A q \in Drive!Registers, w \in {1, 2} : memory[q][w] \in Word
    BY <1>3 DEF Memories
  <1>8. memory' = [q \in Drive!Registers |-> [w \in {1, 2} |-> memory'[q][w]]]
    BY <1>6 DEF Drive!Written
  <1>9. \/ /\ \A q \in Drive!Registers, w \in {1, 2} :
                memory'[q][w] = IF q = r THEN <<v % Drive!WORD, v \div Drive!WORD>>[w] ELSE memory[q][w]
        \/ /\ keeps /\ code = 6
           /\ \A q \in Drive!Registers, w \in {1, 2} :
                memory'[q][w] = IF q = r /\ w = 1 THEN v % Drive!WORD ELSE memory[q][w]
    BY <1>1, <1>6, WritesRegister
  <1>10. memory' \in Memories
    <2>1. ASSUME NEW q \in Drive!Registers, NEW w \in {1, 2} PROVE memory'[q][w] \in Word
      BY <1>2, <1>7, <1>9
    <2> QED
      BY <1>8, <2>1 DEF Memories
  <1>11. ASSUME NEW q \in Drive!Registers, q # r PROVE memory'[q] = memory[q]
    <2>1. memory'[q][1] = memory[q][1] /\ memory'[q][2] = memory[q][2]
      BY <1>9, <1>11
    <2>2. memory'[q] \in [{1, 2} -> Word] /\ memory[q] \in [{1, 2} -> Word]
      BY <1>3, <1>10 DEF Memories
    <2> QED
      BY <2>1, <2>2, PairOf
  <1>12. /\ memory'[r][1] = v % Drive!WORD
         /\ memory'[r][2] = v \div Drive!WORD \/ (keeps /\ code = 6 /\ memory'[r][2] = memory[r][2])
    BY <1>1, <1>9
  <1> QED
    BY <1>5, <1>10, <1>11, <1>12 DEF code, r, v

\* An executed frame leaves the position alone, and asks for a new one if it is the
\* request of a reader of the position.
LEMMA ExecutedKeeps ==
    ASSUME RegistersInv, NEW t \in Threads, Drive!Writing(t), Drive!Execute(t, Head(left[t]))
    PROVE  /\ SmallWords' /\ PinsAlike'
           /\ memory'[Drive!Revolutions] = memory[Drive!Revolutions]
           /\ PositionOf(memory') = PositionOf(memory)
           /\ memory[Drive!UAP] # <<0, 0>> => memory'[Drive!UAP] # <<0, 0>>
           /\ Drive!Locating(t) => memory'[Drive!UAP] # <<0, 0>>
  <1> DEFINE r == Drive!Target(t)
             v == Drive!Content(t)
  <1>1. /\ r \in Drive!Registers \ {Drive!Revolutions, Drive!Pulses} /\ v \in Longs
        /\ Drive!Locating(t) => r = Drive!UAP /\ v = 1
        /\ ~Drive!Locating(t) => r # Drive!UAP
    BY WhatIsWritten
  <1>2. /\ \A q \in Drive!Registers : q # r => memory'[q] = memory[q]
        /\ memory'[r][1] = v % Drive!WORD
        /\ memory'[r][2] = v \div Drive!WORD \/ memory'[r][2] = memory[r][2]
        /\ UNCHANGED <<function, on>>
    BY Executed
  <1>3. v \div Drive!WORD < Half
    BY <1>1, TwoWords
  <1>4. Drive!UAP \in Drive!Registers /\ Drive!Revolutions \in Drive!Registers /\ Drive!Pulses \in Drive!Registers
    BY Addresses
  <1>5. SmallWords /\ PinsAlike
    BY DEF RegistersInv
  <1>6. 1 % Drive!WORD = 1
    BY SMT DEF Drive!WORD
  <1> HIDE DEF r, v
  <1>7. SmallWords'
    BY <1>2, <1>3, <1>5 DEF SmallWords
  <1>8. PinsAlike'
    BY <1>2, <1>5 DEF PinsAlike
  <1>9. memory'[Drive!Revolutions] = memory[Drive!Revolutions] /\ memory'[Drive!Pulses] = memory[Drive!Pulses]
    BY <1>1, <1>2, <1>4
  <1>10. CASE Drive!Locating(t)
    <2>1. memory'[Drive!UAP][1] = 1
      BY <1>1, <1>2, <1>6, <1>10
    <2>2. memory'[Drive!UAP] # <<0, 0>>
      BY <2>1
    <2> QED
      BY <1>7, <1>8, <1>9, <2>2 DEF PositionOf
  <1>11. CASE ~Drive!Locating(t)
    <2>1. memory'[Drive!UAP] = memory[Drive!UAP]
      BY <1>1, <1>2, <1>4, <1>11
    <2> QED
      BY <1>7, <1>8, <1>9, <1>11, <2>1 DEF PositionOf
  <1> QED
    BY <1>10, <1>11

\* What keeps a thread's part of the invariant that the step is not about ...
LEMMA Elsewhere ==
    ASSUME NEW u \in Threads, ThreadHolds(u),
           operation'[u] = operation[u], left'[u] = left[u], got'[u] = got[u], seen'[u] = seen[u],
           disturbed'[u] = disturbed[u], function' = function, drive_shaft' = drive_shaft,
           memory'[Drive!Revolutions] = memory[Drive!Revolutions],
           PositionOf(memory') = PositionOf(memory),
           memory[Drive!UAP] # <<0, 0>> => memory'[Drive!UAP] # <<0, 0>>
    PROVE  ThreadHolds(u)'
  <1>1. FramesLeft(u)'
    BY DEF ThreadHolds, FramesLeft
  <1>2. PinsHeld(u)'
    BY DEF ThreadHolds, PinsHeld, Drive!Doing, Drive!PackedFunctions
  <1>3. PositionHeld(u)'
    BY DEF ThreadHolds, PositionHeld, Drive!Locating
  <1> QED
    BY <1>1, <1>2, <1>3 DEF ThreadHolds

\* ... or that has nothing to do.
LEMMA Idle ==
    ASSUME NEW u \in Threads, operation'[u] = None
    PROVE  ThreadHolds(u)'
  BY DEF ThreadHolds, FramesLeft, PinsHeld, PositionHeld, Drive!Doing, Drive!Locating

\* An operation that returns leaves the invariant of every thread, if the step keeps the
\* registers the others look at.
LEMMA Returns ==
    ASSUME RegistersInv, NEW t \in Threads, NEW v, Drive!Return(t, v),
           disturbed' = disturbed, function' = function, drive_shaft' = drive_shaft,
           memory'[Drive!Revolutions] = memory[Drive!Revolutions],
           PositionOf(memory') = PositionOf(memory),
           memory[Drive!UAP] # <<0, 0>> => memory'[Drive!UAP] # <<0, 0>>
    PROVE  /\ \A u \in Threads : ThreadHolds(u)'
           /\ operation' \in [Threads -> Drive!Operations \union {None}]
           /\ DOMAIN left' = Threads /\ DOMAIN got' = Threads /\ DOMAIN seen' = Threads
  <1>1. /\ operation \in [Threads -> Drive!Operations \union {None}]
        /\ DOMAIN left = Threads /\ DOMAIN got = Threads /\ DOMAIN seen = Threads
    BY DEF RegistersInv, RegistersTypeOK
  <1>2. /\ operation' = [operation EXCEPT ![t] = None]
        /\ left' = [left EXCEPT ![t] = <<>>] /\ got' = [got EXCEPT ![t] = <<>>]
        /\ seen' = [seen EXCEPT ![t] = {}]
    BY DEF Drive!Return
  <1>3. ASSUME NEW u \in Threads PROVE ThreadHolds(u)'
    <2>1. CASE u = t
      BY <1>1, <1>2, <2>1, Idle
    <2>2. CASE u # t
      <3>1. /\ operation'[u] = operation[u] /\ left'[u] = left[u]
            /\ got'[u] = got[u] /\ seen'[u] = seen[u]
        BY <1>1, <1>2, <2>2
      <3>2. ThreadHolds(u)
        BY DEF RegistersInv
      <3> QED
        BY <3>1, <3>2, Elsewhere
    <2> QED
      BY <2>1, <2>2
  <1> QED
    BY <1>1, <1>2, <1>3

-----------------------------------------------------------------------------
LEMMA RegistersInit == Drive!Init => RegistersInv
  <1> SUFFICES ASSUME Drive!Init PROVE RegistersInv
    OBVIOUS
  <1>1. 0 \in Word /\ 1 \in Word /\ 0 < Half /\ 1 < Half /\ 0 \in -MAX_SHAFT..MAX_SHAFT
    BY ShaftAssumption, SMT DEF Word, Half
  <1>2. PICK high \in {0, 1} :
          memory = [r \in Drive!Registers |-> IF r = <<"PA", Drive!PA.CAP>> THEN <<0, high>> ELSE <<0, 0>>]
    BY DEF Drive!Init
  <1>3. memory \in Memories
    <2>1. <<0, high>> \in [{1, 2} -> Word] /\ <<0, 0>> \in [{1, 2} -> Word]
      BY <1>1, Pair
    <2> QED
      BY <1>2, <2>1 DEF Memories
  <1>4. SmallWords
    BY <1>1, <1>2 DEF SmallWords
  <1>5. function \in [1..6 -> 0..31] /\ on = {}
    BY AssignmentsAssumption DEF Drive!Init
  <1>6. RegistersTypeOK
    BY <1>1, <1>3, <1>5 DEF Drive!Init, RegistersTypeOK
  <1>7. \A t \in Threads : operation[t] = None
    BY DEF Drive!Init
  <1>8. \A t \in Threads : ThreadHolds(t)
    BY <1>7 DEF ThreadHolds, FramesLeft, PinsHeld, PositionHeld, Drive!Doing, Drive!Locating
  <1> QED
    BY <1>4, <1>5, <1>6, <1>8 DEF RegistersInv, PinsAlike

-----------------------------------------------------------------------------
(* The steps of DriveParameters, one by one.                               *)

LEMMA BeginKeeps ==
    ASSUME RegistersInv, NEW t \in Threads, NEW op \in Drive!Operations, Drive!Begin(t, op)
    PROVE  RegistersInv'
  <1>1. RegistersTypeOK
    BY DEF RegistersInv
  <1>2. /\ operation' = [operation EXCEPT ![t] = op]
        /\ left' = [left EXCEPT ![t] = CASE op.name = "write" -> Drive!Attempts(op.value)
                                         [] op.name = "read" -> <<3>>
                                         [] op.name = "mc_ok" -> <<3, 3, 3>>
                                         [] op \in Drive!Positions -> Drive!Attempts(1)]
        /\ got' = [got EXCEPT ![t] = <<>>]
        /\ disturbed' = [disturbed EXCEPT ![t] = FALSE]
        /\ seen' = [seen EXCEPT ![t] = IF op \in Drive!Positions THEN {drive_shaft} ELSE {}]
        /\ UNCHANGED <<memory, drive_shaft, single, keeps, function, on>>
    BY DEF Drive!Begin, Drive!drive
  <1>3. RegistersTypeOK'
    BY <1>1, <1>2 DEF RegistersTypeOK
  <1>4. SmallWords' /\ PinsAlike'
    BY <1>2 DEF RegistersInv, SmallWords, PinsAlike
  <1>5. /\ operation'[t] = op /\ got'[t] = <<>> /\ disturbed'[t] = FALSE
        /\ op \in Drive!Positions => seen'[t] = {drive_shaft}
        /\ left'[t] = CASE op.name = "write" -> Drive!Attempts(op.value)
                        [] op.name = "read" -> <<3>>
                        [] op.name = "mc_ok" -> <<3, 3, 3>>
                        [] op \in Drive!Positions -> Drive!Attempts(1)
    BY <1>1, <1>2 DEF RegistersTypeOK
  <1>6. /\ Drive!Attempts(1) \in {<<16>>, <<6, 16>>, <<16, 6>>}
        /\ op.name = "write" =>
              \/ Drive!Attempts(op.value) = <<16>>
              \/ /\ Drive!Attempts(op.value) \in {<<6, 16>>, <<16, 6>>}
                 /\ op.value < Drive!WORD
    <2>1. op.name = "write" => op.value \in Nat
      BY OperationKinds, TwoWords
    <2>2. Drive!WORD \in Nat
      BY SMT DEF Drive!WORD
    <2>3. op.name = "write" => (op.value >= Drive!WORD \/ op.value < Drive!WORD)
      BY <2>1, <2>2
    <2> QED
      BY <2>3 DEF Drive!Attempts
  <1>7. FramesLeft(t)'
    BY <1>5, <1>6, OperationKinds DEF FramesLeft
  <1>8. PinsHeld(t)'
    <2>1. SUFFICES ASSUME op.name = "mc_ok"
                   PROVE  left'[t] = <<3, 3, 3>> /\ got'[t] = <<>>
      BY <1>5, Differ DEF PinsHeld, Drive!Doing
    <2> QED
      BY <1>5, <2>1, OperationKinds
  <1>9. PositionHeld(t)'
    <2>1. SUFFICES ASSUME op \in Drive!Positions
                   PROVE  /\ left'[t] \in {<<16>>, <<6, 16>>, <<16, 6>>}
                          /\ drive_shaft' \in seen'[t]
      BY <1>5, Differ DEF PositionHeld, Drive!Locating
    <2> QED
      BY <1>2, <1>5, <1>6, <2>1, OperationKinds
  <1>10. ASSUME NEW u \in Threads, u # t PROVE ThreadHolds(u)'
    <2>1. /\ operation'[u] = operation[u] /\ left'[u] = left[u] /\ got'[u] = got[u]
          /\ seen'[u] = seen[u] /\ disturbed'[u] = disturbed[u]
      BY <1>1, <1>2, <1>10 DEF RegistersTypeOK
    <2>2. ThreadHolds(u)
      BY DEF RegistersInv
    <2>3. memory' = memory /\ function' = function /\ drive_shaft' = drive_shaft
      BY <1>2
    <2> QED
      BY <2>1, <2>2, <2>3, Elsewhere
  <1> QED
    BY <1>3, <1>4, <1>7, <1>8, <1>9, <1>10 DEF RegistersInv, ThreadHolds

\* An operation that ends without having touched the drive.
LEMMA ReturnKeeps ==
    ASSUME RegistersInv, NEW t \in Threads, NEW v, Drive!Return(t, v),
           UNCHANGED <<memory, drive_shaft, single, keeps, function, on, disturbed>>
    PROVE  RegistersInv'
  <1>1. /\ \A u \in Threads : ThreadHolds(u)'
        /\ operation' \in [Threads -> Drive!Operations \union {None}]
        /\ DOMAIN left' = Threads /\ DOMAIN got' = Threads /\ DOMAIN seen' = Threads
    <2>1. /\ disturbed' = disturbed /\ function' = function /\ drive_shaft' = drive_shaft
          /\ memory' = memory
      OBVIOUS
    <2> QED
      BY <2>1, Returns
  <1>2. RegistersTypeOK'
    BY <1>1 DEF RegistersInv, RegistersTypeOK
  <1>3. SmallWords' /\ PinsAlike'
    BY DEF RegistersInv, SmallWords, PinsAlike
  <1> QED
    BY <1>1, <1>2, <1>3 DEF RegistersInv

\* One that ends with a frame that the drive has executed.
LEMMA ExecutedReturnKeeps ==
    ASSUME RegistersInv, NEW t \in Threads, NEW v, Drive!Return(t, v),
           Drive!Writing(t), Drive!Execute(t, Head(left[t]))
    PROVE  RegistersInv'
  <1>1. /\ memory' \in Memories
        /\ UNCHANGED <<drive_shaft, single, keeps, function, on, disturbed>>
    BY Executed
  <1>2. /\ SmallWords' /\ PinsAlike'
        /\ memory'[Drive!Revolutions] = memory[Drive!Revolutions]
        /\ PositionOf(memory') = PositionOf(memory)
        /\ memory[Drive!UAP] # <<0, 0>> => memory'[Drive!UAP] # <<0, 0>>
    BY ExecutedKeeps
  <1>3. /\ \A u \in Threads : ThreadHolds(u)'
        /\ operation' \in [Threads -> Drive!Operations \union {None}]
        /\ DOMAIN left' = Threads /\ DOMAIN got' = Threads /\ DOMAIN seen' = Threads
    BY <1>1, <1>2, Returns
  <1>4. RegistersTypeOK'
    BY <1>1, <1>3 DEF RegistersInv, RegistersTypeOK
  <1> QED
    BY <1>2, <1>3, <1>4 DEF RegistersInv

\* The next frame of an operation that goes on.
LEMMA GoesOnKeeps ==
    ASSUME RegistersInv, NEW t \in Threads,
           memory' \in Memories, SmallWords', PinsAlike',
           UNCHANGED <<operation, seen, drive_shaft, single, keeps, function, on, disturbed>>,
           DOMAIN left' = Threads, DOMAIN got' = Threads,
           \A u \in Threads : u # t => left'[u] = left[u] /\ got'[u] = got[u],
           memory'[Drive!Revolutions] = memory[Drive!Revolutions],
           PositionOf(memory') = PositionOf(memory),
           memory[Drive!UAP] # <<0, 0>> => memory'[Drive!UAP] # <<0, 0>>,
           ThreadHolds(t)'
    PROVE  RegistersInv'
  <1>1. RegistersTypeOK'
    BY DEF RegistersInv, RegistersTypeOK
  <1>2. ASSUME NEW u \in Threads, u # t PROVE ThreadHolds(u)'
    <2>1. /\ operation'[u] = operation[u] /\ left'[u] = left[u] /\ got'[u] = got[u]
          /\ seen'[u] = seen[u] /\ disturbed'[u] = disturbed[u]
          /\ function' = function /\ drive_shaft' = drive_shaft
      BY <1>2
    <2>2. ThreadHolds(u)
      BY DEF RegistersInv
    <2> QED
      BY <2>1, <2>2, Elsewhere
  <1> QED
    BY <1>1, <1>2 DEF RegistersInv

LEMMA WriteParameterKeeps ==
    ASSUME RegistersInv, NEW t \in Threads, Drive!_write_parameter(t)
    PROVE  RegistersInv'
  <1>0. RegistersTypeOK /\ SmallWords /\ PinsAlike /\ Drive!Writing(t)
    BY DEF RegistersInv, Drive!_write_parameter
  <1>1. /\ left[t] \in {<<16>>, <<6, 16>>, <<16, 6>>}
        /\ Head(left[t]) = 6 <=> left[t] = <<6, 16>>
        /\ Head(left[t]) = 6 => Drive!Content(t) < Drive!WORD
        /\ ~Drive!Locating(t) => operation[t].name = "write" /\ Drive!Content(t) = operation[t].value
    BY <1>0, WhatIsWritten
  <1>2. CASE Head(left[t]) = 6 /\ ~single
    <2>1. left[t] = <<6, 16>> /\ Tail(left[t]) = <<16>>
      BY <1>1, <1>2, Tails
    <2>2. /\ left' = [left EXCEPT ![t] = <<16>>] /\ got' = got
          /\ UNCHANGED <<operation, seen, memory, drive_shaft, single, keeps, function, on, disturbed>>
      BY <1>2, <2>1, Differ DEF Drive!_write_parameter, Drive!GoesOn, Drive!drive
    <2>3. left'[t] = <<16>>
      BY <1>0, <2>2 DEF RegistersTypeOK
    <2>4. operation[t].name # "read" /\ operation[t].name # "mc_ok"
      <3>1. operation[t] \in Drive!Operations
        BY <1>0 DEF RegistersTypeOK, Drive!Writing, Drive!Doing, Drive!Locating
      <3> QED
        BY <1>0, <3>1, OperationKinds DEF Drive!Writing, Drive!Doing, Drive!Locating
    <2>5. ThreadHolds(t)
      BY DEF RegistersInv
    <2>6. FramesLeft(t)'
      BY <2>2, <2>3, <2>4 DEF FramesLeft
    <2>7. PinsHeld(t)'
      BY <2>2, <2>4 DEF PinsHeld, Drive!Doing
    <2>8. PositionHeld(t)'
      BY <2>2, <2>3, <2>5, Differ DEF ThreadHolds, PositionHeld, Drive!Locating
    <2>9. memory' \in Memories /\ SmallWords' /\ PinsAlike'
      BY <1>0, <2>2 DEF RegistersTypeOK, SmallWords, PinsAlike
    <2>10. /\ DOMAIN left' = Threads /\ DOMAIN got' = Threads
           /\ \A u \in Threads : u # t => left'[u] = left[u] /\ got'[u] = got[u]
      BY <1>0, <2>2 DEF RegistersTypeOK
    <2>11. ThreadHolds(t)'
      BY <2>6, <2>7, <2>8 DEF ThreadHolds
    <2>12. memory' = memory
      BY <2>2
    <2> QED
      BY <2>2, <2>9, <2>10, <2>11, <2>12, GoesOnKeeps
  <1>3. CASE ~(Head(left[t]) = 6 /\ ~single) /\ ~Drive!Locating(t)
    <2>1. Drive!Return(t, TRUE) /\ Drive!Execute(t, Head(left[t]))
      BY <1>3 DEF Drive!_write_parameter
    <2> QED
      BY <1>0, <2>1, ExecutedReturnKeeps
  <1>4. CASE ~(Head(left[t]) = 6 /\ ~single) /\ Drive!Locating(t)
    <2>1. /\ left' = [left EXCEPT ![t] = <<3, 3, 3>>] /\ got' = got
          /\ UNCHANGED <<operation, seen>> /\ Drive!Execute(t, Head(left[t]))
      BY <1>4 DEF Drive!_write_parameter, Drive!GoesOn
    <2>2. /\ memory' \in Memories
          /\ UNCHANGED <<drive_shaft, single, keeps, function, on, disturbed>>
      BY <1>0, <2>1, Executed
    <2>3. /\ SmallWords' /\ PinsAlike'
          /\ memory'[Drive!Revolutions] = memory[Drive!Revolutions]
          /\ PositionOf(memory') = PositionOf(memory)
          /\ memory[Drive!UAP] # <<0, 0>> => memory'[Drive!UAP] # <<0, 0>>
          /\ memory'[Drive!UAP] # <<0, 0>>
      BY <1>0, <1>4, <2>1, ExecutedKeeps
    <2>4. left'[t] = <<3, 3, 3>>
      BY <1>0, <2>1 DEF RegistersTypeOK
    <2>5. operation[t].name \in {"angle", "home"} /\ operation[t] \in Drive!Positions
      BY <1>0, <1>4, OperationKinds DEF RegistersTypeOK, Drive!Locating
    <2>6. ThreadHolds(t)
      BY DEF RegistersInv
    <2>7. FramesLeft(t)'
      BY <2>1, <2>4, <2>5 DEF FramesLeft
    <2>8. PinsHeld(t)'
      BY <2>1, <2>5 DEF PinsHeld, Drive!Doing
    <2>9. PositionHeld(t)'
      <3>1. drive_shaft \in seen[t]
        BY <1>4, <2>6 DEF ThreadHolds, PositionHeld
      <3> QED
        BY <2>1, <2>2, <2>3, <2>4, <3>1, Differ DEF PositionHeld
    <2>10. /\ DOMAIN left' = Threads /\ DOMAIN got' = Threads
           /\ \A u \in Threads : u # t => left'[u] = left[u] /\ got'[u] = got[u]
      BY <1>0, <2>1 DEF RegistersTypeOK
    <2>11. ThreadHolds(t)'
      BY <2>7, <2>8, <2>9 DEF ThreadHolds
    <2> QED
      BY <2>1, <2>2, <2>3, <2>10, <2>11, GoesOnKeeps
  <1> QED
    BY <1>2, <1>3, <1>4

LEMMA ReadOutputsKeeps ==
    ASSUME RegistersInv, NEW t \in Threads, Drive!ReadOutputs(t)
    PROVE  RegistersInv'
  <1>1. RegistersTypeOK /\ ThreadHolds(t) /\ operation[t] # None /\ operation[t].name = "mc_ok"
    BY DEF RegistersInv, Drive!ReadOutputs, Drive!Doing
  <1>2. UNCHANGED <<memory, drive_shaft, single, keeps, function, on, disturbed>>
    BY DEF Drive!ReadOutputs, Drive!drive
  <1>3. left[t] \in {<<3, 3, 3>>, <<3, 3>>, <<3>>}
    BY <1>1 DEF ThreadHolds, FramesLeft
  <1>4. CASE left[t] = <<3>>
    <2>1. \E v : Drive!Return(t, v)
      BY <1>4, Lengths DEF Drive!ReadOutputs
    <2> QED
      BY <1>2, <2>1, ReturnKeeps
  <1>5. CASE left[t] \in {<<3, 3, 3>>, <<3, 3>>}
    <2>1. PICK word :
            /\ left[t] = <<3, 3, 3>> => word = Drive!PackedFunctions(1)
            /\ left[t] = <<3, 3>> => word = Drive!PackedFunctions(4)
            /\ left' = [left EXCEPT ![t] = Tail(@)]
            /\ got' = [got EXCEPT ![t] = Append(got[t], word)]
            /\ UNCHANGED <<operation, seen>>
      <3>1. CASE left[t] = <<3, 3, 3>>
        BY <3>1, Lengths, Differ DEF Drive!ReadOutputs, Drive!GoesOn
      <3>2. CASE left[t] = <<3, 3>>
        BY <3>2, Lengths, Differ DEF Drive!ReadOutputs, Drive!GoesOn
      <3> QED
        BY <1>5, <3>1, <3>2
    <2>2. /\ left'[t] = Tail(left[t]) /\ got'[t] = Append(got[t], word)
          /\ \A u \in Threads : u # t => left'[u] = left[u] /\ got'[u] = got[u]
          /\ DOMAIN left' = Threads /\ DOMAIN got' = Threads
      BY <1>1, <2>1 DEF RegistersTypeOK
    <2>3. /\ Drive!PackedFunctions(1) \in Nat /\ Drive!PackedFunctions(4) \in Nat
          /\ Drive!PackedFunctions(1)' = Drive!PackedFunctions(1)
          /\ Drive!PackedFunctions(4)' = Drive!PackedFunctions(4)
      <3>1. \A p \in 1..6 : function[p] \in Nat
        BY <1>1 DEF RegistersTypeOK
      <3>2. Drive!PackedFunctions(1) \in Nat /\ Drive!PackedFunctions(4) \in Nat
        BY <3>1 DEF Drive!PackedFunctions
      <3> QED
        BY <1>2, <3>2 DEF Drive!PackedFunctions
    <2>4. \/ /\ left[t] = <<3, 3, 3>> /\ left'[t] = <<3, 3>> /\ word = Drive!PackedFunctions(1)
          \/ /\ left[t] = <<3, 3>> /\ left'[t] = <<3>> /\ word = Drive!PackedFunctions(4)
      <3>1. CASE left[t] = <<3, 3, 3>>
        BY <2>1, <2>2, <3>1, Tails
      <3>2. CASE left[t] = <<3, 3>>
        BY <2>1, <2>2, <3>2, Tails
      <3> QED
        BY <1>5, <3>1, <3>2
    <2>5. FramesLeft(t)'
      <3>1. operation[t] \in Drive!Operations
        BY <1>1 DEF RegistersTypeOK
      <3> QED
        BY <1>1, <2>1, <2>4, <3>1, OperationKinds DEF FramesLeft
    <2>6. PinsHeld(t)'
      <3>1. SUFFICES ASSUME ~disturbed[t]
                     PROVE  /\ left'[t] = <<3, 3>> => got'[t] = <<Drive!PackedFunctions(1)>>
                            /\ left'[t] = <<3>> =>
                                  got'[t] = <<Drive!PackedFunctions(1), Drive!PackedFunctions(4)>>
        BY <1>2, <2>3, <2>4, Differ DEF PinsHeld
      <3>2. /\ left[t] = <<3, 3, 3>> => got[t] = <<>>
            /\ left[t] = <<3, 3>> => got[t] = <<Drive!PackedFunctions(1)>>
        BY <1>1, <3>1 DEF ThreadHolds, PinsHeld, Drive!Doing
      <3>3. CASE left[t] = <<3, 3, 3>>
        <4>1. left'[t] = <<3, 3>> /\ word = Drive!PackedFunctions(1) /\ got[t] = <<>>
          BY <2>4, <3>2, <3>3, Differ
        <4>2. got'[t] = <<Drive!PackedFunctions(1)>>
          BY <2>2, <2>3, <4>1, Adding
        <4> QED
          BY <4>1, <4>2, Differ
      <3>4. CASE left[t] = <<3, 3>>
        <4>1. left'[t] = <<3>> /\ word = Drive!PackedFunctions(4) /\ got[t] = <<Drive!PackedFunctions(1)>>
          BY <2>4, <3>2, <3>4, Differ
        <4>2. got'[t] = <<Drive!PackedFunctions(1), Drive!PackedFunctions(4)>>
          BY <2>2, <2>3, <4>1, Adding
        <4> QED
          BY <4>1, <4>2, Differ
      <3> QED
        BY <1>5, <3>3, <3>4
    <2>7. PositionHeld(t)'
      <3>1. operation[t] \notin Drive!Positions
        BY <1>1, OperationKinds DEF RegistersTypeOK
      <3> QED
        BY <2>1, <3>1 DEF PositionHeld, Drive!Locating
    <2>8. memory' \in Memories /\ SmallWords' /\ PinsAlike'
      BY <1>1, <1>2 DEF RegistersInv, RegistersTypeOK, SmallWords, PinsAlike
    <2>9. ThreadHolds(t)'
      BY <2>5, <2>6, <2>7 DEF ThreadHolds
    <2>10. memory' = memory
      BY <1>2
    <2> QED
      BY <1>2, <2>1, <2>2, <2>8, <2>9, <2>10, GoesOnKeeps
  <1> QED
    BY <1>3, <1>4, <1>5

\* What the two reads of the position find.
LEMMA PositionWords ==
    ASSUME RegistersInv
    PROVE  /\ Drive!ReadWords(Drive!calculate_address("PA", Drive!PA.APP), 2) = memory[Drive!Revolutions]
           /\ Drive!ReadWords(Drive!calculate_address("PA", Drive!PA.APR), 2) = memory[Drive!Pulses]
  <1>1. /\ Drive!Revolutions \in Drive!Registers /\ Drive!Pulses \in Drive!Registers
        /\ Drive!Revolutions[1] = "PA" /\ Drive!Revolutions[2] = Drive!PA.APP
        /\ Drive!Pulses[1] = "PA" /\ Drive!Pulses[2] = Drive!PA.APR
    BY Addresses DEF Drive!Revolutions, Drive!Pulses
  <1>2. /\ memory[Drive!Revolutions] \in [{1, 2} -> Word] /\ memory[Drive!Pulses] \in [{1, 2} -> Word]
    BY <1>1 DEF RegistersInv, RegistersTypeOK, Memories
  <1>3. /\ memory[Drive!Revolutions] = <<memory[Drive!Revolutions][1], memory[Drive!Revolutions][2]>>
        /\ memory[Drive!Pulses] = <<memory[Drive!Pulses][1], memory[Drive!Pulses][2]>>
    BY <1>2, PairOf
  <1>4. /\ Drive!calculate_address("PA", Drive!PA.APP) = Drive!AddressOf(Drive!Revolutions)
        /\ Drive!calculate_address("PA", Drive!PA.APR) = Drive!AddressOf(Drive!Pulses)
    BY <1>1, AddressAgrees
  <1> QED
    BY <1>1, <1>3, <1>4, ReadsRegister

LEMMA LocateKeeps ==
    ASSUME RegistersInv, NEW t \in Threads, Drive!Locate(t)
    PROVE  RegistersInv'
  <1>1. RegistersTypeOK /\ ThreadHolds(t) /\ Drive!Locating(t) /\ ~Drive!Writing(t)
    BY DEF RegistersInv, Drive!Locate
  <1>2. UNCHANGED <<memory, drive_shaft, single, keeps, function, on, disturbed>>
    BY DEF Drive!Locate, Drive!drive
  <1>3. operation[t] # None /\ operation[t] \in Drive!Operations /\ operation[t] \in Drive!Positions
    BY <1>1 DEF RegistersTypeOK, Drive!Locating
  <1>4. left[t] \in {<<3, 3, 3>>, <<3, 3>>, <<3>>}
    <2>1. Head(left[t]) = 3
      BY <1>1 DEF Drive!Writing
    <2> QED
      BY <1>1, <1>3, <2>1, Heads DEF ThreadHolds, FramesLeft
  <1>5. CASE left[t] = <<3>>
    <2>1. \E v : Drive!Return(t, v)
      BY <1>5, Lengths DEF Drive!Locate
    <2> QED
      BY <1>2, <2>1, ReturnKeeps
  <1>6. ASSUME left' = [left EXCEPT ![t] = Tail(@)], DOMAIN got' = Threads,
               \A u \in Threads : u # t => got'[u] = got[u],
               UNCHANGED <<operation, seen>>,
               left[t] \in {<<3, 3, 3>>, <<3, 3>>},
               left'[t] = <<3, 3>> => PositionOf(memory) \in seen[t],
               left'[t] = << 3 >> => /\ got'[t] = memory[Drive!Revolutions] /\ got'[t] # <<>>
                                     /\ PositionOf(memory) \in seen[t]
        PROVE  RegistersInv'
    <2>1. /\ left'[t] = Tail(left[t]) /\ \A u \in Threads : u # t => left'[u] = left[u]
          /\ DOMAIN left' = Threads
      BY <1>1, <1>6 DEF RegistersTypeOK
    <2>2. left'[t] \in {<<3, 3>>, <<3>>}
      BY <1>6, <2>1, Tails
    <2>3. operation[t].name \in {"angle", "home"}
      BY <1>3, OperationKinds
    <2>4. FramesLeft(t)'
      BY <1>6, <2>2, <2>3 DEF FramesLeft
    <2>5. PinsHeld(t)'
      BY <1>6, <2>3 DEF PinsHeld, Drive!Doing
    <2>6. PositionHeld(t)'
      <3>1. drive_shaft \in seen[t]
        BY <1>1 DEF ThreadHolds, PositionHeld
      <3>2. /\ memory' = memory /\ drive_shaft' = drive_shaft /\ seen' = seen
            /\ PositionOf(memory') = PositionOf(memory)
        BY <1>2, <1>6
      <3> QED
        BY <1>6, <2>2, <3>1, <3>2, Differ DEF PositionHeld
    <2>7. memory' \in Memories /\ SmallWords' /\ PinsAlike'
      BY <1>1, <1>2 DEF RegistersInv, RegistersTypeOK, SmallWords, PinsAlike
    <2>8. ThreadHolds(t)'
      BY <2>4, <2>5, <2>6 DEF ThreadHolds
    <2>9. memory' = memory
      BY <1>2
    <2> QED
      BY <1>2, <1>6, <2>1, <2>7, <2>8, <2>9, GoesOnKeeps
  <1>7. CASE left[t] = <<3, 3, 3>>
    <2>1. /\ memory[Drive!UAP] = <<0, 0>>
          /\ left' = [left EXCEPT ![t] = Tail(@)] /\ got' = got
          /\ UNCHANGED <<operation, seen>>
      BY <1>7, Lengths DEF Drive!Locate, Drive!GoesOn, Drive!Updated
    <2>2. PositionOf(memory) \in seen[t]
      BY <1>1, <1>7, <2>1 DEF ThreadHolds, PositionHeld
    <2>3. left'[t] = <<3, 3>>
      BY <1>1, <1>7, <2>1, Tails DEF RegistersTypeOK
    <2>4. DOMAIN got' = Threads /\ \A u \in Threads : u # t => got'[u] = got[u]
      BY <1>1, <2>1 DEF RegistersTypeOK
    <2> QED
      BY <1>6, <1>7, <2>1, <2>2, <2>3, <2>4, Differ
  <1>8. CASE left[t] = <<3, 3>>
    <2>1. /\ left' = [left EXCEPT ![t] = Tail(@)]
          /\ got' = [got EXCEPT ![t] = Drive!ReadWords(Drive!calculate_address("PA", Drive!PA.APP), 2)]
          /\ UNCHANGED <<operation, seen>>
      BY <1>8, Lengths DEF Drive!Locate, Drive!GoesOn
    <2>2. got' = [got EXCEPT ![t] = memory[Drive!Revolutions]]
      BY <2>1, PositionWords
    <2>3. PositionOf(memory) \in seen[t]
      BY <1>1, <1>8 DEF ThreadHolds, PositionHeld
    <2>4. left'[t] = <<3>>
      BY <1>1, <1>8, <2>1, Tails DEF RegistersTypeOK
    <2>5. /\ got'[t] = memory[Drive!Revolutions]
          /\ DOMAIN got' = Threads /\ \A u \in Threads : u # t => got'[u] = got[u]
      BY <1>1, <2>2 DEF RegistersTypeOK
    <2>6. memory[Drive!Revolutions] # <<>>
      <3>1. memory[Drive!Revolutions] \in [{1, 2} -> Word]
        BY <1>1, Addresses DEF RegistersTypeOK, Memories
      <3>2. 1 \in DOMAIN memory[Drive!Revolutions] /\ 1 \notin DOMAIN <<>>
        BY <3>1
      <3> QED
        BY <3>2
    <2> QED
      BY <1>6, <1>8, <2>1, <2>3, <2>4, <2>5, <2>6, Differ
  <1> QED
    BY <1>4, <1>5, <1>7, <1>8

\* A step that leaves the operations, their frames and what they have read alone.
LEMMA OutsideKeeps ==
    ASSUME RegistersInv, RegistersTypeOK', SmallWords', PinsAlike',
           UNCHANGED <<operation, left>>,
           \A u \in Threads : ThreadHolds(u) => PinsHeld(u)' /\ PositionHeld(u)'
    PROVE  RegistersInv'
  BY DEF RegistersInv, ThreadHolds, FramesLeft

LEMMA OutputsChangeKeeps == ASSUME RegistersInv, Drive!OutputsChange PROVE RegistersInv'
  <1>1. PICK active \in SUBSET {function[p] : p \in Drive!Pins} :
          on' = {p \in Drive!Pins : function[p] # 0 /\ function[p] \in active}
    BY DEF Drive!OutputsChange
  <1>2. UNCHANGED <<memory, drive_shaft, single, keeps, function, operation, left, got, disturbed, seen>>
    BY DEF Drive!OutputsChange
  <1>3. RegistersTypeOK'
    BY <1>1, <1>2 DEF RegistersInv, RegistersTypeOK, Drive!Pins
  <1>4. SmallWords' /\ PinsAlike'
    BY <1>1, <1>2 DEF RegistersInv, SmallWords, PinsAlike, Drive!Pins
  <1>5. ASSUME NEW u \in Threads, ThreadHolds(u) PROVE PinsHeld(u)' /\ PositionHeld(u)'
    BY <1>2, <1>5 DEF ThreadHolds, PinsHeld, PositionHeld, Drive!Doing, Drive!Locating,
                      Drive!PackedFunctions, PositionOf
  <1> QED
    BY <1>2, <1>3, <1>4, <1>5, OutsideKeeps

LEMMA ReassignKeeps == ASSUME RegistersInv, Drive!Reassign PROVE RegistersInv'
  <1>1. /\ function' \in Assignments /\ on' = {}
        /\ disturbed' = [t \in Threads |-> disturbed[t] \/ Drive!Doing(t, "mc_ok")]
        /\ UNCHANGED <<memory, drive_shaft, single, keeps, operation, left, got, seen>>
    BY DEF Drive!Reassign
  <1>2. \A t \in Threads : disturbed'[t] \in BOOLEAN
    BY <1>1 DEF RegistersInv, RegistersTypeOK, Drive!Doing
  <1>3. RegistersTypeOK'
    BY <1>1, <1>2, AssignmentsAssumption DEF RegistersInv, RegistersTypeOK
  <1>4. SmallWords' /\ PinsAlike'
    BY <1>1 DEF RegistersInv, SmallWords, PinsAlike
  <1>5. ASSUME NEW u \in Threads, ThreadHolds(u) PROVE PinsHeld(u)' /\ PositionHeld(u)'
    <2>1. PinsHeld(u)'
      BY <1>1 DEF PinsHeld, Drive!Doing
    <2>2. disturbed[u] => disturbed'[u]
      BY <1>1
    <2> QED
      BY <1>1, <1>5, <2>1, <2>2 DEF ThreadHolds, PositionHeld, Drive!Locating, PositionOf
  <1> QED
    BY <1>1, <1>3, <1>4, <1>5, OutsideKeeps

LEMMA TurnKeeps == ASSUME RegistersInv, Drive!Turn PROVE RegistersInv'
  <1>1. /\ drive_shaft' \in -MAX_SHAFT..MAX_SHAFT
        /\ seen' = [t \in Threads |-> IF Drive!Locating(t) THEN seen[t] \union {drive_shaft'} ELSE {}]
        /\ UNCHANGED <<memory, single, keeps, function, on, operation, left, got, disturbed>>
    BY DEF Drive!Turn
  <1>2. RegistersTypeOK'
    BY <1>1 DEF RegistersInv, RegistersTypeOK
  <1>3. SmallWords' /\ PinsAlike'
    BY <1>1 DEF RegistersInv, SmallWords, PinsAlike
  <1>4. ASSUME NEW u \in Threads, ThreadHolds(u) PROVE PinsHeld(u)' /\ PositionHeld(u)'
    <2>1. PinsHeld(u)'
      BY <1>1, <1>4 DEF ThreadHolds, PinsHeld, Drive!Doing, Drive!PackedFunctions
    <2>2. ASSUME Drive!Locating(u)
          PROVE  seen[u] \subseteq seen'[u] /\ drive_shaft' \in seen'[u]
      BY <1>1, <2>2
    <2>3. PositionHeld(u)'
      BY <1>1, <1>4, <2>2 DEF ThreadHolds, PositionHeld, Drive!Locating, PositionOf
    <2> QED
      BY <2>1, <2>3
  <1> QED
    BY <1>1, <1>2, <1>3, <1>4, OutsideKeeps

LEMMA UpdateAbsoluteKeeps == ASSUME RegistersInv, Drive!UpdateAbsolute PROVE RegistersInv'
  <1>1. /\ memory' = Drive!Latched
        /\ disturbed' = [t \in Threads |-> disturbed[t] \/ (Drive!Locating(t) /\ got[t] # <<>>)]
        /\ UNCHANGED <<drive_shaft, single, keeps, function, on, operation, left, got, seen>>
    BY DEF Drive!UpdateAbsolute
  <1>2. memory \in Memories /\ drive_shaft \in -MAX_SHAFT..MAX_SHAFT
    BY DEF RegistersInv, RegistersTypeOK
  <1>3. /\ Drive!Latched \in Memories
        /\ \A r \in Drive!Registers \ {Drive!UAP, Drive!Revolutions, Drive!Pulses} :
                 Drive!Latched[r] = memory[r]
        /\ Drive!Latched[Drive!UAP] = <<0, 0>>
        /\ PositionOf(Drive!Latched) = drive_shaft
    BY <1>2, Latches
  <1>4. \A t \in Threads : disturbed'[t] \in BOOLEAN
    BY <1>1 DEF RegistersInv, RegistersTypeOK, Drive!Locating
  <1>5. RegistersTypeOK'
    BY <1>1, <1>3, <1>4 DEF RegistersInv, RegistersTypeOK
  <1>6. SmallWords'
    <2>1. 0 < Half /\ <<0, 0>>[2] = 0
      BY SMT DEF Half
    <2> QED
      BY <1>1, <1>3, <2>1 DEF RegistersInv, SmallWords
  <1>7. PinsAlike'
    BY <1>1 DEF RegistersInv, PinsAlike
  <1>8. ASSUME NEW u \in Threads, ThreadHolds(u) PROVE PinsHeld(u)' /\ PositionHeld(u)'
    <2>1. disturbed'[u] = (disturbed[u] \/ (Drive!Locating(u) /\ got[u] # <<>>))
      BY <1>1
    <2>2. PinsHeld(u)'
      <3>1. disturbed[u] => disturbed'[u]
        BY <2>1
      <3> QED
        BY <1>1, <1>8, <3>1 DEF ThreadHolds, PinsHeld, Drive!Doing, Drive!PackedFunctions
    <2>3. PositionOf(memory') = drive_shaft
      BY <1>1, <1>3
    <2>4. PositionHeld(u)'
      <3>1. SUFFICES ASSUME Drive!Locating(u)
                     PROVE  /\ drive_shaft' \in seen'[u] /\ PositionOf(memory') \in seen'[u]
                            /\ left'[u] = <<3>> => got'[u] # <<>> /\ disturbed'[u]
        BY <1>1 DEF PositionHeld, Drive!Locating
      <3> QED
        BY <1>1, <1>8, <2>1, <2>3, <3>1 DEF ThreadHolds, PositionHeld
    <2> QED
      BY <2>2, <2>4
  <1> QED
    BY <1>1, <1>5, <1>6, <1>7, <1>8, OutsideKeeps

LEMMA RegistersNext == RegistersInv /\ [Drive!Next]_Drive!vars => RegistersInv'
  <1> SUFFICES ASSUME RegistersInv, [Drive!Next]_Drive!vars
               PROVE  RegistersInv'
    OBVIOUS
  <1>1. ASSUME NEW t \in Threads, NEW op \in Drive!Operations, Drive!Begin(t, op)
        PROVE  RegistersInv'
    BY <1>1, BeginKeeps
  <1>2. ASSUME NEW t \in Threads, Drive!_read_parameter(t)
        PROVE  RegistersInv'
    <2>1. /\ \E v : Drive!Return(t, v)
          /\ UNCHANGED <<memory, drive_shaft, single, keeps, function, on, disturbed>>
      BY <1>2 DEF Drive!_read_parameter, Drive!drive
    <2> QED
      BY <2>1, ReturnKeeps
  <1>3. ASSUME NEW t \in Threads, Drive!_write_parameter(t)
        PROVE  RegistersInv'
    BY <1>3, WriteParameterKeeps
  <1>4. ASSUME NEW t \in Threads, Drive!WriteUnanswered(t)
        PROVE  RegistersInv'
    <2>1. Drive!Writing(t) /\ \E v : Drive!Return(t, v)
      BY <1>4 DEF Drive!WriteUnanswered, Drive!Unanswered
    <2>2. \/ Drive!Execute(t, Head(left[t]))
          \/ UNCHANGED <<memory, drive_shaft, single, keeps, function, on, disturbed>>
      BY <1>4 DEF Drive!WriteUnanswered, Drive!drive
    <2> QED
      BY <2>1, <2>2, ReturnKeeps, ExecutedReturnKeeps
  <1>5. ASSUME NEW t \in Threads, Drive!ReadUnanswered(t)
        PROVE  RegistersInv'
    <2>1. /\ \E v : Drive!Return(t, v)
          /\ UNCHANGED <<memory, drive_shaft, single, keeps, function, on, disturbed>>
      BY <1>5 DEF Drive!ReadUnanswered, Drive!Unanswered, Drive!drive
    <2> QED
      BY <2>1, ReturnKeeps
  <1>6. ASSUME NEW t \in Threads, Drive!ReadOutputs(t)
        PROVE  RegistersInv'
    BY <1>6, ReadOutputsKeeps
  <1>7. ASSUME NEW t \in Threads, Drive!Locate(t)
        PROVE  RegistersInv'
    BY <1>7, LocateKeeps
  <1>8. CASE Drive!OutputsChange \/ Drive!Reassign \/ Drive!Turn \/ Drive!UpdateAbsolute
    BY <1>8, OutputsChangeKeeps, ReassignKeeps, TurnKeeps, UpdateAbsoluteKeeps
  <1>9. CASE UNCHANGED Drive!vars
    <2>1. UNCHANGED <<memory, drive_shaft, single, keeps, function, on, operation, left, got, disturbed, seen>>
      BY <1>9 DEF Drive!vars, Drive!drive
    <2>2. RegistersTypeOK' /\ SmallWords' /\ PinsAlike'
      BY <2>1 DEF RegistersInv, RegistersTypeOK, SmallWords, PinsAlike
    <2>3. ASSUME NEW u \in Threads, ThreadHolds(u) PROVE PinsHeld(u)' /\ PositionHeld(u)'
      BY <2>1, <2>3 DEF ThreadHolds, PinsHeld, PositionHeld, Drive!Doing, Drive!Locating,
                        Drive!PackedFunctions, PositionOf
    <2> QED
      BY <2>1, <2>2, <2>3, OutsideKeeps
  <1> QED
    BY <1>1, <1>2, <1>3, <1>4, <1>5, <1>6, <1>7, <1>8, <1>9 DEF Drive!Next

\* The registers' invariant holds of every state: types, words of sixteen bits, the pins of
\* a function alike, and for each thread what its frames so far have found and left.
THEOREM RegistersInvariant == Drive!Spec => []RegistersInv
  <1>1. RegistersInv /\ [Drive!Next]_Drive!vars => RegistersInv'
    BY RegistersNext
  <1> QED
    BY RegistersInit, <1>1, PTL DEF Drive!Spec

-----------------------------------------------------------------------------
(* What an operation returns is so.                                        *)

\* What RegistersAreTrue says of a step.
ReturnsAreSo ==
    \A t \in Threads : operation[t] # None /\ operation'[t] = None /\ ~disturbed[t] => Drive!IsSo(t)

OnlyTargetsChange ==
    \A r \in Drive!Registers : memory'[r] # memory[r] =>
        \/ memory' = Drive!Latched
        \/ \E t \in Threads : Drive!Writing(t) /\ Drive!Target(t) = r

\* Only the thread that returns has anything to be true about.
LEMMA OneReturns ==
    ASSUME RegistersInv, NEW t \in Threads, NEW v, Drive!Return(t, v),
           ~disturbed[t] => Drive!IsSo(t)
    PROVE  ReturnsAreSo
  <1>1. ASSUME NEW u \in Threads, u # t PROVE operation'[u] = operation[u]
    BY <1>1 DEF RegistersInv, RegistersTypeOK, Drive!Return
  <1> QED
    BY <1>1 DEF ReturnsAreSo

LEMMA NoneReturns ==
    ASSUME \A t \in Threads : operation'[t] = operation[t] \/ operation'[t] # None
    PROVE  ReturnsAreSo
  BY DEF ReturnsAreSo

\* An operation that gives up has said so.
LEMMA UnansweredIsSo ==
    ASSUME RegistersInv, NEW t \in Threads, Drive!Unanswered(t)
    PROVE  Drive!IsSo(t)
  <1>1. operation[t] \in Drive!Operations /\ operation[t] # None
    BY DEF RegistersInv, RegistersTypeOK, Drive!Unanswered
  <1>2. result' = [of |-> operation[t], value |-> IF operation[t].name = "write" THEN FALSE ELSE None]
    BY <1>1 DEF Drive!Unanswered, Drive!Return, Drive!Doing
  <1>3. CASE operation[t].name = "write"
    <2>1. result'.of = operation[t] /\ result'.value = FALSE /\ operation[t] \notin Drive!Positions
      BY <1>1, <1>2, <1>3, OperationKinds
    <2> QED
      BY <1>3, <2>1 DEF Drive!IsSo
  <1>4. CASE operation[t].name # "write"
    <2>1. result'.of = operation[t] /\ result'.value = None
      BY <1>2, <1>4
    <2> QED
      BY <1>4, <2>1 DEF Drive!IsSo
  <1> QED
    BY <1>3, <1>4

\* The words of a register, as the program decodes them.
LEMMA DecodesRegister ==
    ASSUME RegistersInv, NEW r \in Drive!Registers \ {Drive!Pulses}
    PROVE  /\ Drive!get_value(Drive!ReadWords(Drive!calculate_address(r[1], r[2]), 2), r = Drive!Revolutions)
                 = Drive!Number(memory[r])
           /\ r # Drive!Revolutions =>
                 Drive!get_value(Drive!ReadWords(Drive!calculate_address(r[1], r[2]), 1), r = Drive!Revolutions)
                 = memory[r][1]
  <1>1. memory[r] \in [{1, 2} -> Word]
    BY DEF RegistersInv, RegistersTypeOK, Memories
  <1>2. PICK low \in Word, high \in Word :
          /\ memory[r] = <<low, high>> /\ low = memory[r][1] /\ high = memory[r][2]
    BY <1>1, PairOf
  <1>3. /\ Drive!ReadWords(Drive!calculate_address(r[1], r[2]), 2) = <<low, high>>
        /\ Drive!ReadWords(Drive!calculate_address(r[1], r[2]), 1) = <<low>>
    BY <1>2, AddressAgrees, ReadsRegister
  <1>4. CASE r = Drive!Revolutions
    <2>1. (r = Drive!Revolutions) = TRUE
      BY <1>4
    <2>2. Drive!get_value(<<low, high>>, TRUE) = Drive!Number(<<low, high>>)
      BY Decoded
    <2> QED
      BY <1>2, <1>3, <1>4, <2>1, <2>2
  <1>5. CASE r # Drive!Revolutions
    <2>1. (r = Drive!Revolutions) = FALSE
      BY <1>5
    <2>2. high < Half
      BY <1>2, <1>5 DEF RegistersInv, SmallWords
    <2>3. /\ Drive!get_value(<<low, high>>, FALSE) = Drive!Number(<<low, high>>)
          /\ Drive!get_value(<<low>>, FALSE) = low
      <3>1. Drive!Number(<<low, high>>) = low + Drive!WORD * high
        BY <2>2, Decoded, Zenon
      <3>2. /\ Drive!get_value(<<low, high>>, FALSE) = low + Drive!WORD * high
            /\ Drive!get_value(<<low>>, FALSE) = low
        BY Decoded, Zenon
      <3> QED
        BY <3>1, <3>2, Zenon
    <2> QED
      BY <1>2, <1>3, <2>1, <2>3
  <1> QED
    BY <1>4, <1>5

LEMMA ReadIsSo ==
    ASSUME RegistersInv, NEW t \in Threads, Drive!_read_parameter(t)
    PROVE  Drive!IsSo(t)
  <1> DEFINE op == operation[t]
             r == op.register
             value == Drive!get_value(Drive!ReadWords(Drive!calculate_address(r[1], r[2]), op.value),
                                      r = Drive!Revolutions)
  <1>1. op \in Drive!Operations /\ op.name = "read"
    BY DEF RegistersInv, RegistersTypeOK, Drive!_read_parameter, Drive!Doing
  <1>2. result' = [of |-> op, value |-> value]
    BY DEF Drive!_read_parameter, Drive!Return
  <1>3. /\ r \in Drive!Registers \ {Drive!UAP, Drive!Pulses} /\ op.value \in {1, 2}
        /\ op.value = 1 => r # Drive!Revolutions
    BY <1>1, OperationKinds
  <1>4. value = IF op.value = 2 THEN Drive!Number(memory[r]) ELSE memory[r][1]
    <2>1. CASE op.value = 2
      BY <1>3, <2>1, DecodesRegister
    <2>2. CASE op.value = 1
      BY <1>3, <2>2, DecodesRegister
    <2> QED
      BY <1>3, <2>1, <2>2
  <1> HIDE DEF value
  <1>5. result'.of = op /\ result'.value = value
    BY <1>2
  <1>6. op \notin Drive!Positions
    BY <1>1, OperationKinds
  <1> QED
    BY <1>1, <1>4, <1>5, <1>6 DEF Drive!IsSo

LEMMA WriteIsSo ==
    ASSUME RegistersInv, NEW t \in Threads, Drive!Writing(t), ~Drive!Locating(t),
           Drive!Return(t, TRUE), Drive!Execute(t, Head(left[t]))
    PROVE  Drive!IsSo(t)
  <1> DEFINE op == operation[t]
             r == op.register
             v == op.value
  <1>1. op.name = "write" /\ Drive!Target(t) = r /\ Drive!Content(t) = v
    BY WhatIsWritten
  <1>2. /\ r \in Drive!Registers /\ v \in Longs
        /\ Head(left[t]) = 6 => v < Drive!WORD
    BY <1>1, WhatIsWritten
  <1>3. /\ memory' \in Memories
        /\ memory'[r][1] = v % Drive!WORD
        /\ \/ memory'[r][2] = v \div Drive!WORD
           \/ keeps /\ Head(left[t]) = 6
    BY <1>1, Executed
  <1>4. result'.of = op /\ result'.value = TRUE
    BY DEF Drive!Return
  <1> HIDE DEF op, r, v
  <1>5. \/ Drive!Number(memory'[r]) = v
        \/ keeps /\ memory'[r][1] = v
    <2>1. CASE memory'[r][2] = v \div Drive!WORD
      <3>1. memory'[r] \in [{1, 2} -> Word]
        BY <1>2, <1>3 DEF Memories
      <3>2. memory'[r] = <<v % Drive!WORD, v \div Drive!WORD>>
        BY <1>3, <2>1, <3>1, PairOf
      <3>3. /\ v % Drive!WORD \in Word /\ v \div Drive!WORD \in Word /\ v \div Drive!WORD < Half
            /\ (v % Drive!WORD) + Drive!WORD * (v \div Drive!WORD) = v
        BY <1>2, TwoWords
      <3>4. Drive!Number(<<v % Drive!WORD, v \div Drive!WORD>>) = v
        BY <3>3, Decoded
      <3> QED
        BY <3>2, <3>4
    <2>2. CASE keeps /\ Head(left[t]) = 6
      BY <1>2, <1>3, <2>2, TwoWords
    <2> QED
      BY <1>3, <2>1, <2>2
  <1>6. op.name # "read" /\ op.name # "mc_ok" /\ op \notin Drive!Positions
    <2>1. op \in Drive!Operations
      BY DEF RegistersInv, RegistersTypeOK, Drive!Writing, Drive!Doing, op
    <2> QED
      BY <1>1, <2>1, OperationKinds
  <1>7. SUFFICES \/ Drive!Number(memory'[op.register]) = op.value
                 \/ keeps /\ memory'[op.register][1] = op.value
    BY <1>1, <1>4, <1>6 DEF Drive!IsSo
  <1> QED
    BY <1>5 DEF r, v

\* The functions of three pins, taken apart again.
Codes == 0..31
Functions(a, b, c) == a + 32 * b + 1024 * c

LEMMA UnpackFunctions ==
    ASSUME NEW a \in Codes, NEW b \in Codes, NEW c \in Codes
    PROVE  /\ (Functions(a, b, c) \div 1) % 32 = a /\ (Functions(a, b, c) \div 32) % 32 = b
           /\ (Functions(a, b, c) \div 1024) % 32 = c
  <1> DEFINE word == a + 32 * b + 1024 * c
  <1>1. (word \div 1) % 32 = a
    BY DEF Codes
  <1>2. word \div 32 = b + 32 * c /\ word \div 1024 = c
    BY DEF Codes
  <1>3. (b + 32 * c) % 32 = b /\ c % 32 = c
    BY DEF Codes
  <1> QED
    BY <1>1, <1>2, <1>3 DEF Functions

\* The states of six pins, taken apart again.
States(a, b, c, d, e, f) == a + 2 * b + 4 * c + 8 * d + 16 * e + 32 * f

LEMMA UnpackStates ==
    ASSUME NEW a \in 0..1, NEW b \in 0..1, NEW c \in 0..1,
           NEW d \in 0..1, NEW e \in 0..1, NEW f \in 0..1,
           NEW word, word = States(a, b, c, d, e, f)
    PROVE  /\ (word \div 1) % 2 = a /\ (word \div 2) % 2 = b /\ (word \div 4) % 2 = c
           /\ (word \div 8) % 2 = d /\ (word \div 16) % 2 = e /\ (word \div 32) % 2 = f
  <1>1. (word \div 1) % 2 = a /\ (word \div 2) % 2 = b
    BY SMTT(30) DEF States
  <1>2. (word \div 4) % 2 = c /\ (word \div 8) % 2 = d
    BY SMTT(30) DEF States
  <1>3. (word \div 16) % 2 = e /\ (word \div 32) % 2 = f
    BY SMTT(30) DEF States
  <1> QED
    BY <1>1, <1>2, <1>3

\* The state of a pin as a bit.
State(p) == IF p \in on THEN 1 ELSE 0

LEMMA PackedStatesAre ==
    Drive!PackedStates =
        States(State(1), State(2), State(3), State(4), State(5), State(6))
  <1> DEFINE B(p) == IF p \in on THEN Drive!Bit(p) ELSE 0
  <1>1. /\ Drive!Bit(1) = 1 /\ Drive!Bit(2) = 2 /\ Drive!Bit(3) = 4
        /\ Drive!Bit(4) = 8 /\ Drive!Bit(5) = 16 /\ Drive!Bit(6) = 32
    BY DEF Drive!Bit
  <1>2. Drive!PackedStates = B(1) + B(2) + B(3) + B(4) + B(5) + B(6)
    BY DEF Drive!PackedStates
  <1>3. /\ B(1) = State(1) /\ B(2) = 2 * State(2) /\ B(3) = 4 * State(3)
        /\ B(4) = 8 * State(4) /\ B(5) = 16 * State(5) /\ B(6) = 32 * State(6)
    BY <1>1 DEF State
  <1> HIDE DEF B
  <1> QED
    BY <1>2, <1>3 DEF States

\* read_do_status finds the function and the state of each pin.
LEMMA ReadsPins ==
    ASSUME RegistersInv, NEW words,
           words = <<Drive!PackedFunctions(1), Drive!PackedFunctions(4), Drive!PackedStates>>,
           NEW p \in 1..6
    PROVE  /\ Drive!read_do_status(words)[p].function_code = function[p]
           /\ Drive!read_do_status(words)[p].on = (p \in on)
  <1>1. /\ function[1] \in Codes /\ function[2] \in Codes /\ function[3] \in Codes
        /\ function[4] \in Codes /\ function[5] \in Codes /\ function[6] \in Codes
    BY DEF RegistersInv, RegistersTypeOK, Codes
  <1>2. /\ Drive!PackedFunctions(1) = Functions(function[1], function[2], function[3])
        /\ Drive!PackedFunctions(4) = Functions(function[4], function[5], function[6])
    BY DEF Drive!PackedFunctions, Functions
  <1>3. \A q \in 1..6 : State(q) \in 0..1 /\ (State(q) = 1 <=> q \in on)
    BY DEF State
  <1>4. /\ words[1] = Drive!PackedFunctions(1) /\ words[2] = Drive!PackedFunctions(4)
        /\ words[3] = Drive!PackedStates
    OBVIOUS
  <1>5. /\ Drive!read_do_status(words)[p].function_code =
              (words[IF p <= 3 THEN 1 ELSE 2] \div <<1, 32, 1024>>[1 + ((p - 1) % 3)]) % 32
        /\ Drive!read_do_status(words)[p].on = ((words[3] \div Drive!Bit(p)) % 2 = 1)
    BY DEF Drive!read_do_status, Drive!Pins
  <1>6. (words[IF p <= 3 THEN 1 ELSE 2] \div <<1, 32, 1024>>[1 + ((p - 1) % 3)]) % 32 = function[p]
    <2>0. /\ words[1] = Functions(function[1], function[2], function[3])
          /\ words[2] = Functions(function[4], function[5], function[6])
      BY <1>2, <1>4
    <2>1. /\ (words[1] \div 1) % 32 = function[1] /\ (words[1] \div 32) % 32 = function[2]
          /\ (words[1] \div 1024) % 32 = function[3]
      BY <1>1, <2>0, UnpackFunctions
    <2>2. /\ (words[2] \div 1) % 32 = function[4] /\ (words[2] \div 32) % 32 = function[5]
          /\ (words[2] \div 1024) % 32 = function[6]
      BY <1>1, <2>0, UnpackFunctions
    <2>3. CASE p = 1
      BY <2>1, <2>3
    <2>4. CASE p = 2
      BY <2>1, <2>4
    <2>5. CASE p = 3
      BY <2>1, <2>5
    <2>6. CASE p = 4
      BY <2>2, <2>6
    <2>7. CASE p = 5
      BY <2>2, <2>7
    <2>8. CASE p = 6
      BY <2>2, <2>8
    <2> QED
      BY <2>3, <2>4, <2>5, <2>6, <2>7, <2>8
  <1>7. (words[3] \div Drive!Bit(p)) % 2 = State(p)
    <2>1. /\ (words[3] \div 1) % 2 = State(1) /\ (words[3] \div 2) % 2 = State(2)
          /\ (words[3] \div 4) % 2 = State(3) /\ (words[3] \div 8) % 2 = State(4)
          /\ (words[3] \div 16) % 2 = State(5) /\ (words[3] \div 32) % 2 = State(6)
      <3>1. words[3] = States(State(1), State(2), State(3), State(4), State(5), State(6))
        BY <1>4, PackedStatesAre
      <3>2. /\ State(1) \in 0..1 /\ State(2) \in 0..1 /\ State(3) \in 0..1
            /\ State(4) \in 0..1 /\ State(5) \in 0..1 /\ State(6) \in 0..1
        BY <1>3
      <3> QED
        BY <3>1, <3>2, UnpackStates
    <2>2. /\ Drive!Bit(1) = 1 /\ Drive!Bit(2) = 2 /\ Drive!Bit(3) = 4
          /\ Drive!Bit(4) = 8 /\ Drive!Bit(5) = 16 /\ Drive!Bit(6) = 32
      BY DEF Drive!Bit
    <2>3. p = 1 \/ p = 2 \/ p = 3 \/ p = 4 \/ p = 5 \/ p = 6
      OBVIOUS
    <2> QED
      BY <2>1, <2>2, <2>3
  <1> QED
    BY <1>3, <1>5, <1>6, <1>7

\* The first of some pins.
LEMMA FirstPin ==
    ASSUME NEW S \in SUBSET (1..6), S # {}
    PROVE  \E p \in S : \A q \in S : p <= q
  <1>1. CASE 1 \in S
    BY <1>1
  <1>2. CASE 1 \notin S /\ 2 \in S
    BY <1>2
  <1>3. CASE 1 \notin S /\ 2 \notin S /\ 3 \in S
    BY <1>3
  <1>4. CASE 1 \notin S /\ 2 \notin S /\ 3 \notin S /\ 4 \in S
    BY <1>4
  <1>5. CASE S \subseteq {5, 6} /\ 5 \in S
    BY <1>5
  <1>6. CASE S = {6}
    BY <1>6
  <1>7. 1 \notin S /\ 2 \notin S /\ 3 \notin S /\ 4 \notin S => S \subseteq {5, 6}
    OBVIOUS
  <1>8. S \subseteq {5, 6} => 5 \in S \/ S = {6}
    OBVIOUS
  <1> QED
    BY <1>1, <1>2, <1>3, <1>4, <1>5, <1>6, <1>7, <1>8

\* MC_OK is that of the pins.
LEMMA McOkIsSo ==
    ASSUME RegistersInv, NEW words,
           words = <<Drive!PackedFunctions(1), Drive!PackedFunctions(4), Drive!PackedStates>>
    PROVE  Drive!read_mc_ok_status(Drive!read_do_status(words)) = Drive!McOk
  <1> DEFINE do == Drive!read_do_status(words)
             pin_with(code) == {p \in Drive!Pins : do[p].function_code = code}
             First(pins) == CHOOSE p \in pins : \A q \in pins : p <= q
  <1>1. \A p \in 1..6 : do[p].function_code = function[p] /\ do[p].on = (p \in on)
    BY ReadsPins
  <1> HIDE DEF do
  <1>2. ASSUME NEW code PROVE pin_with(code) = Drive!PinOf(code) /\ pin_with(code) \subseteq 1..6
    BY <1>1 DEF Drive!PinOf, Drive!Pins
  <1>3. ASSUME NEW code, Drive!PinOf(code) # {}
        PROVE  (do[First(pin_with(code))].on = TRUE) <=> Drive!PinOf(code) \subseteq on
    <2> DEFINE S == pin_with(code)
    <2>1. S = Drive!PinOf(code) /\ S \in SUBSET (1..6) /\ S # {}
      BY <1>2, <1>3
    <2> HIDE DEF S
    <2>2. First(S) \in S
      BY <2>1, FirstPin
    <2>3. do[First(S)].on = (First(S) \in on)
      BY <1>1, <2>1, <2>2
    <2>4. \A q \in S : q \in on <=> First(S) \in on
      <3>1. \A q \in S : function[q] = code
        BY <2>1 DEF Drive!PinOf
      <3> QED
        BY <2>1, <2>2, <3>1 DEF RegistersInv, PinsAlike
    <2>5. First(S) \in on <=> S \subseteq on
      BY <2>2, <2>4
    <2> HIDE DEF First
    <2> QED
      BY <2>1, <2>3, <2>5 DEF S
  <1>4. Drive!read_mc_ok_status(do) =
          IF pin_with(Drive!INP_SA) = {} \/ pin_with(Drive!CMDOK) = {} THEN None
          ELSE do[First(pin_with(Drive!INP_SA))].on /\ do[First(pin_with(Drive!CMDOK))].on
    BY DEF Drive!read_mc_ok_status
  <1> HIDE DEF First, pin_with
  <1>5. CASE Drive!PinOf(Drive!INP_SA) = {} \/ Drive!PinOf(Drive!CMDOK) = {}
    BY <1>2, <1>4, <1>5 DEF Drive!McOk, do
  <1>6. CASE Drive!PinOf(Drive!INP_SA) # {} /\ Drive!PinOf(Drive!CMDOK) # {}
    <2>1. Drive!McOk = (Drive!PinOf(Drive!INP_SA) \union Drive!PinOf(Drive!CMDOK) \subseteq on)
      BY <1>6 DEF Drive!McOk
    <2>2. Drive!read_mc_ok_status(do) =
            (do[First(pin_with(Drive!INP_SA))].on /\ do[First(pin_with(Drive!CMDOK))].on)
      BY <1>2, <1>4, <1>6
    <2>3. /\ (do[First(pin_with(Drive!INP_SA))].on = TRUE) <=> Drive!PinOf(Drive!INP_SA) \subseteq on
          /\ (do[First(pin_with(Drive!CMDOK))].on = TRUE) <=> Drive!PinOf(Drive!CMDOK) \subseteq on
      BY <1>3, <1>6
    <2>4. (Drive!PinOf(Drive!INP_SA) \union Drive!PinOf(Drive!CMDOK) \subseteq on)
            <=> (Drive!PinOf(Drive!INP_SA) \subseteq on /\ Drive!PinOf(Drive!CMDOK) \subseteq on)
      OBVIOUS
    <2> QED
      BY <2>1, <2>2, <2>3, <2>4 DEF do
  <1> QED
    BY <1>5, <1>6

LEMMA OutputsAreSo ==
    ASSUME RegistersInv, NEW t \in Threads, Drive!ReadOutputs(t)
    PROVE  ReturnsAreSo
  <1>1. /\ operation \in [Threads -> Drive!Operations \union {None}]
        /\ operation[t] # None /\ operation[t].name = "mc_ok" /\ ThreadHolds(t)
    BY DEF RegistersInv, RegistersTypeOK, Drive!ReadOutputs, Drive!Doing
  <1>2. CASE Len(left[t]) # 1
    <2>1. UNCHANGED operation
      BY <1>2 DEF Drive!ReadOutputs, Drive!GoesOn
    <2> QED
      BY <2>1, NoneReturns
  <1>3. CASE Len(left[t]) = 1
    <2>1. left[t] = <<3>>
      BY <1>1, <1>3, Lengths DEF ThreadHolds, FramesLeft
    <2> DEFINE words == Append(got[t], Drive!PackedStates)
               value == Drive!read_mc_ok_status(Drive!read_do_status(words))
    <2>2. Drive!Return(t, value)
      BY <2>1, Lengths DEF Drive!ReadOutputs
    <2>3. ASSUME ~disturbed[t] PROVE value = Drive!McOk
      <3>1. got[t] = <<Drive!PackedFunctions(1), Drive!PackedFunctions(4)>>
        BY <1>1, <2>1, <2>3 DEF ThreadHolds, PinsHeld, Drive!Doing
      <3>2. /\ Drive!PackedFunctions(1) \in Nat /\ Drive!PackedFunctions(4) \in Nat
            /\ Drive!PackedStates \in Nat
        <4>1. \A p \in 1..6 : function[p] \in Nat
          BY DEF RegistersInv, RegistersTypeOK
        <4>2. Drive!PackedFunctions(1) \in Nat /\ Drive!PackedFunctions(4) \in Nat
          BY <4>1 DEF Drive!PackedFunctions
        <4>3. Drive!PackedStates \in Nat
          BY PackedStatesAre DEF State, States
        <4> QED
          BY <4>2, <4>3
      <3>3. words = <<Drive!PackedFunctions(1), Drive!PackedFunctions(4), Drive!PackedStates>>
        BY <3>1, <3>2, Adding
      <3> HIDE DEF words
      <3> QED
        BY <3>3, McOkIsSo
    <2>4. operation[t] \notin Drive!Positions
      BY <1>1, OperationKinds
    <2>5. result'.of = operation[t] /\ result'.value = value
      BY <2>2 DEF Drive!Return
    <2> HIDE DEF value
    <2>6. ~disturbed[t] => Drive!IsSo(t)
      BY <1>1, <2>3, <2>4, <2>5 DEF Drive!IsSo
    <2> QED
      BY <2>2, <2>6, OneReturns
  <1> QED
    BY <1>2, <1>3

LEMMA PositionIsSo ==
    ASSUME RegistersInv, NEW t \in Threads, Drive!Locate(t)
    PROVE  ReturnsAreSo
  <1>1. /\ operation \in [Threads -> Drive!Operations \union {None}]
        /\ Drive!Locating(t) /\ ~Drive!Writing(t) /\ ThreadHolds(t)
    BY DEF RegistersInv, RegistersTypeOK, Drive!Locate
  <1>2. operation[t] \in Drive!Operations /\ operation[t] \in Drive!Positions
    BY <1>1 DEF Drive!Locating
  <1>3. left[t] \in {<<3, 3, 3>>, <<3, 3>>, <<3>>}
    <2>1. Head(left[t]) = 3
      BY <1>1 DEF Drive!Writing
    <2> QED
      BY <1>1, <1>2, <2>1, Heads DEF ThreadHolds, FramesLeft, Drive!Locating
  <1>4. CASE left[t] = <<3, 3, 3>>
    <2>1. UNCHANGED operation
      BY <1>4, Lengths DEF Drive!Locate, Drive!GoesOn
    <2> QED
      BY <2>1, NoneReturns
  <1>5. CASE left[t] = <<3, 3>>
    <2>1. UNCHANGED operation
      BY <1>5, Lengths DEF Drive!Locate, Drive!GoesOn
    <2> QED
      BY <2>1, NoneReturns
  <1>6. CASE left[t] = <<3>>
    <2> DEFINE words == Drive!ReadWords(Drive!calculate_address("PA", Drive!PA.APR), 2)
               value == Drive!AbsolutePosition(got[t], words)
    <2>1. Drive!Return(t, value)
      BY <1>6, Lengths DEF Drive!Locate
    <2>2. words = memory[Drive!Pulses]
      BY PositionWords
    <2> HIDE DEF words
    <2>3. ASSUME ~disturbed[t] PROVE value \in seen[t]
      <3>1. got[t] = memory[Drive!Revolutions] /\ PositionOf(memory) \in seen[t]
        BY <1>1, <1>6, <2>3 DEF ThreadHolds, PositionHeld
      <3> QED
        BY <2>2, <3>1 DEF PositionOf
    <2>4. operation[t].name \in {"angle", "home"}
      BY <1>2, OperationKinds
    <2>5. result'.of = operation[t] /\ result'.value = value
      BY <2>1 DEF Drive!Return
    <2> HIDE DEF value
    <2>6. ~disturbed[t] => Drive!IsSo(t)
      BY <1>2, <2>3, <2>4, <2>5 DEF Drive!IsSo
    <2> QED
      BY <2>1, <2>6, OneReturns
  <1> QED
    BY <1>3, <1>4, <1>5, <1>6

LEMMA TargetsChange ==
    ASSUME RegistersInv, NEW t \in Threads, Drive!Writing(t), Drive!Execute(t, Head(left[t]))
    PROVE  OnlyTargetsChange
  BY Executed DEF OnlyTargetsChange

LEMMA MemoryStays ==
    ASSUME UNCHANGED memory
    PROVE  OnlyTargetsChange
  BY DEF OnlyTargetsChange

LEMMA WriteParameterIsSo ==
    ASSUME RegistersInv, NEW t \in Threads, Drive!_write_parameter(t)
    PROVE  ReturnsAreSo /\ OnlyTargetsChange
  <1>1. Drive!Writing(t)
    BY DEF Drive!_write_parameter
  <1>2. CASE Head(left[t]) = 6 /\ ~single
    <2>1. left[t] = <<6, 16>> /\ Tail(left[t]) = <<16>>
      BY <1>1, <1>2, WhatIsWritten, Tails
    <2>2. UNCHANGED <<operation, memory>>
      BY <1>2, <2>1, Differ DEF Drive!_write_parameter, Drive!GoesOn, Drive!drive
    <2> QED
      BY <2>2, NoneReturns, MemoryStays
  <1>3. CASE ~(Head(left[t]) = 6 /\ ~single) /\ ~Drive!Locating(t)
    <2>1. Drive!Return(t, TRUE) /\ Drive!Execute(t, Head(left[t]))
      BY <1>3 DEF Drive!_write_parameter
    <2>2. Drive!IsSo(t)
      BY <1>1, <1>3, <2>1, WriteIsSo
    <2> QED
      BY <1>1, <2>1, <2>2, OneReturns, TargetsChange
  <1>4. CASE ~(Head(left[t]) = 6 /\ ~single) /\ Drive!Locating(t)
    <2>1. UNCHANGED operation /\ Drive!Execute(t, Head(left[t]))
      BY <1>4 DEF Drive!_write_parameter, Drive!GoesOn
    <2> QED
      BY <1>1, <2>1, NoneReturns, TargetsChange
  <1> QED
    BY <1>2, <1>3, <1>4

LEMMA StepIsSo ==
    ASSUME RegistersInv, [Drive!Next]_Drive!vars
    PROVE  ReturnsAreSo /\ OnlyTargetsChange
  <1>1. ASSUME NEW t \in Threads, NEW op \in Drive!Operations, Drive!Begin(t, op)
        PROVE  ReturnsAreSo /\ OnlyTargetsChange
    <2>1. /\ operation \in [Threads -> Drive!Operations \union {None}]
          /\ operation' = [operation EXCEPT ![t] = op] /\ UNCHANGED memory
      BY <1>1 DEF RegistersInv, RegistersTypeOK, Drive!Begin, Drive!drive
    <2>2. \A u \in Threads : operation'[u] = operation[u] \/ operation'[u] # None
      BY <2>1, OperationKinds
    <2> QED
      BY <2>1, <2>2, NoneReturns, MemoryStays
  <1>2. ASSUME NEW t \in Threads, Drive!_read_parameter(t)
        PROVE  ReturnsAreSo /\ OnlyTargetsChange
    <2>1. (\E v : Drive!Return(t, v)) /\ UNCHANGED memory
      BY <1>2 DEF Drive!_read_parameter, Drive!drive
    <2> QED
      BY <1>2, <2>1, ReadIsSo, OneReturns, MemoryStays
  <1>3. ASSUME NEW t \in Threads, Drive!_write_parameter(t)
        PROVE  ReturnsAreSo /\ OnlyTargetsChange
    BY <1>3, WriteParameterIsSo
  <1>4. ASSUME NEW t \in Threads, Drive!WriteUnanswered(t)
        PROVE  ReturnsAreSo /\ OnlyTargetsChange
    <2>1. Drive!Writing(t) /\ Drive!Unanswered(t) /\ \E v : Drive!Return(t, v)
      BY <1>4 DEF Drive!WriteUnanswered, Drive!Unanswered
    <2>2. Drive!Execute(t, Head(left[t])) \/ UNCHANGED memory
      BY <1>4 DEF Drive!WriteUnanswered, Drive!drive
    <2> QED
      BY <2>1, <2>2, UnansweredIsSo, OneReturns, TargetsChange, MemoryStays
  <1>5. ASSUME NEW t \in Threads, Drive!ReadUnanswered(t)
        PROVE  ReturnsAreSo /\ OnlyTargetsChange
    <2>1. Drive!Unanswered(t) /\ (\E v : Drive!Return(t, v)) /\ UNCHANGED memory
      BY <1>5 DEF Drive!ReadUnanswered, Drive!Unanswered, Drive!drive
    <2> QED
      BY <2>1, UnansweredIsSo, OneReturns, MemoryStays
  <1>6. ASSUME NEW t \in Threads, Drive!ReadOutputs(t)
        PROVE  ReturnsAreSo /\ OnlyTargetsChange
    <2>1. UNCHANGED memory
      BY <1>6 DEF Drive!ReadOutputs, Drive!drive
    <2> QED
      BY <1>6, <2>1, OutputsAreSo, MemoryStays
  <1>7. ASSUME NEW t \in Threads, Drive!Locate(t)
        PROVE  ReturnsAreSo /\ OnlyTargetsChange
    <2>1. UNCHANGED memory
      BY <1>7 DEF Drive!Locate, Drive!drive
    <2> QED
      BY <1>7, <2>1, PositionIsSo, MemoryStays
  <1>8. CASE Drive!OutputsChange \/ Drive!Reassign \/ Drive!Turn
    <2>1. UNCHANGED <<operation, memory>>
      BY <1>8 DEF Drive!OutputsChange, Drive!Reassign, Drive!Turn
    <2> QED
      BY <2>1, NoneReturns, MemoryStays
  <1>9. CASE Drive!UpdateAbsolute
    <2>1. UNCHANGED operation /\ memory' = Drive!Latched
      BY <1>9 DEF Drive!UpdateAbsolute
    <2> QED
      BY <2>1, NoneReturns DEF OnlyTargetsChange
  <1>10. CASE UNCHANGED Drive!vars
    <2>1. UNCHANGED <<operation, memory>>
      BY <1>10 DEF Drive!vars, Drive!drive
    <2> QED
      BY <2>1, NoneReturns, MemoryStays
  <1> QED
    BY <1>1, <1>2, <1>3, <1>4, <1>5, <1>6, <1>7, <1>8, <1>9, <1>10 DEF Drive!Next

\* The controller's register access is true to the drive (DriveParameters): whatever the
\* threads and their number, the values they write, the assignment of the output pins, the
\* resolution of the encoder and the function codes the drive takes, a write that returns
\* True has set the register, a value read is the register's, MC_OK is that of the pins,
\* and a position is one the shaft had while it was read; no access changes another
\* register.
THEOREM RegistersTrueToDrive == Drive!Spec => RegistersAreTrue
  <1>1. RegistersInv /\ [Drive!Next]_Drive!vars => [ReturnsAreSo /\ OnlyTargetsChange]_Drive!vars
    BY StepIsSo
  <1>2. Drive!Spec => [][ReturnsAreSo /\ OnlyTargetsChange]_Drive!vars
    BY <1>1, RegistersInvariant, PTL DEF Drive!Spec
  <1> QED
    BY <1>2, PTL DEF RegistersAreTrue, Drive!RegistersAreTrue, ReturnsAreSo, OnlyTargetsChange
=============================================================================
