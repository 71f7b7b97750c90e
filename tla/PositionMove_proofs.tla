------------------------- MODULE PositionMove_proofs -------------------------
(***************************************************************************)
(* Proofs about PositionMove: for every resolution of the angle, every     *)
(* register width and every sequence of moves.                             *)
(***************************************************************************)
EXTENDS PositionMove, TLAPS

\* Every amount is whole pulses plus a remainder below one pulse.
LEMMA Division ==
    ASSUME NEW n \in Int
    PROVE  /\ (n \div UNIT) \in Int
           /\ (n % UNIT) \in 0..(UNIT - 1)
           /\ n = (UNIT * (n \div UNIT)) + (n % UNIT)
  BY UnitAssumption, SMTT(30)

\* A quotient is known by its remainder being in range.
LEMMA Quotient ==
    ASSUME NEW n \in Int, NEW q \in Int, NEW r \in 0..(UNIT - 1),
           n = (UNIT * q) + r
    PROVE  n \div UNIT = q
  <1> DEFINE d == n \div UNIT
             m == n % UNIT
  <1>1. d \in Int /\ m \in 0..(UNIT - 1) /\ n = (UNIT * d) + m
    BY Division
  <1> SUFFICES d = q
    OBVIOUS
  <1> HIDE DEF d, m
  <1>2. UNIT * (d - q) = r - m
    BY <1>1, UnitAssumption, SMTT(30)
  <1>3. CASE d > q
    <2>1. UNIT * (d - q) >= UNIT
      BY <1>1, <1>3, UnitAssumption, SMTT(30)
    <2> QED
      BY <1>1, <1>2, <2>1, UnitAssumption
  <1>4. CASE d < q
    <2>1. UNIT * (q - d) >= UNIT
      BY <1>1, <1>4, UnitAssumption, SMTT(30)
    <2>2. UNIT * (d - q) = -(UNIT * (q - d))
      BY <1>1, UnitAssumption, SMTT(30)
    <2> QED
      BY <1>1, <1>2, <2>1, <2>2, UnitAssumption
  <1> QED
    BY <1>1, <1>3, <1>4

\* An error of less than two pulses carries at most one.
LEMMA SmallCarry ==
    ASSUME NEW e \in Int, -(2 * UNIT) < e, e < 2 * UNIT
    PROVE  Truncated(e) = IF e >= UNIT THEN 1 ELSE IF e <= -UNIT THEN -1 ELSE 0
  <1>1. ASSUME NEW n \in Nat, n < UNIT PROVE n \div UNIT = 0
    BY <1>1, Quotient, UnitAssumption
  <1>2. ASSUME NEW n \in Nat, n >= UNIT, n < 2 * UNIT PROVE n \div UNIT = 1
    <2>1. n = (UNIT * 1) + (n - UNIT) /\ n - UNIT \in 0..(UNIT - 1)
      BY <1>2, UnitAssumption
    <2> QED
      BY <2>1, Quotient
  <1> QED
    BY <1>1, <1>2, UnitAssumption DEF Truncated

\* The bookkeeping of one move.
LEMMA MoveArithmetic ==
    ASSUME NEW error \in Int, -(2 * UNIT) < error, error < 2 * UNIT
    PROVE  /\ Truncated(error) \in {-1, 0, 1}
           /\ AfterCarry(error) \in Int
           /\ -UNIT < AfterCarry(error) /\ AfterCarry(error) < UNIT
           /\ error = AfterCarry(error) + Truncated(error) * UNIT
           /\ error >= 0 => AfterCarry(error) >= 0 /\ Truncated(error) >= 0
  BY SmallCarry, UnitAssumption DEF AfterCarry

\* What is written to the two registers fits them.
LEMMA Words ==
    ASSUME NEW n \in Int
    PROVE  /\ n % WORD_RANGE \in 0..WORD_RANGE - 1
           /\ (n \div WORD_RANGE) % WORD_RANGE \in 0..WORD_RANGE - 1
  BY WordAssumption, SMTT(30)

-----------------------------------------------------------------------------
\* Inductive: what is owed is less than a pulse, and going forward it is never
\* negative and makes up the difference to what was asked for.
IInv ==
    /\ TypeOK
    /\ ErrorBelowOnePulse
    /\ NearRequest
    /\ ~backward => float_error >= 0 /\ exact = sent * UNIT + float_error

\* Nothing is owed at first.
LEMMA InitIInv == Init => IInv
  <1> SUFFICES ASSUME Init PROVE IInv
    OBVIOUS
  <1>1. backward \in BOOLEAN
    BY DEF Init
  <1>2. 0 \in 0..WORD_RANGE - 1 /\ 0 * UNIT = 0
    BY UnitAssumption, WordAssumption
  <1>3. TypeOK
    BY <1>1, <1>2 DEF Init, TypeOK
  <1>4. ErrorBelowOnePulse /\ NearRequest
    BY <1>2, UnitAssumption DEF Init, ErrorBelowOnePulse, NearRequest
  <1>5. float_error >= 0 /\ exact = sent * UNIT + float_error
    BY <1>2 DEF Init
  <1> QED
    BY <1>3, <1>4, <1>5 DEF IInv

\* A move with carried error keeps the invariant, in either direction.
LEMMA PostStepIInv ==
    ASSUME IInv, NEW difference \in Int, PostStepMotionBy(difference)
    PROVE  IInv'
  <1> DEFINE total == Abs(difference)
             rest == total % UNIT
             error == float_error + Remainder(difference)
             n == WholePulses(total) + Truncated(error)
  <1>1. total \in Nat /\ total # 0
    BY DEF Abs, PostStepMotionBy
  <1>2. /\ rest \in 0..(UNIT - 1)
        /\ WholePulses(total) \in Int
        /\ total = (UNIT * WholePulses(total)) + rest
    BY <1>1, Division DEF WholePulses
  <1>3. error = IF difference > 0 THEN float_error + rest ELSE float_error - rest
    BY <1>2 DEF Remainder, IInv, TypeOK
  <1>4. error \in Int /\ -(2 * UNIT) < error /\ error < 2 * UNIT
    BY <1>2, <1>3, UnitAssumption DEF IInv, TypeOK, ErrorBelowOnePulse
  <1>5. n \in Int
    BY <1>2, <1>4, MoveArithmetic
  <1>6. /\ float_error' = AfterCarry(error)
        /\ accumulate_pulse' = accumulate_pulse + n
        /\ pulses' = n /\ asked' = total
        /\ exact' = exact + difference
        /\ sent' = IF difference > 0 THEN sent + n ELSE sent - n
        /\ backward' = (backward \/ difference < 0)
        /\ moves' = moves + 1
        /\ WritePulses(n)
    BY DEF PostStepMotionBy, Account
  <1> HIDE DEF total, rest, error, n
  <1>7. TypeOK'
    <2>1. low_word' \in 0..WORD_RANGE - 1 /\ high_word' \in 0..WORD_RANGE - 1
      BY <1>5, <1>6, Words DEF WritePulses
    <2>2. backward' \in BOOLEAN
      BY <1>6
    <2>3. sent' \in Int
      BY <1>5, <1>6 DEF IInv, TypeOK
    <2> QED
      BY <1>1, <1>4, <1>5, <1>6, <2>1, <2>2, <2>3, MoveArithmetic DEF IInv, TypeOK
  <1>8. ErrorBelowOnePulse'
    BY <1>4, <1>6, MoveArithmetic DEF ErrorBelowOnePulse
  <1>9. n * UNIT = (UNIT * WholePulses(total)) + (Truncated(error) * UNIT)
    BY <1>2, <1>4, MoveArithmetic, UnitAssumption, SMTT(30) DEF n
  <1>10. NearRequest'
    <2>1. Truncated(error) * UNIT \in {-UNIT, 0, UNIT}
      BY <1>4, MoveArithmetic, UnitAssumption
    <2>2. n * UNIT - total = (Truncated(error) * UNIT) - rest
      <3>1. /\ (UNIT * WholePulses(total)) \in Int
            /\ (Truncated(error) * UNIT) \in Int
        BY <1>2, <2>1, UnitAssumption
      <3> HIDE DEF WholePulses
      <3> QED
        BY <1>1, <1>2, <1>9, <3>1
    <2>3. (n * UNIT) \in Int
      BY <1>5, UnitAssumption
    <2>4. total \in Int /\ rest \in 0..(UNIT - 1)
      BY <1>1, <1>2
    <2>5. n * UNIT - total < 2 * UNIT /\ total - n * UNIT < 2 * UNIT
      <3>1. CASE Truncated(error) * UNIT = -UNIT
        BY <3>1, <2>2, <2>3, <2>4, UnitAssumption
      <3>2. CASE Truncated(error) * UNIT = 0
        BY <3>2, <2>2, <2>3, <2>4, UnitAssumption
      <3>3. CASE Truncated(error) * UNIT = UNIT
        BY <3>3, <2>2, <2>3, <2>4, UnitAssumption
      <3> QED
        BY <2>1, <3>1, <3>2, <3>3
    <2> QED
      BY <1>6, <2>5 DEF NearRequest
  <1>11. ASSUME ~backward'
         PROVE  float_error' >= 0 /\ exact' = sent' * UNIT + float_error'
    <2>1. /\ ~backward /\ difference > 0
          /\ float_error >= 0 /\ exact = sent * UNIT + float_error
      <3>1. ~backward /\ ~(difference < 0)
        BY <1>6, <1>11
      <3>2. difference > 0
        BY <1>1, <3>1 DEF Abs, total
      <3> QED
        BY <3>1, <3>2 DEF IInv
    <2>2. error = float_error + rest /\ error >= 0 /\ total = difference
      BY <1>2, <1>3, <2>1 DEF Abs, total, IInv, TypeOK
    <2>3. sent' * UNIT = (sent * UNIT) + (n * UNIT)
      BY <1>5, <1>6, <2>1, UnitAssumption, SMTT(30) DEF IInv, TypeOK
    <2>4. float_error' >= 0
      BY <1>4, <1>6, <2>2, MoveArithmetic
    <2>5. /\ (Truncated(error) * UNIT) \in Int /\ (UNIT * WholePulses(total)) \in Int
          /\ (sent * UNIT) \in Int
          /\ error = float_error' + (Truncated(error) * UNIT)
          /\ float_error' \in Int
      BY <1>2, <1>4, <1>6, MoveArithmetic, UnitAssumption DEF IInv, TypeOK
    <2> QED
      BY <1>2, <1>6, <1>9, <2>1, <2>2, <2>3, <2>4, <2>5 DEF IInv, TypeOK
  <1> QED
    BY <1>7, <1>8, <1>10, <1>11 DEF IInv

\* A move without carried error keeps the invariant.
LEMMA PosStepIInv ==
    ASSUME IInv, NEW difference \in Int, PosStepMotionBy(difference)
    PROVE  IInv'
  <1> DEFINE total == Abs(difference)
             n == total \div UNIT
  <1>1. total \in Nat
    BY DEF Abs
  <1>2. total % UNIT = 0
    <2>1. CASE difference >= 0
      BY <2>1 DEF PosStepMotionBy, Abs
    <2>2. CASE difference < 0
      <3> DEFINE q == difference \div UNIT
      <3>1. q \in Int /\ difference = (UNIT * q) + 0
        BY Division DEF PosStepMotionBy
      <3> HIDE DEF q
      <3>2. total = (UNIT * (-q)) + 0 /\ -q \in Int
        BY <2>2, <3>1, UnitAssumption, SMTT(30) DEF Abs
      <3>3. total \div UNIT = -q
        BY <1>1, <3>2, Quotient, UnitAssumption
      <3>4. total = (UNIT * (total \div UNIT)) + (total % UNIT)
            /\ total % UNIT \in 0..(UNIT - 1)
        BY <1>1, Division
      <3> HIDE DEF total, n
      <3>5. total = (UNIT * (-q)) + (total % UNIT)
        BY <3>3, <3>4
      <3> DEFINE p == UNIT * (-q)
                 r == total % UNIT
      <3>6. p \in Int /\ r \in Int /\ total = p + 0 /\ total = p + r
        BY <3>2, <3>4, <3>5, UnitAssumption
      <3> HIDE DEF p, r
      <3>7. r = 0
        BY <3>6
      <3> QED
        BY <3>7 DEF r
    <2>3. difference >= 0 \/ difference < 0
      OBVIOUS
    <2> QED
      BY <2>1, <2>2, <2>3
  <1>3. n \in Int /\ total = n * UNIT
    <2>1. n \in Int /\ total = (UNIT * n) + (total % UNIT)
      BY <1>1, Division
    <2> HIDE DEF n
    <2>2. total = UNIT * n
      BY <1>1, <1>2, <2>1, UnitAssumption
    <2> QED
      BY <2>1, <2>2, UnitAssumption, SMTT(30)
  <1>4. /\ pulses' = n /\ asked' = total
        /\ exact' = exact + difference
        /\ sent' = IF difference > 0 THEN sent + n ELSE sent - n
        /\ backward' = (backward \/ difference < 0)
        /\ moves' = moves + 1
        /\ WritePulses(n)
        /\ UNCHANGED <<float_error, accumulate_pulse>>
    BY DEF PosStepMotionBy, Account
  <1>5. total = 0 => n = 0
    BY <1>1, Quotient, UnitAssumption
  <1> HIDE DEF total, n
  <1>6. TypeOK'
    <2>1. low_word' \in 0..WORD_RANGE - 1 /\ high_word' \in 0..WORD_RANGE - 1
      BY <1>3, <1>4, Words DEF WritePulses
    <2>2. backward' \in BOOLEAN
      BY <1>4
    <2>3. sent' \in Int
      BY <1>3, <1>4 DEF IInv, TypeOK
    <2> QED
      BY <1>1, <1>3, <1>4, <2>1, <2>2, <2>3 DEF IInv, TypeOK
  <1>7. NearRequest'
    BY <1>1, <1>3, <1>4, UnitAssumption DEF NearRequest
  <1>8. ErrorBelowOnePulse'
    BY <1>4 DEF IInv, ErrorBelowOnePulse
  <1>9. ASSUME ~backward'
        PROVE  float_error' >= 0 /\ exact' = sent' * UNIT + float_error'
    <2>1. /\ ~backward /\ difference >= 0
          /\ float_error >= 0 /\ exact = sent * UNIT + float_error
      <3>1. ~backward /\ ~(difference < 0)
        BY <1>4, <1>9
      <3>2. difference >= 0
        BY <3>1
      <3> QED
        BY <3>1, <3>2 DEF IInv
    <2>2. sent' = sent + n
      <3>1. CASE difference > 0
        BY <1>4, <3>1
      <3>2. CASE difference = 0
        BY <1>3, <1>4, <1>5, <3>2 DEF total, Abs, IInv, TypeOK
      <3> QED
        BY <2>1, <3>1, <3>2
    <2>3. sent' * UNIT = (sent * UNIT) + (n * UNIT) /\ (sent * UNIT) \in Int
      BY <1>3, <2>2, UnitAssumption, SMTT(30) DEF IInv, TypeOK
    <2>4. total = difference
      BY <2>1 DEF total, Abs
    <2> QED
      BY <1>3, <1>4, <2>1, <2>3, <2>4 DEF IInv, TypeOK
  <1> QED
    BY <1>6, <1>7, <1>8, <1>9 DEF IInv

\* The invariant is inductive.
LEMMA NextIInv == IInv /\ [Next]_vars => IInv'
  <1> SUFFICES ASSUME IInv, [Next]_vars PROVE IInv'
    OBVIOUS
  <1>1. ASSUME NEW difference \in Differences,
               PostStepMotionBy(difference) \/ PosStepMotionBy(difference)
        PROVE  IInv'
    BY <1>1, PostStepIInv, PosStepIInv, DifferencesAssumption
  <1>2. CASE SetHomePosition
    <2>1. backward' \in BOOLEAN
      BY <1>2 DEF SetHomePosition
    <2>2. TypeOK'
      BY <1>2, <2>1 DEF SetHomePosition, IInv, TypeOK
    <2>3. ErrorBelowOnePulse' /\ NearRequest'
      BY <1>2, UnitAssumption
         DEF SetHomePosition, IInv, ErrorBelowOnePulse, NearRequest
    <2>4. 0 * UNIT = 0
      BY UnitAssumption
    <2>5. float_error' >= 0 /\ exact' = sent' * UNIT + float_error'
      BY <1>2, <2>4 DEF SetHomePosition
    <2> QED
      BY <2>2, <2>3, <2>5 DEF IInv
  <1>3. CASE UNCHANGED vars
    BY <1>3 DEF vars, IInv, TypeOK, ErrorBelowOnePulse, NearRequest
  <1> QED
    BY <1>1, <1>2, <1>3 DEF Next

\* The inductive invariant holds in every reachable state.
THEOREM MoveInvariant == Spec => []IInv
  BY InitIInv, NextIInv, PTL DEF Spec

\* Less than one pulse is ever owed, for every resolution and every sequence of
\* moves in both directions.
THEOREM MoveErrorBelowOnePulse == Spec => []ErrorBelowOnePulse
  <1>1. IInv => ErrorBelowOnePulse
    BY DEF IInv
  <1> QED
    BY <1>1, MoveInvariant, PTL

\* No command is off by two pulses or more.
THEOREM MoveNearRequest == Spec => []NearRequest
  <1>1. IInv => NearRequest
    BY DEF IInv
  <1> QED
    BY <1>1, MoveInvariant, PTL

\* A command goes out negative only as -1, for a move of less than a pulse.
THEOREM MoveNegativeOnlyBelowPulse == Spec => []NegativeOnlyBelowPulse
  <1>1. IInv => NegativeOnlyBelowPulse
    <2> SUFFICES ASSUME IInv, pulses < 0 PROVE pulses = -1 /\ asked < UNIT
      BY DEF NegativeOnlyBelowPulse
    <2>1. /\ pulses \in Int /\ asked \in Nat
          /\ asked - pulses * UNIT < 2 * UNIT
      BY DEF IInv, TypeOK, NearRequest
    <2>2. CASE pulses = -1
      <3>1. (-1) * UNIT = -UNIT
        BY UnitAssumption
      <3> QED
        BY <2>1, <2>2, <3>1, UnitAssumption
    <2>3. ASSUME pulses # -1 PROVE FALSE
      <3> DEFINE k == (-2) - pulses
      <3>1. k \in Nat /\ pulses = (-2) - k
        BY <2>1, <2>3
      <3>2. k * UNIT \in Nat
        BY <3>1, UnitAssumption
      <3> HIDE DEF k
      <3>3. pulses * UNIT = (-2) * UNIT - k * UNIT
        BY <3>1, UnitAssumption, SMTT(30)
      <3> QED
        BY <2>1, <3>2, <3>3, UnitAssumption
    <2> QED
      BY <2>2, <2>3
  <1> QED
    BY <1>1, MoveInvariant, PTL

\* Forward moves command exactly the whole pulses of the total asked for.
THEOREM MoveForwardAddsUp == Spec => []ForwardMovesAddUp
  <1>1. IInv => ForwardMovesAddUp
    <2> SUFFICES ASSUME IInv, ~backward PROVE ForwardMovesAddUp
      BY DEF ForwardMovesAddUp
    <2>1. /\ float_error \in 0..(UNIT - 1) /\ sent \in Int /\ exact \in Int
          /\ exact = sent * UNIT + float_error
      BY UnitAssumption DEF IInv, TypeOK, ErrorBelowOnePulse
    <2>2. exact = (UNIT * sent) + float_error
      BY <2>1, UnitAssumption, SMTT(30)
    <2>3. exact \div UNIT = sent
      BY <2>1, <2>2, Quotient
    <2> QED
      BY <2>1, <2>3 DEF ForwardMovesAddUp
  <1> QED
    BY <1>1, MoveInvariant, PTL

\* Type correctness.
THEOREM MoveTypeOK == Spec => []TypeOK
  <1>1. IInv => TypeOK
    BY DEF IInv
  <1> QED
    BY <1>1, MoveInvariant, PTL

\* Both halves of what a command says of the request.
THEOREM MoveCommandFits == Spec => []CommandFits
  BY MoveNearRequest, MoveNegativeOnlyBelowPulse, PTL DEF CommandFits
=============================================================================
