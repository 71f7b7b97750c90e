---------------------- MODULE EepromProtection_proofs ----------------------
(***************************************************************************)
(* Proofs of the safety properties of EepromProtection, for every set of   *)
(* firmwares.                                                              *)
(***************************************************************************)
EXTENDS EepromProtection, TLAPS

Ensuring == {"read", "try2", "verify2", "try1", "verify1"}

\* The check found PA23 = 0, so what was believed before is out of date.
WhileTrying ==
    pc \in Ensuring \ {"read"} => eeprom_protection \notin {1, 2} \/ outdated

\* What a mode change in progress has made sure of, frame after frame.
WhileChanging ==
    /\ pc \in {"inhibited", "lift", "lifted", "write", "readback"} => readback = None
    /\ pc = "write" => pa23 = 0
    /\ pc = "readback" => pa28 = pa28_saved
    /\ /\ pc = "reply" \/ (pc \in Ensuring /\ after = "reply")
       /\ readback # None
       => readback = pa28_saved

EepromInv ==
    /\ TypeOK
    /\ ProtectionIsKnown
    /\ WhileTrying
    /\ WhileChanging
    /\ ConfirmedModePersists

USE NoneAssumption, FirmwaresAssumption

\* The initial states satisfy the invariant: nothing is believed yet.
LEMMA EepromInit == Init => EepromInv
<1> SUFFICES ASSUME Init PROVE EepromInv
  OBVIOUS
<1>1. TypeOK
  BY DEF Init, TypeOK
<1>2. ProtectionIsKnown /\ WhileTrying /\ WhileChanging
  BY DEF Init, ProtectionIsKnown, WhileTrying, WhileChanging, Ensuring
<1>3. ConfirmedModePersists
  BY DEF Init, ConfirmedModePersists
<1> QED
  BY <1>1, <1>2, <1>3 DEF EepromInv

\* What a frame that writes PA23 can change.
LEMMA WritePA23Effect ==
  ASSUME TypeOK, NEW value \in {0, 1, 2}, NEW answered \in BOOLEAN,
         WritePA23(value, answered)
  PROVE  /\ pa23' \in {0, 1, 2}
         /\ answered /\ value = 0 => pa23' = 0
         /\ UNCHANGED <<firmware, pa28, pa28_saved, drive_mode>>
  BY DEF WritePA23, TypeOK

\* A check that is completed with a value PA23 has, or with 0, keeps the
\* invariant, and so does one that is not completed.
LEMMA CheckedKeeps ==
  ASSUME EepromInv, pc \in Ensuring, NEW protection \in {0, 1, 2}, Checked(protection),
         pa23' \in {0, 1, 2}, protection # 0 => pa23' = protection,
         UNCHANGED <<firmware, pa28, pa28_saved, drive_mode>>
  PROVE  EepromInv'
<1>1. TypeOK'
  BY DEF EepromInv, TypeOK, Checked, call
<1>2. ProtectionIsKnown' /\ WhileTrying'
  BY DEF EepromInv, TypeOK, Checked, call, ProtectionIsKnown, WhileTrying, Ensuring
<1>3. WhileChanging'
  BY DEF EepromInv, TypeOK, Checked, call, WhileChanging, Ensuring
<1>4. ConfirmedModePersists'
  BY DEF EepromInv, Checked, ConfirmedModePersists, Encoded
<1> QED
  BY <1>1, <1>2, <1>3, <1>4 DEF EepromInv

\* Each step of ensure_eeprom_write_protection keeps the invariant.
LEMMA EnsureReadsKeeps ==
  ASSUME EepromInv, EnsureReads
  PROVE  EepromInv'
<1>1. PICK current \in Read(pa23) :
         \/ current = None /\ pc' = after /\ UNCHANGED <<belief, call, history>>
         \/ current \in {1, 2} /\ Checked(current)
         \/ current = 0 /\ pc' = "try2" /\ UNCHANGED <<belief, call, history>>
  BY DEF EnsureReads
<1>2. pc = "read" /\ UNCHANGED drive /\ current \in {pa23, None}
  BY DEF EnsureReads, Read
<1>3. CASE current = None /\ pc' = after /\ UNCHANGED <<belief, call, history>>
  BY <1>2, <1>3 DEF EepromInv, TypeOK, ProtectionIsKnown, WhileTrying, WhileChanging,
     ConfirmedModePersists, Encoded, Ensuring, drive, belief, call, history
<1>4. CASE current \in {1, 2} /\ Checked(current)
  <2>1. pc \in Ensuring /\ pa23' = current /\ pa23' \in {0, 1, 2}
    BY <1>2, <1>4 DEF Ensuring, drive, EepromInv, TypeOK
  <2> QED
    BY <1>2, <1>4, <2>1, CheckedKeeps DEF drive
<1>5. CASE current = 0 /\ pc' = "try2" /\ UNCHANGED <<belief, call, history>>
  BY <1>2, <1>5 DEF EepromInv, TypeOK, ProtectionIsKnown, WhileTrying, WhileChanging,
     ConfirmedModePersists, Encoded, Ensuring, drive, belief, call, history
<1> QED
  BY <1>1, <1>3, <1>4, <1>5

\* A write of PA23, answered or not, is not believed yet.
LEMMA EnsureWritesKeeps ==
  ASSUME EepromInv,
         NEW from \in {"try2", "try1"}, NEW value \in {1, 2},
         NEW verify \in {"verify2", "verify1"}, NEW otherwise \in {"try1", "unprotected"},
         EnsureWrites(from, value, verify, otherwise)
  PROVE  EepromInv'
<1> DEFINE Goes(next) == pc' = next /\ UNCHANGED <<belief, call, history>>
<1>1. pc = from /\ pc \in Ensuring \ {"read"}
  BY DEF EnsureWrites, Ensuring
<1>2. PICK answered \in BOOLEAN : WritePA23(value, answered)
  BY DEF EnsureWrites
<1>3. pa23' \in {0, 1, 2} /\ UNCHANGED <<firmware, pa28, pa28_saved, drive_mode>>
  BY <1>2, WritePA23Effect DEF EepromInv
<1>4. \/ Checked(0)
      \/ \E next \in {"verify2", "verify1", "try1"} : Goes(next)
  BY DEF EnsureWrites
<1>5. CASE Checked(0)
  BY <1>1, <1>3, <1>5, CheckedKeeps
<1>6. ASSUME NEW next \in {"verify2", "verify1", "try1"}, Goes(next)
      PROVE  EepromInv'
  <2>1. TypeOK'
    BY <1>3, <1>6 DEF EepromInv, TypeOK, belief, call, history
  <2>2. ProtectionIsKnown' /\ WhileTrying'
    BY <1>1, <1>6 DEF EepromInv, ProtectionIsKnown, WhileTrying, Ensuring, belief, call, history
  <2>3. WhileChanging' /\ ConfirmedModePersists'
    BY <1>1, <1>3, <1>6 DEF EepromInv, WhileChanging, ConfirmedModePersists, Encoded, Ensuring,
       belief, call, history
  <2> QED
    BY <2>1, <2>2, <2>3 DEF EepromInv
<1> QED
  BY <1>4, <1>5, <1>6

\* A readback that is believed is the drive's value.
LEMMA EnsureVerifiesKeeps ==
  ASSUME EepromInv,
         NEW from \in {"verify2", "verify1"}, NEW value \in {1, 2},
         NEW otherwise \in {"try1", "unprotected"},
         EnsureVerifies(from, value, otherwise)
  PROVE  EepromInv'
<1>1. pc = from /\ pc \in Ensuring \ {"read"} /\ UNCHANGED drive
  BY DEF EnsureVerifies, Ensuring
<1>2. PICK current \in {pa23, None} :
         \/ current = value /\ Checked(value)
         \/ Checked(0)
         \/ pc' = "try1" /\ UNCHANGED <<belief, call, history>>
  BY DEF EnsureVerifies, Read
<1>3. pa23' \in {0, 1, 2} /\ UNCHANGED <<firmware, pa28, pa28_saved, drive_mode>>
  BY <1>1 DEF EepromInv, TypeOK, drive
<1>4. CASE current = value /\ Checked(value)
  <2>1. pa23' = value
    BY <1>1, <1>4 DEF drive
  <2> QED
    BY <1>1, <1>3, <1>4, <2>1, CheckedKeeps
<1>5. CASE Checked(0)
  BY <1>1, <1>3, <1>5, CheckedKeeps
<1>6. CASE pc' = "try1" /\ UNCHANGED <<belief, call, history>>
  BY <1>1, <1>6 DEF EepromInv, TypeOK, ProtectionIsKnown, WhileTrying, WhileChanging,
     ConfirmedModePersists, Encoded, Ensuring, drive, belief, call, history
<1> QED
  BY <1>2, <1>4, <1>5, <1>6

\* Each step of a mode change keeps the invariant.
LEMMA ChangeKeeps ==
  ASSUME EepromInv,
         \/ \E absolute \in BOOLEAN : SetEncoderMode(absolute)
         \/ ReadInhibit \/ LiftInhibit \/ VerifyLifted
         \/ WriteMode \/ ReadBackMode \/ Reply
  PROVE  EepromInv'
<1> USE DEF EepromInv, TypeOK, ProtectionIsKnown, WhileTrying, WhileChanging,
            ConfirmedModePersists, Encoded, Ensuring, drive, belief, call, history
<1>1. CASE \E absolute \in BOOLEAN : SetEncoderMode(absolute)
  BY <1>1 DEF SetEncoderMode
<1>2. CASE ReadInhibit
  BY <1>2 DEF ReadInhibit, Read
<1>3. CASE LiftInhibit
  <2>1. PICK answered \in BOOLEAN : WritePA23(0, answered)
    BY <1>3 DEF LiftInhibit
  <2>2. pa23' \in {0, 1, 2} /\ UNCHANGED <<firmware, pa28, pa28_saved, drive_mode>>
    BY <2>1, WritePA23Effect
  <2> QED
    BY <1>3, <2>2 DEF LiftInhibit, Check
<1>4. CASE VerifyLifted
  BY <1>4 DEF VerifyLifted, Read, Check
<1>5. CASE WriteMode
  <2>1. PICK answered \in BOOLEAN :
          /\ WritePA28(Encoded(requested), answered)
          /\ \/ answered /\ pc' = "readback" /\ UNCHANGED after
             \/ ~answered /\ Check("reply")
    BY <1>5 DEF WriteMode
  <2>2. Encoded(requested) \in {0, 1} /\ pc = "write" /\ pa23 = 0 /\ readback = None
    BY <1>5 DEF WriteMode
  <2>3. UNCHANGED <<firmware, pa23, drive_mode, outdated, belief, requested, readback>>
    BY <1>5, <2>1 DEF WriteMode, WritePA28
  <2>4. \/ /\ pa28' = Encoded(requested) /\ pa28_saved' = Encoded(requested)
           /\ unconfirmed' = TRUE
        \/ ~answered /\ UNCHANGED <<pa28, pa28_saved, unconfirmed>>
    BY <2>1, <2>2 DEF WritePA28
  <2> QED
    BY <2>1, <2>2, <2>3, <2>4 DEF Check
<1>6. CASE ReadBackMode
  BY <1>6 DEF ReadBackMode, Read, Check
<1>7. CASE Reply
  <2>1. TypeOK'
    BY <1>7, ZenonT(40) DEF Reply
  <2>2. ProtectionIsKnown' /\ WhileTrying' /\ WhileChanging'
    BY <1>7 DEF Reply
  <2>3. ConfirmedModePersists'
    BY <1>7 DEF Reply
  <2> QED
    BY <2>1, <2>2, <2>3
<1> QED
  BY <1>1, <1>2, <1>3, <1>4, <1>5, <1>6, <1>7

\* The other callers and a power cycle keep the invariant.
LEMMA OthersKeep ==
  ASSUME EepromInv, Guard \/ Connect \/ Adopt \/ Refresh \/ PowerCycle
  PROVE  EepromInv'
<1> USE DEF EepromInv, TypeOK, ProtectionIsKnown, WhileTrying, WhileChanging,
            ConfirmedModePersists, Encoded, Ensuring, drive, belief, call, history
<1>1. CASE Guard
  BY <1>1 DEF Guard, Check
<1>2. CASE Connect
  <2>1. TypeOK'
    BY <1>2 DEF Connect, Check
  <2>2. ProtectionIsKnown' /\ WhileTrying' /\ WhileChanging'
    BY <1>2 DEF Connect, Check
  <2>3. ConfirmedModePersists'
    BY <1>2 DEF Connect, Check
  <2> QED
    BY <2>1, <2>2, <2>3
<1>3. CASE Adopt
  BY <1>3 DEF Adopt
<1>4. CASE Refresh
  <2>1. TypeOK'
    <3>1. absolute_mode' \in BOOLEAN
      BY <1>4, Zenon DEF Refresh
    <3>2. pending' \in BOOLEAN \union {None} /\ pc' = "idle"
      BY <1>4, Zenon DEF Refresh
    <3> QED
      BY <1>4, <3>1, <3>2 DEF Refresh
  <2>2. ProtectionIsKnown' /\ WhileTrying' /\ WhileChanging'
    BY <1>4 DEF Refresh, Read
  <2>3. ConfirmedModePersists'
    BY <1>4 DEF Refresh, Read
  <2> QED
    BY <2>1, <2>2, <2>3
<1>5. CASE PowerCycle
  <2>1. TypeOK'
    BY <1>5 DEF PowerCycle
  <2>2. ProtectionIsKnown' /\ WhileTrying' /\ WhileChanging'
    BY <1>5 DEF PowerCycle
  <2>3. ConfirmedModePersists'
    BY <1>5 DEF PowerCycle
  <2> QED
    BY <2>1, <2>2, <2>3
<1> QED
  BY <1>1, <1>2, <1>3, <1>4, <1>5

\* The invariant is inductive.
LEMMA EepromStep == EepromInv /\ [Next]_vars => EepromInv'
<1> SUFFICES ASSUME EepromInv, [Next]_vars PROVE EepromInv'
  OBVIOUS
<1>1. CASE Ensure
  BY <1>1, EnsureReadsKeeps, EnsureWritesKeeps, EnsureVerifiesKeeps DEF Ensure
<1>2. CASE Procedure /\ ~Ensure
  BY <1>2, ChangeKeeps, OthersKeep DEF Procedure
<1>3. CASE \E absolute \in BOOLEAN : SetEncoderMode(absolute)
  BY <1>3, ChangeKeeps
<1>4. CASE Guard \/ Connect \/ Adopt \/ PowerCycle
  BY <1>4, OthersKeep
<1>5. CASE UNCHANGED vars
  BY <1>5 DEF EepromInv, TypeOK, ProtectionIsKnown, WhileTrying, WhileChanging, Ensuring,
     ConfirmedModePersists, Encoded, vars, drive, belief, call, history
<1> QED
  BY <1>1, <1>2, <1>3, <1>4, <1>5 DEF Next, Procedure

\* The inductive invariant holds in every reachable state.
LEMMA EepromInvariant == Spec => []EepromInv
  BY EepromInit, EepromStep, PTL DEF Spec

\* Types of all the variables (EepromProtection's TypeOK), for every firmware.
THEOREM EepromTypeOK == Spec => []TypeOK
<1>1. EepromInv => TypeOK
  BY DEF EepromInv
<1> QED
  BY <1>1, EepromInvariant, PTL

\* The protection the status page shows is the drive's until power is cycled or
\* an encoder mode written (ensure_eeprom_write_protection verifies each write).
THEOREM EepromProtectionIsKnown == Spec => []ProtectionIsKnown
<1>1. EepromInv => ProtectionIsKnown
  BY DEF EepromInv
<1> QED
  BY <1>1, EepromInvariant, PTL

\* A confirmed mode change survives the power cycle (write_PA28_Encoder_Mode).
THEOREM EepromConfirmedModePersists == Spec => []ConfirmedModePersists
<1>1. EepromInv => ConfirmedModePersists
  BY DEF EepromInv
<1> QED
  BY <1>1, EepromInvariant, PTL

\* PA28 is never written while the drive would not keep it.
THEOREM EepromModeIsWrittenToKeep == Spec => ModeIsWrittenToKeep
<1>1. EepromInv /\ [Next]_vars => [pa28' # pa28 => pa28' = pa28_saved']_vars
  <2> SUFFICES ASSUME EepromInv, Next, pa28' # pa28 PROVE pa28' = pa28_saved'
    OBVIOUS
  <2>1. CASE WriteMode
    <3>1. pa23 = 0
      BY <2>1 DEF WriteMode, EepromInv, WhileChanging
    <3> QED
      BY <2>1, <3>1 DEF WriteMode, WritePA28
  <2>2. CASE PowerCycle
    BY <2>2 DEF PowerCycle
  <2>3. CASE Ensure
    BY <2>3 DEF Ensure, EnsureReads, EnsureWrites, EnsureVerifies, WritePA23, drive
  <2>4. CASE Next /\ ~Ensure /\ ~WriteMode /\ ~PowerCycle
    BY <2>4 DEF Next, Procedure, SetEncoderMode, ReadInhibit, LiftInhibit, VerifyLifted,
       ReadBackMode, Reply, Guard, Connect, Adopt, Refresh, WritePA23, drive
  <2> QED
    BY <2>1, <2>2, <2>3, <2>4
<1> QED
  BY <1>1, EepromInvariant, PTL DEF Spec, ModeIsWrittenToKeep
=============================================================================
