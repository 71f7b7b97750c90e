-------------------------- MODULE EepromProtection --------------------------
(***************************************************************************)
(* The drive parameters PA23 (EEPROM write inhibit) and PA28 (encoder      *)
(* mode): ensure_eeprom_write_protection, write_PA28_Encoder_Mode and      *)
(* refresh_encoder_mode (servo_control.py) with the callers in app.py that *)
(* connect, guard, set and adopt.                                          *)
(*                                                                         *)
(* hardware_lock admits one of these at a time.  A step is one frame to    *)
(* the drive; power may be cycled between any two of them, and the frames  *)
(* sent while the drive is off are among the lost ones.  A check that      *)
(* max_age_s skips changes nothing; which function code carries a write is *)
(* left out.                                                               *)
(***************************************************************************)
EXTENDS Integers

CONSTANTS
    None,       \* Python's None
    Firmwares   \* for each firmware the inhibit values it takes: {}, {1} or {1, 2}

ASSUME NoneAssumption == None \notin Int /\ None \notin BOOLEAN
ASSUME FirmwaresAssumption == Firmwares \subseteq SUBSET {1, 2}

VARIABLES
    firmware,           \* the drive: the inhibit values it takes
    pa23,               \* the drive: 0 = every parameter write goes to the EEPROM
    pa28,               \* the drive: the encoder mode as it reads back
    pa28_saved,         \* the drive: the encoder mode in the EEPROM
    drive_mode,         \* the drive: the encoder mode it runs in
    eeprom_protection,  \* self.eeprom_protection
    absolute_mode,      \* self.absolute_mode
    pending,            \* _encoder_mode_pending_power_cycle
    pc,                 \* the next frame of the procedure under way
    after,              \* what the procedure does when PA23 is dealt with
    requested,          \* write_PA28_Encoder_Mode: the mode asked for
    readback,           \* write_PA28_Encoder_Mode: its readback, None without one
    outdated,           \* history: PA23 changed since a check was completed
    unconfirmed         \* history: PA28 changed since a change was confirmed

drive == <<firmware, pa23, pa28, pa28_saved, drive_mode>>
belief == <<eeprom_protection, absolute_mode, pending>>
call == <<after, requested, readback>>
history == <<outdated, unconfirmed>>
vars == <<drive, belief, pc, call, history>>

Encoded(absolute) == IF absolute THEN 1 ELSE 0

Init ==
    /\ firmware \in Firmwares
    /\ pa23 = 0
    /\ pa28 \in {0, 1} /\ pa28_saved = pa28 /\ drive_mode = pa28
    /\ eeprom_protection = None
    /\ absolute_mode = FALSE
    /\ pending = None
    /\ pc = "idle"
    /\ after = "idle"
    /\ requested = FALSE
    /\ readback = None
    /\ outdated = FALSE
    /\ unconfirmed = FALSE

-----------------------------------------------------------------------------
(* Frames. *)

\* _read_parameter: the value, or None when there is no usable answer.
Read(register) == {register, None}

\* _write_parameter(PA.MCS, value): the drive may take the value whether or not
\* it answers; a value it does not know it rejects, or ignores and answers.
\* `answered` is what the program gets to see.
WritePA23(value, answered) ==
    /\ \/ /\ value \in firmware \union {0}
          /\ pa23' = value
       \/ /\ answered => value \notin firmware \union {0}
          /\ UNCHANGED pa23
    /\ UNCHANGED <<firmware, pa28, pa28_saved, drive_mode>>

\* _write_parameter(PA.ABS, mode): in the EEPROM only while PA23 is 0, in use
\* only after a power cycle.
WritePA28(mode, answered) ==
    /\ \/ /\ pa28' = mode
          /\ pa28_saved' = IF pa23 = 0 THEN mode ELSE pa28_saved
          /\ unconfirmed' = TRUE
       \/ /\ ~answered
          /\ UNCHANGED <<pa28, pa28_saved, unconfirmed>>
    /\ UNCHANGED <<firmware, pa23, drive_mode, outdated>>

-----------------------------------------------------------------------------
(* ensure_eeprom_write_protection. *)

\* A procedure comes to its check of PA23 and will go on to `next`.
Check(next) == pc' = "read" /\ after' = next

\* The check is over with this result.
Checked(protection) ==
    /\ eeprom_protection' = protection
    /\ outdated' = FALSE
    /\ pc' = after
    /\ UNCHANGED <<absolute_mode, pending, call, unconfirmed>>

\* Mutant of EnsureReads: no answer counts as 0 and is recorded.
EnsureReads_NoneIsProtected ==
    /\ pc = "read"
    /\ UNCHANGED drive
    /\ \E current \in Read(pa23) :
         \/ current = None /\ Checked(2)
         \/ current \in {1, 2} /\ Checked(current)
         \/ /\ current = 0 /\ pc' = "try2"
            /\ UNCHANGED <<belief, call, history>>

\* The first read: unreadable changes nothing, 1 and 2 are good.
EnsureReads ==
    /\ pc = "read"
    /\ UNCHANGED drive
    /\ \E current \in Read(pa23) :
         \/ current = None /\ pc' = after /\ UNCHANGED <<belief, call, history>>
         \/ current \in {1, 2} /\ Checked(current)
         \/ /\ current = 0 /\ pc' = "try2"
            /\ UNCHANGED <<belief, call, history>>

\* Mutant of EnsureWrites: no readback.
EnsureWrites_Unverified(from, value, verify, otherwise) ==
    /\ pc = from
    /\ \/ WritePA23(value, TRUE) /\ Checked(value)
       \/ /\ WritePA23(value, FALSE)
          /\ IF otherwise = "unprotected"
               THEN Checked(0)
               ELSE pc' = otherwise /\ UNCHANGED <<belief, call, history>>

\* _set_pa23(value), its write: on to the readback, or to the next candidate.
EnsureWrites(from, value, verify, otherwise) ==
    /\ pc = from
    /\ \/ WritePA23(value, TRUE) /\ pc' = verify /\ UNCHANGED <<belief, call, history>>
       \/ /\ WritePA23(value, FALSE)
          /\ IF otherwise = "unprotected"
               THEN Checked(0)
               ELSE pc' = otherwise /\ UNCHANGED <<belief, call, history>>

\* Mutant of EnsureVerifies: the first candidate decides.
EnsureVerifies_GivesUp(from, value, otherwise) ==
    /\ pc = from
    /\ UNCHANGED drive
    /\ \E current \in Read(pa23) :
         Checked(IF current = value THEN value ELSE 0)

\* _set_pa23(value), its readback.
EnsureVerifies(from, value, otherwise) ==
    /\ pc = from
    /\ UNCHANGED drive
    /\ \E current \in Read(pa23) :
         \/ current = value /\ Checked(value)
         \/ /\ current # value
            /\ IF otherwise = "unprotected"
                 THEN Checked(0)
                 ELSE pc' = otherwise /\ UNCHANGED <<belief, call, history>>

Ensure ==
    \/ EnsureReads
    \/ EnsureWrites("try2", 2, "verify2", "try1")
    \/ EnsureVerifies("verify2", 2, "try1")
    \/ EnsureWrites("try1", 1, "verify1", "unprotected")
    \/ EnsureVerifies("verify1", 1, "unprotected")

-----------------------------------------------------------------------------
(* write_PA28_Encoder_Mode, from POST /encoder_mode. *)

SetEncoderMode(absolute) ==
    /\ pc = "idle"
    /\ pc' = "inhibited"
    /\ requested' = absolute
    /\ readback' = None
    /\ UNCHANGED <<drive, belief, after, history>>

\* Mutant of ReadInhibit: no answer counts as 0.
ReadInhibit_NoneIsZero ==
    /\ pc = "inhibited"
    /\ \E protection \in Read(pa23) :
         pc' = IF protection \in {None, 0} THEN "write" ELSE "lift"
    /\ UNCHANGED <<drive, belief, call, history>>

\* PA23 must be known; if it inhibits, it is lifted first.
ReadInhibit ==
    /\ pc = "inhibited"
    /\ \E protection \in Read(pa23) :
         pc' = IF protection = None THEN "idle"
               ELSE IF protection = 0 THEN "write" ELSE "lift"
    /\ UNCHANGED <<drive, belief, call, history>>

LiftInhibit ==
    /\ pc = "lift"
    /\ outdated' = TRUE
    /\ \/ WritePA23(0, TRUE) /\ pc' = "lifted" /\ UNCHANGED after
       \/ WritePA23(0, FALSE) /\ Check("reply")
    /\ UNCHANGED <<belief, requested, readback, unconfirmed>>

VerifyLifted ==
    /\ pc = "lifted"
    /\ \E current \in Read(pa23) :
         IF current = 0 THEN pc' = "write" /\ UNCHANGED after ELSE Check("reply")
    /\ UNCHANGED <<drive, belief, requested, readback, history>>

WriteMode ==
    /\ pc = "write"
    /\ \/ WritePA28(Encoded(requested), TRUE) /\ pc' = "readback" /\ UNCHANGED after
       \/ WritePA28(Encoded(requested), FALSE) /\ Check("reply")
    /\ UNCHANGED <<belief, requested, readback>>

\* The readback; then protection is restored, whatever came before.
ReadBackMode ==
    /\ pc = "readback"
    /\ readback' \in Read(pa28)
    /\ Check("reply")
    /\ UNCHANGED <<drive, belief, requested, history>>

\* Mutant of Reply: any reply counts as a confirmation.
Reply_Unchecked ==
    /\ pc = "reply"
    /\ pc' = "idle"
    /\ pending' = requested
    /\ unconfirmed' = FALSE
    /\ UNCHANGED <<drive, eeprom_protection, absolute_mode, call, outdated>>

\* Confirmed: a power cycle is pending.  Not confirmed: an error is returned.
Reply ==
    /\ pc = "reply"
    /\ pc' = "idle"
    /\ IF readback = Encoded(requested)
         THEN pending' = requested /\ unconfirmed' = FALSE
         ELSE UNCHANGED <<pending, unconfirmed>>
    /\ UNCHANGED <<drive, eeprom_protection, absolute_mode, call, outdated>>

-----------------------------------------------------------------------------
(* The other callers, and power. *)

\* The guard every 30 s, and every action's check when the last one is old.
Guard ==
    /\ pc = "idle"
    /\ Check("idle")
    /\ UNCHANGED <<drive, belief, requested, readback, history>>

\* _connect_profile: a new ServoController, its check, then the encoder mode.
Connect ==
    /\ pc = "idle"
    /\ Check("refresh")
    /\ eeprom_protection' = None
    /\ absolute_mode' = FALSE
    /\ UNCHANGED <<drive, pending, requested, readback, history>>

\* POST /encoder_mode/adopt.
Adopt ==
    /\ pc = "idle"
    /\ pc' = "adopt"
    /\ UNCHANGED <<drive, belief, call, history>>

\* refresh_encoder_mode; only an adopt clears the pending power cycle.
Refresh ==
    /\ pc \in {"refresh", "adopt"}
    /\ pc' = "idle"
    /\ \E mode \in Read(pa28) :
         IF mode = None
           THEN UNCHANGED <<absolute_mode, pending>>
           ELSE /\ absolute_mode' = (mode = 1)
                /\ pending' = IF pc = "adopt" THEN None ELSE pending
    /\ UNCHANGED <<drive, eeprom_protection, call, history>>

\* At any time.  Inhibition by 2 survives, by 1 does not; PA28 is what the EEPROM
\* holds.
PowerCycle ==
    /\ pa23' = IF pa23 = 2 THEN 2 ELSE 0
    /\ pa28' = pa28_saved
    /\ drive_mode' = pa28_saved
    /\ outdated' = (outdated \/ pa23' # pa23)
    /\ UNCHANGED <<firmware, pa28_saved, belief, pc, call, unconfirmed>>

Procedure ==
    \/ Ensure
    \/ ReadInhibit \/ LiftInhibit \/ VerifyLifted \/ WriteMode \/ ReadBackMode
    \/ Reply \/ Refresh

Next ==
    \/ Procedure
    \/ \E absolute \in BOOLEAN : SetEncoderMode(absolute)
    \/ Guard \/ Connect \/ Adopt
    \/ PowerCycle

Spec == Init /\ [][Next]_vars

(***************************************************************************)
(* A procedure goes on (its frames are answered or time out).  The guard   *)
(* tries every 30 s and finds hardware_lock free now and then.  A frame    *)
(* that is sent again and again is answered in the end.                    *)
(***************************************************************************)
Fairness ==
    /\ WF_vars(Procedure)
    /\ SF_vars(Guard)
    /\ SF_vars(EnsureReads /\ pc' # after)
    /\ SF_vars(pc = "try2" /\ Ensure /\ pc' = "verify2")
    /\ SF_vars(pc = "try1" /\ Ensure /\ pc' = "verify1")

FairSpec == Spec /\ Fairness

-----------------------------------------------------------------------------
\* Types of all the variables.
TypeOK ==
    /\ firmware \in Firmwares
    /\ pa23 \in {0, 1, 2}
    /\ {pa28, pa28_saved, drive_mode} \subseteq {0, 1}
    /\ eeprom_protection \in {None, 0, 1, 2}
    /\ absolute_mode \in BOOLEAN
    /\ pending \in BOOLEAN \union {None}
    /\ pc \in {"idle", "read", "try2", "verify2", "try1", "verify1", "inhibited",
               "lift", "lifted", "write", "readback", "reply", "refresh", "adopt"}
    /\ after \in {"idle", "refresh", "reply"}
    /\ requested \in BOOLEAN
    /\ readback \in {None, 0, 1}
    /\ outdated \in BOOLEAN
    /\ unconfirmed \in BOOLEAN

\* Unless power was cycled or an encoder mode written since the last completed
\* check, the protection the status page shows is the drive's: lost answers and
\* firmware that ignores a value do not make the program believe in one.
ProtectionIsKnown ==
    eeprom_protection \in {1, 2} /\ ~outdated => pa23 = eeprom_protection

\* A mode change that was confirmed to the user and not followed by another
\* write is the one the next power cycle brings: the inhibit was really lifted.
ConfirmedModePersists ==
    pending # None /\ ~unconfirmed => pa28_saved = Encoded(pending)

\* PA28 is never written while the drive would not keep it (the comment in
\* write_PA28_Encoder_Mode, servo_control.py:736-738).
ModeIsWrittenToKeep == [][pa28' # pa28 => pa28' = pa28_saved']_vars

\* A drive that takes an inhibit is protected again in the end, after every power
\* cycle and every encoder mode change, whatever frames fail on the way.
ProtectionReturns == pa23 = 0 /\ firmware # {} ~> pa23 # 0
=============================================================================
