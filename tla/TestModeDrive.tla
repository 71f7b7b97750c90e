--------------------------- MODULE TestModeDrive ---------------------------
(***************************************************************************)
(* The drive, as far as the frames of a command are concerned: a test mode *)
(* is entered only without an alarm and with the servo off, its registers  *)
(* are taken only in that mode, and a trigger moves by what was last       *)
(* written into them.                                                      *)
(***************************************************************************)
EXTENDS Integers, Sequences

CONSTANT None

VARIABLES
    sdi,            \* PD16, inputs come from PD25
    itst,           \* PD25, "off", "released" (no EMG) or "on" (SON as well)
    mode,           \* 0x0901, 0, 3 (JOG) or 4 (positioning)
    speed, low, high, \* 0x0903, 0x0905 and 0x0906
    motion,         \* None, or what it is moving by
    fault           \* an alarm other than AL.12

drive == <<sdi, itst, mode, speed, low, high, motion, fault>>

\* The steps of a command: frames that write a register, and other operations.
W(register, value) == [op |-> "write", frame |-> <<register, value>>]
Do(op) == [op |-> op]

ServoOn == sdi /\ itst = "on"
Alarm == fault \/ (sdi /\ itst = "off")

\* Until somebody writes PD16 the inputs are the wired ones: no EMG, servo off.
DriveInit ==
    /\ sdi = FALSE /\ itst = "off" /\ mode = 0 /\ speed = 0 /\ low = 0 /\ high = 0
    /\ motion = None /\ fault = FALSE

\* What a write does to the drive.
Execute(register, value) ==
    /\ sdi' = (sdi \/ register = "sdi")
    /\ itst' = IF register = "itst" THEN value ELSE itst
    /\ mode' = IF register = "mode" /\ (value # 0 => ~ServoOn /\ ~Alarm) THEN value
               ELSE IF sdi' /\ itst' = "off" THEN 0 ELSE mode
    /\ speed' = IF register = "speed" /\ mode # 0 THEN value ELSE speed
    /\ low' = IF register = "low" /\ mode # 0 THEN value ELSE low
    /\ high' = IF register = "high" /\ mode # 0 THEN value ELSE high
    /\ motion' = IF register = "trigger" /\ mode = 4 /\ motion = None
                 THEN [low |-> low, high |-> high, speed |-> speed, cw |-> value]
                 ELSE IF register = "jog" /\ mode = 3
                 THEN IF value = 0 THEN None ELSE [jog |-> value]
                 ELSE IF mode' # 0 THEN motion ELSE None
    /\ fault' = (fault /\ register # "alarm")

\* A move arrives.
Arrives ==
    /\ motion # None /\ mode = 4 /\ motion' = None
    /\ UNCHANGED <<sdi, itst, mode, speed, low, high, fault>>

\* One second without a frame: the drive leaves the test mode.
Leaves ==
    /\ mode # 0 /\ mode' = 0 /\ motion' = None
    /\ UNCHANGED <<sdi, itst, speed, low, high, fault>>

\* The drive finds another fault.
Fails ==
    /\ ~fault /\ fault' = TRUE /\ mode' = 0 /\ motion' = None
    /\ UNCHANGED <<sdi, itst, speed, low, high>>
=============================================================================
