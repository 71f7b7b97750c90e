--------------------------- MODULE MCPositionMove ---------------------------
(* One model-checking run for the two halves of a positioning command, which *)
(* share no state: the arithmetic of a sequence of moves (PositionMove, with *)
(* quarter pulses and two-bit words) and the frames (DriveCommands); `part`  *)
(* says which of them moves.                                                 *)
EXTENDS PositionMove

CONSTANTS web, input, None

VARIABLES part,
    steps, command, alarm_code, reading_active, auto_stop, sdi, itst, mode, speed,
    low, high, motion, fault, commands, clean, armed

\* Below a pulse, around one, a whole number, at and past the largest command.
Sizes == {1, 2, 3, 5, 8, 27, 28, 29}
MCDifferences == Sizes \union {-n : n \in Sizes} \union {0}

drive_vars ==
    <<steps, command, alarm_code, reading_active, auto_stop, sdi, itst, mode, speed,
      low, high, motion, fault, commands, clean, armed>>

Drive == INSTANCE DriveCommands WITH
    Targets <- {[low |-> 1, high |-> 2, speed |-> 1, cw |-> TRUE],
                [low |-> 2, high |-> 1, speed |-> 2, cw |-> FALSE]},
    MAX_COMMANDS <- 3, asked <- command

MCInit == part \in {"arithmetic", "frames"} /\ Init /\ Drive!Init

MCNext ==
    \/ part = "arithmetic" /\ Next /\ UNCHANGED <<part, drive_vars>>
    \/ part = "frames" /\ Drive!Next /\ UNCHANGED <<part, vars>>

MCSpec == MCInit /\ [][MCNext]_<<part, vars, drive_vars>>

CommandsTakeEffect == Drive!CommandsTakeEffect
=============================================================================
