---------------------------- MODULE MCAppServer ----------------------------
(* One model-checking run for the application (AppServer) and for the first  *)
(* generation of the program (MotionSequence), which share no state: `part`  *)
(* says which of them moves.                                                 *)
EXTENDS AppServer

CONSTANTS r1, r2

VARIABLES part,
    program, inputs, motion, monitoring_active, motion_thread, todo, asked, commands, history

sequence_vars ==
    <<program, inputs, motion, monitoring_active, motion_thread, todo, asked, commands, history>>

Sequence == INSTANCE MotionSequence WITH
    Offered <- {"start", "stop", "motionStart"}, MAX_COMMANDS <- 3

MCInit ==
    /\ part \in {"app", "sequence"}
    /\ Init /\ Sequence!Init
    /\ part = "app" => program = "package"
    /\ part = "sequence" => servo_ctrller = None

\* Sequence!Next ends at its bound, and the application never does.
MCNext ==
    \/ part = "app" /\ Next /\ UNCHANGED <<part, sequence_vars>>
    \/ part = "sequence" /\ Sequence!Next /\ UNCHANGED <<part, vars>>
    \/ part = "sequence" /\ UNCHANGED <<part, vars, sequence_vars>>

\* The part that does not move has nothing it would have to do.
MCSpec ==
    /\ MCInit /\ [][MCNext]_<<part, vars, sequence_vars>>
    /\ Fairness
    /\ \A t \in Sequence!Threads : WF_sequence_vars(part = "sequence" /\ Sequence!Step(t))

SequenceCommandsTakeEffect == Sequence!SequenceCommandsTakeEffect
SequenceRequestsReturn == Sequence!SequenceRequestsReturn
=============================================================================
