---------------------------- MODULE MCJogControl ----------------------------
(* One model-checking run for continuous motion (JogControl) and for the     *)
(* controllers of the earlier packages, which share no state: `part` says    *)
(* which of them moves.                                                      *)
EXTENDS JogControl

CONSTANTS web, osc, None

VARIABLES part,
    sdi, itst, test_mode, speed, low, high, motion, fault,
    package, steps, asked, lock, active, stop_event, poll, completed_cnt,
    shaft, home, saved_home, home_set_since_start, current_encoder, current_angle, set_point,
    path, alarm_code, commands, clean, collided

earlier_vars ==
    <<sdi, itst, test_mode, speed, low, high, motion, fault,
      package, steps, asked, lock, active, stop_event, poll, completed_cnt,
      shaft, home, saved_home, home_set_since_start, current_encoder, current_angle, set_point,
      path, alarm_code, commands, clean, collided>>

Earlier == INSTANCE EarlierController WITH
    Angles <- {-1, 0}, HALF_TURN <- 1, COMPLETED <- 1, MAX_COMMANDS <- 2,
    mode <- test_mode, reading_active <- active

MCInit ==
    /\ part \in {"jog", "earlier"}
    /\ Init /\ Earlier!Init
    /\ part = "jog" => package = "app" /\ ~sdi /\ itst = "off"
    /\ shaft # 0 => part = "earlier" /\ package = "app" /\ sdi /\ itst = "released"
    /\ part = "earlier" => ~watched

MCNext ==
    \/ part = "jog" /\ Next /\ UNCHANGED <<part, earlier_vars>>
    \/ part = "earlier" /\ Earlier!Next /\ UNCHANGED <<part, vars>>

\* The part that does not move has nothing it would have to do.
MCSpec == 
    /\ MCInit /\ [][MCNext]_<<part, vars, earlier_vars>>
    /\ Fairness
    /\ WF_earlier_vars(Earlier!Poll) /\ \A t \in {web, osc} : WF_earlier_vars(Earlier!Step(t))

EarlierCommandsTakeEffect == Earlier!EarlierCommandsTakeEffect
EarlierCommandsReturn == Earlier!EarlierCommandsReturn
=============================================================================
