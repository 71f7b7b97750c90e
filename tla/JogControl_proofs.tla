-------------------------- MODULE JogControl_proofs --------------------------
(***************************************************************************)
(* Proofs about JogControl: with one command at a time, over a line that   *)
(* may lose any frame or answer, a direct reversal takes a failed frame.   *)
(***************************************************************************)
EXTENDS JogControl, TLAPS

\* Commands are serialized: the web interface alone, by its hardware lock.
OneClient == \A c, d \in Clients : c = d

-----------------------------------------------------------------------------
\* Type correctness, for any number of clients.
\* The initial states have their types.
LEMMA InitTypeOK == Init => TypeOK
  BY DEF Init, TypeOK, Actions, Directions

\* Every step preserves the types, action by action.
LEMMA NextTypeOK == TypeOK /\ [Next]_vars => TypeOK'
  <1> SUFFICES ASSUME TypeOK, [Next]_vars PROVE TypeOK'
    OBVIOUS
  <1> USE DEF TypeOK, Actions, Directions, Goto, belief, drive
  <1>w. watched' \in BOOLEAN
    BY DEF Next, WatchPage, vars
  <1>0. ASSUME NEW failed \in BOOLEAN, Remember(failed) PROVE uncertain' \in BOOLEAN
    BY <1>0, Zenon DEF Remember
  <1>1. ASSUME NEW c \in Clients, NEW outcome \in Outcomes, EnableSpeedCtrl(c, outcome)
        PROVE  TypeOK'
    BY <1>w, <1>0, <1>1 DEF EnableSpeedCtrl
  <1>2. ASSUME NEW c \in Clients, StartJogReading(c) PROVE TypeOK'
    BY <1>w, <1>2 DEF StartJogReading
  <1>3. ASSUME NEW c \in Clients, NEW outcome \in Outcomes, DisableSpeedCtrl(c, outcome)
        PROVE  TypeOK'
    <2>1. uncertain' \in BOOLEAN
      BY <1>w, <1>0, <1>3 DEF DisableSpeedCtrl, QuitFrame
    <2> QED
      BY <1>w, <1>3, <2>1 DEF DisableSpeedCtrl, QuitFrame
  <1>4. ASSUME NEW c \in Clients, EndReading(c) PROVE TypeOK'
    BY <1>w, <1>4 DEF EndReading, StopReading
  <1>5. ASSUME NEW c \in Clients, CancelReading(c) PROVE TypeOK'
    BY <1>w, <1>5 DEF CancelReading, StopReading
  <1>6. ASSUME NEW c \in Clients, NEW outcome \in Outcomes, QuitTestMode(c, outcome)
        PROVE  TypeOK'
    <2>1. uncertain' \in BOOLEAN
      BY <1>w, <1>0, <1>6 DEF QuitTestMode, QuitFrame
    <2> QED
      BY <1>w, <1>6, <2>1 DEF QuitTestMode, QuitFrame
  <1>7. ASSUME NEW c \in Clients, NEW action \in Actions, SpeedCtrlAction(c, action)
        PROVE  TypeOK'
    BY <1>w, <1>7 DEF SpeedCtrlAction
  <1>8. ASSUME NEW c \in Clients, NEW outcome \in Outcomes, OperationFrame(c, outcome)
        PROVE  TypeOK'
    <2>1. uncertain' \in BOOLEAN
      BY <1>w, <1>0, <1>8 DEF OperationFrame
    <2> QED
      BY <1>w, <1>8, <2>1 DEF OperationFrame
  <1>9. ASSUME NEW c \in Clients, RecordDirection(c) PROVE TypeOK'
    BY <1>w, <1>9 DEF RecordDirection
  <1>10. CASE DriveTimeout
    BY <1>w, <1>0, <1>10 DEF DriveTimeout
  <1>11. CASE UNCHANGED vars
    BY <1>w, <1>11 DEF vars
  <1>12. CASE WatchPage
    BY <1>w, <1>12 DEF WatchPage
  <1> QED
    BY <1>1, <1>2, <1>3, <1>4, <1>5, <1>6, <1>7, <1>8, <1>9, <1>10, <1>11, <1>12
       DEF Next, ClientStep, ClientCall

\* Type correctness of the whole specification.
THEOREM JogTypeOK == Spec => []TypeOK
  BY InitTypeOK, NextTypeOK, PTL DEF Spec

-----------------------------------------------------------------------------
\* Where the one client is decides what the program knows of a turning motor.
\* A command that passed the guard still agrees with it; one that is about to
\* record was executed, unless the motor has stopped since; a session ended
\* after its quit frame ends over a motor that stopped or a frame that failed.
JogInv ==
    /\ TypeOK
    /\ running # "stop" => mode = "jog"
    /\ RunningIsKnown
    /\ \A c \in Clients :
         /\ pc[c] = "frame" => ~Refused(requested[c])
         /\ pc[c] = "record" => running \in {requested[c], "stop"}
         /\ pc[c] = "end" => running = "stop" \/ uncertain

\* The initial states satisfy the invariant: the motor stands.
LEMMA InitJogInv == Init => JogInv
  <1> SUFFICES ASSUME Init PROVE JogInv
    OBVIOUS
  <1>1. TypeOK
    BY InitTypeOK
  <1> QED
    BY <1>1 DEF Init, JogInv, RunningIsKnown

\* With one client the invariant is inductive.
LEMMA NextJogInv ==
    ASSUME OneClient PROVE JogInv /\ [Next]_vars => JogInv'
  <1> SUFFICES ASSUME JogInv, [Next]_vars PROVE JogInv'
    OBVIOUS
  <1>0. TypeOK /\ TypeOK'
    BY NextTypeOK DEF JogInv
  <1> USE DEF Actions, Directions, Goto, belief, drive, OneClient
  <1>1. ASSUME NEW c \in Clients, NEW outcome \in Outcomes, EnableSpeedCtrl(c, outcome)
        PROVE  JogInv'
    BY <1>0, <1>1, OneClient
       DEF EnableSpeedCtrl, Remember, JogInv, RunningIsKnown, TypeOK, Refused
  <1>2. ASSUME NEW c \in Clients, StartJogReading(c) PROVE JogInv'
    BY <1>0, <1>2, OneClient
       DEF StartJogReading, JogInv, RunningIsKnown, TypeOK, Refused
  <1>3. ASSUME NEW c \in Clients, NEW outcome \in Outcomes, DisableSpeedCtrl(c, outcome)
        PROVE  JogInv'
    BY <1>0, <1>3, OneClient
       DEF DisableSpeedCtrl, QuitFrame, Remember, JogInv, RunningIsKnown, TypeOK, Refused
  <1>4. ASSUME NEW c \in Clients, EndReading(c) PROVE JogInv'
    BY <1>0, <1>4, OneClient
       DEF EndReading, StopReading, JogInv, RunningIsKnown, TypeOK, Refused
  <1>5. ASSUME NEW c \in Clients, CancelReading(c) PROVE JogInv'
    BY <1>0, <1>5, OneClient
       DEF CancelReading, StopReading, JogInv, RunningIsKnown, TypeOK, Refused
  <1>6. ASSUME NEW c \in Clients, NEW outcome \in Outcomes, QuitTestMode(c, outcome)
        PROVE  JogInv'
    BY <1>0, <1>6, OneClient
       DEF QuitTestMode, QuitFrame, Remember, JogInv, RunningIsKnown, TypeOK, Refused
  <1>7. ASSUME NEW c \in Clients, NEW action \in Actions, SpeedCtrlAction(c, action)
        PROVE  JogInv'
    BY <1>0, <1>7, OneClient
       DEF SpeedCtrlAction, JogInv, RunningIsKnown, TypeOK, Refused
  <1>8. ASSUME NEW c \in Clients, NEW outcome \in Outcomes, OperationFrame(c, outcome)
        PROVE  JogInv'
    <2>1. /\ pc[c] = "frame" /\ requested' = requested
          /\ pc' = [pc EXCEPT ![c] = IF outcome = "done" THEN "record" ELSE "idle"]
          /\ UNCHANGED <<last_motion_direction, mode>>
          /\ running' = IF outcome # "lost" /\ mode = "jog" THEN requested[c] ELSE running
      BY <1>8 DEF OperationFrame
    <2>2. outcome \in {"done", "unanswered", "lost"}
      BY OutcomesAssumption DEF AllOutcomes
    <2>3. \A d \in Clients : d = c
      BY OneClient
    <2>4. pc'[c] = IF outcome = "done" THEN "record" ELSE "idle"
      BY <2>1 DEF JogInv, TypeOK
    <2>5. running' # "stop" => mode' = "jog"
      BY <2>1 DEF JogInv
    <2>6. pc'[c] = "record" => running' \in {requested'[c], "stop"}
      BY <2>1, <2>2, <2>4 DEF JogInv
    <2>7. running' # "stop" =>
            \/ running' = requested[c] /\ outcome # "lost"
            \/ running' = running /\ outcome = "lost"
      BY <2>1 DEF JogInv
    <2>8. running' # "stop" /\ ~uncertain' => outcome # "unanswered" /\ ~uncertain
      BY <1>8 DEF OperationFrame, Remember
    <2>9. running # "stop" /\ ~uncertain => last_motion_direction = running
      BY <2>1, <2>3 DEF JogInv, RunningIsKnown
    <2>10. RunningIsKnown'
      BY <2>1, <2>2, <2>4, <2>7, <2>8, <2>9 DEF RunningIsKnown
    <2> QED
      BY <1>0, <2>3, <2>4, <2>5, <2>6, <2>10 DEF JogInv
  <1>9. ASSUME NEW c \in Clients, RecordDirection(c) PROVE JogInv'
    BY <1>0, <1>9, OneClient
       DEF RecordDirection, JogInv, RunningIsKnown, TypeOK, Refused
  <1>10. CASE DriveTimeout
    BY <1>0, <1>10
       DEF DriveTimeout, Remember, JogInv, RunningIsKnown, TypeOK, Refused
  <1>11. CASE UNCHANGED vars
    BY <1>0, <1>11 DEF vars, JogInv, RunningIsKnown, TypeOK, Refused
  <1>12. CASE WatchPage
    BY <1>0, <1>12 DEF WatchPage, JogInv, RunningIsKnown, TypeOK, Refused
  <1> QED
    BY <1>1, <1>2, <1>3, <1>4, <1>5, <1>6, <1>7, <1>8, <1>9, <1>10, <1>11, <1>12
       DEF Next, ClientStep, ClientCall

\* With one command at a time, as long as every frame was answered the program
\* knows which way the motor turns.
THEOREM JogRunningIsKnown ==
    ASSUME OneClient PROVE Spec => []RunningIsKnown
  <1>1. JogInv /\ [Next]_vars => JogInv'
    BY NextJogInv, OneClient
  <1>2. JogInv => RunningIsKnown
    BY DEF JogInv
  <1> QED
    BY <1>1, <1>2, InitJogInv, PTL DEF Spec

\* A step that reverses the motor is a JOG_OPERATION frame the guard let pass.
LEMMA ReversalStep ==
    ASSUME OneClient, JogInv, [Next]_vars PROVE Reverses => uncertain
  <1> SUFFICES ASSUME Reverses, ~uncertain PROVE FALSE
    BY DEF JogInv, TypeOK
  <1> USE DEF Directions, drive, OneClient
  <1>1. PICK c \in Clients, outcome \in Outcomes : OperationFrame(c, outcome)
    BY DEF Reverses, Next, ClientStep, ClientCall, EnableSpeedCtrl, StartJogReading,
           DisableSpeedCtrl, QuitFrame, EndReading, CancelReading, QuitTestMode,
           SpeedCtrlAction, RecordDirection, DriveTimeout, WatchPage, vars
  <1>2. pc[c] = "frame" /\ running' = requested[c] /\ requested[c] # running
    BY <1>1 DEF OperationFrame, Reverses
  <1>3. last_motion_direction = running
    BY <1>2, OneClient DEF JogInv, RunningIsKnown, Reverses
  <1> QED
    BY <1>2, <1>3 DEF JogInv, Refused, Reverses

\* With one command at a time a motor is sent from one direction straight into
\* the other only while a frame is unanswered or lost since it last stood.
THEOREM JogReversalNeedsFailure ==
    ASSUME OneClient PROVE Spec => ReversalNeedsFailure
  <1>1. JogInv /\ [Next]_vars => JogInv'
    BY NextJogInv, OneClient
  <1>2. JogInv /\ [Next]_vars => [Reverses => uncertain]_vars
    BY ReversalStep, OneClient
  <1> QED
    BY <1>1, <1>2, InitJogInv, PTL DEF Spec, ReversalNeedsFailure
=============================================================================
