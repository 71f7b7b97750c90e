--------------------------- MODULE ArtNetTriggers ---------------------------
(***************************************************************************)
(* Channels 4 to 17 of ArtNetInputServer (artnet_server.py): single-shot   *)
(* triggers on a rising edge, the servo level on channel 8, and the filter *)
(* on the sequence byte in front of them.  Channels 1 to 3 are in          *)
(* ArtNetMotion; here a frame only records whether it got as far as them.  *)
(*                                                                         *)
(* The sender repeats its levels in numbered frames; the network loses,    *)
(* repeats and reorders the last WINDOW of them.                           *)
(***************************************************************************)
EXTENDS Integers, Sequences, FiniteSetsExt

CONSTANTS
    SEQUENCES,        \* values of the sequence byte, 256; 0 means not numbered
    WINDOW,           \* frames that may still be under way
    FrameLengths,     \* lengths of the sender's frames
    Presses,          \* sets of channels the sender raises together
    MAX_PRESSES,      \* bound: how often it raises some
    MAX_FRAMES,       \* bound: frames it sends
    None              \* Python's None

VARIABLES
    enable_dangerous,    \* self.enable_dangerous_channels
    frame_bytes,         \* how long this sender's frames are
    flight,              \* the last frames sent, newest first
    last_sequence,       \* self._last_sequence
    last_servo_channel,  \* self._last_servo_channel
    last_trigger_states, \* self._last_trigger_states
    cooling,             \* channels accepted within trigger_cooldown_s
    servo,               \* the drive: servo on
    presses, frames,     \* bounds
    raised,              \* history: how often the sender raised each channel
    fired                \* history: how often each channel made its call

received == <<last_sequence, last_servo_channel, last_trigger_states, cooling>>
chosen == <<enable_dangerous, frame_bytes>>
vars == <<chosen, flight, received, servo, presses, frames, raised, fired>>

Triggers == {4, 9, 10, 11, 12, 17}
Channels == Triggers \union {8}
Dangerous == {10, 11, 12}

\* The numbers a sender goes through; 0 is not one of them.
NextSequence(s) == IF s = SEQUENCES - 1 THEN 1 ELSE s + 1

\* Which of the channels a frame of this length has: 4-7 together, 8-12
\* together, 17 with 13-16.
Present(ch) ==
    \/ ch = 4 /\ frame_bytes >= 7
    \/ ch \in 8..12 /\ frame_bytes >= 12
    \/ ch = 17 /\ frame_bytes >= 17

\* Shortly before the sequence byte wraps.
Rest == [sequence |-> SEQUENCES - 3, levels |-> {}]

Init ==
    /\ enable_dangerous \in BOOLEAN
    /\ frame_bytes \in FrameLengths
    /\ flight = <<Rest>>
    /\ last_sequence = None
    /\ last_servo_channel = None
    /\ last_trigger_states = {}
    /\ cooling = {}
    /\ servo \in BOOLEAN
    /\ presses = 0 /\ frames = 0
    /\ raised = [ch \in Triggers |-> 0]
    /\ fired = [ch \in Triggers |-> 0]

-----------------------------------------------------------------------------
(* The sender and the network. *)

\* The next frame: the same levels, some more, or none.
Send ==
    /\ frames < MAX_FRAMES /\ frames' = frames + 1
    /\ \E levels \in {flight[1].levels, {}} \union
                     {flight[1].levels \union p : p \in Presses} :
         LET new == levels \ flight[1].levels
         IN  /\ new # {} => presses < MAX_PRESSES
             /\ presses' = IF new = {} THEN presses ELSE presses + 1
             /\ raised' = [ch \in Triggers |-> raised[ch] + (IF ch \in new THEN 1 ELSE 0)]
             /\ flight' = <<[sequence |-> NextSequence(flight[1].sequence),
                             levels |-> levels]>>
                             \o SubSeq(flight, 1, Min({Len(flight), WINDOW - 1}))
    /\ UNCHANGED <<chosen, received, servo, fired>>

\* More than a second without a frame: nothing older is under way any more, and
\* the sequence byte of the next one is not looked at.
Quiet ==
    /\ last_sequence # None
    /\ last_sequence' = None
    /\ flight' = <<flight[1]>>
    /\ UNCHANGED <<chosen, last_servo_channel, last_trigger_states, cooling, servo, presses,
                   frames, raised, fired>>

CooldownOver ==
    /\ cooling # {}
    /\ \E ch \in cooling : cooling' = cooling \ {ch}
    /\ UNCHANGED <<chosen, flight, last_sequence, last_servo_channel, last_trigger_states,
                   servo, presses, frames, raised, fired>>

-----------------------------------------------------------------------------
(* The server. *)

\* Mutant of SequenceIsCurrent: half of the range and beyond count as new.
SequenceIsCurrent_Narrow(sequence) ==
    last_sequence # None =>
      (last_sequence - sequence) % SEQUENCES \notin 2..(SEQUENCES \div 2 - 1)

\* _sequence_is_current: not slightly behind the last one.
SequenceIsCurrent(sequence) ==
    last_sequence # None =>
      (last_sequence - sequence) % SEQUENCES \notin 1..(SEQUENCES \div 2 - 1)

\* _rising_edge
RisingEdge(ch, levels) == Present(ch) /\ ch \in levels /\ ch \notin last_trigger_states

\* A rising edge that is acted upon: not of the relative move when the absolute
\* one rises in the same frame, not of a disabled channel, not in the cooldown.
Accepted(ch, levels) ==
    /\ RisingEdge(ch, levels)
    /\ ch = 17 => ~RisingEdge(4, levels)
    /\ ch \in Dangerous => enable_dangerous
    /\ ch \notin cooling

\* The extended channels up to the one whose call raised; the others of the frame
\* are skipped.  A move that raises is caught where it is made.
Reached(ch, raising) == ch \in 8..12 /\ raising # None => ch <= raising

\* _handle_extended_channels, channel 8: the servo is switched when the level
\* changes, but not off by the first frame.  Whether it arrives is not looked at.
ServoLevel(levels) ==
    LET level == 8 \in levels
        call == Present(8) /\ level # last_servo_channel
                  /\ (level \/ last_servo_channel # None)
    IN  /\ last_servo_channel' = IF Present(8) THEN level ELSE last_servo_channel
        /\ servo' \in IF call THEN {level, servo} ELSE {servo}

\* _handle_position_mode_channels, _handle_relative_move_channel and
\* _handle_extended_channels.  The home calls of channels 10 and 11 may raise.
\* The level of every channel reached is recorded, acted upon or not.
HandleFrame(levels, raising) ==
    LET acts == {ch \in Triggers : Reached(ch, raising) /\ Accepted(ch, levels)}
    IN  /\ raising # None => raising \in acts
        /\ last_trigger_states' =
             {ch \in levels \ {8} : Present(ch) /\ Reached(ch, raising)}
               \union {ch \in last_trigger_states : ~Reached(ch, raising)}
        /\ cooling' = cooling \union acts
        /\ fired' = [ch \in Triggers |-> fired[ch] + (IF ch \in acts THEN 1 ELSE 0)]
        /\ ServoLevel(levels)

\* _process_packet, on any frame that is still under way.
Receive(i, raising) ==
    /\ SequenceIsCurrent(flight[i].sequence)
    /\ last_sequence' = flight[i].sequence
    /\ HandleFrame(flight[i].levels, raising)
    /\ UNCHANGED <<chosen, flight, presses, frames, raised>>

\* stop() and start(): the new instance knows nothing.
Restart ==
    /\ last_servo_channel # None
    /\ enable_dangerous' \in BOOLEAN
    /\ last_sequence' = None
    /\ flight' = <<flight[1]>>
    /\ last_servo_channel' = None
    /\ last_trigger_states' = {}
    /\ cooling' = {}
    /\ raised' = [ch \in Triggers |-> IF ch \in flight[1].levels THEN 1 ELSE 0]
    /\ fired' = [ch \in Triggers |-> 0]
    /\ UNCHANGED <<frame_bytes, servo, presses, frames>>

Next ==
    \/ Send
    \/ Quiet
    \/ CooldownOver
    \/ \E i \in 1..Len(flight), raising \in {None, 10, 11} : Receive(i, raising)
    \/ Restart

Spec == Init /\ [][Next]_vars

-----------------------------------------------------------------------------
\* However the network repeats, reorders and loses frames, across the wrap of the
\* sequence byte, quiet seconds and calls that raise: an instance of the server
\* acts on a channel at most once for each time the sender raised it, and never on
\* one that is disabled.
OncePerPress ==
    \A ch \in Triggers :
      fired[ch] <= IF ch \in Dangerous /\ ~enable_dangerous THEN 0 ELSE raised[ch]
=============================================================================
