------------------------------- MODULE Parts -------------------------------
(***************************************************************************)
(* Five small parts of the program that share no state: the activity log   *)
(* and its page, the configuration file, the triggers of Art-Net, the OSC  *)
(* server, and the RTU line.  Here they stand side by side, for one        *)
(* model-checking run and one module of proofs: `part` says which of them  *)
(* moves, the others stay in their initial state.                          *)
(***************************************************************************)
EXTENDS Integers, FiniteSets

CONSTANTS
    None,
    MAXLEN, Requests, MAX_ENTRIES,                  \* ActivityLog
    Savers, Keys, Values, MAX_SAVES,                \* ConfigFile
    SEQUENCES, WINDOW, FrameLengths, Presses,
    MAX_PRESSES, MAX_FRAMES,                        \* ArtNetTriggers
    Handlers, MAX_STARTS, MAX_MESSAGES, MAX_OTHER,  \* OscServer
    Threads, MAX_REQUESTS                           \* RtuLine

VARIABLES part,
    entries, next_id, asked, answer, last_log_id, shown, log_overlapped, restarted,
    file, save_pc, config, key, saves, saved, disturbed,
    enable_dangerous, frame_bytes, flight, last_sequence, last_servo_channel,
    last_trigger_states, cooling, artnet_servo, presses, frames, raised, fired,
    started, server, stopping, listeners, previous_data, pc, data, servo,
    messages, other, changes, calls, last, overlapped, foreign, failed,
    holder, line_pc, opening, number, kind, response, outcome, is_open, keep_running,
    disconnecting, buffer, wire, verdict, answering, late, raced

log_vars == <<entries, next_id, asked, answer, last_log_id, shown, log_overlapped, restarted>>
config_vars == <<file, save_pc, config, key, saves, saved, disturbed>>
artnet_vars ==
    <<enable_dangerous, frame_bytes, flight, last_sequence, last_servo_channel,
      last_trigger_states, cooling, artnet_servo, presses, frames, raised, fired>>
osc_vars ==
    <<started, server, stopping, listeners, previous_data, pc, data, servo,
      messages, other, changes, calls, last, overlapped, foreign, failed>>
line_vars ==
    <<holder, line_pc, opening, number, kind, response, outcome, is_open, keep_running,
      disconnecting, buffer, wire, verdict, answering, late, raced>>

Log == INSTANCE ActivityLog WITH overlapped <- log_overlapped

Config == INSTANCE ConfigFile WITH Absent <- None, pc <- save_pc

Artnet == INSTANCE ArtNetTriggers WITH servo <- artnet_servo

Osc == INSTANCE OscServer

Line == INSTANCE RtuLine WITH pc <- line_pc

\* What a frame on the line consists of.
Groups == [of : 1..MAX_REQUESTS, verdict : {"done", "refused"}, group : 1..3, length : 1..3]

\* None is no value of any of the parts: no dictionary, no level, no instance of a
\* server, no thread, no verdict and no byte.
ASSUME NoneAssumption ==
    /\ None \notin [Keys -> Values \union {None}]
    /\ None \notin BOOLEAN /\ None \notin Nat
    /\ None \notin Threads \union {"done", "refused"} \union Groups
ASSUME KeysAssumption == Keys # {}
ASSUME BoundsAssumption == MAX_REQUESTS \in Nat
ASSUME RingAssumption == MAXLEN \in Nat \ {0}

\* The frames that may be under way together are fewer than half of the sequence
\* numbers, 127 frames or three seconds at 40 frames a second.
ASSUME WindowAssumption ==
    SEQUENCES \in Nat /\ WINDOW \in 1..(SEQUENCES \div 2 - 1)

Init ==
    /\ part \in {"log", "config", "artnet", "osc", "line"}
    /\ Log!Init /\ Config!Init /\ Artnet!Init /\ Osc!Init /\ Line!Init
    /\ part # "artnet" => /\ ~enable_dangerous /\ ~artnet_servo
                          /\ frame_bytes = CHOOSE length \in FrameLengths : TRUE

vars == <<part, log_vars, config_vars, artnet_vars, osc_vars, line_vars>>

Next ==
    \/ /\ part = "log" /\ Log!Next
       /\ UNCHANGED <<part, config_vars, artnet_vars, osc_vars, line_vars>>
    \/ /\ part = "config" /\ Config!Next
       /\ UNCHANGED <<part, log_vars, artnet_vars, osc_vars, line_vars>>
    \/ /\ part = "artnet" /\ Artnet!Next
       /\ UNCHANGED <<part, log_vars, config_vars, osc_vars, line_vars>>
    \/ /\ part = "osc" /\ Osc!Next
       /\ UNCHANGED <<part, log_vars, config_vars, artnet_vars, line_vars>>
    \/ /\ part = "line" /\ Line!Next
       /\ UNCHANGED <<part, log_vars, config_vars, artnet_vars, osc_vars>>

\* The fairness of Log!Spec, while that part runs.
Spec ==
    /\ Init /\ [][Next]_vars
    /\ \A r \in Requests : WF_log_vars(part = "log" /\ Log!PollCycle(r))

-----------------------------------------------------------------------------
\* PageShowsTheLog and PageCatchesUp: see ActivityLog.
PageShowsTheLog == Log!PageShowsTheLog
PageCatchesUp == Log!PageCatchesUp

\* The file is a store of values (ConfigFile), the line a giver of outcomes (RtuLine).
ImplementsStore == Config!ImplementsStore
ImplementsOutcome == Line!ImplementsOutcome

\* OncePerPress: see ArtNetTriggers.
OncePerPress == Artnet!OncePerPress

\* ServoFollowsSender and StoppedIsSilent: see OscServer.
ServoFollowsSender == Osc!ServoFollowsSender
StoppedIsSilent == Osc!StoppedIsSilent

\* DisconnectIsFinal: see RtuLine.
DisconnectIsFinal == Line!DisconnectIsFinal
=============================================================================
