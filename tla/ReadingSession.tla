--------------------------- MODULE ReadingSession ---------------------------
(***************************************************************************)
(* The keep-alive reading session of ServoController                       *)
(* (servo_comm_shihlin_unified/servo_control.py): the background thread    *)
(* that polls the encoder every 100 ms, and the calls that start, refresh, *)
(* stop and cancel it.                                                     *)
(*                                                                         *)
(* The poll loop is at once the position feed, the detector of the end of  *)
(* a move, and the traffic that keeps the drive from leaving test mode one *)
(* second after the last frame.  Its life cycle is shared by every thread  *)
(* that may command the motor (web handler, OSC handler threads, Art-Net   *)
(* receive loop), which also read status under the lock, and by the poll    *)
(* thread itself, which stops its own session when the motor is still.     *)
(*                                                                         *)
(* A step is what runs between two points where another thread can get in: *)
(* the body of a `with self.lock`, a wire transaction, one unlocked access *)
(* to a shared attribute.                                                  *)
(***************************************************************************)
EXTENDS Integers, FiniteSets

CONSTANTS
    Clients,      \* threads that call the commands of ServoController
    Threads,      \* identities threading.Thread(...) can hand out
    NoOne,        \* Python's None: no lock owner, no read_thread
    STILL_COUNT_TO_COMPLETE

ASSUME StillAssumption == STILL_COUNT_TO_COMPLETE \in Nat \ {0}
ASSUME IdentityAssumption ==
    /\ NoOne \notin Clients \union Threads
    /\ Clients \intersect Threads = {}

VARIABLES
    lock,            \* self.lock: its owner while held across wire I/O
    reading_active,  \* self.reading_active
    stop_flag,       \* self.read_thread_stop_event
    read_thread,     \* self.read_thread
    motion_seen,     \* self._motion_seen
    still_count,     \* self._still_count, capped at STILL_COUNT_TO_COMPLETE
    auto_stop,       \* self._auto_stop_on_stillness
    keep_running,    \* self.serial_port.keep_running
    pc,              \* where each thread is
    joining,         \* the thread a stop_continuous_reading() is joining
    has_previous,    \* previous_encoder_for_stillness is not None
    loaded,          \* the value `self._still_count += 1` has read
    owed,            \* history: sessions opened minus on_motion_completed sent
    observed,        \* history: what was counted since the last start
    overlapped       \* history: a command began during another thread's command

session == <<reading_active, stop_flag, read_thread, auto_stop>>
counters == <<motion_seen, still_count>>
history == <<owed, observed, overlapped>>
local == <<has_previous, loaded>>
vars == <<lock, session, counters, keep_running, pc, joining, local, history>>

Procs == Clients \union Threads

\* Counting past the threshold changes no decision of the loop.
Capped(n) == IF n < STILL_COUNT_TO_COMPLETE THEN n ELSE STILL_COUNT_TO_COMPLETE

NothingObserved == [moved |-> FALSE, stills |-> 0]

\* Places of a poll thread from which it may still put a read on the wire.
PollingPcs == {"loop", "reading", "update", "count", "store", "decide",
               "crosscheck", "autostop"}
\* Places of a thread inside stop_continuous_reading() after its lock section.
EndingPcs == {"join", "notify"}
ClientPcs == {"idle", "start", "stop", "quit", "status", "holding"}
                \union EndingPcs
\* Places of a thread inside a command that starts or ends a session.
CommandPcs == {"start", "stop", "quit"} \union EndingPcs

Goto(x, place) == pc' = [pc EXCEPT ![x] = place]

Init ==
    /\ lock = NoOne
    /\ reading_active = FALSE
    /\ stop_flag = FALSE
    /\ read_thread = NoOne
    /\ motion_seen = FALSE
    /\ still_count = 0
    /\ auto_stop = TRUE
    /\ keep_running = TRUE
    /\ pc = [x \in Procs |-> IF x \in Threads THEN "dead" ELSE "idle"]
    /\ joining = [x \in Procs |-> NoOne]
    /\ has_previous = [t \in Threads |-> FALSE]
    /\ loaded = [t \in Threads |-> 0]
    /\ owed = 0
    /\ observed = NothingObserved
    /\ overlapped = FALSE

-----------------------------------------------------------------------------
(* start_continuous_reading and stop_continuous_reading                    *)

\* A Thread object nobody refers to any more; its identity may be reused.
FreeThread(t) ==
    /\ pc[t] = "dead"
    /\ read_thread # t
    /\ \A x \in Procs : joining[x] # t

\* Mutant of RefreshSession: only the auto-stop flag is taken over.
RefreshSession_KeepsCounters(auto) ==
    /\ reading_active
    /\ auto_stop' = auto
    /\ observed' = NothingObserved
    /\ UNCHANGED <<reading_active, stop_flag, read_thread, counters, local,
                   owed>>

\* The fast path: a session is running, so its state is refreshed in place.
RefreshSession(auto) ==
    /\ reading_active
    /\ motion_seen' = FALSE
    /\ still_count' = 0
    /\ auto_stop' = auto
    /\ observed' = NothingObserved
    /\ UNCHANGED <<reading_active, stop_flag, read_thread, local, owed>>

\* Mutant of OpenSession: without read_thread_stop_event.clear().
OpenSession_NoClear(auto, t) ==
    /\ ~reading_active
    /\ FreeThread(t)
    /\ motion_seen' = FALSE
    /\ still_count' = 0
    /\ auto_stop' = auto
    /\ read_thread' = t
    /\ reading_active' = TRUE
    /\ has_previous' = [has_previous EXCEPT ![t] = FALSE]
    /\ loaded' = [loaded EXCEPT ![t] = 0]
    /\ owed' = owed + 1
    /\ observed' = NothingObserved
    /\ UNCHANGED stop_flag

OpenSession(auto, t) ==
    /\ ~reading_active
    /\ FreeThread(t)
    /\ stop_flag' = FALSE
    /\ motion_seen' = FALSE
    /\ still_count' = 0
    /\ auto_stop' = auto
    /\ read_thread' = t
    /\ reading_active' = TRUE
    /\ has_previous' = [has_previous EXCEPT ![t] = FALSE]
    /\ loaded' = [loaded EXCEPT ![t] = 0]
    /\ owed' = owed + 1
    /\ observed' = NothingObserved

\* The lock section of start_continuous_reading(), run by client c.
Start(c, auto) ==
    /\ pc[c] = "start"
    /\ lock = NoOne
    /\ \/ RefreshSession(auto) /\ Goto(c, "idle")
       \/ \E t \in Threads :
            /\ OpenSession(auto, t)
            /\ pc' = [pc EXCEPT ![c] = "idle", ![t] = "loop"]
    /\ UNCHANGED <<lock, keep_running, joining, overlapped>>

\* What a stop does to the session, and whom it joins: nobody when thread x
\* stops its own session.
CloseSession(x) ==
    /\ reading_active' = FALSE
    /\ read_thread' = NoOne
    /\ motion_seen' = FALSE
    /\ still_count' = 0
    /\ IF read_thread \in {x, NoOne}
       THEN Goto(x, "notify") /\ UNCHANGED joining
       ELSE /\ Goto(x, "join")
            /\ joining' = [joining EXCEPT ![x] = read_thread]
    /\ UNCHANGED auto_stop

\* Mutant of StopSection: without `if not self.reading_active: return`.
StopSection_NoActiveCheck(x, after) ==
    /\ lock = NoOne
    /\ stop_flag' = TRUE
    /\ CloseSession(x)
    /\ UNCHANGED <<lock, keep_running, local, history>>

\* Mutant of StopSection: without read_thread_stop_event.set().
StopSection_NoFlag(x, after) ==
    /\ lock = NoOne
    /\ IF reading_active
       THEN CloseSession(x) /\ UNCHANGED stop_flag
       ELSE Goto(x, after) /\ UNCHANGED <<session, counters, joining>>
    /\ UNCHANGED <<lock, keep_running, local, history>>

\* The lock section of stop_continuous_reading(), run by thread x; `after`
\* is where x goes when no session is active.
StopSection(x, after) ==
    /\ lock = NoOne
    /\ IF reading_active
       THEN CloseSession(x) /\ stop_flag' = TRUE
       ELSE Goto(x, after) /\ UNCHANGED <<session, counters, joining>>
    /\ UNCHANGED <<lock, keep_running, local, history>>

\* Mutant of JoinReturns: the thread is not waited for.
JoinReturns_NoWait(x) ==
    /\ pc[x] = "join"
    /\ joining' = [joining EXCEPT ![x] = NoOne]
    /\ Goto(x, "notify")
    /\ UNCHANGED <<lock, session, counters, keep_running, local, history>>

\* thread_to_join.join(), outside self.lock.
JoinReturns(x) ==
    /\ pc[x] = "join"
    /\ pc[joining[x]] = "dead"
    /\ joining' = [joining EXCEPT ![x] = NoOne]
    /\ Goto(x, "notify")
    /\ UNCHANGED <<lock, session, counters, keep_running, local, history>>

\* on_motion_completed, with which stop_continuous_reading() ends.
NotifyCompleted(x, after) ==
    /\ pc[x] = "notify"
    /\ owed' = owed - 1
    /\ Goto(x, after)
    /\ UNCHANGED <<lock, session, counters, keep_running, joining, local,
                   observed, overlapped>>

-----------------------------------------------------------------------------
(* The threads that call in                                                *)

\* stop_continuous_reading() alone ends in "idle"; cancel_continuous_reading()
\* goes on to "quit": Enable_Position_Mode(False), then one more read.
Afters == {"idle", "quit"}

ClientCalls(c, operation) ==
    /\ pc[c] = "idle"
    /\ Goto(c, operation)
    /\ overlapped' = (\/ overlapped
                      \/ /\ operation # "status"
                         /\ \E d \in Clients : pc[d] \in CommandPcs)
    /\ UNCHANGED <<lock, session, counters, keep_running, joining, local,
                   owed, observed>>

ClientStop(c) ==
    /\ pc[c] = "stop"
    /\ \E after \in Afters : StopSection(c, after)

\* Enable_Position_Mode(False) holds only the wire; the read after it is a
\* locked one, like every status read.
QuitTestMode(c) ==
    /\ pc[c] = "quit"
    /\ Goto(c, "status")
    /\ UNCHANGED <<lock, session, counters, keep_running, joining, local,
                   history>>

TakeLock(x, from, to) ==
    /\ pc[x] = from
    /\ lock = NoOne
    /\ lock' = x
    /\ Goto(x, to)
    /\ UNCHANGED <<session, counters, keep_running, joining, local, history>>

ReleaseLock(x, from, to) ==
    /\ pc[x] = from
    /\ lock = x
    /\ lock' = NoOne
    /\ Goto(x, to)
    /\ UNCHANGED <<session, counters, keep_running, joining, local, history>>

\* SerialPortManager.disconnect(), from a profile switch or a reconnect.
Disconnect(c) ==
    /\ pc[c] = "idle"
    /\ keep_running
    /\ keep_running' = FALSE
    /\ UNCHANGED <<lock, session, counters, pc, joining, local, history>>

-----------------------------------------------------------------------------
(* _read_continuously, run by poll thread t                                *)

\* Mutant of LoopTest: the loop does not look at keep_running.
LoopTest_IgnoresPort(t) ==
    /\ pc[t] = "loop"
    /\ stop_flag
    /\ Goto(t, "dead")
    /\ UNCHANGED <<lock, session, counters, keep_running, joining, local,
                   history>>

\* The while condition and the keep_running test; then self.lock is taken for
\* the encoder read.
LoopTest(t) ==
    /\ pc[t] = "loop"
    /\ stop_flag \/ ~keep_running
    /\ Goto(t, "dead")
    /\ UNCHANGED <<lock, session, counters, keep_running, joining, local,
                   history>>

BeginRead(t) ==
    /\ ~stop_flag /\ keep_running
    /\ TakeLock(t, "loop", "reading")

\* A reply brings a position; no reply or a bad one means delay and try again.
EndRead(t) ==
    \E to \in {"update", "loop"} : ReleaseLock(t, "reading", to)

\* Tracker, current_encoder and current_angle under self.lock; on_moving.
Update(t) ==
    /\ pc[t] = "update"
    /\ lock = NoOne
    /\ IF has_previous[t]
       THEN Goto(t, "count") /\ UNCHANGED has_previous
       ELSE /\ Goto(t, "decide")
            /\ has_previous' = [has_previous EXCEPT ![t] = TRUE]
    /\ UNCHANGED <<lock, session, counters, keep_running, joining, loaded,
                   history>>

\* The encoder moved by more than STILL_THRESHOLD_PULSES since this thread's
\* previous read.
CountMotion(t) ==
    /\ pc[t] = "count"
    /\ motion_seen' = TRUE
    /\ still_count' = 0
    /\ observed' = [moved |-> TRUE, stills |-> 0]
    /\ Goto(t, "decide")
    /\ UNCHANGED <<lock, session, keep_running, joining, local, owed,
                   overlapped>>

\* It did not: `self._still_count += 1`, a load and a store without a lock.
LoadStill(t) ==
    /\ pc[t] = "count"
    /\ loaded' = [loaded EXCEPT ![t] = still_count]
    /\ Goto(t, "store")
    /\ UNCHANGED <<lock, session, counters, keep_running, joining,
                   has_previous, history>>

StoreStill(t) ==
    /\ pc[t] = "store"
    /\ still_count' = Capped(loaded[t] + 1)
    /\ loaded' = [loaded EXCEPT ![t] = 0]
    /\ observed' = [observed EXCEPT !.stills = Capped(@ + 1)]
    /\ Goto(t, "decide")
    /\ UNCHANGED <<lock, session, motion_seen, keep_running, joining,
                   has_previous, owed, overlapped>>

MotionComplete == auto_stop /\ motion_seen
                    /\ still_count >= STILL_COUNT_TO_COMPLETE

Decide(t) ==
    /\ pc[t] = "decide"
    /\ Goto(t, IF MotionComplete THEN "crosscheck" ELSE "loop")
    /\ UNCHANGED <<lock, session, counters, keep_running, joining, local,
                   history>>

\* read_mc_ok_status(): a wire transaction whose answer is only logged.
CrossCheck(t) ==
    /\ pc[t] = "crosscheck"
    /\ Goto(t, "autostop")
    /\ UNCHANGED <<lock, session, counters, keep_running, joining, local,
                   history>>

AutoStop(t) == pc[t] = "autostop" /\ StopSection(t, "dead")

-----------------------------------------------------------------------------
ClientStep(c) ==
    \/ \E operation \in {"start", "stop", "status"} : ClientCalls(c, operation)
    \/ \E auto \in BOOLEAN : Start(c, auto)
    \/ ClientStop(c)
    \/ JoinReturns(c)
    \/ \E after \in Afters : NotifyCompleted(c, after)
    \/ QuitTestMode(c)
    \/ TakeLock(c, "status", "holding")
    \/ ReleaseLock(c, "holding", "idle")
    \/ Disconnect(c)

PollStep(t) ==
    \/ LoopTest(t) \/ BeginRead(t) \/ EndRead(t) \/ Update(t)
    \/ CountMotion(t) \/ LoadStill(t) \/ StoreStill(t)
    \/ Decide(t) \/ CrossCheck(t) \/ AutoStop(t)
    \/ JoinReturns(t) \/ NotifyCompleted(t, "dead")

Next ==
    \/ \E c \in Clients : ClientStep(c)
    \/ \E t \in Threads : PollStep(t)

Spec == Init /\ [][Next]_vars

(***************************************************************************)
(* Every thread is scheduled, and every wire transaction ends (a time-out  *)
(* of 0.5 s in receive()).  Every user of self.lock sleeps between two     *)
(* uses (the 100 ms poll interval, the page's status interval), so a       *)
(* thread that waits for the lock sees it free again and again and gets    *)
(* it: strong fairness of the lock sections.                               *)
(***************************************************************************)
LockSection(x) ==
    IF x \in Threads
    THEN BeginRead(x) \/ Update(x) \/ AutoStop(x)
    ELSE \/ \E auto \in BOOLEAN : Start(x, auto)
         \/ ClientStop(x)
         \/ TakeLock(x, "status", "holding")

Fairness ==
    /\ \A t \in Threads : WF_vars(PollStep(t)) /\ SF_vars(LockSection(t))
    /\ \A c \in Clients :
         /\ WF_vars(pc[c] # "idle" /\ ClientStep(c))
         /\ SF_vars(LockSection(c))

FairSpec == Spec /\ Fairness

-----------------------------------------------------------------------------
(* What the session promises                                               *)

Polling(t) == pc[t] \in PollingPcs

\* Types of all the variables.
TypeOK ==
    /\ lock \in Procs \union {NoOne}
    /\ reading_active \in BOOLEAN
    /\ stop_flag \in BOOLEAN
    /\ read_thread \in Threads \union {NoOne}
    /\ motion_seen \in BOOLEAN
    /\ still_count \in 0..STILL_COUNT_TO_COMPLETE
    /\ auto_stop \in BOOLEAN
    /\ keep_running \in BOOLEAN
    /\ pc \in [Procs -> PollingPcs \union ClientPcs \union {"dead"}]
    /\ joining \in [Procs -> Threads \union {NoOne}]
    /\ has_previous \in [Threads -> BOOLEAN]
    /\ loaded \in [Threads -> 0..STILL_COUNT_TO_COMPLETE]
    /\ owed \in Int
    /\ observed \in [moved : BOOLEAN, stills : 0..STILL_COUNT_TO_COMPLETE]
    /\ overlapped \in BOOLEAN

\* An active session has a poll thread that is still at work, however starts,
\* stops and automatic stops of several threads interleave: this is what keeps
\* the drive in test mode while reading_active is true.  (A disconnected port
\* ends the thread and leaves reading_active alone.)
ActiveSessionIsPolled ==
    reading_active /\ keep_running =>
        /\ read_thread \in Threads
        /\ Polling(read_thread)
        /\ ~stop_flag

\* Every session that was opened is closed once: on_motion_completed is owed
\* for the active session and for each stop that is past its lock section,
\* even when a command and the automatic stop end the same session at once.
EndsOnce ==
    owed = Cardinality({x \in Procs : pc[x] \in EndingPcs})
             + (IF reading_active THEN 1 ELSE 0)

\* One poll thread at a time: a second one would interleave its counting with
\* the first one's and double the still count.  Commands of different threads
\* keep this as long as they take turns; the automatic stop may come in anywhere.
OnePoller ==
    ~overlapped => \A t, u \in Threads : Polling(t) /\ Polling(u) => t = u

\* A stop waits for the thread it ended without keeping that thread from
\* ending: whoever is joined is past its stop, or will see the stop flag.
JoinedThreadIsLeaving ==
    ~overlapped =>
        \A x \in Procs :
            pc[x] = "join" /\ Polling(joining[x]) =>
                stop_flag \/ pc[joining[x]] = "autostop"

\* One poll thread hands over to the next.
PollersTakeTurns == OnePoller /\ JoinedThreadIsLeaving

\* The decision to auto-stop rests on a movement and on STILL_COUNT_TO_COMPLETE
\* still polls that were all counted since the last start of the session.
DecisionIsFresh ==
    [][\A t \in Threads :
         ~overlapped /\ pc[t] = "decide" /\ pc'[t] = "crosscheck" =>
            observed.moved /\ observed.stills >= STILL_COUNT_TO_COMPLETE]_vars

\* A stop returns to its caller: the join finds its thread ended.
StopReturns == \A c \in Clients : pc[c] = "stop" ~> pc[c] = "idle"

\* The same as long as commands take turns, whichever threads they come from.
SerialStopReturns ==
    \A c \in Clients : pc[c] = "stop" ~> pc[c] = "idle" \/ overlapped

\* When a session is stopped, or the port is closed, its poll thread ends.
StoppedPollerEnds ==
    \A t \in Threads :
        Polling(t) /\ (stop_flag \/ ~keep_running) ~> pc[t] = "dead" \/ overlapped
=============================================================================
