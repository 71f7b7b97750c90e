# A verification of the RS-485 servo controller

TLA+ models of `servo_comm_shihlin_unified/`, the program that drives a
Shihlin SDE servo amplifier over Modbus RTU from a web page, OSC messages or
Art-Net (DMX) frames, and of the programs it grew out of: `servo_comm_shihlin/`
and `servo_comm_shihlin_50W/`, one motor each, and the first generation
(`servo_communication/`, `web/`, `examples/`), for a drive with numbered points.
TLC checks the models on small instances; TLAPS proves the theorems of the
`*_proofs` modules for every value of the constants.

## 1. The system

Paths are relative to `src/servo_comm_shihlin_unified/` unless they name another package.

| Component | State it keeps | Operations | Interacts with |
|---|---|---|---|
| Serial port (`serial_port_manager.py`) | open port, `keep_running` | connect, reconnect, disconnect | RTU client; the poll thread watches `keep_running` |
| RTU client (`modbus_rtu_client.py`, `modbus_rtu_response.py`) | the wire, `_transaction_lock`, last frames | send_and_receive, receive, parse | everything that talks to the drive |
| Register access (`servo_control.py` 606-668, 793-1110; `servo_p_register.py`) | the function code that worked | read, write, digital outputs, absolute position | RTU client; home, EEPROM, status |
| Encoder tracker (`encoder_pulse_tracker.py`) | last raw value, unwrapped count | reset, update | reading session, home |
| Reading session (`servo_control.py` 332-597) | `reading_active`, stop event, poll thread, motion detector | start, refresh, stop, cancel, auto-stop | every commanding thread; the drive's 1 s time-out |
| Positioning (`servo_control.py` 1458-1620) | `float_error`, target, accumulated pulses | move to / by an angle, to a set point, home | session, drive |
| Jog (`servo_control.py` 1622-1727) | `_last_motion_direction` | enable, run, pause, disable | session, drive |
| Home and absolute mode (`servo_control.py` 426-493, 793-840, 1729-1814) | home positions, absolute offset, mode | set home, refresh, go home | tracker, config file |
| EEPROM protection (`servo_control.py` 606-774) | drive's PA23/PA28, check time | ensure, write PA28 | every command, the guard loop |
| Config file (`servo_control.py` 236-297) | one JSON file per profile | load, save one key | home, set points |
| Art-Net server (`artnet_server.py`) | latches, pending speed, trigger levels, cooldowns, watchdog | handle frame, watchdog tick, start, stop | positioning, jog, home |
| OSC server (`osc_server.py`) | duplicate filter, listeners | one handler per address, one thread per message | positioning, jog, home |
| Web app (`app.py`, `hardware_lock.py`) | current controller, active server, busy lock | actions, profile, reconnect, servers, alarms | everything |
| Activity log (`activity_log.py`) | ring buffer, next id | append, read since | the page polls it |
| Earlier packages (`../servo_comm_shihlin*/`) | session under a plain lock, home, remembered angle, set points | the same, without confirmation | drive |
| First generation (`../servo_communication/`, `../web/`, `../examples/`) | `monitoring_active`, sequence thread | start, stop, single bits | drive |

Threads: the Flask server runs one thread per request; commands are
serialised by `hardware_lock` (a second one is refused with 429), status is
not. The OSC server runs one thread per message, the Art-Net server one
receive thread; neither takes `hardware_lock`. The poll thread runs while a
session is active. `ServoController.lock` (re-entrant) and the RTU client's
transaction lock are the only things all of these share. In the earlier
packages `ServoController.lock` is not re-entrant, the 50W package has no
`hardware_lock`, and the first generation has no lock at all.

### What is hard

* *Interleaving.* A session is started, refreshed, stopped and auto-stopped by
  different threads through one shared event object; threads of OSC messages
  share a filter; a file is read, changed and written back by whoever saves.
* *Lost replies.* A command may have been executed although its reply is lost;
  software state then lags behind the drive. A reply may also be late, and look
  like the reply to the next request.
* *Sequences of frames.* A command is four to seven writes whose answers nobody
  looks at; what each does depends on the mode the ones before it left.
* *Time.* The drive leaves test mode after one second without traffic; latches,
  cooldowns and the Art-Net watchdog decide by the clock.
* *Numbers.* A 32-bit counter that wraps, pulse counts in two 16-bit words,
  sub-pulse remainders carried from move to move, sequence bytes that wrap.
* *Check then act.* The web app checks "no server runs" and "no motion" outside
  the lock under which it acts; the serial port checks `keep_running` before it opens.
* *Restarts.* The counter restarts with the drive, the program with its file, an
  input server with neither.

### What makes each component correct

* RTU line: a caller gets the decision on its own request or nothing; a closed port stays closed.
* Register access: what is read is in the register, what is reported written too.
* Session: an active session is polled; one poll thread; each session is ended
  once; an auto-stop concerns the session it was decided for; stops return.
* Tracker and home: the unwrapped count moves with the shaft, however often it
  wraps; angles are measured from where SET HOME was pressed.
* Positioning: the pulses commanded follow the angles asked for; a command fits
  its two registers; a command whose frames arrive has the effect it is named for.
* Jog: the drive is never told to reverse without stopping.
* Art-Net: one reaction per edge; no restart after a cancel; signal loss stops the motor.
* OSC: the servo is what the last message said; a stopped server is silent.
* EEPROM: no parameter write while the drive would store it.
* App: one server at a time, bound to the current, connected controller.
* Config file: a save changes its key and no other. Log: a page misses nothing.

## 2. The modules

| Module | Models | Checked in | Theorems |
|---|---|---|---|
| `ReadingSession` | session life cycle, poll thread, motion detector | itself | `ReadingSession_proofs` |
| `EncoderPulseTracker` | unwrapping of the 32-bit encoder register | `MCHomeReference` | `HomeReference_proofs` |
| `HomeReference` | EXTENDS the tracker: both homes, offset, angle, restarts | `MCHomeReference` | `HomeReference_proofs` |
| `DriveParameters` | register addresses and words, function codes, outputs, absolute position | `MCHomeReference` | `HomeReference_proofs` |
| `HomeAndRegisters` | the two side by side, with the assumptions on the constants of `DriveParameters` | `MCHomeReference` | `HomeReference_proofs` |
| `PositionMove` | from an angle to the command-pulse registers | `MCPositionMove` | `PositionMove_proofs` |
| `TestModeDrive` | the drive's reaction to the frames of commands | used by the next two | - |
| `DriveCommands` | every command of page, OSC and Art-Net as its frames | `MCPositionMove` | - |
| `EarlierController` | the controllers, pages and scripts of the two earlier packages | `MCJogControl` | - |
| `JogControl` | continuous rotation and its cancel, against the drive | `MCJogControl` | `JogControl_proofs` |
| `ArtNetMotion` | Art-Net channels 1-3, watchdog, live speed | `MCArtNetMotion` | `ArtNetMotion_proofs` |
| `ArtNetTriggers` | Art-Net channels 4-17 and the sequence filter | `Parts` | `Parts_proofs` |
| `OscServer` | life of the OSC server, its threads and its filter | `Parts` | `Parts_proofs` |
| `EepromProtection` | PA23 inhibit and PA28 encoder mode | itself | `EepromProtection_proofs` |
| `AppServer` | connection, profile switch, server start and stop, locks | `MCAppServer` | `AppServer_proofs` |
| `MotionSequence` | the first generation's sequence thread and page | `MCAppServer` | - |
| `ConfigFile`, `ConfigStore` | read, truncate and write back; what that promises | `Parts` | `Parts_proofs` |
| `RtuLine`, `FrameOutcome` | one transaction byte group by byte group; what it promises | `Parts` | `Parts_proofs` |
| `ActivityLog` | ring buffer, incremental fetch, the page's polling | `Parts` | `Parts_proofs` |

Variables keep the source's names where they stand for an attribute or a
global; the comment beside each declaration says which. Variables marked
*history* record what happened so that a property can speak of it; the program's
actions do not read them, only bounds and the environment do. `PROJECT.json` maps
every definition to its lines. `name_Change(...)` just before `name` is a mutant:
what the code would do with a plausible bug; a property is kept only if some
mutant breaks it.

A frame to the drive has one of three outcomes in all modules that send some:
*done* (executed and answered), *unanswered* (executed, the answer is missing or
damaged, which raises), *lost* (it never reached the drive, which raises too).
Where the answer is not looked at, the first two are the same. `FrameOutcome`
states this, and `RtuLine` implements it except after a late answer.

**Sums of modules.** `Parts`, `HomeAndRegisters`, `MCAppServer`, `MCJogControl` and
`MCPositionMove` put modules that share no state into one run: `part`, chosen
in the initial state, says which of them moves, the others stay as they are. The
states of such a run are the sum, not the product, of its parts, and a liveness
property concerns the part that has fairness. They say nothing about an
interaction, and none of the code's is cut by them: what interacts is inside a module.

### ReadingSession

One action per section under `ServoController.lock` and per unlocked access of
the poll thread (`LoopTest`, `BeginRead`/`EndRead`, `Update`, `CountMotion`,
`LoadStill`/`StoreStill`, `Decide`, `CrossCheck`, `AutoStop`) and of the threads
that command (`Start`, `ClientStop`, `JoinReturns`, `NotifyCompleted`,
`QuitTestMode`, `Disconnect`, and a `/status` read that holds the lock). A wire
read holds the lock from `BeginRead` to `EndRead`. `still_count += 1` is a load
and a store because it runs without the lock. Thread identities are reused once
dead. The history variable `overlapped` is set when a command that starts or
stops a session begins while another one is under way: `hardware_lock` prevents
this among web requests, nothing prevents it between the web and OSC or Art-Net.

| Property | Kind | Says |
|---|---|---|
| `ActiveSessionIsPolled` | invariant | an active session always has a live poll thread, however commands overlap |
| `EndsOnce` | invariant | one completion notice per session, although a command and the auto-stop may both end it |
| `PollersTakeTurns` | invariant | while commands take turns: never two poll threads (`OnePoller`), and a stop never joins a thread that will not see the flag (`JoinedThreadIsLeaving`) |
| `DecisionIsFresh` | action | an auto-stop counts only what was seen since the session's last start |
| `SerialStopReturns`, `StoppedPollerEnds` | liveness | stops return and pollers end, while commands take turns |
| `StopReturns` | liveness, **violated** | a stop returns whatever overlaps it |

Fairness: every thread is scheduled and a wire read ends (0.5 s time-out): weak
fairness of every thread's steps. A thread that waits for `self.lock` gets it in
the end: strong fairness of the lock sections, since each user of the lock
sleeps between two uses (100 ms between polls). A client need never call.

Bounds: two clients (one web request by `hardware_lock`, one server thread), two
thread identities (a dying poller beside a new one; a third can exist only after
a second overlap of the same kind), `STILL_COUNT_TO_COMPLETE = 1` (2 in the
code; the theorems hold for any value).

### EncoderPulseTracker and HomeReference

`Move` turns the shaft by less than half a range between two reads, `Update` and
`Reset` are the two methods. `CountFollowsShaft` relates the unwrapped count to the
true position. `HomeReference` adds what the controller computes from the count:
the one-shot read (`Refresh`) and the round of the poll loop (`Poll`), SET HOME in
each mode (in incremental mode the save comes after the reset, `SaveHome`), the offset between the two scales, PA29, and restarts with and without
the drive (the counter restarts, the absolute scale does not).

`MeasuredFromHome`: whenever the angle was computed with the reference of the last
SET HOME, it is the shaft's distance from where SET HOME was pressed. The exemption
(`HomeTrusted`) is what a restart in another window of the counter and SET HOME in
incremental mode themselves give up; the violation run `home_not_adopted` shows the
latter. The register has four values, so the shaft, which covers five, wraps it in
both directions; one restart.

### DriveParameters

Two threads, two operations in all, among: a parameter read or written (one word or
two), the outputs assembled from three reads, and the absolute position, which is a
handshake (PA30 = 1, poll until 0, read PA33, then PA32). The drive may refuse
function 0x06, take it and keep the high word, or take it and clear it. The angle
read holds `self.lock`, SET HOME does not. `RegistersAreTrue` says that what each
operation returns is so, and that no operation changes another register; `disturbed`
exempts by name the position read that crosses another one (section 5). Addresses are
those of `calculate_address` on one side and of the drive's manual on the other. The
weights of packed bits are tuples (`Bit`), since the provers have no exponentiation. A
revolution of the run has two pulses, and the shaft turns one either way: enough for
the two registers of a position to differ in both words.

### PositionMove, TestModeDrive and DriveCommands

Amounts in `PositionMove` are integers of 1/`UNIT` pulse, so that "an angle times
pulses per degree" has a fraction. `PostStepMotionBy` carries the remainder,
`PosStepMotionBy` does not, `SetHomePosition` resets both. Checked: less than one
pulse is ever owed (`ErrorBelowOnePulse`), forward moves lose nothing in any
sequence (`ForwardMovesAddUp`), and a single command fits (`CommandFits`: within two
pulses of its request in either direction, `NearRequest`, and a negative command,
which goes out as its two's complement, is only ever -1, `NegativeOnlyBelowPulse`).
The run uses quarter pulses, two-bit words and sizes below, at and past every
boundary, four moves deep.

`TestModeDrive` is the drive as the frames see it: a test mode is entered only
without an alarm and with the servo off, the speed and the pulses are taken only in
that mode, a trigger moves by what was last written. `DriveCommands` gives the list
of frames of every command (`ActionSteps`, `AlarmClearSteps`, `InputSteps`); two
threads execute them, a frame may be lost, the poll loop may end the session, the
drive may time out or find a fault. `CommandsTakeEffect`: a command that lost no frame
and that nobody crossed has the effect it is named for *whatever came before*, so the
mode, the registers and the session another command left do not matter. Three commands,
at most two at once: what one leaves, the next meets, and a third meets both.

### JogControl

Clients run `enable_speed_ctrl`, `speed_ctrl_action` and the cancel one frame at
a time (`StartJogReading`, `OperationFrame`, `RecordDirection`, `QuitFrame`, ...);
the drive is `mode` and `running`. `DriveTimeout` is the drive's return to normal
mode after a second without traffic: possible whenever nothing polls.
`RunningIsKnown` and `ReversalNeedsFailure` say what the software guard against a
direct reversal achieves with one client: it fails only after a frame failed.
`CancelStops`: a cancelled motor stops even if the quit frame is lost.

Fairness: calls run to their end; the drive's time-out comes if no session polls
*and no page is watched*. A page that is open reads `/status` every second, a
Modbus frame that may come just in time, again and again; `watched` is the
environment's choice (`WatchPage`).

### EarlierController

One module for three variants: the page and OSC threads of `servo_comm_shihlin`, the
page of `servo_comm_shihlin_50W`, and its OSC script. A command is again a list of
frames against `TestModeDrive`; the session sits under `lock`, which is not
re-entrant, and `collided` records the two ways in which a thread then waits for
itself. `home` is `self.abs_home_pos`, which only `Restart` takes from the file
(`saved_home`); SET HOME zeroes the angle (`SetHome`) and, 100 ms later, saves what the
readers have left in `current_encoder` (`SaveHome`). `EarlierCommandsTakeEffect` measures a
move from the home in use, and says that this is the one on file unless a SET HOME came
since the process started (`home_set_since_start`; see section 5).
Of a move of the 50W package it asks that the angle it remembers was the
drive's. `EarlierCommandsReturn` (liveness) excludes `collided`. The loop's break on
`keep_running` is left out: the flag is cleared only as the process ends or when it has no
controller.
Fairness: the poll loop and every thread that has a command go on. Two commands, two
angles, a loop that stops itself after its second completed reading (the seventh in the
code); in one set of initial states the motor stands away from home, so that a SET HOME or
a restart and the move after it are within the bound.

### ArtNetMotion

The receive thread does everything, so the handling of a frame is one step,
`Frame`, split by case (`CancelFrame`, `HeldFrame`, `DisableFrame`, `StartFrame`,
`RunFrame`); the timers of the loop are `PendingSpeed` and `Watchdog`; clocks are
flags cleared by an action (`DirectionWaitOver`, `SpeedWaitOver`, `SignalLost`).
`MoveFaders` is the sender. `Restart` is `/server/stop` then `/server/start`.

| Property | Kind | Says |
|---|---|---|
| `RecordsAgree` | invariant | the direction the server takes for accepted is the controller's, a refused one its opposite |
| `NoSurpriseStart` | action | no start after a cancel or a signal loss before a frame with channel 1 = 0 |
| `SilenceStopsUnlessLost` | liveness | signal loss stops the motor unless the watchdog's stop was itself lost |
| `FollowsConsole` | liveness | faders left alone: the motor ends up as channel 2 says |
| `DisabledStops` | liveness | channel 1 left at 0: the motor ends up standing |

Fairness: the receive loop wakes every 0.5 s at the latest, so its timers run
(`LoopFairness`). `Sending`, an antecedent and not an assumption of the loop: the
sender repeats its frame, and a frame is answered by the drive time and again,
not only inside the retry pause. `NobodyWatches`, likewise: no page is open.

Bounds: channel 1 off and at both ends; channel 2 at both ends of one direction
and at one value of the other, since repeats of a direction at another value
count as a change; maximum speed 2, so that both ends differ. The liveness run
leaves out lost *answers* and restarts and uses one value per direction, because
each multiplies the state space; the safety run has them all.

### ArtNetTriggers

A sender numbers its frames and repeats its levels; the network loses, repeats and
reorders the last three of them. `HandleFrame` is the handling of channels 4 to 17 of
one frame: which channels the frame's length contains, rising edges, the absolute move
taking precedence over the relative one, disabled channels, cooldowns, a call that
raises and so skips the rest of the frame, and the servo level. `OncePerPress`: an
instance acts on a channel at most once per press, never on a disabled one. The
sequence byte has 8 values and starts shortly before its wrap; six frames, two presses.

### OscServer

`Start` registers the listeners before the port is bound (which may fail), `stop` is
three steps, and every message has a thread of its own. `/servo` goes through
`_check_duplicated`, a comparison and an assignment (`Compare`, `Record`) without a
lock; `Command` stands for every other address. `ServoFollowsSender` and
`StoppedIsSilent` name what they exempt: overlapping `/servo` messages, switches by
others, failed starts. Two starts, three `/servo` messages, two threads.

### EepromProtection

Every frame of `ensure_eeprom_write_protection`, `write_PA28_Encoder_Mode` and
`refresh_encoder_mode` is a step; the value written is read back by a later one.
`Firmwares` are the sets of inhibit values a drive takes: none, 1 only (lost at
power-off), 1 and 2. Power may be cycled between any two frames.

`ProtectionIsKnown` (the protection reported is the drive's), `ConfirmedModePersists`
(a mode change reported as done survives the power cycle), `ModeIsWrittenToKeep`
(PA28 is never written while the drive would not keep it) and `ProtectionReturns`
(protection comes back after every power cycle and mode change). Fairness: a
procedure goes on; the guard runs every 30 s and finds `hardware_lock` free now
and then (strong); a frame that is sent again and again is answered in the end
(strong, on the first read and on the writes of PA23).

### AppServer

Requests arrive in threads of their own. `action` stands for every handler that
commands or reads the drive under `hardware_lock`; `profile`, `reconnect`, `osc`,
`artnet` and `stop` are the endpoints that change the globals. What lies between
the check of a global and its use is a step boundary (`Check`, `BeginSwitch`,
`StartServer`). The history variable `raced` is set when someone acts on a check
that no longer holds.

`HandlersOwnThePort`: no switch pulls the port from under a handler
(`ActionKeepsController`), and it is open once (`OnePort`). `ServersAreKnown`: what
the status page names can be stopped (`ActiveListens`), and, unless `raced`, one
server runs, on the current controller (`ServerIsKnown`). `RequestEnds`: two locks,
no deadlock. Fairness: handlers are scheduled, and `_state_lock` is free again and
again (strong), since no section waits for another request.
Bounds: two requests at once, three controllers (the current one and one per
server that may still hold an old one), one server of each type: two OSC servers on
different ports, after a start past a stale check (`raced`), are left out.

### MotionSequence

The three variants of the first generation differ in what a sequence does and in
whether it waits at a point. `todo` is what each request and each sequence thread has
still to do; a frame is lost or not, an answer may be a mixture that does not parse.
`SequenceCommandsTakeEffect`: after a stop that nobody crossed no sequence runs, the
home point is selected and started (in `examples`, the servo is off); after a start that
found none running, one runs and is told to go on. A start that finds one running is
exempt by name (`history`, "restart"): the property says that it leaves what a stop
leaves, which is not what the page answers (section 5).
`SequenceRequestsReturn` (liveness): a request that nobody crossed is answered, even
if the motion never ends. Fairness: every thread that has something to do goes on.
Two threads of the server, three requests of `start`, `stop` and `motionStart`.

### ConfigFile, RtuLine, ActivityLog

`ConfigFile` has `_save_config_value` as it runs: read and change (`BeginSave`),
truncate, write, each of which may be the last. `ConfigStore` is the abstract
specification, a store with one value per key that promises nothing once something
the program does not handle has happened; `ImplementsStore` is the refinement, with
the last saved store standing for the truncated file. Two savers, two keys, four saves.

`RtuLine` moves groups of bytes, so that a late rest of one answer can precede the
next; only the checksum tells a whole frame. `FrameOutcome` is the abstract
specification: one transaction at a time, the drive decides over each request once,
the caller gets that decision or nothing. `ImplementsOutcome` is the refinement until
bytes of an earlier answer arrive after the next request was sent.
`DisconnectIsFinal`: a closed port stays closed unless a thread had passed its check
of `keep_running`. Two threads, two transactions, one `disconnect()`.

`ActivityLog`: a ring of two entries, four entries logged, two fetches of the page that may
overlap, one restart of the program. `PageShowsTheLog` and `PageCatchesUp` (fairness:
the page's timer fires for ever and the server answers).

## 3. The runs

| Run | Question | Distinct states |
|---|---|---|
| `session` | session safety and liveness with two commanding threads | 141 k |
| `session_stop_hangs` | can an overlapping start make a stop hang? yes | - |
| `home` | do count, angle and home survive wraps, re-seeding, restarts? are the registers true? | 3.4 M |
| `home_not_adopted` | is an incremental SET HOME used for the angles after it? no | - |
| `moves` | does the pulse arithmetic hold over sequences of moves, and do commands take effect? | 2.9 M |
| `jog` | one client, any frame failure; the earlier packages | 361 k |
| `artnet_safety` | all frames, failures and restarts, safety | 799 k |
| `artnet_live` | what the motor ends up doing | 48 k |
| `eeprom` | any firmware, failure, power cycle | 49 k |
| `app` | any two requests; the first generation's sequences | 370 k |
| `app_two_servers` | can two servers run? yes | - |
| `parts` | log, configuration file, triggers, OSC server, RTU line | 478 k |

The runs `home`, `moves`, `jog`, `home_not_adopted` and `parts` disable the deadlock check: a part
whose bound is used up stops there. In the others the environment can always act.

What the bounds leave out: more than two commanding threads at once, longer sequences
of moves or commands, three overlapping file saves, frames delayed by more than the
window. Each hazard listed in `PROJECT.json` needs two actors or two to three
operations, which every run has; the theorems of section 4 have no bounds.

## 4. The theorems

All are proved by TLAPS for every value of the constants that satisfies the named
assumptions of the module, each from an inductive invariant that TLC checked first.
A module that has one part of a sum has its theorems under that part's specification
(`Osc!Spec => ...`), so they do not depend on what stands beside it.

* **Session** (any numbers of clients and threads). `TypeOK` alone is inductive.
  `SessionInv`: while the session is active the flag is clear and `read_thread`
  is polling: this is what a stop and a start each re-establish inside one lock
  section. `PollerInv` adds that, without overlap, a polling thread is either
  the active one or is being left by a stop that set the flag; it gives
  `SessionOnePoller` and `SessionJoinedThreadIsLeaving`. `FreshInv` bounds
  `still_count`, and a value loaded but not yet stored, by the still polls
  actually seen; it gives `SessionDecisionIsFresh`. `SessionEndsOnce` counts the threads
  that have ended a session and not yet said so: `EndsInv` adds that they are finitely
  many, without which a cardinality means nothing when there may be any number of threads.
* **Tracker** (any even register range, in particular 2^32). The count property is not
  inductive alone: it needs `LastRawIsLastSeen` and the half-range bound
  `WithinHalfRange`; `SignedDeltaIsTrueDelta` is the arithmetic.
* **Home** (any range, any number of restarts). `HomeInv` says in which scale each number
  is: the count is the shaft less the whole ranges it was away from 0 at the reset
  (`CountIsShaft`), the references and the file are the home in the scale of their mode
  (`ReferenceIsHome`, `FileIsHome`), and the offset holds for the tracker it was computed
  with (`OffsetHolds`). `HomeMeasuredFromHome` and `HomeCountFollowsShaft` follow.
* **Registers** (any number of threads, values of 31 bits, any assignment of the pins, any
  resolution, all firmwares). `RegistersInv` holds, for each thread, what its frames so
  far have found: the words a reader of the outputs has are still the drive's
  (`PinsHeld`), and a position in memory is one its reader has seen, from its own
  request on (`PositionHeld`); both end with `disturbed`. `SmallWords` says that a number
  of a register that is read unsigned has no sign bit, `PinsAlike` that the pins of a
  function are in one state, so that the first of them may stand for all. Packing and
  unpacking (`Functions`, `States`) is arithmetic on five-bit codes and single bits.
* **Moves** (any resolution, word size, move sizes, number of moves). The
  invariant keeps `float_error` non-negative as long as no move went backward;
  the rest is division with remainder (`Quotient`, `SmallCarry`).
* **Jog**. Type correctness for any number of clients; `JogRunningIsKnown` and
  `JogReversalNeedsFailure` under the hypothesis `OneClient`, from `JogInv`: what
  is known of the motor at each frame of a call. Without `OneClient` they are false
  (section 5).
* **Art-Net motion** (any fader values, maximum speed and fates of frames).
  `RecordsAgree` is inductive with the types. `NoSurpriseStart` needs `OwedIsHeld`:
  whatever is owed a frame with channel 1 = 0 is held off by one of the two latches the
  handlers test, so that no third is needed; it survives a restart because a new
  instance starts with the watchdog's latch set.
* **Art-Net triggers** (any channels, number of sequence values, window shorter than half
  of them). What a frame under way may still do depends on how often the sender had raised
  the channel *when it sent it*: `TriggerInv` says there is such a count for each frame
  (`Raises`) and a frame the server has reached, before which everything is refused and
  after which it has acted no more often than that (`Reach`). `OlderRefused` and
  `NewerAccepted` are the arithmetic of the sequence byte across its wrap.
* **OSC** (any number of threads and messages). `Registered` ties the listeners to the
  instance and the phase of its stop; `Filtered` says what the filter remembers at each
  step of the one handler that runs.
* **EEPROM** (any set of firmwares). `WhileTrying`: once a check has found 0, what
  was believed is out of date. `WhileChanging`: what each frame of a mode change
  has made sure of, down to "the readback is what the EEPROM holds".
* **App** (any numbers of requests and controllers). `LocksHeld` ties each program
  counter to the lock it holds; `NothingWhileConnecting`, `Using` and
  `ActiveIsInstance` say what a switch, an action and a server section rely on.
* **Configuration file** (any savers, keys and values). `ConfigImplementsStore` is a
  refinement: the invariant (`Undisturbed`) is that the last saved store is what the file
  holds, or what the one saver that has truncated it is about to change by its key.
* **Line** (any number of threads and requests). `LineImplementsOutcome` is the refinement
  of `FrameOutcome`, the outcomes of a frame that every other module assumes:
  `WirePending` and `BytesKnown` hold always (a request is decided once, a byte belongs
  to an answer given), `BytesOwn`, that a transaction reads bytes of its own answer, only
  until one came late, which is where `ImplementsOutcome` ends. `PortDisconnectIsFinal`
  needs only the check of `keep_running` each thread has made.
* **Log** (any length of the ring, any number of entries and requests). `Ring`: the
  entries are the last ids without a gap. `Covered` and `AnswerFits` say, of the page and
  of every answer under way, that what they leave out was shown or had left the ring;
  `Serial` adds the order while requests do not overlap. The fetch is written as the
  tail of the ring from the first newer id on (`After`), which for ascending ids is what
  the filter of the code returns, and can be reasoned about without induction.

What is assumed of constants, and why the code justifies it: a register range is even
and a difference of half of it has a sign (2^32); values written fit 31 bits (those of
the callers fit 16, `servo_control.py:625`), and are not written to the registers into which
the drive copies its position (`WritesAssumption`: no caller does); a pin's function has five
bits, as the mask 0x1F has; the revolutions stay in PA32's range and a revolution has less
than 2^31 pulses (`ShaftAssumption`); fewer frames are under way than half of the sequence
numbers (`WindowAssumption`: 127 frames, three seconds of a console); the ring keeps an
entry; `None` is none of the values it stands beside. TLC evaluates all of them.

Model-checked only:

* everything about liveness (`SerialStopReturns`, `StoppedPollerEnds`, `CancelStops`,
  `EarlierCommandsReturn`, `SilenceStopsUnlessLost`, `FollowsConsole`, `DisabledStops`,
  `ProtectionReturns`, `RequestEnds`, `SequenceRequestsReturn`, `PageCatchesUp`): TLAPS
  has no rule here for fairness and `ENABLED`;
* `CommandsTakeEffect`, `EarlierCommandsTakeEffect` and `SequenceCommandsTakeEffect`: what
  a list of frames has done so far has to be said for every place in every command, and
  remains to be proved (section 7).

## 5. Deviations

The code and its own comments disagree in the following points. The first three
are shown by a violation run and listed under `findings`.

1. A start clears the shared stop event before the thread a concurrent stop is
   joining has seen it; the stop hangs (`servo_control.py:354`, `session_stop_hangs`).
2. SET HOME in incremental mode resets the tracker and saves the new home, but leaves
   `self.abs_home_pos` as it was: from the next read on the angle is measured from the
   old home, until a restart (`servo_control.py:1746`, `home_not_adopted`).
3. `/server/start` checks outside the lock; two starts of different kinds both
   succeed and the first server cannot be stopped (`app.py:603`, `app_two_servers`).
   Likewise a start that races a profile switch leaves a server on the old controller.

Noted while modelling, without a run of their own; where a property exempts the case,
its name is given:

* Session: between the auto-stop decision (`servo_control.py:578`) and the stop
  (:593) lies a wire read; a session refreshed meanwhile is stopped all the same.
* Home: an OSC or Art-Net SET HOME is not refused while a session polls. The save comes
  100 ms after the reset and writes `current_encoder` as it is then (:1746), which the
  poll loop may have moved on (`MeasuredFromHome` forgets such a home, `SaveHome`). In absolute mode the count and the absolute
  position are read one after the other (:469-480, :1753-1755); while the motor turns they are not of
  "this same moment" (:467), and the offset keeps the difference. The poll loop of
  a session started before the first one-shot read in absolute mode shows an angle in the
  incremental scale (:483-493).
* Absolute position: SET HOME reads it without `self.lock` (:1755), the other reader
  holds it (:438). Its PA30 = 1 makes the drive copy the position anew between the other's
  two reads, whose result is then of no moment (`RegistersAreTrue`, `disturbed`).
* Registers: "0x06 sets the whole value" (:628) only if the high word is 0 already or
  the drive clears it (`keeps`). One-word reads of the state (:1261) truncate.
* Moves: the carried error is signed, the count it is added to is not. Backward
  moves drift (:1579, against the comment :1568-1571), and a move below one
  pulse may send -1, that is 2^32 - 1 (:1584, against :90-95).
* Commands: a lost frame is not noticed; a trigger then moves by what an earlier command
  left (`CommandsTakeEffect` asks that none is lost). Every move switches the servo off
  by its first frame. PD16 is written by the page only: before the first page action the
  servo commands of OSC and Art-Net have no effect, and a trigger while a move runs none either.
* Jog: an unanswered frame leaves the recorded direction behind the motor's; the next
  call reverses it directly (:1722; `ReversalNeedsFailure`). Two clients can do it on a
  perfect line, both past the guard at :1701.
* Drive time-out: it is named as the fallback when a quit frame is lost
  (`app.py:829-833`, `servo_control.py:411-416`), but a page that is open polls
  `/status` every second (`index.html:601`, `app.py:291`) and may keep the drive
  from timing out.
* Art-Net: the watchdog latches before its only attempt to stop; if that frame is lost
  the motor goes on (`artnet_server.py:599`; `SilenceStopsUnlessLost`). A lost answer
  followed by channel 2 = 0 leaves the direction the motor really has unknown (:346,
  against the table at :20). `stop()` of the server lets the motor turn, and the next
  instance knows nothing of it (:758). A speed write that fails is not noticed (:401,
  docstring :379-383). `stop()` waits two seconds for a handler that may take longer
  (:790), and that handler finishes its command after `/server/stop` has answered.
* OSC: the filter of /servo forgets nothing: after the page, or a move, has switched the
  servo, a resent level is suppressed (`osc_server.py:65-75`; `ServoFollowsSender`, `foreign`).
  Two messages at once may both pass it. Listeners registered before a failed bind stay
  (:182; `StoppedIsSilent`, `failed`). `_notify_event_listeners` iterates a list that
  `unregister` may change meanwhile.
* EEPROM: an unconfirmed PA28 write may have been executed, though the page then
  says "Nothing was changed." (`app.py:404-405`). After a failed read the old
  protection is kept and trusted for 30 s, as the check time is set first
  (`servo_control.py:696`). A connect or adopt before the power cycle takes the
  configured mode for the running one (comments :187-193, `app.py:355-357`). An
  OSC or Art-Net thread may put the inhibit back inside the lift window (:816).
* App: `get_status` checks `servo_ctrller` and then uses it without a lock
  (docstring `app.py:267-280`). `set_profile` does not look at `reading_active`,
  `set_encoder_mode` does (:397): the motor is left to the drive's time-out, which the
  frames of the new controller may prevent. `/server/stop` needs a serial connection
  (:194-211), so a server that raced a failing profile switch cannot be stopped.
* Line: the rest of an answer that comes after the next request was sent, and has the
  length that one expects, is taken for its answer (`modbus_rtu_client.py:148-190`;
  `ImplementsOutcome`, `late`). An adapter that is pulled out leaves `is_open` True and
  is never reopened (`serial_port_manager.py:71`). A thread past the check of `keep_running`
  opens the port after `disconnect()` (:36-47; `DisconnectIsFinal`, `raced`).
* Configuration file: a crash or a failed write after the truncation loses every key, the
  home among them; of two savers at once one loses the other's key
  (`servo_control.py:258-260`; `ImplementsStore`, `disturbed`).
* Log: after a restart of the program an open page asks for ids it will not see for
  a while (`PageCatchesUp`, `restarted`); two overlapping fetches show entries twice.
* `servo_comm_shihlin`: SET HOME saves the new home (`servo_control.py:968`) and never assigns
  `self.abs_home_pos`, which only `__init__` sets (:85): until a restart moves and angles are
  measured from the old home, where the comment (`app.py:499-500`) says "The current position
  becomes 0 deg" (`EarlierCommandsTakeEffect`, `home_set_since_start`). A start while a session runs calls `stop_continuous_reading`
  under the lock both take and waits for itself for ever (`servo_control.py:202-206`),
  where the comment in `hardware_lock.py:14-16` expects it to stop the reading; `enablePosMode` followed
  by `posTestStart` is such a pair. A stop joins the loop under the lock the loop needs to stop itself (:218).
  Both are `collided`.
* `servo_comm_shihlin_50W` (`servo_control.py`): a move starts from a remembered angle, which is only the last
  target, and 0 after a restart (:680-682); SET HOME zeroes that belief and nothing else
  (:765-777); `enable_speed_ctrl(enable=True)` leaves the test mode (:735-736); `write_PF82` writes
  1 whatever it is given; saving the home replaces the whole file (:71-75); no
  handler takes a hardware lock, and AL.12 is not cleared before a mode is entered. The
  page's `enablePosMode` fails before its session (`app.py:106`), its set points are 90 and 180 degrees (:127-135).
* First generation (`servo_communication/servo_control.py`): a start while a sequence runs only
  stops that one: the flag it has set is cleared by its own stop, and the thread it starts
  ends at once, under the answer "Motion sequence started." (:174-180, `app.py:92`;
  `SequenceCommandsTakeEffect`, "restart"). Two starts at a time leave a
  sequence that no stop waits for, a start that crosses a stop may make the stop wait
  for ever (`SequenceRequestsReturn`, `crossed`). Bytes of two answers raise in the parser and end the thread with
  `monitoring_active` set (:134). The second point is commanded without waiting for the first;
  after a stop START1 stays 1, so the first point of the next sequence has no edge. A stop may wait through a sleep of 40 s.
* `examples/servo_control.py`: `send_servo_command` returns nothing, so a sequence never
  leaves its first point (:122-127, :131-142), and a stop switches the servo off right after it has started the
  move home (:168-172); a `servoOff` of the page is undone by the sequence.

## 6. What is not modelled

`components` in `PROJECT.json` names each part and the reason.

* The ASCII client and its checksum; the bytes and the CRC of an RTU frame (a frame is
  whole or not); the earlier packages' OSC scripts beside `osc_2.py`.
* The texts of registers, alarms and single configuration words (`explain_*`), the motor
  profiles' numbers (constants of the models), input validation, GPIO, logging.
* `initial_abs_home`'s wait for the end of the move: its time-out is computed from a signed
  angle and may be negative or too short; the move itself is in `DriveCommands`. The
  gear check and the consistency check of PA28 at start. Set points on top of
  `HomeReference`: their angle is `current_angle` at the time, which `MeasuredFromHome` bounds.
* The reads of one one-shot position in `HomeReference` are of one moment (section 5).
* `/status`, `/log` and the channel views, which only read; the browser but for its polling.
* Diagnostic and bench scripts, run by hand with the program stopped.
* The 30 s throttle of the EEPROM check (a check may come at any time), the statistics of the
  Art-Net server, the composition of `AppServer` with a handler that outlives `stop()`:
  the drive cannot tell it from a handler of the page, which `DriveCommands` has.

## 7. Plan

Every component that has state is modelled, and every safety invariant a run checks is a
theorem. What is left is proof:

1. `CommandsTakeEffect`: an invariant that says of a thread that lost no frame and was
   not crossed what the frames before the next one have left in the drive (mode, servo,
   speed, pulses); it is a function of the command and the length of what is left, so one
   lemma per command and one per frame of `TestModeDrive`.
2. `EarlierCommandsTakeEffect` on the same lemmas about `TestModeDrive`.
3. `SequenceCommandsTakeEffect`: what a stop that nobody crossed has done when its thread
   has joined the sequence; the sequence variants differ only in what they leave before.
