-------------------------- MODULE DriveParameters --------------------------
(***************************************************************************)
(* How the controller reads and writes the drive's registers: the address  *)
(* of a parameter, its two words, the function code a write falls back to  *)
(* (_read_parameter, _write_parameter), the state of the digital outputs   *)
(* that is put together from three reads (read_do_status), and the         *)
(* absolute position, which the drive copies into two registers on demand  *)
(* (read_absolute_position_pulses).                                        *)
(*                                                                         *)
(* Every frame is one step: the transaction lock orders them (RtuLine),    *)
(* and only self.lock, where it is held, the frames of two operations.     *)
(* Not here: what a value means (explain_STY, ...), and what PA23 and PA28 *)
(* do (EepromProtection).                                                  *)
(***************************************************************************)
EXTENDS Integers, Sequences, FiniteSets

CONSTANTS
    Threads, None,
    Writes,            \* what is written: pairs of a register and a value of up to 31 bits
    Assignments,       \* functions of the six output pins, each a code of five bits
    PULSES_PER_REV,    \* encoder_pulses_per_rev
    MAX_SHAFT,         \* bound: how far the shaft turns either way, in pulses
    MAX_OPERATIONS     \* bound

VARIABLES
    memory,            \* the drive: the words of each parameter, ...
    shaft,             \* ... the position of the shaft, ...
    single, keeps,     \* ... whether it takes function 0x06, which may keep the high word,
    function, on,      \* ... the function of each output pin, and the pins that are on
    _prefer_multi_word_write,
    operation,         \* of each thread, or None
    left,              \* the frames it has still to try
    got,               \* the words it has read
    result,            \* what an operation has just returned, or None
    disturbed,         \* history: what it reads in parts was changed in between
    seen,              \* history: where the shaft was while it read the position
    operations         \* bound

drive == <<memory, shaft, single, keeps, function, on>>
vars == <<drive, _prefer_multi_word_write, operation, left, got, result, disturbed, seen, operations>>

WORD == 65536

-----------------------------------------------------------------------------
(* Registers: block and number in the manual, address in the program. *)

PA == [ABS |-> 28, CAP |-> 29, UAP |-> 30, APR |-> 32, APP |-> 33]
PF == [PRCM |-> 82]

\* Mutant of calculate_address: one word to a parameter.
calculate_address_OneWord(block, no) ==
    (CASE block = "PA" -> 768 [] block = "PF" -> 2048) + (no - 1)

calculate_address(block, no) ==
    LET _start_address == CASE block = "PA" -> 768 [] block = "PF" -> 2048
        _register_size == 2
    IN  _start_address + (no - 1) * _register_size

UAP == <<"PA", PA.UAP>>
Pulses == <<"PA", PA.APR>>        \* with abs_rev_register = "APP"
Revolutions == <<"PA", PA.APP>>
Registers == {<<"PA", PA.ABS>>, <<"PA", PA.CAP>>, UAP, Pulses, Revolutions, <<"PF", PF.PRCM>>}

\* The drive's own map: the register and the word at an address.
AddressOf(r) == (IF r[1] = "PA" THEN 768 ELSE 2048) + 2 * (r[2] - 1)
Cells(address) == {c \in Registers \X {1, 2} : AddressOf(c[1]) + c[2] - 1 = address}

\* Function 0x03: the words from an address on; 0 for what this model has no word for.
ReadWords(address, count) ==
    [i \in 1..count |-> LET cells == Cells(address + i - 1)
                        IN  IF cells = {} THEN 0
                            ELSE LET c == CHOOSE c \in cells : TRUE IN memory[c[1]][c[2]]]

\* What a write of words from an address on leaves in memory.
Written(address, words) ==
    [r \in Registers |-> [w \in {1, 2} |->
        LET i == AddressOf(r) + w - address
        IN  IF i \in DOMAIN words THEN words[i] ELSE memory[r][w]]]

\* ModbusRTUResponse.get_value: the low word comes first; one word is all there is.
get_value(words, signed) ==
    IF Len(words) = 1 THEN words[1]
    ELSE words[1] + WORD * (IF signed /\ words[2] >= WORD \div 2 THEN words[2] - WORD ELSE words[2])

-----------------------------------------------------------------------------
(* The operations. *)

\* Read_Pos_Related_Paremters: how many words it reads of each register.
StateWords(r) == IF r \in {Pulses, Revolutions} THEN 2 ELSE 1

Read(r, count) == [name |-> "read", register |-> r, value |-> count]
Write(r, value) == [name |-> "write", register |-> r, value |-> value]
ReadMcOk == [name |-> "mc_ok", register |-> None, value |-> None]

\* Who reads the absolute position: _refresh_current_angle_from_hardware, and
\* _set_home_position_absolute.
Positions == [name : {"angle", "home"}, register : {None}, value : {None}]

\* The operations that hold self.lock from their first frame to their last.
Locked(op) == op.name \in {"mc_ok", "angle"}

\* _write_parameter: which functions it tries, and in which order.
Attempts(value) ==
    IF value >= WORD THEN <<16>>
    ELSE IF _prefer_multi_word_write THEN <<16, 6>> ELSE <<6, 16>>

\* write_PF82 refuses the values the manual prohibits.
Accepted(op) ==
    op.name = "write" /\ op.register = <<"PF", PF.PRCM>> => op.value \in 0..63 \union {1000}

Operations ==
    {Read(r, 2) : r \in Registers \ {UAP, Pulses}} \union {Read(<<"PA", PA.CAP>>, StateWords(<<"PA", PA.CAP>>))}
        \union {Write(w[1], w[2]) : w \in Writes}
        \union {ReadMcOk} \union Positions

Pins == 1..6
INP_SA == 3
CMDOK == 9

\* The drive packs the functions of three pins into a word, and the states into another.
PackedFunctions(first) == function[first] + 32 * function[first + 1] + 1024 * function[first + 2]
Bit(pin) == <<1, 2, 4, 8, 16, 32>>[pin]
PackedStates == LET State(pin) == IF pin \in on THEN Bit(pin) ELSE 0
                IN  State(1) + State(2) + State(3) + State(4) + State(5) + State(6)

\* read_do_status: the function code and the state of each pin, from the three words.
read_do_status(words) ==
    [pin \in Pins |->
        [function_code |-> (words[IF pin <= 3 THEN 1 ELSE 2] \div <<1, 32, 1024>>[1 + ((pin - 1) % 3)]) % 32,
         on |-> (words[3] \div Bit(pin)) % 2 = 1]]

\* read_mc_ok_status: the first pin of each function counts; None if one has no pin.
read_mc_ok_status(do) ==
    LET pin_with(code) == {p \in Pins : do[p].function_code = code}
        First(pins) == CHOOSE p \in pins : \A q \in pins : p <= q
    IN  IF pin_with(INP_SA) = {} \/ pin_with(CMDOK) = {} THEN None
        ELSE do[First(pin_with(INP_SA))].on /\ do[First(pin_with(CMDOK))].on

\* The two words of a number, and what the drive copies.
Signed(n) == <<n % WORD, (n \div WORD) % WORD>>
Latched == [memory EXCEPT ![UAP] = <<0, 0>>, ![Pulses] = Signed(shaft % PULSES_PER_REV),
                          ![Revolutions] = Signed(shaft \div PULSES_PER_REV)]

\* read_absolute_position_pulses, once both registers are read.
AbsolutePosition(revolutions, pulses) ==
    get_value(revolutions, TRUE) * PULSES_PER_REV + get_value(pulses, FALSE)

-----------------------------------------------------------------------------
Init ==
    /\ \E high \in {0, 1} :
         memory = [r \in Registers |-> IF r = <<"PA", PA.CAP>> THEN <<0, high>> ELSE <<0, 0>>]
    /\ shaft = 0
    /\ single \in BOOLEAN /\ keeps \in BOOLEAN /\ (keeps => single)
    /\ function \in Assignments /\ on = {}
    /\ _prefer_multi_word_write = FALSE
    /\ operation = [t \in Threads |-> None] /\ left = [t \in Threads |-> <<>>]
    /\ got = [t \in Threads |-> <<>>] /\ result = None
    /\ disturbed = [t \in Threads |-> FALSE] /\ seen = [t \in Threads |-> {}]
    /\ operations = 0

Begin(t, op) ==
    /\ operation[t] = None /\ operations < MAX_OPERATIONS /\ operations' = operations + 1
    /\ Accepted(op)
    /\ Locked(op) => \A u \in Threads : operation[u] # None => ~Locked(operation[u])
    /\ operation' = [operation EXCEPT ![t] = op]
    /\ left' = [left EXCEPT ![t] = CASE op.name = "write" -> Attempts(op.value)
                                     [] op.name = "read" -> <<3>>
                                     [] op.name = "mc_ok" -> <<3, 3, 3>>
                                     [] op \in Positions -> Attempts(1)]
    /\ got' = [got EXCEPT ![t] = <<>>] /\ result' = None
    /\ disturbed' = [disturbed EXCEPT ![t] = FALSE]
    /\ seen' = [seen EXCEPT ![t] = IF op \in Positions THEN {shaft} ELSE {}]
    /\ UNCHANGED <<drive, _prefer_multi_word_write>>

Doing(t, name) == operation[t] # None /\ operation[t].name = name
Locating(t) == operation[t] # None /\ operation[t] \in Positions
Writing(t) == Doing(t, "write") \/ (Locating(t) /\ Head(left[t]) # 3)

Return(t, value) ==
    /\ operation' = [operation EXCEPT ![t] = None]
    /\ left' = [left EXCEPT ![t] = <<>>] /\ got' = [got EXCEPT ![t] = <<>>]
    /\ seen' = [seen EXCEPT ![t] = {}]
    /\ result' = [of |-> operation[t], value |-> value]

GoesOn(t) == result' = None /\ UNCHANGED <<operation, seen>>

\* A frame without a usable answer ends the operation; a write may have been executed.
Unanswered(t) ==
    /\ operation[t] # None
    /\ Return(t, IF Doing(t, "write") THEN FALSE ELSE None)
    /\ UNCHANGED <<_prefer_multi_word_write, operations>>

_read_parameter(t) ==
    /\ Doing(t, "read")
    /\ LET op == operation[t]
       IN  Return(t, get_value(ReadWords(calculate_address(op.register[1], op.register[2]), op.value),
                               op.register = Revolutions))
    /\ UNCHANGED <<drive, _prefer_multi_word_write, disturbed, operations>>

\* build_write_message and build_write_multiple_message: one word, or low word and high word.
WordsOf(code, value) == IF code = 6 THEN <<value>> ELSE <<value % WORD, value \div WORD>>

Target(t) == IF Locating(t) THEN UAP ELSE operation[t].register
Content(t) == IF Locating(t) THEN 1 ELSE operation[t].value

Execute(t, code) ==
    LET words == WordsOf(code, Content(t))
        r == Target(t)
    IN  /\ memory' = Written(calculate_address(r[1], r[2]),
                             IF code = 6 /\ ~keeps THEN words \o <<0>> ELSE words)
        /\ UNCHANGED <<shaft, single, keeps, function, on, disturbed>>

\* An exception makes it try the other function; so does nothing else.  With PA30
\* written, the position is polled for and read.
_write_parameter(t) ==
    /\ Writing(t)
    /\ LET code == Head(left[t])
       IN  IF code = 6 /\ ~single
           THEN /\ IF Tail(left[t]) = <<>> THEN Return(t, IF Locating(t) THEN None ELSE FALSE)
                   ELSE left' = [left EXCEPT ![t] = Tail(@)] /\ GoesOn(t) /\ UNCHANGED got
                /\ UNCHANGED <<drive, disturbed, _prefer_multi_word_write>>
           ELSE /\ Execute(t, code)
                /\ IF Locating(t) THEN left' = [left EXCEPT ![t] = <<3, 3, 3>>] /\ GoesOn(t) /\ UNCHANGED got
                   ELSE Return(t, TRUE)
                /\ _prefer_multi_word_write' = (_prefer_multi_word_write \/ code = 16)
    /\ UNCHANGED operations

WriteUnanswered(t) ==
    /\ Writing(t) /\ Unanswered(t)
    /\ \/ (Head(left[t]) = 6 => single) /\ Execute(t, Head(left[t]))
       \/ UNCHANGED <<drive, disturbed>>

\* Mutant of Updated: PA30 is not polled.
Updated_AtOnce == TRUE

\* _update_absolute_registers: the drive has set PA30 back to 0.
Updated == memory[UAP] = <<0, 0>>

\* The reads of read_absolute_position_pulses: PA30 until it is 0 (too many polls
\* end like ReadUnanswered, and so does a fault in PA31), PA33 and PA32.
Locate(t) ==
    /\ Locating(t) /\ ~Writing(t)
    /\ LET frames == Len(left[t])
           words == ReadWords(calculate_address("PA", IF frames = 2 THEN PA.APP ELSE PA.APR), 2)
       IN  CASE frames = 3 -> /\ Updated
                              /\ left' = [left EXCEPT ![t] = Tail(@)]
                              /\ GoesOn(t) /\ UNCHANGED got
             [] frames = 2 -> /\ left' = [left EXCEPT ![t] = Tail(@)]
                              /\ got' = [got EXCEPT ![t] = words]
                              /\ GoesOn(t)
             [] frames = 1 -> Return(t, AbsolutePosition(got[t], words))
    /\ UNCHANGED <<drive, _prefer_multi_word_write, disturbed, operations>>

ReadUnanswered(t) ==
    /\ operation[t] # None /\ ~Writing(t) /\ Unanswered(t) /\ UNCHANGED <<drive, disturbed>>

\* The three reads of read_do_status, one frame each.
ReadOutputs(t) ==
    /\ Doing(t, "mc_ok")
    /\ LET word == CASE Len(left[t]) = 3 -> PackedFunctions(1)
                     [] Len(left[t]) = 2 -> PackedFunctions(4)
                     [] Len(left[t]) = 1 -> PackedStates
           words == Append(got[t], word)
       IN  IF Len(left[t]) = 1 THEN Return(t, read_mc_ok_status(read_do_status(words)))
           ELSE /\ left' = [left EXCEPT ![t] = Tail(@)] /\ got' = [got EXCEPT ![t] = words]
                /\ GoesOn(t)
    /\ UNCHANGED <<drive, _prefer_multi_word_write, disturbed, operations>>

\* The outputs follow the motion, all the pins of a function alike; somebody may reassign
\* the pins on the drive (these two and the next matter only while they are read).
OutputsChange ==
    /\ \E t \in Threads : Doing(t, "mc_ok")
    /\ \E active \in SUBSET {function[p] : p \in Pins} :
         on' = {p \in Pins : function[p] # 0 /\ function[p] \in active}
    /\ result' = None /\ UNCHANGED <<memory, shaft, single, keeps, function, _prefer_multi_word_write, operation, left,
                   got, disturbed, seen, operations>>

Reassign ==
    /\ \E t \in Threads : Doing(t, "mc_ok")
    /\ function' \in Assignments /\ on' = {}
    /\ disturbed' = [t \in Threads |-> disturbed[t] \/ Doing(t, "mc_ok")]
    /\ result' = None /\ UNCHANGED <<memory, shaft, single, keeps, _prefer_multi_word_write, operation, left, got,
                   seen, operations>>

\* The shaft turns.
Turn ==
    /\ shaft' \in {shaft - 1, shaft + 1} \intersect -MAX_SHAFT..MAX_SHAFT
    /\ \E t \in Threads : Locating(t)
    /\ seen' = [t \in Threads |-> IF Locating(t) THEN seen[t] \union {shaft'} ELSE {}]
    /\ result' = None /\ UNCHANGED <<memory, single, keeps, function, on, _prefer_multi_word_write, operation, left, got,
                   disturbed, operations>>

\* PA30 = 1: the drive copies its position into PA32 and PA33.  A thread that has read
\* one of them already reads the other from another moment.
UpdateAbsolute ==
    /\ memory[UAP] # <<0, 0>> /\ memory' = Latched
    /\ disturbed' = [t \in Threads |-> disturbed[t] \/ (Locating(t) /\ got[t] # <<>>)]
    /\ result' = None /\ UNCHANGED <<shaft, single, keeps, function, on, _prefer_multi_word_write, operation, left, got,
                   seen, operations>>

Next ==
    \/ \E t \in Threads :
         \/ \E op \in Operations : Begin(t, op)
         \/ _read_parameter(t) \/ _write_parameter(t) \/ WriteUnanswered(t)
         \/ ReadUnanswered(t) \/ ReadOutputs(t) \/ Locate(t)
    \/ OutputsChange \/ Reassign \/ Turn \/ UpdateAbsolute

Spec == Init /\ [][Next]_vars

-----------------------------------------------------------------------------
\* What the drive holds in a register, as a number.
Number(words) == words[1] + WORD * (IF words[2] >= WORD \div 2 THEN words[2] - WORD ELSE words[2])

PinOf(code) == {p \in Pins : function[p] = code}
McOk == IF PinOf(INP_SA) = {} \/ PinOf(CMDOK) = {} THEN None
        ELSE PinOf(INP_SA) \union PinOf(CMDOK) \subseteq on

\* What an operation returns is so: a write that returns True has put its value into the
\* register (but for a high word the drive keeps), a value read is the register's, MC_OK
\* is that of the pins the functions are assigned to, and the position is one the shaft
\* was at while it was read.
IsSo(t) ==
    LET op == result'.of
        value == result'.value
    IN  CASE op.name = "write" /\ value ->
               \/ Number(memory'[op.register]) = op.value
               \/ keeps /\ memory'[op.register][1] = op.value
          [] op.name = "read" /\ value # None ->
               value = IF op.value = 2 THEN Number(memory[op.register]) ELSE memory[op.register][1]
          [] op.name = "mc_ok" /\ value # None -> value = McOk
          [] op \in Positions /\ value # None -> value \in seen[t]
          [] OTHER -> TRUE

\* The controller's register access is true to the drive, whichever function code the
\* drive takes and whatever other thread's frames come in between, unless they make the
\* drive copy its position between the two reads of one (or somebody changes the pins
\* between those of the outputs); and no access changes another register.
RegistersAreTrue ==
    [][/\ \A t \in Threads : operation[t] # None /\ operation'[t] = None /\ ~disturbed[t] => IsSo(t)
       /\ \A r \in Registers : memory'[r] # memory[r] =>
              \/ memory' = Latched
              \/ \E t \in Threads : Writing(t) /\ Target(t) = r]_vars
=============================================================================
