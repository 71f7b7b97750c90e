-------------------------- MODULE HomeAndRegisters --------------------------
(***************************************************************************)
(* The home references (HomeReference) beside the registers of the drive   *)
(* (DriveParameters), with which they share no state: one model-checking   *)
(* run and one module of proofs.  `part` says which of the two moves.      *)
(***************************************************************************)
EXTENDS HomeReference

CONSTANTS
    Threads, None,
    Writes, Assignments, PULSES_PER_REV, MAX_SHAFT, MAX_OPERATIONS

VARIABLES part,
    memory, drive_shaft, single, keeps, function, on, _prefer_multi_word_write, operation,
    left, got, result, disturbed, seen, operations

register_vars ==
    <<memory, drive_shaft, single, keeps, function, on, _prefer_multi_word_write, operation,
      left, got, result, disturbed, seen, operations>>

Drive == INSTANCE DriveParameters WITH shaft <- drive_shaft

\* The numbers of 31 bits.
Longs == {n \in Nat : n <= 2147483647}

\* None is no operation.
ASSUME NoOperationAssumption == None \notin Drive!Operations

\* What the callers write fits 31 bits, and is not written to the registers into which
\* the drive copies its position.
ASSUME WritesAssumption ==
    Writes \subseteq {<<"PA", 29>>, <<"PF", 82>>} \X Longs

\* The function of an output pin has five bits.
ASSUME AssignmentsAssumption == Assignments \subseteq [1..6 -> 0..31]

\* A revolution has at most 31 bits of pulses, and the revolutions stay in the range of
\* PA32 (ABS_REV_MIN..ABS_REV_MAX).
ASSUME ShaftAssumption ==
    /\ PULSES_PER_REV \in Longs \ {0} /\ MAX_SHAFT \in Nat
    /\ \A s \in -MAX_SHAFT..MAX_SHAFT :
          -32768 <= s \div PULSES_PER_REV /\ s \div PULSES_PER_REV <= 32767

BothInit ==
    /\ part \in {"home", "registers"}
    /\ HomeInit /\ Drive!Init
    /\ part = "home" => /\ ~single /\ function = CHOOSE f \in Assignments : TRUE
                        /\ \A r \in DOMAIN memory : memory[r] = <<0, 0>>
    /\ part = "registers" => position = 0 /\ ~absolute_mode

BothNext ==
    \/ part = "home" /\ HomeNext /\ UNCHANGED <<part, register_vars>>
    \/ part = "registers" /\ Drive!Next /\ UNCHANGED <<part, vars, home_vars>>

BothSpec == BothInit /\ [][BothNext]_<<part, vars, home_vars, register_vars>>

RegistersAreTrue == Drive!RegistersAreTrue
=============================================================================
