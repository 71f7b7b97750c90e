-------------------------- MODULE MCHomeReference --------------------------
(* Values of the constants of HomeAndRegisters: values of one word and of    *)
(* two, one that write_PF82 refuses; the pins of MC_OK in different words of *)
(* the outputs, one of its functions on two pins, one of them on none.       *)
EXTENDS HomeAndRegisters

MCWrites == {<<<<"PA", 29>>, 1>>, <<<<"PA", 29>>, 65537>>, <<<<"PF", 82>>, 63>>, <<<<"PF", 82>>, 64>>}

Pins(sa, cmdok) == [p \in 1..6 |-> IF p \in sa THEN 3 ELSE IF p \in cmdok THEN 9 ELSE 0]
MCAssignments == {Pins({1}, {3}), Pins({4}, {1, 6}), Pins({6}, {})}
=============================================================================
