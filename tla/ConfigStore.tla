---------------------------- MODULE ConfigStore ----------------------------
(* What the users of the configuration file count on: one value per key, a  *)
(* save changes its own key and no other.  The promise ends when something  *)
(* the program does not handle has happened (`broken`).                     *)
CONSTANTS Keys, Values, Absent
VARIABLES store, broken

StoreInit ==
    /\ store = [k \in Keys |-> Absent]
    /\ broken = FALSE

Put(k, v) ==
    /\ ~broken /\ UNCHANGED broken
    /\ store' = [store EXCEPT ![k] = v]

Break == broken' = TRUE

StoreNext == Break \/ \E k \in Keys, v \in Values : Put(k, v)

StoreSpec == StoreInit /\ [][StoreNext]_<<store, broken>>
=============================================================================
