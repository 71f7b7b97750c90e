----------------------------- MODULE ConfigFile -----------------------------
(***************************************************************************)
(* The JSON file of a motor profile (servo_control.py): home, absolute     *)
(* home and set points, each saved by reading the whole file, truncating   *)
(* it and writing it back.  No lock guards this: a web action and a        *)
(* message of an input server may save at the same time, the write may     *)
(* fail, and the power may go between truncating and writing.              *)
(***************************************************************************)
EXTENDS Integers, FiniteSets

CONSTANTS
    Savers,     \* threads that save: a web action, a handler of an input server
    Keys,       \* "abs_home_pos", "set_point_1", ...
    Values,     \* what is saved
    Absent,     \* a key the file does not have; also "no dictionary"
    MAX_SAVES   \* bound: saves that are begun

VARIABLES
    file,       \* the file: a dictionary, or Absent when it is not valid JSON
    pc,         \* where each saver is in _save_config_value
    config,     \* its local copy of the dictionary
    key,        \* the key it saves
    saves,      \* number of saves begun
    saved,      \* history: for each key the last value that was written
    disturbed   \* history: saves overlapped, a write failed, or the program died

vars == <<file, pc, config, key, saves, saved, disturbed>>

NoKeys == [k \in Keys |-> Absent]

Init ==
    /\ file = NoKeys
    /\ pc = [t \in Savers |-> "idle"]
    /\ config = [t \in Savers |-> NoKeys]
    /\ key = [t \in Savers |-> CHOOSE k \in Keys : TRUE]
    /\ saves = 0
    /\ saved = NoKeys
    /\ disturbed = FALSE

\* _load_config_dict: no file or no valid JSON reads as an empty dictionary.
LoadConfigDict == IF file = Absent THEN NoKeys ELSE file

\* _save_config_value, up to the open: read, change one key.
BeginSave(t, k, v) ==
    /\ pc[t] = "idle" /\ saves < MAX_SAVES
    /\ saves' = saves + 1
    /\ config' = [config EXCEPT ![t] = [LoadConfigDict EXCEPT ![k] = v]]
    /\ key' = [key EXCEPT ![t] = k]
    /\ pc' = [pc EXCEPT ![t] = "open"]
    /\ disturbed' = (disturbed \/ \E o \in Savers : pc[o] # "idle")
    /\ UNCHANGED <<file, saved>>

\* open(..., 'w') truncates.
Truncate(t) ==
    /\ pc[t] = "open"
    /\ file' = Absent
    /\ pc' = [pc EXCEPT ![t] = "dump"]
    /\ UNCHANGED <<config, key, saves, saved, disturbed>>

\* Mutant of Dump: only the saver's own key is written.
Dump_OwnKeyOnly(t) ==
    /\ pc[t] = "dump"
    /\ file' = [NoKeys EXCEPT ![key[t]] = config[t][key[t]]]
    /\ pc' = [pc EXCEPT ![t] = "idle"]
    /\ config' = [config EXCEPT ![t] = NoKeys]
    /\ saved' = [saved EXCEPT ![key[t]] = config[t][key[t]]]
    /\ UNCHANGED <<key, saves, disturbed>>

\* json.dump and close.
Dump(t) ==
    /\ pc[t] = "dump"
    /\ file' = config[t]
    /\ pc' = [pc EXCEPT ![t] = "idle"]
    /\ config' = [config EXCEPT ![t] = NoKeys]
    /\ saved' = [saved EXCEPT ![key[t]] = config[t][key[t]]]
    /\ UNCHANGED <<key, saves, disturbed>>

\* The write fails: logged, and the truncated file stays.
DumpFails(t) ==
    /\ pc[t] = "dump"
    /\ pc' = [pc EXCEPT ![t] = "idle"]
    /\ config' = [config EXCEPT ![t] = NoKeys]
    /\ disturbed' = TRUE
    /\ UNCHANGED <<file, key, saves, saved>>

\* The program dies and starts again; what was begun and not written is gone.
Crash ==
    /\ \E t \in Savers : pc[t] # "idle"
    /\ pc' = [t \in Savers |-> "idle"]
    /\ config' = [t \in Savers |-> NoKeys]
    /\ disturbed' = TRUE
    /\ UNCHANGED <<file, key, saves, saved>>

Next ==
    \/ \E t \in Savers :
         \/ \E k \in Keys, v \in Values : BeginSave(t, k, v)
         \/ Truncate(t) \/ Dump(t) \/ DumpFails(t)
    \/ Crash

Spec == Init /\ [][Next]_vars

-----------------------------------------------------------------------------
\* Read, truncate and write-back together implement a store with one value per
\* key, until saves overlap, a write fails or the program dies in one.  While the
\* file is truncated the store is what it was.
Store == INSTANCE ConfigStore WITH
    store <- IF \E t \in Savers : pc[t] = "dump" THEN saved ELSE LoadConfigDict,
    broken <- disturbed

ImplementsStore == Store!StoreSpec
=============================================================================
