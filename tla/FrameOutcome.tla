---------------------------- MODULE FrameOutcome ----------------------------
(***************************************************************************)
(* What the controller may rely on when it calls send_and_receive(): one   *)
(* transaction at a time; the drive decides over a request once, perhaps   *)
(* only after the caller has given up; the caller gets the decision on its *)
(* own request or nothing.  The other modules take the outcomes of a frame *)
(* from here.                                                              *)
(***************************************************************************)
EXTENDS Integers

CONSTANTS Threads, MAX_REQUESTS, None

VARIABLES
    owner,      \* the thread whose transaction is under way, or None
    number,     \* requests so far; the last one is the owner's
    verdict,    \* what the drive made of each: None, "done" or "refused"
    outcome     \* what each thread's last transaction returned

vars == <<owner, number, verdict, outcome>>

Init ==
    /\ owner = None /\ number = 0
    /\ verdict = [i \in 1..MAX_REQUESTS |-> None]
    /\ outcome = [t \in Threads |-> None]

Begin(t) ==
    /\ owner = None /\ number < MAX_REQUESTS
    /\ owner' = t /\ number' = number + 1
    /\ outcome' = [outcome EXCEPT ![t] = None]
    /\ UNCHANGED verdict

Decide(i, v) ==
    /\ i <= number /\ verdict[i] = None
    /\ verdict' = [verdict EXCEPT ![i] = v]
    /\ UNCHANGED <<owner, number, outcome>>

Return(t, o) ==
    /\ owner = t
    /\ o # None => o = [of |-> number, verdict |-> verdict[number]]
    /\ outcome' = [outcome EXCEPT ![t] = o]
    /\ owner' = None
    /\ UNCHANGED <<number, verdict>>

Verdicts == {"done", "refused"}

Next ==
    \/ \E t \in Threads :
         \/ Begin(t)
         \/ \E o \in {None} \union [of : {number}, verdict : Verdicts] : Return(t, o)
    \/ \E i \in 1..MAX_REQUESTS, v \in Verdicts : Decide(i, v)

Spec == Init /\ [][Next]_vars
=============================================================================
