---------------------------- MODULE ActivityLog ----------------------------
(***************************************************************************)
(* The activity feed (activity_log.py): every log record of the program is *)
(* an entry of a ring buffer with ids, and a page fetches, over and over,  *)
(* the entries after the last id it has shown.                             *)
(*                                                                         *)
(* The page asks once a second whether or not the last answer has arrived, *)
(* so two requests may be under way; a restarted program numbers from 1.   *)
(***************************************************************************)
EXTENDS Integers, Sequences, SequencesExt, FiniteSets

CONSTANTS
    MAXLEN,       \* deque(maxlen=300)
    Requests,     \* the page's requests that may be under way together
    MAX_ENTRIES   \* bound: entries logged by one run of the program

VARIABLES
    entries,      \* self._entries: ids, oldest first
    next_id,      \* self._next_id
    asked,        \* the page: `since` of a request on its way, or NoRequest
    answer,       \* the ids an answered request brings back, or NoRequest
    last_log_id,  \* the page: lastLogId
    shown,        \* the page: ids shown, in order
    overlapped,   \* history: two requests have been under way together
    restarted     \* history: the program restarted since the page was loaded

vars == <<entries, next_id, asked, answer, last_log_id, shown, overlapped, restarted>>

NoRequest == -1

Init ==
    /\ entries = <<>> /\ next_id = 1
    /\ asked = [r \in Requests |-> NoRequest]
    /\ answer = [r \in Requests |-> <<>>]
    /\ last_log_id = 0 /\ shown = <<>>
    /\ overlapped = FALSE /\ restarted = FALSE

\* add: numbering and appending are one locked step; a full ring loses its oldest.
Add ==
    /\ next_id <= MAX_ENTRIES
    /\ next_id' = next_id + 1
    /\ entries' = LET all == Append(entries, next_id)
                  IN  IF Len(all) > MAXLEN THEN Tail(all) ELSE all
    /\ UNCHANGED <<asked, answer, last_log_id, shown, overlapped, restarted>>

\* The page asks for what came after the last id it has shown.
Poll(r) ==
    /\ asked[r] = NoRequest /\ answer[r] = <<>>
    /\ asked' = [asked EXCEPT ![r] = last_log_id]
    /\ overlapped' = (overlapped \/
         \E o \in Requests \ {r} : asked[o] # NoRequest \/ answer[o] # <<>>)
    /\ UNCHANGED <<entries, next_id, answer, last_log_id, shown, restarted>>

\* The entries with a greater id.  Ids ascend, so they are those from a place on.
After(id) ==
    LET first == CHOOSE k \in 1..(Len(entries) + 1) :
                   \A i \in 1..Len(entries) : entries[i] > id <=> i >= k
    IN  SubSeq(entries, first, Len(entries))

\* Mutant of GetSince: the first new entry is left out.
GetSince_Skips(last_id) == After(last_id + 1)

\* get_since: what the ring still holds of it.
GetSince(last_id) == After(last_id)

\* GET /log.
Serve(r) ==
    /\ asked[r] # NoRequest
    /\ asked' = [asked EXCEPT ![r] = NoRequest]
    /\ answer' = [answer EXCEPT ![r] = GetSince(asked[r])]
    /\ UNCHANGED <<entries, next_id, last_log_id, shown, overlapped, restarted>>

\* Mutant of Receive: the mark is the second last entry's.
Receive_SkipsLast(r) ==
    /\ answer[r] # <<>>
    /\ answer' = [answer EXCEPT ![r] = <<>>]
    /\ shown' = IF Len(shown) < 2 * MAX_ENTRIES THEN shown \o answer[r] ELSE shown
    /\ last_log_id' = Max({last_log_id, Max(ToSet(answer[r])) - 1})
    /\ UNCHANGED <<entries, next_id, asked, overlapped, restarted>>

\* The answer reaches the page, which appends all of it.
Receive(r) ==
    /\ answer[r] # <<>>
    /\ answer' = [answer EXCEPT ![r] = <<>>]
    /\ shown' = shown \o answer[r]
    /\ last_log_id' = Max({last_log_id} \union ToSet(answer[r]))
    /\ UNCHANGED <<entries, next_id, asked, overlapped, restarted>>

\* The program restarts under a page that stays open.
Restart ==
    /\ ~restarted /\ restarted' = TRUE
    /\ entries' = <<>> /\ next_id' = 1
    /\ asked' = [r \in Requests |-> NoRequest]
    /\ UNCHANGED <<answer, last_log_id, shown, overlapped>>

PollCycle(r) == Poll(r) \/ Serve(r) \/ Receive(r)

Next == Add \/ (\E r \in Requests : PollCycle(r)) \/ Restart

\* The page's timer fires for ever, the server answers.
Fairness == \A r \in Requests : WF_vars(PollCycle(r))

Spec == Init /\ [][Next]_vars /\ Fairness

-----------------------------------------------------------------------------
\* The ring holds consecutive ids up to the last one given out, at most MAXLEN.
RingIsRecent ==
    /\ Len(entries) <= MAXLEN
    /\ entries = [i \in 1..Len(entries) |-> next_id - Len(entries) + i - 1]
    /\ Len(entries) = MAXLEN \/ Len(entries) = next_id - 1

\* In one run of the program the page misses nothing: an id at or below its mark
\* was shown, or pushed out before it was fetched.  It shows no entry twice, in the
\* order they were logged, as long as two of its requests were never under way
\* together.
PageShowsTheLog ==
    /\ RingIsRecent
    /\ ~restarted => \A id \in ToSet(entries) : id <= last_log_id => id \in ToSet(shown)
    /\ ~overlapped /\ ~restarted =>
         \A i, j \in 1..Len(shown) : i < j => shown[i] < shown[j]

\* When nothing more is logged, the page shows the log to its end, unless the
\* program restarted: then the page's mark is of an earlier numbering.
PageCatchesUp == <>[](restarted \/ last_log_id = next_id - 1)
=============================================================================
