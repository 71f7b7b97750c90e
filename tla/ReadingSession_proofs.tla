------------------------ MODULE ReadingSession_proofs ------------------------
(***************************************************************************)
(* Proofs about ReadingSession, for any number of clients and poll threads *)
(* and any still count.                                                    *)
(***************************************************************************)
EXTENDS ReadingSession, FiniteSetTheorems, TLAPS

\* What the places a thread can be at have in common.
LEMMA Places ==
    /\ "dead" \notin PollingPcs
    /\ EndingPcs \intersect PollingPcs = {}
    /\ ClientPcs \intersect PollingPcs = {}
    /\ EndingPcs \subseteq ClientPcs
  BY DEF PollingPcs, EndingPcs, ClientPcs

\* A capped count stays within its bound.
LEMMA CappedType ==
    ASSUME NEW n \in Nat PROVE Capped(n) \in 0..STILL_COUNT_TO_COMPLETE
  BY StillAssumption DEF Capped

-----------------------------------------------------------------------------
(* Type correctness                                                        *)

\* An empty record of observations has its type.
LEMMA NothingType ==
    /\ 0 \in 0..STILL_COUNT_TO_COMPLETE
    /\ NothingObserved \in [moved : BOOLEAN, stills : 0..STILL_COUNT_TO_COMPLETE]
  BY StillAssumption DEF NothingObserved

\* The initial states have their types.
LEMMA InitTypeOK == Init => TypeOK
  <1> SUFFICES ASSUME Init PROVE TypeOK
    OBVIOUS
  <1>1. pc \in [Procs -> PollingPcs \union ClientPcs \union {"dead"}]
    BY DEF Init, ClientPcs
  <1>2. joining \in [Procs -> Threads \union {NoOne}]
    BY DEF Init
  <1>3. /\ has_previous \in [Threads -> BOOLEAN]
        /\ loaded \in [Threads -> 0..STILL_COUNT_TO_COMPLETE]
    BY NothingType DEF Init
  <1>4. /\ lock = NoOne /\ read_thread = NoOne /\ owed = 0
        /\ still_count = 0 /\ observed = NothingObserved
    BY DEF Init
  <1>5. /\ reading_active \in BOOLEAN /\ stop_flag \in BOOLEAN
        /\ motion_seen \in BOOLEAN /\ auto_stop \in BOOLEAN
        /\ keep_running \in BOOLEAN /\ overlapped \in BOOLEAN
    BY DEF Init
  <1> QED
    BY <1>1, <1>2, <1>3, <1>4, <1>5, NothingType DEF TypeOK

\* A thread goes to a place of the type; the other places stay.
LEMMA GotoType ==
    ASSUME TypeOK, NEW x \in Procs,
           NEW place \in PollingPcs \union ClientPcs \union {"dead"},
           Goto(x, place)
    PROVE  pc' \in [Procs -> PollingPcs \union ClientPcs \union {"dead"}]
  BY DEF TypeOK, Goto

\* A stop preserves the types.
LEMMA StopTypeOK ==
    ASSUME TypeOK, NEW x \in Procs, NEW after \in Afters \union {"dead"},
           StopSection(x, after)
    PROVE  TypeOK'
  <1> after \in PollingPcs \union ClientPcs \union {"dead"}
    BY DEF Afters, ClientPcs
  <1> {"notify", "join"} \subseteq ClientPcs
    BY DEF ClientPcs, EndingPcs
  <1>1. CASE reading_active
    <2>1. pc' \in [Procs -> PollingPcs \union ClientPcs \union {"dead"}]
      BY <1>1, GotoType DEF StopSection, CloseSession
    <2>2. joining' \in [Procs -> Threads \union {NoOne}]
      BY <1>1 DEF StopSection, CloseSession, TypeOK
    <2>3. /\ reading_active' = FALSE /\ stop_flag' = TRUE /\ read_thread' = NoOne
          /\ motion_seen' = FALSE /\ still_count' = 0
          /\ UNCHANGED <<lock, keep_running, auto_stop, has_previous, loaded,
                         owed, observed, overlapped>>
      BY <1>1 DEF StopSection, CloseSession, local, history
    <2> QED
      BY <2>1, <2>2, <2>3, NothingType DEF TypeOK
  <1>2. CASE ~reading_active
    BY <1>2, GotoType
       DEF StopSection, TypeOK, session, counters, local, history
  <1> QED
    BY <1>1, <1>2

\* A start preserves the types.
LEMMA StartTypeOK ==
    ASSUME TypeOK, NEW c \in Clients, NEW auto \in BOOLEAN, Start(c, auto)
    PROVE  TypeOK'
  <1> {"idle", "loop"} \subseteq PollingPcs \union ClientPcs
    BY DEF ClientPcs, PollingPcs
  <1> c \in Procs /\ Threads \subseteq Procs
    BY DEF Procs
  <1>1. CASE RefreshSession(auto) /\ Goto(c, "idle")
    <2>1. pc' \in [Procs -> PollingPcs \union ClientPcs \union {"dead"}]
      BY <1>1, GotoType
    <2>2. /\ motion_seen' = FALSE /\ still_count' = 0 /\ auto_stop' = auto
          /\ observed' = NothingObserved
          /\ UNCHANGED <<lock, keep_running, joining, reading_active, stop_flag,
                         read_thread, has_previous, loaded, owed, overlapped>>
      BY <1>1 DEF Start, RefreshSession, local
    <2> QED
      BY <2>1, <2>2, NothingType DEF TypeOK
  <1>2. ASSUME NEW t \in Threads, OpenSession(auto, t),
               pc' = [pc EXCEPT ![c] = "idle", ![t] = "loop"]
        PROVE  TypeOK'
    <2>1. pc' \in [Procs -> PollingPcs \union ClientPcs \union {"dead"}]
      BY <1>2 DEF TypeOK
    <2>2. /\ has_previous' \in [Threads -> BOOLEAN]
          /\ loaded' \in [Threads -> 0..STILL_COUNT_TO_COMPLETE]
      BY <1>2, NothingType DEF OpenSession, TypeOK
    <2>3. /\ read_thread' = t /\ still_count' = 0
          /\ observed' = NothingObserved /\ owed' = owed + 1
          /\ UNCHANGED <<lock, keep_running, joining, overlapped>>
      BY <1>2 DEF Start, OpenSession
    <2>4. /\ reading_active' \in BOOLEAN /\ stop_flag' \in BOOLEAN
          /\ motion_seen' \in BOOLEAN /\ auto_stop' \in BOOLEAN
      BY <1>2 DEF OpenSession
    <2> QED
      BY <2>1, <2>2, <2>3, <2>4, NothingType DEF TypeOK
  <1> QED
    BY <1>1, <1>2 DEF Start

\* Every step preserves the types.
LEMMA NextTypeOK == TypeOK /\ [Next]_vars => TypeOK'
  <1> SUFFICES ASSUME TypeOK, [Next]_vars PROVE TypeOK'
    OBVIOUS
  <1> USE DEF session, counters, local, history
  <1> Clients \subseteq Procs /\ Threads \subseteq Procs
    BY DEF Procs
  <1>p. {"idle", "start", "stop", "status", "quit", "notify", "join", "holding",
         "dead"} \union PollingPcs \subseteq PollingPcs \union ClientPcs \union {"dead"}
    BY DEF ClientPcs, EndingPcs
  <1>q. {"loop", "reading", "update", "count", "store", "decide", "crosscheck",
         "autostop"} = PollingPcs
    BY DEF PollingPcs
  <1>1. ASSUME NEW c \in Clients, NEW operation \in {"start", "stop", "status"},
               ClientCalls(c, operation)
        PROVE  TypeOK'
    <2>1. overlapped' \in BOOLEAN
      BY <1>1 DEF ClientCalls, TypeOK
    <2>2. pc' \in [Procs -> PollingPcs \union ClientPcs \union {"dead"}]
      BY <1>1, <1>p, GotoType DEF ClientCalls
    <2> QED
      BY <1>1, <2>1, <2>2 DEF ClientCalls, TypeOK
  <1>2. ASSUME NEW x \in Clients \union Threads, JoinReturns(x) PROVE TypeOK'
    BY <1>2, <1>p, GotoType DEF JoinReturns, TypeOK
  <1>3. ASSUME NEW x \in Clients \union Threads, NEW after \in Afters \union {"dead"},
               NotifyCompleted(x, after)
        PROVE  TypeOK'
    <2> after \in ClientPcs \union {"dead"}
      BY DEF Afters, ClientPcs
    <2> QED
      BY <1>3, GotoType DEF NotifyCompleted, TypeOK
  <1>4. ASSUME NEW c \in Clients, QuitTestMode(c) PROVE TypeOK'
    BY <1>4, <1>p, GotoType DEF QuitTestMode, TypeOK
  <1>5. ASSUME NEW x \in Procs, NEW from, NEW to \in {"holding", "reading"},
               TakeLock(x, from, to)
        PROVE  TypeOK'
    BY <1>5, <1>p, <1>q, GotoType DEF TakeLock, TypeOK
  <1>6. ASSUME NEW x \in Procs, NEW from,
               NEW to \in {"idle", "update", "loop"}, ReleaseLock(x, from, to)
        PROVE  TypeOK'
    BY <1>6, <1>p, <1>q, GotoType DEF ReleaseLock, TypeOK
  <1>7. ASSUME NEW c \in Clients, Disconnect(c) PROVE TypeOK'
    BY <1>7 DEF Disconnect, TypeOK
  <1>8. ASSUME NEW t \in Threads, LoopTest(t) PROVE TypeOK'
    BY <1>8, <1>p, GotoType DEF LoopTest, TypeOK
  <1>9. ASSUME NEW t \in Threads, Update(t) PROVE TypeOK'
    <2>1. pc' \in [Procs -> PollingPcs \union ClientPcs \union {"dead"}]
      BY <1>9, <1>p, <1>q, GotoType DEF Update
    <2> QED
      BY <1>9, <2>1 DEF Update, TypeOK
  <1>10. ASSUME NEW t \in Threads, CountMotion(t) PROVE TypeOK'
    BY <1>10, <1>p, <1>q, GotoType, StillAssumption DEF CountMotion, TypeOK
  <1>11. ASSUME NEW t \in Threads, LoadStill(t) PROVE TypeOK'
    BY <1>11, <1>p, <1>q, GotoType DEF LoadStill, TypeOK
  <1>12. ASSUME NEW t \in Threads, StoreStill(t) PROVE TypeOK'
    <2>1. /\ loaded[t] + 1 \in Nat
          /\ observed.stills + 1 \in Nat
      BY DEF TypeOK
    <2>2. /\ still_count' \in 0..STILL_COUNT_TO_COMPLETE
          /\ observed' \in [moved : BOOLEAN, stills : 0..STILL_COUNT_TO_COMPLETE]
      BY <1>12, <2>1, CappedType DEF StoreStill, TypeOK
    <2>3. loaded' \in [Threads -> 0..STILL_COUNT_TO_COMPLETE]
      BY <1>12, NothingType DEF StoreStill, TypeOK
    <2> QED
      BY <1>12, <1>p, <1>q, <2>2, <2>3, GotoType DEF StoreStill, TypeOK
  <1>13. ASSUME NEW t \in Threads, Decide(t) PROVE TypeOK'
    <2>1. pc' \in [Procs -> PollingPcs \union ClientPcs \union {"dead"}]
      BY <1>13, <1>p, <1>q, GotoType DEF Decide
    <2> QED
      BY <1>13, <2>1 DEF Decide, TypeOK
  <1>14. ASSUME NEW t \in Threads, CrossCheck(t) PROVE TypeOK'
    BY <1>14, <1>p, <1>q, GotoType DEF CrossCheck, TypeOK
  <1>15. CASE UNCHANGED vars
    BY <1>15 DEF vars, TypeOK
  <1>16. CASE Next
    BY ONLY <1>16, <1>1, <1>2, <1>3, <1>4, <1>5, <1>6, <1>7, <1>8, <1>9, <1>10,
       <1>11, <1>12, <1>13, <1>14, StartTypeOK, StopTypeOK, TypeOK
       DEF Next, ClientStep, ClientStop, PollStep, EndRead,
           BeginRead, AutoStop, Procs
  <1> QED
    BY <1>15, <1>16

\* Every variable keeps its type.
THEOREM SessionTypeOK == Spec => []TypeOK
  BY InitTypeOK, NextTypeOK, PTL DEF Spec

-----------------------------------------------------------------------------
(* An active session is polled, whoever calls                              *)

\* What ActiveSessionIsPolled needs to be inductive: an active session has a
\* thread and a clear stop flag even after the port was closed.
SessionInv ==
    reading_active =>
        /\ ~stop_flag
        /\ read_thread \in Threads
        /\ keep_running => Polling(read_thread)

\* SessionInv is inductive.
LEMMA NextSessionInv ==
    ASSUME TypeOK, SessionInv, [Next]_vars PROVE SessionInv'
  <1> USE IdentityAssumption
      DEF SessionInv, Polling, PollingPcs, Goto, session, counters, local, history
  <1> Clients \subseteq Procs /\ Threads \subseteq Procs
    BY DEF Procs
  <1>0. pc \in [Procs -> PollingPcs \union ClientPcs \union {"dead"}]
    BY DEF TypeOK
  <1>1. ASSUME NEW c \in Clients, NEW operation, ClientCalls(c, operation)
        PROVE  SessionInv'
    BY <1>0, <1>1 DEF ClientCalls
  <1>2. ASSUME NEW c \in Clients, NEW auto \in BOOLEAN, Start(c, auto)
        PROVE  SessionInv'
    BY <1>0, <1>2 DEF Start, RefreshSession, OpenSession
  <1>3. ASSUME NEW x \in Procs, NEW after, StopSection(x, after),
               x \in Clients \/ pc[x] = "autostop"
        PROVE  SessionInv'
    BY <1>0, <1>3 DEF StopSection, CloseSession
  <1>4. ASSUME NEW x \in Procs, JoinReturns(x) PROVE SessionInv'
    BY <1>0, <1>4 DEF JoinReturns
  <1>5. ASSUME NEW x \in Procs, NEW after, NotifyCompleted(x, after)
        PROVE  SessionInv'
    BY <1>0, <1>5 DEF NotifyCompleted
  <1>6. ASSUME NEW c \in Clients, QuitTestMode(c) PROVE SessionInv'
    BY <1>0, <1>6 DEF QuitTestMode
  <1>7. ASSUME NEW x \in Procs, NEW from, NEW to, TakeLock(x, from, to),
               x \notin Threads \/ to = "reading"
        PROVE  SessionInv'
    BY <1>0, <1>7 DEF TakeLock
  <1>8. ASSUME NEW x \in Procs, NEW from, NEW to, ReleaseLock(x, from, to),
               x \notin Threads \/ to \in {"update", "loop"}
        PROVE  SessionInv'
    BY <1>0, <1>8 DEF ReleaseLock
  <1>9. ASSUME NEW c \in Clients, Disconnect(c) PROVE SessionInv'
    BY <1>9 DEF Disconnect
  <1>10. ASSUME NEW t \in Threads, LoopTest(t) PROVE SessionInv'
    BY <1>0, <1>10 DEF LoopTest
  <1>11. ASSUME NEW t \in Threads,
                \/ Update(t) \/ CountMotion(t) \/ LoadStill(t) \/ StoreStill(t)
                \/ Decide(t) \/ CrossCheck(t)
         PROVE  SessionInv'
    BY <1>0, <1>11
       DEF Update, CountMotion, LoadStill, StoreStill, Decide, CrossCheck
  <1>12. CASE UNCHANGED vars
    BY <1>12 DEF vars
  <1>13. ASSUME NEW c \in Clients, ClientStep(c) PROVE SessionInv'
    BY ONLY IdentityAssumption, <1>1, <1>2, <1>3, <1>4, <1>5, <1>6, <1>7, <1>8,
       <1>9, <1>13
       DEF ClientStep, ClientStop, Procs
  <1>15. ASSUME NEW t \in Threads, PollStep(t) PROVE SessionInv'
    BY ONLY <1>3, <1>4, <1>5, <1>7, <1>8, <1>10, <1>11, <1>15
       DEF PollStep, BeginRead, EndRead, AutoStop, Procs
  <1> QED
    BY ONLY <1>12, <1>13, <1>15, [Next]_vars DEF Next

\* Whichever threads start, stop and auto-stop it, an active session has a
\* poll thread at work until the port is closed.
THEOREM SessionIsPolled == Spec => []ActiveSessionIsPolled
  <1>1. Init => SessionInv
    BY DEF Init, SessionInv
  <1>2. TypeOK /\ SessionInv /\ [Next]_vars => SessionInv'
    BY NextSessionInv
  <1>3. SessionInv => ActiveSessionIsPolled
    BY DEF SessionInv, ActiveSessionIsPolled
  <1> QED
    BY <1>1, <1>2, <1>3, SessionTypeOK, PTL DEF Spec

-----------------------------------------------------------------------------
(* Commands that take turns: one poller, and decisions on fresh evidence    *)

\* While commands take turns, a poll thread works for the active session or
\* the one client that stopped the session is waiting for it, with the stop
\* flag up; nobody else waits for a thread.
PollerInv ==
    ~overlapped =>
        /\ \A c, d \in Clients :
             pc[c] \in CommandPcs /\ pc[d] \in CommandPcs => c = d
        /\ \A t \in Threads : Polling(t) =>
             \/ reading_active /\ read_thread = t
             \/ \E c \in Clients : pc[c] = "join" /\ joining[c] = t
        /\ \A c \in Clients : pc[c] = "join" => ~reading_active /\ stop_flag
        /\ \A x \in Threads : pc[x] # "join"

\* PollerInv implies that there is one poll thread.
LEMMA PollerInvOnePoller == PollerInv => OnePoller
  BY DEF PollerInv, OnePoller, CommandPcs, EndingPcs

\* PollerInv implies that a joined thread is leaving.
LEMMA PollerInvLeaving ==
    ASSUME TypeOK, PollerInv PROVE JoinedThreadIsLeaving
  <1> SUFFICES ASSUME ~overlapped, NEW x \in Procs, pc[x] = "join"
               PROVE  stop_flag
    BY DEF JoinedThreadIsLeaving
  <1> QED
    BY DEF PollerInv, Procs

\* PollerInv is inductive, given SessionInv.
LEMMA NextPollerInv ==
    ASSUME TypeOK, SessionInv, PollerInv, [Next]_vars
    PROVE  PollerInv'
  <1> USE IdentityAssumption
      DEF PollerInv, Polling, PollingPcs, CommandPcs, EndingPcs, Goto, session,
          counters, local, history
  <1> Clients \subseteq Procs /\ Threads \subseteq Procs
    BY DEF Procs
  <1>0. pc \in [Procs -> PollingPcs \union ClientPcs \union {"dead"}]
        /\ joining \in [Procs -> Threads \union {NoOne}]
    BY DEF TypeOK
  <1>1. ASSUME NEW c \in Clients, NEW operation \in {"start", "stop", "status"},
               ClientCalls(c, operation)
        PROVE  PollerInv'
    BY <1>0, <1>1 DEF ClientCalls
  <1>2. ASSUME NEW c \in Clients, NEW auto \in BOOLEAN, Start(c, auto),
               ~overlapped
        PROVE  PollerInv'
    <2>1. \A d \in Clients : pc[d] # "join"
      BY <1>2 DEF Start
    <2>2. CASE RefreshSession(auto) /\ Goto(c, "idle")
      BY <1>0, <1>2, <2>1, <2>2 DEF Start, RefreshSession
    <2>3. ASSUME NEW t \in Threads, OpenSession(auto, t),
                 pc' = [pc EXCEPT ![c] = "idle", ![t] = "loop"]
          PROVE  PollerInv'
      <3>1. \A u \in Threads : ~Polling(u)
        BY <1>2, <2>1, <2>3 DEF OpenSession
      <3> QED
        BY <1>0, <1>2, <2>1, <2>3, <3>1 DEF OpenSession
    <2> QED
      BY <1>2, <2>2, <2>3 DEF Start
  <1>3. ASSUME NEW c \in Clients, NEW after \in Afters, pc[c] = "stop",
               StopSection(c, after), ~overlapped
        PROVE  PollerInv'
    <2>1. \A d \in Clients : pc[d] # "join"
      BY <1>3
    <2>2. CASE reading_active
      BY <1>0, <1>3, <2>1, <2>2 DEF StopSection, CloseSession, SessionInv
    <2>3. CASE ~reading_active
      BY <1>0, <1>3, <2>1, <2>3 DEF StopSection, Afters
    <2> QED
      BY <2>2, <2>3
  <1>4. ASSUME NEW x \in Clients \union Threads, JoinReturns(x) PROVE PollerInv'
    BY <1>0, <1>4 DEF JoinReturns
  <1>5. ASSUME NEW x \in Clients \union Threads,
               NEW after \in Afters \union {"dead"}, NotifyCompleted(x, after)
        PROVE  PollerInv'
    BY <1>0, <1>5 DEF NotifyCompleted, Afters
  <1>6. ASSUME NEW c \in Clients, QuitTestMode(c) PROVE PollerInv'
    BY <1>0, <1>6 DEF QuitTestMode
  <1>7. ASSUME NEW x \in Procs, NEW from, NEW to, TakeLock(x, from, to),
               IF x \in Threads THEN from = "loop" /\ to = "reading"
                                ELSE from # "join" /\ to = "holding"
        PROVE  PollerInv'
    BY <1>0, <1>7 DEF TakeLock
  <1>8. ASSUME NEW x \in Procs, NEW from, NEW to, ReleaseLock(x, from, to),
               IF x \in Threads THEN from = "reading" /\ to \in {"update", "loop"}
                                ELSE from = "holding" /\ to = "idle"
        PROVE  PollerInv'
    BY <1>0, <1>8 DEF ReleaseLock
  <1>9. ASSUME NEW c \in Clients, Disconnect(c) PROVE PollerInv'
    BY <1>9 DEF Disconnect
  <1>10. ASSUME NEW t \in Threads, LoopTest(t) PROVE PollerInv'
    BY <1>0, <1>10 DEF LoopTest
  <1>11. ASSUME NEW t \in Threads,
                \/ Update(t) \/ CountMotion(t) \/ LoadStill(t) \/ StoreStill(t)
                \/ Decide(t) \/ CrossCheck(t)
         PROVE  PollerInv'
    <2>1. /\ Polling(t)
          /\ UNCHANGED <<reading_active, read_thread, joining, stop_flag,
                         overlapped>>
          /\ \E place \in PollingPcs : Goto(t, place)
      BY <1>11
         DEF Update, CountMotion, LoadStill, StoreStill, Decide, CrossCheck
    <2> QED
      BY <1>0, <2>1
  <1>12. ASSUME NEW t \in Threads, AutoStop(t), ~overlapped PROVE PollerInv'
    <2>1. CASE reading_active
      <3>1. read_thread = t
        BY <1>12, <2>1 DEF AutoStop
      <3> QED
        BY <1>0, <1>12, <2>1, <3>1 DEF AutoStop, StopSection, CloseSession
    <2>2. CASE ~reading_active
      BY <1>0, <1>12, <2>2 DEF AutoStop, StopSection
    <2> QED
      BY <2>1, <2>2
  <1>13. CASE UNCHANGED vars
    BY <1>13 DEF vars
  <1>17. ASSUME overlapped, Next PROVE PollerInv'
    <2>1. overlapped'
      BY <1>17
         DEF Next, ClientStep, PollStep, ClientCalls, Start,
             RefreshSession, OpenSession, ClientStop, StopSection, JoinReturns,
             NotifyCompleted, QuitTestMode, TakeLock, ReleaseLock, Disconnect,
             LoopTest, BeginRead, EndRead, Update, CountMotion, LoadStill,
             StoreStill, Decide, CrossCheck, AutoStop
    <2> QED
      BY <2>1
  <1>14. ASSUME NEW c \in Clients, ClientStep(c), ~overlapped PROVE PollerInv'
    BY ONLY IdentityAssumption, <1>1, <1>2, <1>3, <1>4, <1>5, <1>6, <1>7, <1>8,
       <1>9, <1>14
       DEF ClientStep, ClientStop, Procs
  <1>16. ASSUME NEW t \in Threads, PollStep(t), ~overlapped PROVE PollerInv'
    BY ONLY <1>4, <1>5, <1>7, <1>8, <1>10, <1>11, <1>12, <1>16
       DEF PollStep, BeginRead, EndRead, Procs
  <1> QED
    BY ONLY <1>13, <1>14, <1>16, <1>17, [Next]_vars DEF Next

\* The invariants hold in every reachable state.
LEMMA PollerInvariant == Spec => [](TypeOK /\ SessionInv /\ PollerInv)
  <1>1. Init => SessionInv
    BY DEF Init, SessionInv
  <1>2. Init => PollerInv
    BY IdentityAssumption
       DEF Init, PollerInv, Polling, PollingPcs, CommandPcs, EndingPcs, Procs
  <1>3. TypeOK /\ SessionInv /\ PollerInv /\ [Next]_vars => SessionInv' /\ PollerInv'
    BY NextSessionInv, NextPollerInv
  <1> QED
    BY <1>1, <1>2, <1>3, SessionTypeOK, PTL DEF Spec

\* While commands take turns there is never a second poll thread, although
\* the poll thread stops its own session concurrently with the commands.
THEOREM SessionOnePoller == Spec => []OnePoller
  BY PollerInvOnePoller, PollerInvariant, PTL

\* While commands take turns, a thread that a stop waits for sees the stop flag.
THEOREM SessionJoinedThreadIsLeaving == Spec => []JoinedThreadIsLeaving
  BY PollerInvLeaving, PollerInvariant, PTL

\* While commands take turns, one poll thread hands over to the next.
THEOREM SessionPollersTakeTurns == Spec => []PollersTakeTurns
  BY SessionOnePoller, SessionJoinedThreadIsLeaving, PTL DEF PollersTakeTurns

\* The shared counters never claim more than was counted since the last start,
\* nor does a poll thread hold a count from before it that could be stored.
FreshInv ==
    ~overlapped /\ motion_seen =>
        /\ observed.moved
        /\ still_count <= observed.stills
        /\ \A t \in Threads : pc[t] = "store" => loaded[t] <= observed.stills

\* FreshInv is inductive, given the other two.
LEMMA NextFreshInv ==
    ASSUME OnePoller, TypeOK, FreshInv, [Next]_vars
    PROVE  FreshInv'
  <1> USE IdentityAssumption, StillAssumption
      DEF FreshInv, Goto, session, counters, local, history
  <1> Clients \subseteq Procs /\ Threads \subseteq Procs
    BY DEF Procs
  <1>0. /\ pc \in [Procs -> PollingPcs \union ClientPcs \union {"dead"}]
        /\ loaded \in [Threads -> 0..STILL_COUNT_TO_COMPLETE]
        /\ still_count \in 0..STILL_COUNT_TO_COMPLETE
        /\ observed \in [moved : BOOLEAN, stills : 0..STILL_COUNT_TO_COMPLETE]
    BY DEF TypeOK
  <1>a. ASSUME UNCHANGED <<counters, observed, loaded>>, overlapped => overlapped',
               NEW x \in Procs, NEW place, Goto(x, place), place # "store"
        PROVE  FreshInv'
    BY <1>0, <1>a
  <1>1. ASSUME NEW c \in Clients, NEW operation \in {"start", "stop", "status"},
               ClientCalls(c, operation)
        PROVE  FreshInv'
    BY <1>1, <1>a DEF ClientCalls
  <1>2. ASSUME NEW c \in Clients, NEW auto \in BOOLEAN, Start(c, auto)
        PROVE  FreshInv'
    BY <1>2 DEF Start, RefreshSession, OpenSession
  <1>3. ASSUME NEW x \in Procs, NEW after \in Afters \union {"dead"},
               StopSection(x, after)
        PROVE  FreshInv'
    BY <1>3, <1>a DEF StopSection, CloseSession, Afters
  <1>4. ASSUME NEW x \in Procs, JoinReturns(x) PROVE FreshInv'
    BY <1>4, <1>a DEF JoinReturns
  <1>5. ASSUME NEW x \in Procs, NEW after \in Afters \union {"dead"},
               NotifyCompleted(x, after)
        PROVE  FreshInv'
    BY <1>5, <1>a DEF NotifyCompleted, Afters
  <1>6. ASSUME NEW c \in Clients, QuitTestMode(c) PROVE FreshInv'
    BY <1>6, <1>a DEF QuitTestMode
  <1>7. ASSUME NEW x \in Procs, NEW from, NEW to \in {"holding", "reading"},
               TakeLock(x, from, to)
        PROVE  FreshInv'
    BY <1>7, <1>a DEF TakeLock
  <1>8. ASSUME NEW x \in Procs, NEW from, NEW to \in {"idle", "update", "loop"},
               ReleaseLock(x, from, to)
        PROVE  FreshInv'
    BY <1>8, <1>a DEF ReleaseLock
  <1>9. ASSUME NEW c \in Clients, Disconnect(c) PROVE FreshInv'
    BY <1>9 DEF Disconnect
  <1>10. ASSUME NEW t \in Threads,
                LoopTest(t) \/ Update(t) \/ Decide(t) \/ CrossCheck(t)
         PROVE  FreshInv'
    <2>1. /\ UNCHANGED <<counters, observed, loaded, overlapped>>
          /\ \E place \in {"dead", "count", "decide", "crosscheck", "loop",
                           "autostop"} : Goto(t, place)
      BY <1>10 DEF LoopTest, Update, Decide, CrossCheck
    <2> QED
      BY <2>1, <1>a
  <1>11. ASSUME NEW t \in Threads, CountMotion(t) PROVE FreshInv'
    <2>1. ~overlapped => \A u \in Threads : pc[u] = "store" => u = t
      BY <1>11 DEF CountMotion, OnePoller, Polling, PollingPcs
    <2> QED
      BY <1>0, <1>11, <2>1 DEF CountMotion
  <1>12. ASSUME NEW t \in Threads, LoadStill(t) PROVE FreshInv'
    BY <1>0, <1>12 DEF LoadStill
  <1>13. ASSUME NEW t \in Threads, StoreStill(t) PROVE FreshInv'
    <2>1. observed'.moved = observed.moved
          /\ observed'.stills = Capped(observed.stills + 1)
      BY <1>0, <1>13 DEF StoreStill
    <2>2. observed.stills <= observed'.stills
      BY <1>0, <2>1 DEF Capped
    <2>3. ~overlapped /\ motion_seen => Capped(loaded[t] + 1) <= observed'.stills
      BY <1>0, <1>13, <2>1 DEF Capped, StoreStill
    <2>4. /\ motion_seen' = motion_seen /\ overlapped' = overlapped
          /\ still_count' = Capped(loaded[t] + 1)
          /\ \A u \in Threads : pc'[u] = "store" =>
               pc[u] = "store" /\ loaded'[u] = loaded[u]
      BY <1>0, <1>13 DEF StoreStill
    <2>5. \A u \in Threads : loaded[u] <= observed.stills => loaded[u] <= observed'.stills
      BY <1>0, <2>1, <2>2 DEF Capped
    <2> QED
      BY <2>1, <2>3, <2>4, <2>5
  <1>14. CASE UNCHANGED vars
    BY <1>14 DEF vars
  <1>15. CASE Next
    BY ONLY <1>15, <1>1, <1>2, <1>3, <1>4, <1>5, <1>6, <1>7, <1>8, <1>9, <1>10,
       <1>11, <1>12, <1>13
       DEF Next, ClientStep, ClientStop, PollStep, EndRead,
           BeginRead, AutoStop, Procs
  <1> QED
    BY <1>14, <1>15

\* Only the step Decide(t) takes a poll thread from "decide" to "crosscheck".
LEMMA OnlyDecideDecides ==
    ASSUME TypeOK, Next, NEW t \in Threads,
           pc[t] = "decide", pc'[t] = "crosscheck"
    PROVE  MotionComplete
  <1> USE IdentityAssumption DEF Goto
  <1>0. pc \in [Procs -> PollingPcs \union ClientPcs \union {"dead"}]
        /\ Procs = Clients \union Threads
    BY DEF TypeOK, Procs
  <1>1. ASSUME NEW c \in Clients, ClientStep(c) PROVE FALSE
    <2>1. ASSUME NEW auto \in BOOLEAN, Start(c, auto) PROVE FALSE
      BY <1>0, <2>1 DEF Start, RefreshSession, OpenSession, FreeThread
    <2>2. ASSUME ~ \E auto \in BOOLEAN : Start(c, auto) PROVE FALSE
      <3>1. pc' = pc \/ \E place : pc' = [pc EXCEPT ![c] = place]
        BY <1>1, <2>2
           DEF ClientStep, ClientCalls, ClientStop, StopSection, CloseSession,
               JoinReturns, NotifyCompleted, QuitTestMode, TakeLock,
               ReleaseLock, Disconnect
      <3> QED
        BY <1>0, <3>1
    <2> QED
      BY <2>1, <2>2
  <1>3. ASSUME NEW u \in Threads, PollStep(u) PROVE MotionComplete
    <2>1. CASE u = t
      BY <1>0, <1>3, <2>1
         DEF PollStep, LoopTest, BeginRead, EndRead, Update, CountMotion,
             LoadStill, StoreStill, Decide, CrossCheck, AutoStop, StopSection,
             CloseSession, JoinReturns, NotifyCompleted, TakeLock, ReleaseLock
    <2>2. CASE u # t
      <3>1. \E place : pc' = [pc EXCEPT ![u] = place]
        BY <1>3
           DEF PollStep, LoopTest, BeginRead, EndRead, Update, CountMotion,
               LoadStill, StoreStill, Decide, CrossCheck, AutoStop, StopSection,
               CloseSession, JoinReturns, NotifyCompleted, TakeLock, ReleaseLock
      <3> QED
        BY <1>0, <2>2, <3>1
    <2> QED
      BY <2>1, <2>2
  <1> QED
    BY <1>1, <1>3 DEF Next

\* While commands take turns an auto-stop is only decided on a movement and a
\* full run of still polls that were counted since the session's last start,
\* even though the poll thread counts without the lock.
THEOREM SessionDecisionIsFresh == Spec => DecisionIsFresh
  <1> DEFINE Fresh ==
        \A t \in Threads :
           ~overlapped /\ pc[t] = "decide" /\ pc'[t] = "crosscheck" =>
              observed.moved /\ observed.stills >= STILL_COUNT_TO_COMPLETE
  <1>1. Init => FreshInv
    BY DEF Init, FreshInv
  <1>2. OnePoller /\ TypeOK /\ FreshInv /\ [Next]_vars => FreshInv'
    BY NextFreshInv
  <1>3. TypeOK /\ FreshInv /\ [Next]_vars => [Fresh]_vars
    <2> SUFFICES ASSUME TypeOK, FreshInv, Next, NEW t \in Threads, ~overlapped,
                        pc[t] = "decide", pc'[t] = "crosscheck"
                 PROVE  observed.moved /\ observed.stills >= STILL_COUNT_TO_COMPLETE
      OBVIOUS
    <2>1. MotionComplete
      BY OnlyDecideDecides
    <2>2. /\ observed.stills \in 0..STILL_COUNT_TO_COMPLETE
          /\ still_count \in 0..STILL_COUNT_TO_COMPLETE
      BY DEF TypeOK
    <2> QED
      BY <2>1, <2>2, StillAssumption DEF MotionComplete, FreshInv
  <1>5. Spec => [][Fresh]_vars
    BY <1>1, <1>2, <1>3, SessionOnePoller, SessionTypeOK, PTL DEF Spec
  <1> QED
    BY <1>5 DEF DecisionIsFresh

-----------------------------------------------------------------------------
(* Every session is closed once                                            *)

\* The threads that have ended a session and not yet said so.
Ending == {x \in Procs : pc[x] \in EndingPcs}

\* EndsOnce, with what makes its cardinality one: there are finitely many of them,
\* however many threads there may be.
EndsInv == IsFiniteSet(Ending) /\ EndsOnce

\* A step of one thread that neither ends a session nor says so.
LEMMA EndingKept ==
    ASSUME TypeOK, EndsInv, NEW x \in Procs, NEW place, Goto(x, place),
           pc[x] \in EndingPcs <=> place \in EndingPcs,
           UNCHANGED <<owed, reading_active>>
    PROVE  EndsInv'
  <1>1. \A y \in Procs : pc'[y] \in EndingPcs <=> pc[y] \in EndingPcs
    BY DEF TypeOK, Goto
  <1>2. Ending' = Ending
    BY <1>1 DEF Ending
  <1> QED
    BY <1>2 DEF EndsInv, EndsOnce, Ending

\* A stop: whoever finds the session active, and nobody else, owes its end.
LEMMA StopEnds ==
    ASSUME TypeOK, EndsInv, NEW x \in Procs, NEW after \in Afters \union {"dead"},
           pc[x] \in {"stop", "autostop"}, StopSection(x, after)
    PROVE  EndsInv'
  <1>1. pc[x] \notin EndingPcs /\ after \notin EndingPcs
    BY DEF EndingPcs, Afters
  <1>2. CASE ~reading_active
    BY <1>1, <1>2, EndingKept DEF StopSection, session, history
  <1>3. CASE reading_active
    <2>1. PICK place \in EndingPcs : Goto(x, place)
      BY <1>3 DEF StopSection, CloseSession, EndingPcs
    <2>2. reading_active' = FALSE /\ owed' = owed
      BY <1>3 DEF StopSection, CloseSession, history
    <2>3. Ending' = Ending \union {x} /\ x \notin Ending
      BY <1>1, <2>1 DEF Ending, TypeOK, Goto
    <2>4. IsFiniteSet(Ending) /\ owed = Cardinality(Ending) + 1
      BY <1>3 DEF EndsInv, EndsOnce, Ending
    <2>5. IsFiniteSet(Ending') /\ Cardinality(Ending') = Cardinality(Ending) + 1
      BY <2>3, <2>4, FS_AddElement
    <2>6. Cardinality(Ending') = owed' /\ Cardinality(Ending') \in Nat
      BY <2>2, <2>4, <2>5, FS_CardinalityType
    <2> QED
      BY <2>2, <2>5, <2>6 DEF EndsInv, EndsOnce, Ending
  <1> QED
    BY <1>2, <1>3

\* on_motion_completed: one who owes it pays it.
LEMMA NotifyPays ==
    ASSUME TypeOK, EndsInv, NEW x \in Procs, NEW after \in Afters \union {"dead"},
           NotifyCompleted(x, after)
    PROVE  EndsInv'
  <1>1. /\ x \in Ending /\ after \notin EndingPcs /\ Goto(x, after)
        /\ owed' = owed - 1 /\ reading_active' = reading_active
    BY DEF NotifyCompleted, Ending, EndingPcs, Afters, session
  <1>2. Ending' = Ending \ {x}
    BY <1>1 DEF Ending, TypeOK, Goto
  <1>3. IsFiniteSet(Ending') /\ Cardinality(Ending') = Cardinality(Ending) - 1
    BY <1>1, <1>2, FS_RemoveElement DEF EndsInv
  <1>4. Cardinality(Ending) \in Nat
    BY FS_CardinalityType DEF EndsInv
  <1>5. owed = Cardinality(Ending) + (IF reading_active THEN 1 ELSE 0)
    BY DEF EndsInv, EndsOnce, Ending
  <1>6. owed' = Cardinality(Ending') + (IF reading_active' THEN 1 ELSE 0)
    BY <1>1, <1>3, <1>4, <1>5
  <1> QED
    BY <1>3, <1>6 DEF EndsInv, EndsOnce, Ending

\* A start: a session that is refreshed in place is not counted again.
LEMMA StartOwes ==
    ASSUME TypeOK, EndsInv, NEW c \in Clients, NEW auto \in BOOLEAN, Start(c, auto)
    PROVE  EndsInv'
  <1> c \in Procs /\ Threads \subseteq Procs /\ pc[c] = "start"
    BY DEF Procs, Start
  <1>1. CASE RefreshSession(auto) /\ Goto(c, "idle")
    BY <1>1, EndingKept DEF RefreshSession, EndingPcs
  <1>2. ASSUME NEW t \in Threads, OpenSession(auto, t),
               pc' = [pc EXCEPT ![c] = "idle", ![t] = "loop"]
        PROVE  EndsInv'
    <2>1. pc[t] = "dead" /\ ~reading_active /\ reading_active' = TRUE /\ owed' = owed + 1
      BY <1>2 DEF OpenSession, FreeThread
    <2>2. \A y \in Procs : pc'[y] \in EndingPcs <=> pc[y] \in EndingPcs
      BY <1>2, <2>1 DEF TypeOK, EndingPcs
    <2>3. Ending' = Ending
      BY <2>2 DEF Ending
    <2>4. Cardinality(Ending) \in Nat /\ owed = Cardinality(Ending) + 0
      BY <2>1, FS_CardinalityType DEF EndsInv, EndsOnce, Ending
    <2>5. owed' = Cardinality(Ending') + (IF reading_active' THEN 1 ELSE 0)
      BY <2>1, <2>3, <2>4
    <2> QED
      BY <2>3, <2>5 DEF EndsInv, EndsOnce, Ending
  <1> QED
    BY <1>1, <1>2 DEF Start

\* EndsInv is inductive.
LEMMA NextEndsInv ==
    ASSUME TypeOK, EndsInv, [Next]_vars PROVE EndsInv'
  <1> USE DEF session, counters, local, history
  <1> Clients \subseteq Procs /\ Threads \subseteq Procs
    BY DEF Procs
  <1>1. ASSUME NEW c \in Clients, NEW operation \in {"start", "stop", "status"},
               ClientCalls(c, operation)
        PROVE  EndsInv'
    BY <1>1, EndingKept DEF ClientCalls, EndingPcs
  <1>2. ASSUME NEW x \in Procs, JoinReturns(x) PROVE EndsInv'
    BY <1>2, EndingKept DEF JoinReturns, EndingPcs
  <1>3. ASSUME NEW c \in Clients, QuitTestMode(c) PROVE EndsInv'
    BY <1>3, EndingKept DEF QuitTestMode, EndingPcs
  <1>4. ASSUME NEW x \in Procs, NEW from \in {"status", "loop"}, NEW to \in {"holding", "reading"},
               TakeLock(x, from, to)
        PROVE  EndsInv'
    BY <1>4, EndingKept DEF TakeLock, EndingPcs
  <1>5. ASSUME NEW x \in Procs, NEW from \in {"holding", "reading"},
               NEW to \in {"idle", "update", "loop"}, ReleaseLock(x, from, to)
        PROVE  EndsInv'
    BY <1>5, EndingKept DEF ReleaseLock, EndingPcs
  <1>6. ASSUME NEW c \in Clients, Disconnect(c) PROVE EndsInv'
    BY <1>6 DEF Disconnect, EndsInv, EndsOnce, Ending
  <1>7. ASSUME NEW t \in Threads,
               \/ LoopTest(t) \/ Update(t) \/ CountMotion(t) \/ LoadStill(t) \/ StoreStill(t)
               \/ Decide(t) \/ CrossCheck(t)
        PROVE  EndsInv'
    <2>1. /\ UNCHANGED <<owed, reading_active>> /\ pc[t] \notin EndingPcs
          /\ \E place : Goto(t, place) /\ place \notin EndingPcs
      BY <1>7 DEF LoopTest, Update, CountMotion, LoadStill, StoreStill, Decide, CrossCheck,
                  EndingPcs
    <2> QED
      BY <2>1, EndingKept
  <1>8. CASE UNCHANGED vars
    BY <1>8 DEF vars, EndsInv, EndsOnce, Ending
  <1>9. CASE Next
    BY ONLY <1>9, <1>1, <1>2, <1>3, <1>4, <1>5, <1>6, <1>7, StartOwes, StopEnds, NotifyPays,
       TypeOK, EndsInv
       DEF Next, ClientStep, ClientStop, PollStep, EndRead, BeginRead, AutoStop, Procs
  <1> QED
    BY <1>8, <1>9

\* However commands of several threads and the automatic stop meet, and with any
\* number of them, every session that was opened is ended once.
THEOREM SessionEndsOnce == Spec => []EndsOnce
  <1>1. Init => EndsInv
    <2> SUFFICES ASSUME Init PROVE EndsInv
      OBVIOUS
    <2>1. Ending = {}
      BY DEF Init, Ending, EndingPcs
    <2> QED
      BY <2>1, FS_EmptySet DEF Init, EndsInv, EndsOnce, Ending
  <1>2. TypeOK /\ EndsInv /\ [Next]_vars => EndsInv'
    BY NextEndsInv
  <1>3. EndsInv => EndsOnce
    BY DEF EndsInv
  <1> QED
    BY <1>1, <1>2, <1>3, SessionTypeOK, PTL DEF Spec
=============================================================================
