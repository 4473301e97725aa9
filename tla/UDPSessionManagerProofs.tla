---------------------- MODULE UDPSessionManagerProofs ----------------------
(***************************************************************************)
(* The safety properties of UDPSessionManager hold for any number of       *)
(* session IDs, sessions and any cap.  The proof is one inductive          *)
(* invariant, in parts that follow the data each lock guards:              *)
(*   MapInv     the map and the allocated entries (m.mutex)                *)
(*   CloseInv   closed, the socket and the progress of ExitFunc (connLock) *)
(*   RunInv     what Run knows at each control point                       *)
(*   CapInv     the number of mapped sessions and Run's admission check    *)
(*   IdleInv    the cleanup flag, its goroutine and the sessions it serves *)
(***************************************************************************)
EXTENDS UDPSessionManager, FiniteSetTheorems, TLAPS

Allocated(e) == idOf[e] # NoID

\* The map sends an ID to the one entry allocated for it that ExitFunc has not
\* removed yet, so the identity test in ExitFunc never fails.
MapInv ==
    /\ \A s \in SessionIDs : m[s] # NoEntry => idOf[m[s]] = s
    /\ \A e \in Entries : Allocated(e) => (m[idOf[e]] = e <=> exit[e] # "done")

\* The first CloseWithErr is the one that runs ExitFunc, and nothing happens
\* to an entry before its allocation.
CloseInv ==
    /\ \A e \in Entries :
          /\ closed[e] <=> exit[e] # "no"
          /\ closeEvents[e] = IF exit[e] \in {"remove", "done"} THEN 1 ELSE 0
          /\ conn[e] = "open" => ~closed[e]
          /\ ~Allocated(e) =>
                /\ exit[e] = "no" /\ conn[e] = "nil" /\ loop[e] = "none"
                /\ e \notin todo["run"] /\ e \notin todo["idle"]
          /\ conn[e] = "nil" => loop[e] = "none"

\* What Run may rely on: the session it feeds is allocated, it has no socket
\* while it is dialled, and it cannot be closed while connLock is held.  After
\* the exit snapshot every session is closed or still on Run's list.
RunInv ==
    /\ runPC = "start" <=> stopCh = "nil"
    /\ runPC = "done" <=> stopCh = "closed"
    /\ runPC = "start" => \A e \in Entries : ~Allocated(e)
    /\ runEntry # NoEntry => Allocated(runEntry)
    /\ runPC \in {"init", "hook", "udp", "dialfail"} => conn[runEntry] = "nil"
    /\ runPC \in {"hook", "udp"} => ~closed[runEntry]
    /\ runPC = "drain" =>
          \A e \in Entries : Allocated(e) => closed[e] \/ e \in todo["run"]
    /\ runPC = "done" => \A e \in Entries : Allocated(e) => closed[e]

\* eventLogger.New has been called only for a session whose dial has begun.
EventInv ==
    \A e \in Entries :
       newEvents[e] # 0 =>
          \/ conn[e] # "nil" \/ closed[e]
          \/ runEntry = e /\ runPC \in {"udp", "dialfail"}

CapInv ==
    /\ Cardinality(Mapped) <= MaxSessions
    /\ BilledIsAdmitted

IdleInv == CleanupWatchesSessions

IInv == TypeOK /\ MapInv /\ CloseInv /\ RunInv /\ EventInv /\ CapInv /\ IdleInv

-----------------------------------------------------------------------------
(* Type correctness *)

\* The values of the map are entries, never nil.
LEMMA SessionsAreEntries == TypeOK => Sessions \subseteq Entries
  BY DEF TypeOK, Sessions, Mapped

\* CloseWithErr keeps the types of what connLock guards.
LEMMA CloseTypes ==
    ASSUME TypeOK, NEW e \in Entries, NEW who \in {"run", "idle", "loop"},
           CloseWithErr(e, who)
    PROVE  /\ closed' \in [Entries -> BOOLEAN]
           /\ conn' \in [Entries -> {"nil", "open", "shut"}]
           /\ exit' \in [Entries -> {"no", "log", "remove", "done"}]
           /\ closer' \in [Entries -> {"none", "run", "idle", "loop"}]
<1>1. CASE IsClosed(e)
  BY <1>1 DEF CloseWithErr, TypeOK
<1>2. CASE ~IsClosed(e)
  <2>1. closed' \in [Entries -> BOOLEAN] /\ exit' \in [Entries -> {"no", "log", "remove", "done"}]
    BY <1>2 DEF CloseWithErr, TypeOK
  <2>2. conn' \in [Entries -> {"nil", "open", "shut"}]
    BY <1>2 DEF CloseWithErr, TypeOK
  <2>3. closer' \in [Entries -> {"none", "run", "idle", "loop"}]
    BY <1>2 DEF CloseWithErr, TypeOK
  <2> QED
    BY <2>1, <2>2, <2>3
<1> QED
  BY <1>1, <1>2

\* Every step of the manager's goroutines keeps the types: the list a cleanup
\* works from holds entries only, and Run has an entry wherever it uses one.
LEMMA TypeStep == TypeOK /\ [Next]_vars => TypeOK'
<1> SUFFICES ASSUME TypeOK, [Next]_vars PROVE TypeOK'
  OBVIOUS
<1> USE NoEntryAssumption, NoIDAssumption
    DEF TypeOK, PCs, runVars, mapVars, sessionVars, idleVars, eventVars
<1>1. CASE RunStart
  BY <1>1 DEF RunStart
<1>2. ASSUME NEW s \in SessionIDs, ReceiveMessage(s) PROVE TypeOK'
  BY <1>2 DEF ReceiveMessage
<1>3. ASSUME NEW s \in SessionIDs, ReceiveDisconnect(s) PROVE TypeOK'
  BY <1>3 DEF ReceiveDisconnect
<1>4. CASE ReceiveError
  BY <1>4 DEF ReceiveError
<1>5. ASSUME NEW e \in Entries, Feed(e) PROVE TypeOK'
  <2>1. CASE m[runID] = e
    BY <1>5, <2>1 DEF Feed, Fresh
  <2>2. CASE m[runID] # e /\ Cardinality(Mapped) >= MaxSessions
    BY <1>5, <2>2 DEF Feed
  <2>3. CASE m[runID] # e /\ ~(Cardinality(Mapped) >= MaxSessions)
    <3>1. /\ m' \in [SessionIDs -> Entries \cup {NoEntry}]
          /\ idOf' \in [Entries -> SessionIDs \cup {NoID}]
          /\ runEntry' \in Entries /\ runPC' = "session"
      BY <1>5, <2>3 DEF Feed
    <3>2. cleanupRunning' \in BOOLEAN /\ idlePC' \in {"off", "select", "closing"}
      BY <1>5, <2>3 DEF Feed, StartIdleCleanupLocked
    <3>3. UNCHANGED <<quicOpen, stopCh, runID, sessionVars, expired, todo, eventVars>>
      BY <1>5 DEF Feed
    <3> QED
      BY <3>1, <3>2, <3>3
  <2> QED
    BY <2>1, <2>2, <2>3
<1>6. CASE EntryFeed
  BY <1>6 DEF EntryFeed
<1>7. CASE InitConnLock
  BY <1>7 DEF InitConnLock, IsClosed
<1>8. CASE DialHook
  BY <1>8 DEF DialHook
<1>9. CASE DialUDP
  BY <1>9 DEF DialUDP
<1>10. CASE DialFailed
  BY <1>10, CloseTypes DEF DialFailed
<1>11. CASE RunSnapshot
  BY <1>11, SessionsAreEntries DEF RunSnapshot
<1>12. CASE RunReturn
  BY <1>12 DEF RunReturn
<1>13. ASSUME NEW e \in Entries, RunClose(e) PROVE TypeOK'
  BY <1>13, CloseTypes DEF RunClose
<1>14. ASSUME NEW e \in Entries, ExitLog(e) PROVE TypeOK'
  BY <1>14 DEF ExitLog
<1>15. ASSUME NEW e \in Entries, ExitRemove(e) PROVE TypeOK'
  BY <1>15, ZenonT(40) DEF ExitRemove
<1>16. ASSUME NEW e \in Entries, LoopRead(e) PROVE TypeOK'
  BY <1>16 DEF LoopRead
<1>17. ASSUME NEW e \in Entries, LoopReadError(e) PROVE TypeOK'
  BY <1>17 DEF LoopReadError
<1>18. ASSUME NEW e \in Entries, LoopSend(e) PROVE TypeOK'
  BY <1>18 DEF LoopSend
<1>19. ASSUME NEW e \in Entries, LoopSendError(e) PROVE TypeOK'
  <2>1. quicOpen' \in BOOLEAN
    BY <1>19 DEF LoopSendError
  <2> QED
    BY <1>19, <2>1 DEF LoopSendError
<1>20. ASSUME NEW e \in Entries, LoopClose(e) PROVE TypeOK'
  BY <1>20, CloseTypes DEF LoopClose
<1>21. ASSUME NEW e \in Entries, IdleClose(e) PROVE TypeOK'
  BY <1>21, CloseTypes DEF IdleClose
<1>22. ASSUME NEW e \in Entries, BecomeIdle(e) PROVE TypeOK'
  BY <1>22 DEF BecomeIdle
<1>23. CASE IdleTick
  BY <1>23, SessionsAreEntries DEF IdleTick
<1>24. CASE IdleCheck
  BY <1>24, ZenonT(40) DEF IdleCheck
<1>25. CASE IdleStop
  BY <1>25 DEF IdleStop
<1>26. CASE QuicClose
  BY <1>26, ZenonT(40) DEF QuicClose
<1>27. CASE Finished
  BY <1>27 DEF Finished, vars
<1>28. CASE UNCHANGED vars
  BY <1>28 DEF vars
<1> HIDE DEF TypeOK, PCs
<1> QED
  BY <1>1, <1>2, <1>3, <1>4, <1>5, <1>6, <1>7, <1>8, <1>9, <1>10, <1>11,
     <1>12, <1>13, <1>14, <1>15, <1>16, <1>17, <1>18, <1>19, <1>20, <1>21,
     <1>22, <1>23, <1>24, <1>25, <1>26, <1>27, <1>28 DEF Next

\* The initial state has the types.
LEMMA TypeInit == Init => TypeOK
<1> SUFFICES ASSUME Init PROVE TypeOK
  OBVIOUS
<1>1. todo \in [{"run", "idle"} -> SUBSET Entries]
  BY DEF Init
<1>2. quicOpen \in BOOLEAN /\ cleanupRunning \in BOOLEAN /\ closed \in [Entries -> BOOLEAN]
  BY DEF Init
<1>3. newEvents \in [Entries -> Nat] /\ closeEvents \in [Entries -> Nat]
  BY DEF Init
<1>4. /\ m \in [SessionIDs -> Entries \cup {NoEntry}]
      /\ idOf \in [Entries -> SessionIDs \cup {NoID}]
  BY DEF Init
<1>5. /\ conn \in [Entries -> {"nil", "open", "shut"}]
      /\ loop \in [Entries -> {"none", "read", "send", "fail", "done"}]
      /\ exit \in [Entries -> {"no", "log", "remove", "done"}]
      /\ closer \in [Entries -> {"none", "run", "idle", "loop"}]
  BY DEF Init
<1> QED
  BY <1>1, <1>2, <1>3, <1>4, <1>5 DEF Init, TypeOK, PCs

\* Type correctness of the session manager.
THEOREM TypeCorrect == Spec => []TypeOK
  BY TypeInit, TypeStep, PTL DEF Spec

-----------------------------------------------------------------------------
(* The effect of the shared critical sections *)

\* CloseWithErr, pointwise: whoever calls it, afterwards e is closed and has no
\* open socket, ExitFunc has begun, and no other session is touched.
LEMMA CloseEffect ==
    ASSUME TypeOK, CloseInv, NEW e \in Entries,
           NEW who \in {"run", "idle", "loop"}, CloseWithErr(e, who)
    PROVE  /\ closed'[e] = TRUE
           /\ exit'[e] = IF closed[e] THEN exit[e] ELSE "log"
           /\ conn'[e] = IF conn[e] = "open" THEN "shut" ELSE conn[e]
           /\ \A x \in Entries \ {e} :
                 closed'[x] = closed[x] /\ exit'[x] = exit[x] /\ conn'[x] = conn[x]
<1>1. CASE closed[e]
  BY <1>1 DEF CloseWithErr, IsClosed, TypeOK, CloseInv
<1>2. CASE ~closed[e]
  BY <1>2 DEF CloseWithErr, IsClosed, TypeOK, CloseInv
<1> QED
  BY <1>1, <1>2

\* Only feed adds a session to the map and only ExitFunc removes one; no other
\* step changes the map, the allocations, or which ExitFuncs have finished.
LEMMA MapFrame ==
    ASSUME TypeOK, CloseInv, [Next]_vars,
           ~(\E e \in Entries : Feed(e)), ~(\E e \in Entries : ExitRemove(e))
    PROVE  /\ UNCHANGED <<m, idOf>>
           /\ \A x \in Entries : exit'[x] # "done" <=> exit[x] # "done"
<1> DEFINE Quiet == UNCHANGED <<m, idOf, exit>>
<1>1. CASE Quiet
  BY <1>1
<1>2. ASSUME NEW e \in Entries, ExitLog(e)
      PROVE  UNCHANGED <<m, idOf>> /\ \A x \in Entries : exit'[x] # "done" <=> exit[x] # "done"
  BY <1>2 DEF ExitLog, mapVars, TypeOK
<1>3. ASSUME NEW e \in Entries, NEW who \in {"run", "idle", "loop"},
             CloseWithErr(e, who), UNCHANGED mapVars
      PROVE  UNCHANGED <<m, idOf>> /\ \A x \in Entries : exit'[x] # "done" <=> exit[x] # "done"
  <2>1. \A x \in Entries : exit'[x] = exit[x] \/ (exit'[x] = "log" /\ ~closed[x])
    BY <1>3, CloseEffect
  <2> QED
    BY <1>3, <2>1 DEF mapVars, CloseInv, TypeOK
<1>4. CASE DialFailed
  BY <1>3, <1>4 DEF DialFailed, TypeOK
<1>5. ASSUME NEW e \in Entries, RunClose(e) \/ LoopClose(e) \/ IdleClose(e)
      PROVE  UNCHANGED <<m, idOf>> /\ \A x \in Entries : exit'[x] # "done" <=> exit[x] # "done"
  BY <1>3, <1>5 DEF RunClose, LoopClose, IdleClose
<1>6. ASSUME Next PROVE Quiet \/ DialFailed \/ \E e \in Entries :
                           ExitLog(e) \/ RunClose(e) \/ LoopClose(e) \/ IdleClose(e)
  BY <1>6 DEF Next, RunStart, ReceiveMessage, ReceiveDisconnect, ReceiveError, EntryFeed,
     InitConnLock, DialHook, DialUDP, RunSnapshot, RunReturn, LoopRead, LoopReadError,
     LoopSend, LoopSendError, BecomeIdle, IdleTick, IdleCheck, IdleStop, QuicClose,
     Finished, vars, mapVars, sessionVars
<1>7. CASE UNCHANGED vars
  BY <1>1, <1>7 DEF vars, mapVars, sessionVars
<1> HIDE DEF Quiet
<1> QED
  BY <1>1, <1>2, <1>4, <1>5, <1>6, <1>7

\* feed either looks a session up, drops the datagram, or allocates.
LEMMA FeedCases ==
    ASSUME TypeOK, NEW e \in Entries, Feed(e)
    PROVE  /\ runID \in SessionIDs
           /\ UNCHANGED <<quicOpen, stopCh, runID, closed, conn, loop, exit, closer,
                          expired, todo, newEvents, closeEvents>>
           /\ \/ UNCHANGED <<m, idOf, cleanupRunning, idlePC>>
                 /\ \/ m[runID] = e /\ runEntry' = e /\ runPC' = "session"
                    \/ runPC' = "recv" /\ runEntry' = runEntry
              \/ /\ m[runID] = NoEntry /\ idOf[e] = NoID
                 /\ ~(Cardinality(Mapped) >= MaxSessions)
                 /\ m' = [m EXCEPT ![runID] = e]
                 /\ idOf' = [idOf EXCEPT ![e] = runID]
                 /\ runEntry' = e /\ runPC' = "session"
                 /\ StartIdleCleanupLocked
  BY NoEntryAssumption DEF Feed, Fresh, TypeOK, mapVars, sessionVars, idleVars, eventVars

-----------------------------------------------------------------------------
(* The map *)

\* The map and the allocated entries stay in correspondence: an ID belongs to
\* the one session allocated for it that has not finished its ExitFunc.
LEMMA MapStep ==
    ASSUME TypeOK, TypeOK', MapInv, CloseInv, [Next]_vars
    PROVE  MapInv'
<1>1. ASSUME NEW e \in Entries, Feed(e) PROVE MapInv'
  <2>1. CASE UNCHANGED <<m, idOf>>
    BY <1>1, <2>1, FeedCases DEF MapInv, Allocated
  <2>2. CASE ~UNCHANGED <<m, idOf>>
    <3>1. /\ m[runID] = NoEntry /\ idOf[e] = NoID /\ runID \in SessionIDs
          /\ m' = [m EXCEPT ![runID] = e]
          /\ idOf' = [idOf EXCEPT ![e] = runID]
          /\ exit' = exit
      BY <1>1, <2>2, FeedCases
    <3>2. exit[e] = "no"
      BY <3>1 DEF CloseInv, Allocated
    <3>3. ASSUME NEW s \in SessionIDs, m'[s] # NoEntry PROVE idOf'[m'[s]] = s
      <4>1. CASE s = runID
        BY <3>1, <4>1 DEF TypeOK
      <4>2. CASE s # runID
        BY <3>1, <3>3, <4>2, NoIDAssumption DEF TypeOK, MapInv
      <4> QED
        BY <4>1, <4>2
    <3>4. ASSUME NEW x \in Entries, Allocated(x)'
          PROVE  m'[idOf'[x]] = x <=> exit'[x] # "done"
      <4>1. CASE x = e
        BY <3>1, <3>2, <4>1 DEF TypeOK
      <4>2. CASE x # e
        <5>1. idOf'[x] = idOf[x] /\ idOf[x] \in SessionIDs /\ Allocated(x)
          BY <3>1, <3>4, <4>2 DEF TypeOK, Allocated
        <5>2. m[idOf[x]] = x <=> exit[x] # "done"
          BY <5>1 DEF MapInv
        <5>3. CASE idOf[x] = runID
          BY <3>1, <4>2, <5>1, <5>2, <5>3, NoEntryAssumption DEF TypeOK
        <5>4. CASE idOf[x] # runID
          BY <3>1, <5>1, <5>2, <5>4 DEF TypeOK
        <5> QED
          BY <5>3, <5>4
      <4> QED
        BY <4>1, <4>2
    <3> QED
      BY <3>3, <3>4 DEF MapInv
  <2> QED
    BY <2>1, <2>2
<1>2. ASSUME NEW e \in Entries, ExitRemove(e) PROVE MapInv'
  <2>1. Allocated(e) /\ idOf[e] \in SessionIDs /\ m[idOf[e]] = e
    BY <1>2 DEF ExitRemove, CloseInv, Allocated, TypeOK, MapInv
  <2>2. /\ m' = [m EXCEPT ![idOf[e]] = NoEntry]
        /\ exit' = [exit EXCEPT ![e] = "done"]
        /\ idOf' = idOf
    BY <1>2, <2>1 DEF ExitRemove
  <2>3. ASSUME NEW s \in SessionIDs, m'[s] # NoEntry PROVE idOf'[m'[s]] = s
    BY <2>1, <2>2, <2>3 DEF MapInv, TypeOK
  <2>4. ASSUME NEW x \in Entries, Allocated(x)'
        PROVE  m'[idOf'[x]] = x <=> exit'[x] # "done"
    <3>1. CASE x = e
      BY <2>1, <2>2, <3>1, NoEntryAssumption DEF TypeOK
    <3>2. CASE x # e
      <4>1. idOf'[x] = idOf[x] /\ idOf[x] \in SessionIDs /\ exit'[x] = exit[x]
        BY <2>2, <2>4, <3>2 DEF TypeOK, Allocated
      <4>2. m[idOf[x]] = x <=> exit[x] # "done"
        BY <2>2, <2>4 DEF MapInv, Allocated
      <4> QED
        BY <2>1, <2>2, <3>2, <4>1, <4>2, NoEntryAssumption DEF TypeOK
    <3> QED
      BY <3>1, <3>2
  <2> QED
    BY <2>3, <2>4 DEF MapInv
<1>3. CASE ~(\E e \in Entries : Feed(e)) /\ ~(\E e \in Entries : ExitRemove(e))
  BY <1>3, MapFrame DEF MapInv, Allocated
<1> QED
  BY <1>1, <1>2, <1>3

-----------------------------------------------------------------------------
(* Sessions, their sockets and their ExitFunc *)

\* What cleanup collects has been allocated.
LEMMA SessionsAllocated ==
    ASSUME TypeOK, MapInv, NEW e \in Sessions
    PROVE  e \in Entries /\ Allocated(e)
  BY NoIDAssumption, NoEntryAssumption DEF Sessions, Mapped, MapInv, TypeOK, Allocated

\* A caller of CloseWithErr that changes nothing else of the session but the
\* state of its receive loop keeps CloseInv.
LEMMA CloseKeepsCloseInv ==
    ASSUME TypeOK, CloseInv, NEW e \in Entries, Allocated(e),
           NEW who \in {"run", "idle", "loop"}, CloseWithErr(e, who),
           UNCHANGED <<idOf, closeEvents>>,
           UNCHANGED loop \/ (conn[e] # "nil" /\ loop' = [loop EXCEPT ![e] = "done"]),
           \A x \in Entries : x \in todo'["run"] => x \in todo["run"],
           \A x \in Entries : x \in todo'["idle"] => x \in todo["idle"]
    PROVE  CloseInv'
<1> SUFFICES ASSUME NEW x \in Entries
             PROVE  /\ closed'[x] <=> exit'[x] # "no"
                    /\ closeEvents'[x] = IF exit'[x] \in {"remove", "done"} THEN 1 ELSE 0
                    /\ conn'[x] = "open" => ~closed'[x]
                    /\ ~Allocated(x)' =>
                          /\ exit'[x] = "no" /\ conn'[x] = "nil" /\ loop'[x] = "none"
                          /\ x \notin todo'["run"] /\ x \notin todo'["idle"]
                    /\ conn'[x] = "nil" => loop'[x] = "none"
  BY DEF CloseInv
<1>1. /\ x = e => /\ closed'[x] = TRUE
                  /\ exit'[x] = IF closed[x] THEN exit[x] ELSE "log"
                  /\ conn'[x] = IF conn[x] = "open" THEN "shut" ELSE conn[x]
      /\ x # e => closed'[x] = closed[x] /\ exit'[x] = exit[x] /\ conn'[x] = conn[x]
  BY CloseEffect
<1>2. Allocated(x)' <=> Allocated(x)
  BY DEF Allocated
<1>3. loop'[x] = loop[x] \/ (x = e /\ conn[x] # "nil")
  BY DEF TypeOK
<1>4. /\ closed[x] <=> exit[x] # "no"
      /\ closeEvents[x] = IF exit[x] \in {"remove", "done"} THEN 1 ELSE 0
      /\ conn[x] = "open" => ~closed[x]
      /\ ~Allocated(x) =>
            /\ exit[x] = "no" /\ conn[x] = "nil" /\ loop[x] = "none"
            /\ x \notin todo["run"] /\ x \notin todo["idle"]
      /\ conn[x] = "nil" => loop[x] = "none"
  BY DEF CloseInv
<1>5. CASE x = e
  BY <1>1, <1>2, <1>3, <1>4, <1>5
<1>6. CASE x # e
  BY <1>1, <1>2, <1>3, <1>4, <1>6
<1> QED
  BY <1>5, <1>6

\* No step opens a closed session, runs ExitFunc twice or touches an entry
\* that feed has not allocated.
LEMMA CloseStep ==
    ASSUME TypeOK, TypeOK', MapInv, CloseInv, RunInv, [Next]_vars
    PROVE  CloseInv'
<1> DEFINE Quiet == UNCHANGED <<closed, exit, closeEvents, conn, loop, idOf, todo>>
<1>1. CASE Quiet
  BY <1>1 DEF CloseInv, Allocated
<1>2. ASSUME NEW e \in Entries, Feed(e) PROVE CloseInv'
  <2>1. UNCHANGED <<closed, conn, loop, exit, todo, closeEvents>>
    BY <1>2, FeedCases
  <2>2. \A x \in Entries : ~Allocated(x)' => ~Allocated(x)
    BY <1>2, FeedCases DEF Allocated, TypeOK
  <2> QED
    BY <2>1, <2>2 DEF CloseInv
<1>3. ASSUME NEW e \in Entries, ExitLog(e) PROVE CloseInv'
  BY <1>3 DEF ExitLog, CloseInv, Allocated, TypeOK, mapVars
<1>4. ASSUME NEW e \in Entries, ExitRemove(e) PROVE CloseInv'
  BY <1>4 DEF ExitRemove, CloseInv, Allocated, TypeOK, eventVars
<1>5. CASE DialFailed
  <2>1. runEntry \in Entries /\ Allocated(runEntry)
    BY <1>5, NoEntryAssumption DEF DialFailed, TypeOK, RunInv
  <2> QED
    BY <1>5, <2>1, CloseKeepsCloseInv DEF DialFailed, mapVars, eventVars
<1>6. ASSUME NEW e \in Entries, RunClose(e) \/ IdleClose(e) PROVE CloseInv'
  <2>1. Allocated(e)
    BY <1>6 DEF RunClose, IdleClose, CloseInv
  <2>2. UNCHANGED <<idOf, closeEvents, loop>>
    BY <1>6 DEF RunClose, IdleClose, mapVars, eventVars
  <2>3. \A x \in Entries : /\ x \in todo'["run"] => x \in todo["run"]
                           /\ x \in todo'["idle"] => x \in todo["idle"]
    BY <1>6 DEF RunClose, IdleClose, TypeOK
  <2>4. CloseWithErr(e, "run") \/ CloseWithErr(e, "idle")
    BY <1>6 DEF RunClose, IdleClose
  <2> QED
    BY <2>1, <2>2, <2>3, <2>4, CloseKeepsCloseInv
<1>7. ASSUME NEW e \in Entries, LoopClose(e) PROVE CloseInv'
  <2>1. Allocated(e) /\ conn[e] # "nil"
    BY <1>7 DEF LoopClose, CloseInv
  <2> QED
    BY <1>7, <2>1, CloseKeepsCloseInv DEF LoopClose, mapVars, eventVars
<1>8. CASE DialUDP
  <2>1. runEntry \in Entries /\ Allocated(runEntry) /\ ~closed[runEntry]
    BY <1>8, NoEntryAssumption DEF DialUDP, TypeOK, RunInv
  <2> QED
    BY <1>8, <2>1 DEF DialUDP, CloseInv, Allocated, TypeOK, mapVars, eventVars
<1>9. CASE RunSnapshot \/ IdleTick
  <2>1. UNCHANGED <<closed, exit, closeEvents, conn, loop, idOf>>
    BY <1>9 DEF RunSnapshot, IdleTick, mapVars, sessionVars, eventVars
  <2>2. \A x \in Entries : ~Allocated(x) => x \notin Sessions
    BY SessionsAllocated
  <2>3. \A x \in Entries : ~Allocated(x) => x \notin todo'["run"] /\ x \notin todo'["idle"]
    BY <1>9, <2>2 DEF RunSnapshot, IdleTick, CloseInv, TypeOK
  <2> QED
    BY <2>1, <2>3 DEF CloseInv, Allocated
<1>10. ASSUME NEW e \in Entries,
              LoopRead(e) \/ LoopReadError(e) \/ LoopSend(e) \/ LoopSendError(e)
       PROVE  CloseInv'
  <2>1. UNCHANGED <<closed, exit, closeEvents, conn, idOf, todo>>
    BY <1>10 DEF LoopRead, LoopReadError, LoopSend, LoopSendError, mapVars, eventVars
  <2>2. conn[e] # "nil" /\ Allocated(e)
    BY <1>10 DEF LoopRead, LoopReadError, LoopSend, LoopSendError, CloseInv
  <2>3. \A x \in Entries \ {e} : loop'[x] = loop[x]
    BY <1>10, ZenonT(40) DEF LoopRead, LoopReadError, LoopSend, LoopSendError, TypeOK
  <2> QED
    BY <2>1, <2>2, <2>3 DEF CloseInv, Allocated
<1>11. ASSUME Next
       PROVE  Quiet \/ DialFailed \/ DialUDP \/ RunSnapshot \/ IdleTick \/ \E e \in Entries :
                 \/ Feed(e) \/ ExitLog(e) \/ ExitRemove(e) \/ RunClose(e) \/ LoopClose(e)
                 \/ IdleClose(e) \/ LoopRead(e) \/ LoopReadError(e) \/ LoopSend(e)
                 \/ LoopSendError(e)
  BY <1>11 DEF Next, RunStart, ReceiveMessage, ReceiveDisconnect, ReceiveError, EntryFeed,
     InitConnLock, DialHook, RunReturn, BecomeIdle, IdleCheck, IdleStop, QuicClose,
     Finished, vars, mapVars, sessionVars, eventVars
<1>12. CASE UNCHANGED vars
  BY <1>1, <1>12 DEF vars, mapVars, sessionVars, eventVars
<1> HIDE DEF Quiet
<1> QED
  BY <1>1, <1>2, <1>3, <1>4, <1>5, <1>6, <1>7, <1>8, <1>9, <1>10, <1>11, <1>12

-----------------------------------------------------------------------------
(* What Run relies on *)

\* A close by another goroutine disturbs nothing Run relies on: connLock keeps
\* it out while a session is dialled, and it only adds closed sessions.
LEMMA OthersKeepRunInv ==
    ASSUME TypeOK, CloseInv, RunInv, UNCHANGED <<runPC, runEntry, stopCh, idOf>>,
           todo'["run"] = todo["run"],
           \/ UNCHANGED <<closed, conn>>
           \/ \E e \in Entries, who \in {"run", "idle", "loop"} : CloseWithErr(e, who)
    PROVE  RunInv'
<1>1. CASE UNCHANGED <<closed, conn>>
  BY <1>1 DEF RunInv, Allocated
<1>2. ASSUME NEW e \in Entries, NEW who \in {"run", "idle", "loop"}, CloseWithErr(e, who)
      PROVE  RunInv'
  <2>1. \A x \in Entries : closed[x] => closed'[x]
    BY <1>2, CloseEffect
  <2>2. \A x \in Entries : conn[x] = "nil" => conn'[x] = "nil"
    BY <1>2, CloseEffect
  <2>3. \A x \in Entries \ {e} : closed'[x] = closed[x]
    BY <1>2, CloseEffect
  <2>4. runPC \in {"hook", "udp"} => runEntry # e
    BY <1>2 DEF CloseWithErr, ConnLocked
  <2>5. runPC \in {"init", "hook", "udp", "dialfail"} => runEntry \in Entries
    BY DEF TypeOK
  <2> QED
    BY <2>1, <2>2, <2>3, <2>4, <2>5 DEF RunInv, Allocated
<1> QED
  BY <1>1, <1>2

\* At every control point Run's knowledge about its session is right, and its
\* exit path leaves no session behind.
LEMMA RunStep ==
    ASSUME TypeOK, TypeOK', MapInv, CloseInv, RunInv, [Next]_vars
    PROVE  RunInv'
<1> USE NoEntryAssumption DEF TypeOK, RunInv, Allocated, runVars, mapVars, sessionVars
<1>1. CASE RunStart
  BY <1>1 DEF RunStart
<1>2. ASSUME NEW s \in SessionIDs, ReceiveMessage(s) \/ ReceiveDisconnect(s) PROVE RunInv'
  BY <1>2 DEF ReceiveMessage, ReceiveDisconnect
<1>3. CASE ReceiveError
  BY <1>3 DEF ReceiveError
<1>4. ASSUME NEW e \in Entries, Feed(e) PROVE RunInv'
  <2>1. /\ runPC = "feed"
        /\ UNCHANGED <<closed, conn, stopCh, todo>>
        /\ runPC' \in {"recv", "session"}
        /\ \A x \in Entries : Allocated(x) => Allocated(x)'
    BY <1>4, FeedCases, NoIDAssumption DEF Feed
  <2>2. runEntry' # NoEntry => Allocated(runEntry)'
    <3>1. CASE UNCHANGED idOf
      <4>1. runEntry' = runEntry \/ (runEntry' = e /\ m[runID] = e)
        BY <1>4, <3>1, FeedCases, NoIDAssumption
      <4>2. m[runID] = e => Allocated(e)
        BY <1>4, FeedCases, NoIDAssumption DEF MapInv
      <4> QED
        BY <3>1, <4>1, <4>2
    <3>2. CASE ~UNCHANGED idOf
      BY <1>4, <3>2, FeedCases, NoIDAssumption
    <3> QED
      BY <3>1, <3>2
  <2> QED
    BY <2>1, <2>2
<1>5. CASE EntryFeed
  BY <1>5 DEF EntryFeed
<1>6. CASE InitConnLock
  BY <1>6 DEF InitConnLock, IsClosed
<1>7. CASE DialHook
  BY <1>7 DEF DialHook
<1>8. CASE DialUDP
  BY <1>8 DEF DialUDP
<1>9. CASE DialFailed
  BY <1>9 DEF DialFailed
<1>10. CASE RunSnapshot
  <2>1. \A x \in Entries : Allocated(x) => closed[x] \/ x \in Sessions
    <3> SUFFICES ASSUME NEW x \in Entries, Allocated(x), ~closed[x] PROVE x \in Sessions
      OBVIOUS
    <3>1. idOf[x] \in SessionIDs /\ m[idOf[x]] = x
      BY DEF MapInv, CloseInv
    <3> QED
      BY <3>1 DEF Sessions, Mapped
  <2>2. /\ todo'["run"] = Sessions /\ runPC' = "drain" /\ runPC = "snapshot"
        /\ UNCHANGED <<stopCh, runEntry, idOf, closed, conn>>
    BY <1>10 DEF RunSnapshot
  <2> QED
    BY <2>1, <2>2
<1>11. ASSUME NEW e \in Entries, RunClose(e) PROVE RunInv'
  <2>1. /\ \A x \in Entries : closed[x] => closed'[x]
        /\ closed'[e]
    BY <1>11, CloseEffect DEF RunClose
  <2>2. \A x \in Entries \ {e} : x \in todo["run"] => x \in todo'["run"]
    BY <1>11 DEF RunClose
  <2>3. runPC = "drain" /\ UNCHANGED <<runPC, runEntry, stopCh, idOf>>
    BY <1>11 DEF RunClose
  <2> QED
    BY <2>1, <2>2, <2>3
<1>12. CASE RunReturn
  BY <1>12 DEF RunReturn
<1> HIDE DEF TypeOK, RunInv, Allocated
<1>13. ASSUME NEW e \in Entries, LoopClose(e) \/ IdleClose(e) PROVE RunInv'
  <2>1. UNCHANGED <<runPC, runEntry, stopCh, idOf>> /\ todo'["run"] = todo["run"]
    BY <1>13 DEF LoopClose, IdleClose, TypeOK
  <2>2. CloseWithErr(e, "loop") \/ CloseWithErr(e, "idle")
    BY <1>13 DEF LoopClose, IdleClose
  <2> QED
    BY <2>1, <2>2, OthersKeepRunInv
<1>14. ASSUME UNCHANGED <<runPC, runEntry, stopCh, idOf, closed, conn>>,
              todo'["run"] = todo["run"]
       PROVE  RunInv'
  BY <1>14, OthersKeepRunInv
<1>15. ASSUME NEW e \in Entries,
              \/ ExitLog(e) \/ ExitRemove(e) \/ LoopRead(e) \/ LoopReadError(e)
              \/ LoopSend(e) \/ LoopSendError(e) \/ BecomeIdle(e)
       PROVE  RunInv'
  BY <1>14, <1>15 DEF ExitLog, ExitRemove, LoopRead, LoopReadError, LoopSend,
     LoopSendError, BecomeIdle
<1>16. CASE IdleTick \/ IdleCheck \/ IdleStop \/ QuicClose \/ Finished \/ UNCHANGED vars
  <2>1. UNCHANGED <<runPC, runEntry, stopCh, idOf, closed, conn>>
    BY <1>16 DEF IdleTick, IdleCheck, IdleStop, QuicClose, Finished, vars
  <2>2. todo'["run"] = todo["run"]
    BY <1>16 DEF IdleTick, IdleCheck, IdleStop, QuicClose, Finished, vars, TypeOK
  <2> QED
    BY <1>14, <2>1, <2>2
<1> QED
  BY <1>1, <1>2, <1>3, <1>4, <1>5, <1>6, <1>7, <1>8, <1>9, <1>10, <1>11, <1>12,
     <1>13, <1>15, <1>16 DEF Next

-----------------------------------------------------------------------------
(* Events *)

\* eventLogger.New has been called only where the dial had begun.
LEMMA EventStep ==
    ASSUME TypeOK, TypeOK', CloseInv, RunInv, EventInv, [Next]_vars
    PROVE  EventInv'
<1> USE DEF EventInv
<1>1. CASE DialHook
  BY <1>1 DEF DialHook, TypeOK, sessionVars
<1>2. CASE DialUDP
  BY <1>2 DEF DialUDP, TypeOK, eventVars
<1>3. ASSUME NEW e \in Entries, NEW who \in {"run", "idle", "loop"},
             CloseWithErr(e, who), UNCHANGED newEvents,
             UNCHANGED <<runPC, runEntry>> \/ (runPC = "dialfail" /\ runEntry = e)
      PROVE  EventInv'
  <2>1. closed'[e]
    BY <1>3, CloseEffect
  <2>2. \A x \in Entries \ {e} : closed'[x] = closed[x] /\ conn'[x] = conn[x]
    BY <1>3, CloseEffect
  <2> QED
    BY <1>3, <2>1, <2>2
<1>4. CASE DialFailed
  BY <1>3, <1>4 DEF DialFailed, TypeOK, eventVars
<1>5. ASSUME NEW e \in Entries, RunClose(e) \/ LoopClose(e) \/ IdleClose(e) PROVE EventInv'
  BY <1>3, <1>5 DEF RunClose, LoopClose, IdleClose, runVars, eventVars
<1>6. ASSUME UNCHANGED <<closed, conn, newEvents>>,
             UNCHANGED <<runPC, runEntry>> \/ runPC \notin {"udp", "dialfail"}
      PROVE  EventInv'
  BY <1>6
<1>7. ASSUME NEW e \in Entries,
             \/ Feed(e) \/ ExitLog(e) \/ ExitRemove(e) \/ LoopRead(e) \/ LoopReadError(e)
             \/ LoopSend(e) \/ LoopSendError(e) \/ BecomeIdle(e)
      PROVE  EventInv'
  <2>1. UNCHANGED <<closed, conn, newEvents>>
    BY <1>7 DEF Feed, ExitLog, ExitRemove, LoopRead, LoopReadError, LoopSend,
       LoopSendError, BecomeIdle, sessionVars, eventVars
  <2>2. UNCHANGED <<runPC, runEntry>> \/ runPC = "feed"
    BY <1>7 DEF Feed, ExitLog, ExitRemove, LoopRead, LoopReadError, LoopSend,
       LoopSendError, BecomeIdle, runVars
  <2> QED
    BY <1>6, <2>1, <2>2
<1>8. ASSUME NEW s \in SessionIDs, ReceiveMessage(s) \/ ReceiveDisconnect(s) PROVE EventInv'
  BY <1>6, <1>8 DEF ReceiveMessage, ReceiveDisconnect, sessionVars, eventVars
<1>9. CASE RunStart \/ ReceiveError \/ EntryFeed \/ InitConnLock \/ RunSnapshot \/ RunReturn
  BY <1>6, <1>9 DEF RunStart, ReceiveError, EntryFeed, InitConnLock, RunSnapshot,
     RunReturn, sessionVars, eventVars
<1>10. CASE IdleTick \/ IdleCheck \/ IdleStop \/ QuicClose \/ Finished \/ UNCHANGED vars
  BY <1>6, <1>10 DEF IdleTick, IdleCheck, IdleStop, QuicClose, Finished, vars,
     sessionVars, eventVars, runVars
<1> HIDE DEF EventInv
<1> QED
  BY <1>1, <1>2, <1>4, <1>5, <1>7, <1>8, <1>9, <1>10 DEF Next

-----------------------------------------------------------------------------
(* The cap *)

\* The set of mapped IDs is finite: SessionIDs is.
LEMMA MappedFinite == IsFiniteSet(Mapped) /\ Cardinality(Mapped) \in Nat
<1>1. Mapped \subseteq SessionIDs
  BY DEF Mapped
<1> QED
  BY <1>1, SessionIDsAssumption, FS_Subset, FS_CardinalityType

\* The number of sessions never exceeds the cap, and a datagram that passed
\* canAdmit still fits: between the check and feed slots are only released.
LEMMA CapStep ==
    ASSUME TypeOK, TypeOK', MapInv, CloseInv, CapInv, [Next]_vars
    PROVE  CapInv'
<1> USE MaxSessionsAssumption, MappedFinite
<1>1. ASSUME NEW e \in Entries, Feed(e) PROVE CapInv'
  <2>1. BilledIsAdmitted'
    BY <1>1, FeedCases DEF BilledIsAdmitted
  <2>2. CASE UNCHANGED m
    BY <2>1, <2>2 DEF CapInv, Mapped
  <2>3. CASE ~UNCHANGED m
    <3>1. /\ runID \in SessionIDs /\ m[runID] = NoEntry
          /\ m' = [m EXCEPT ![runID] = e]
          /\ ~(Cardinality(Mapped) >= MaxSessions)
      BY <1>1, <2>3, FeedCases
    <3>2. Mapped' = Mapped \cup {runID} /\ runID \notin Mapped
      BY <3>1, NoEntryAssumption DEF Mapped, TypeOK
    <3>3. Cardinality(Mapped') = Cardinality(Mapped) + 1
      BY <3>2, FS_AddElement
    <3> QED
      BY <2>1, <3>1, <3>3 DEF CapInv
  <2> QED
    BY <2>2, <2>3
<1>2. ASSUME NEW e \in Entries, ExitRemove(e) PROVE CapInv'
  <2>1. Allocated(e) /\ idOf[e] \in SessionIDs /\ m[idOf[e]] = e
    BY <1>2 DEF ExitRemove, CloseInv, Allocated, TypeOK, MapInv
  <2>2. m' = [m EXCEPT ![idOf[e]] = NoEntry] /\ UNCHANGED <<runPC, runID>>
    BY <1>2, <2>1 DEF ExitRemove, runVars
  <2>3. Mapped' = Mapped \ {idOf[e]} /\ idOf[e] \in Mapped
    BY <2>1, <2>2, NoEntryAssumption DEF Mapped, TypeOK
  <2>4. Cardinality(Mapped') = Cardinality(Mapped) - 1
    BY <2>3, FS_RemoveElement
  <2> QED
    BY <2>2, <2>4 DEF CapInv, BilledIsAdmitted, CanAdmit
<1>3. ASSUME UNCHANGED m,
             UNCHANGED <<runPC, runID>> \/ runPC' # "feed" \/ CanAdmit(runID')
      PROVE  CapInv'
  <2>1. Mapped' = Mapped
    BY <1>3 DEF Mapped
  <2> QED
    BY <1>3, <2>1 DEF CapInv, BilledIsAdmitted, CanAdmit
<1>4. ASSUME NEW s \in SessionIDs, ReceiveMessage(s) \/ ReceiveDisconnect(s) PROVE CapInv'
  BY <1>3, <1>4 DEF ReceiveMessage, ReceiveDisconnect, mapVars
<1>5. CASE /\ ~(\E e \in Entries : Feed(e))
           /\ ~(\E e \in Entries : ExitRemove(e))
           /\ ~(\E s \in SessionIDs : ReceiveMessage(s) \/ ReceiveDisconnect(s))
  <2>1. UNCHANGED m
    BY <1>5, MapFrame
  <2>2. UNCHANGED <<runPC, runID>> \/ runPC' # "feed"
    BY <1>5 DEF Next, RunStart, ReceiveError, EntryFeed, InitConnLock, DialHook, DialUDP,
       DialFailed, RunSnapshot, RunReturn, RunClose, ExitLog, LoopRead, LoopReadError,
       LoopSend, LoopSendError, LoopClose, IdleClose, BecomeIdle, IdleTick, IdleCheck,
       IdleStop, QuicClose, Finished, vars, runVars
  <2> QED
    BY <1>3, <2>1, <2>2
<1> QED
  BY <1>1, <1>2, <1>4, <1>5

-----------------------------------------------------------------------------
(* The idle cleanup goroutine *)

\* The flag stands for one goroutine, and while Run lives a session in the map
\* has it running: it is started in the critical section that inserts, and it
\* gives up only in one that sees the map empty.
LEMMA IdleStep ==
    ASSUME TypeOK, TypeOK', MapInv, CloseInv, RunInv, IdleInv, [Next]_vars
    PROVE  IdleInv'
<1> USE DEF IdleInv, CleanupWatchesSessions
<1>1. ASSUME NEW e \in Entries, Feed(e) PROVE IdleInv'
  <2>1. runPC = "feed" /\ stopCh # "nil" /\ UNCHANGED stopCh
    BY <1>1, FeedCases DEF Feed, RunInv
  <2>2. CASE UNCHANGED <<m, cleanupRunning, idlePC>>
    BY <2>1, <2>2 DEF Mapped
  <2>3. CASE StartIdleCleanupLocked
    BY <2>1, <2>3 DEF StartIdleCleanupLocked, idleVars
  <2> QED
    BY <1>1, <2>2, <2>3, FeedCases
<1>2. ASSUME NEW e \in Entries, ExitRemove(e) PROVE IdleInv'
  <2>1. Mapped' \subseteq Mapped
    <3>1. m' = m \/ m' = [m EXCEPT ![idOf[e]] = NoEntry]
      BY <1>2 DEF ExitRemove
    <3> QED
      BY <3>1 DEF Mapped, TypeOK
  <2> QED
    BY <1>2, <2>1 DEF ExitRemove, idleVars
<1>3. CASE IdleCheck \/ IdleStop
  BY <1>3 DEF IdleCheck, IdleStop, Mapped, mapVars
<1>4. CASE IdleTick
  BY <1>4 DEF IdleTick, Mapped, mapVars
<1>5. CASE RunStart
  <2>1. Mapped = {}
    BY <1>5, NoIDAssumption, NoEntryAssumption
    DEF RunStart, RunInv, Allocated, Mapped, MapInv, TypeOK
  <2> QED
    BY <1>5, <2>1 DEF RunStart, Mapped, mapVars, idleVars
<1>6. CASE RunReturn
  BY <1>6 DEF RunReturn, idleVars
<1>7. CASE /\ ~(\E e \in Entries : Feed(e)) /\ ~(\E e \in Entries : ExitRemove(e))
           /\ ~IdleCheck /\ ~IdleStop /\ ~IdleTick /\ ~RunStart /\ ~RunReturn
  <2>1. UNCHANGED m
    BY <1>7, MapFrame
  <2>2. UNCHANGED <<stopCh, cleanupRunning, idlePC>>
    BY <1>7 DEF Next, ReceiveMessage, ReceiveDisconnect, ReceiveError, EntryFeed,
       InitConnLock, DialHook, DialUDP, DialFailed, RunSnapshot, RunClose, ExitLog,
       LoopRead, LoopReadError, LoopSend, LoopSendError, LoopClose, IdleClose,
       BecomeIdle, QuicClose, Finished, vars, idleVars
  <2> QED
    BY <2>1, <2>2 DEF Mapped
<1> QED
  BY <1>1, <1>2, <1>3, <1>4, <1>5, <1>6, <1>7

-----------------------------------------------------------------------------
(* The inductive invariant *)

\* The invariant holds when newUDPSessionManager returns.
LEMMA InitIInv == Init => IInv
<1> SUFFICES ASSUME Init PROVE IInv
  OBVIOUS
<1>1. TypeOK
  BY TypeInit
<1>2. Mapped = {} /\ \A e \in Entries : ~Allocated(e)
  BY DEF Init, Mapped, Allocated
<1>3. MapInv /\ RunInv /\ EventInv
  BY <1>2, NoEntryAssumption DEF Init, MapInv, RunInv, EventInv, Mapped
<1>4. CloseInv
  BY <1>2 DEF Init, CloseInv
<1>5. CapInv /\ IdleInv
  BY <1>2, FS_EmptySet, MaxSessionsAssumption
  DEF Init, CapInv, BilledIsAdmitted, IdleInv, CleanupWatchesSessions
<1> QED
  BY <1>1, <1>3, <1>4, <1>5 DEF IInv

\* The invariant is inductive.
LEMMA IInvStep == IInv /\ [Next]_vars => IInv'
<1> SUFFICES ASSUME IInv, [Next]_vars PROVE IInv'
  OBVIOUS
<1>1. TypeOK'
  BY TypeStep DEF IInv
<1> QED
  BY <1>1, MapStep, CloseStep, RunStep, EventStep, CapStep, IdleStep DEF IInv

\* The invariant holds in every reachable state.
THEOREM Invariance == Spec => []IInv
  BY InitIInv, IInvStep, PTL DEF Spec

-----------------------------------------------------------------------------
(* The properties *)

\* An open socket is always reachable through the map, and the map respects
\* the cap (SocketsOwned), however dials and closes interleave.
THEOREM SocketsOwnedThm == Spec => []SocketsOwned
<1>1. IInv => SocketsOwned
  BY DEF IInv, MapInv, CloseInv, CapInv, SocketsOwned, TypeOK, Allocated
<1> QED
  BY <1>1, Invariance, PTL

\* No socket exists on a session whose CloseWithErr has run, and it has run on
\* every session when Run has returned (NoConnAfterExit).
THEOREM NoConnAfterExitThm == Spec => []NoConnAfterExit
<1>1. IInv => NoConnAfterExit
  BY DEF IInv, CloseInv, RunInv, NoConnAfterExit, Allocated
<1> QED
  BY <1>1, Invariance, PTL

\* Every session that has left the map was reported closed exactly once, and
\* none is ever reported twice (ClosedExactlyOnce).
THEOREM ClosedExactlyOnceThm == Spec => []ClosedExactlyOnce
<1>1. IInv => ClosedExactlyOnce
  BY DEF IInv, MapInv, CloseInv, ClosedExactlyOnce, Allocated
<1> QED
  BY <1>1, Invariance, PTL

\* While Run lives, mapped sessions are watched by exactly one idle cleanup
\* goroutine (CleanupWatchesSessions).
THEOREM CleanupWatchesSessionsThm == Spec => []CleanupWatchesSessions
<1>1. IInv => CleanupWatchesSessions
  BY DEF IInv, IdleInv
<1> QED
  BY <1>1, Invariance, PTL

\* A datagram billed by ReceiveMessage is not dropped by feed for capacity
\* (BilledIsAdmitted).
THEOREM BilledIsAdmittedThm == Spec => []BilledIsAdmitted
<1>1. IInv => BilledIsAdmitted
  BY DEF IInv, CapInv
<1> QED
  BY <1>1, Invariance, PTL

\* New is reported at most once per session and never after its close has
\* begun (NewBeforeClose).
THEOREM NewBeforeCloseThm == Spec => NewBeforeClose
<1> DEFINE Good == \A e \in Entries :
                      newEvents'[e] # newEvents[e] =>
                         newEvents[e] = 0 /\ closeEvents[e] = 0 /\ ~closed[e]
<1>1. ASSUME IInv, [Next]_vars PROVE Good
  <2>1. CASE DialHook
    <3>1. /\ runEntry \in Entries /\ ~closed[runEntry] /\ conn[runEntry] = "nil"
          /\ runPC = "hook"
      BY <1>1, <2>1 DEF DialHook, IInv, TypeOK, RunInv
    <3>2. newEvents[runEntry] = 0
      BY <1>1, <3>1 DEF IInv, EventInv
    <3>3. closeEvents[runEntry] = 0
      BY <1>1, <3>1 DEF IInv, CloseInv
    <3>4. \A e \in Entries \ {runEntry} : newEvents'[e] = newEvents[e]
      BY <1>1, <2>1 DEF DialHook, IInv, TypeOK
    <3> QED
      BY <3>1, <3>2, <3>3, <3>4
  <2>2. CASE ~DialHook
    <3>1. UNCHANGED newEvents
      BY <1>1, <2>2 DEF Next, RunStart, ReceiveMessage, ReceiveDisconnect, ReceiveError,
         Feed, EntryFeed, InitConnLock, DialUDP, DialFailed, RunSnapshot, RunReturn,
         RunClose, ExitLog, ExitRemove, LoopRead, LoopReadError, LoopSend,
         LoopSendError, LoopClose, IdleClose, BecomeIdle, IdleTick, IdleCheck,
         IdleStop, QuicClose, Finished, vars, eventVars
    <3> QED
      BY <3>1
  <2> QED
    BY <2>1, <2>2
<1>2. IInv /\ [Next]_vars => [Good]_vars
  BY <1>1
<1> HIDE DEF Good
<1>3. Spec => [][Good]_vars
  BY <1>2, Invariance, PTL DEF Spec
<1> QED
  BY <1>3 DEF NewBeforeClose, Good

-----------------------------------------------------------------------------
(* The refinement *)

\* The IDs the table counts as in use are the keys of the map.
LEMMA TableIDs == ASSUME IInv PROVE Table!IDsInUse = Mapped
<1>1. \A e \in Entries :
         Phase(e) \in {"bound", "open", "closing"} <=> Allocated(e) /\ exit[e] # "done"
  BY DEF Phase, Allocated
<1>2. Table!Live = {e \in Entries : Allocated(e) /\ exit[e] # "done"}
  BY <1>1 DEF Table!Live
<1>3. ASSUME NEW s \in Table!IDsInUse PROVE s \in Mapped
  <2>1. PICK e \in Entries : Allocated(e) /\ exit[e] # "done" /\ s = idOf[e]
    BY <1>2, <1>3 DEF Table!IDsInUse
  <2> QED
    BY <2>1, NoEntryAssumption DEF IInv, MapInv, TypeOK, Allocated, Mapped
<1>4. ASSUME NEW s \in Mapped PROVE s \in Table!IDsInUse
  <2>1. m[s] \in Entries /\ idOf[m[s]] = s /\ s \in SessionIDs
    BY <1>4 DEF IInv, MapInv, TypeOK, Mapped
  <2>2. Allocated(m[s]) /\ exit[m[s]] # "done"
    BY <2>1, NoIDAssumption DEF IInv, MapInv, Allocated
  <2> QED
    BY <1>2, <2>1, <2>2 DEF Table!IDsInUse
<1> QED
  BY <1>3, <1>4

\* CloseWithErr is the table's Close, or nothing when e was already closed.
LEMMA CloseRefines ==
    ASSUME IInv, NEW e \in Entries, Allocated(e), UNCHANGED idOf,
           NEW who \in {"run", "idle", "loop"}, CloseWithErr(e, who)
    PROVE  Table!Close(e) \/ UNCHANGED Table!tableVars
<1> DEFINE ph == [x \in Entries |-> Phase(x)]
<1>1. TypeOK /\ CloseInv
  BY DEF IInv
<1>2. \A x \in Entries \ {e} : Phase(x)' = Phase(x)
  BY <1>1, CloseEffect DEF Phase
<1>3. CASE closed[e]
  <2>1. Phase(e)' = Phase(e)
    BY <1>1, <1>3, CloseEffect DEF Phase, CloseInv, Allocated
  <2>2. ph' = ph
    BY <1>2, <2>1
  <2> QED
    BY <2>2 DEF Table!tableVars
<1>4. CASE ~closed[e]
  <2>1. exit[e] = "no" /\ exit'[e] = "log" /\ closed'[e]
    BY <1>1, <1>4, CloseEffect DEF CloseInv
  <2>2. Phase(e) \in {"bound", "open"} /\ Phase(e)' = "closing"
    BY <1>4, <2>1 DEF Phase, Allocated
  <2>3. ph' = [ph EXCEPT ![e] = "closing"]
    BY <1>2, <2>2
  <2> QED
    BY <2>2, <2>3 DEF Table!Close
<1> QED
  BY <1>3, <1>4

\* Every step of the manager is a step of the session table or leaves it alone.
LEMMA TableStep == ASSUME IInv, [Next]_vars PROVE [Table!TableNext]_(Table!tableVars)
<1> DEFINE ph == [x \in Entries |-> Phase(x)]
<1> DEFINE Goal == [Table!TableNext]_(Table!tableVars)
<1>1. ASSUME NEW e \in Entries, Feed(e) PROVE Goal
  <2> USE DEF IInv
  <2>1. CASE UNCHANGED idOf
    <3>1. UNCHANGED <<closed, conn, exit>>
      BY <1>1, FeedCases
    <3>2. ph' = ph
      BY <2>1, <3>1 DEF Phase
    <3> QED
      BY <2>1, <3>2 DEF Table!tableVars
  <2>2. CASE ~UNCHANGED idOf
    <3>1. /\ runID \in SessionIDs /\ m[runID] = NoEntry /\ idOf[e] = NoID
          /\ ~(Cardinality(Mapped) >= MaxSessions)
          /\ idOf' = [idOf EXCEPT ![e] = runID]
          /\ UNCHANGED <<closed, conn, exit>>
      BY <1>1, <2>2, FeedCases
    <3>2. exit[e] = "no" /\ ~closed[e] /\ conn[e] = "nil"
      BY <3>1 DEF CloseInv, Allocated
    <3>3. Phase(e) = "unused" /\ Phase(e)' = "bound"
      BY <3>1, <3>2, NoIDAssumption DEF Phase, TypeOK
    <3>4. \A x \in Entries \ {e} : Phase(x)' = Phase(x)
      BY <3>1 DEF Phase, TypeOK
    <3>5. ph' = [ph EXCEPT ![e] = "bound"]
      BY <3>3, <3>4
    <3>6. runID \notin Table!IDsInUse /\ Cardinality(Table!IDsInUse) < MaxSessions
      BY <3>1, TableIDs, MappedFinite, MaxSessionsAssumption DEF Mapped
    <3>7. Table!Cardinality(Table!IDsInUse) = Cardinality(Table!IDsInUse)
      BY DEF Table!Cardinality, Cardinality
    <3>8. Table!Admit(e, runID)
      BY <3>1, <3>3, <3>5, <3>6, <3>7 DEF Table!Admit
    <3> QED
      BY <3>1, <3>8 DEF Table!TableNext
  <2> QED
    BY <2>1, <2>2
<1>2. ASSUME DialUDP PROVE Goal
  <2>1. CASE UNCHANGED conn
    <3>1. ph' = ph
      BY <1>2, <2>1 DEF DialUDP, Phase, mapVars
    <3> QED
      BY <1>2, <3>1 DEF DialUDP, mapVars, Table!tableVars
  <2>2. ASSUME NEW e \in Entries, e = runEntry, ~UNCHANGED conn PROVE Goal
    <3>1. Allocated(e) /\ ~closed[e] /\ conn[e] = "nil" /\ exit[e] = "no"
      BY <1>2, <2>2, NoEntryAssumption DEF DialUDP, IInv, RunInv, CloseInv
    <3>2. conn' = [conn EXCEPT ![e] = "open"] /\ UNCHANGED <<idOf, closed, exit>>
      BY <1>2, <2>2 DEF DialUDP, mapVars
    <3>3. Phase(e) = "bound" /\ Phase(e)' = "open"
      BY <3>1, <3>2 DEF Phase, Allocated, IInv, TypeOK
    <3>4. \A x \in Entries \ {e} : Phase(x)' = Phase(x)
      BY <3>2 DEF Phase, IInv, TypeOK
    <3>5. ph' = [ph EXCEPT ![e] = "open"]
      BY <3>3, <3>4
    <3>6. Table!OpenSocket(e)
      BY <3>2, <3>3, <3>5 DEF Table!OpenSocket
    <3> QED
      BY <3>6 DEF Table!TableNext
  <2>3. runEntry \in Entries
    BY <1>2 DEF DialUDP, IInv, TypeOK
  <2> QED
    BY <2>1, <2>2, <2>3
<1>3. ASSUME NEW e \in Entries, ExitRemove(e) PROVE Goal
  <2>1. Allocated(e) /\ closed[e] /\ exit[e] = "remove"
    BY <1>3 DEF ExitRemove, IInv, CloseInv, Allocated
  <2>2. exit' = [exit EXCEPT ![e] = "done"] /\ UNCHANGED <<idOf, closed, conn>>
    BY <1>3 DEF ExitRemove
  <2>3. Phase(e) = "closing" /\ Phase(e)' = "released"
    BY <2>1, <2>2 DEF Phase, Allocated, IInv, TypeOK
  <2>4. \A x \in Entries \ {e} : Phase(x)' = Phase(x)
    BY <2>2 DEF Phase, IInv, TypeOK
  <2>5. ph' = [ph EXCEPT ![e] = "released"]
    BY <2>3, <2>4
  <2>6. Table!Release(e)
    BY <2>2, <2>3, <2>5 DEF Table!Release
  <2> QED
    BY <2>6 DEF Table!TableNext
<1>4. ASSUME NEW e \in Entries, NEW who \in {"run", "idle", "loop"}, Allocated(e),
             CloseWithErr(e, who), UNCHANGED idOf
      PROVE  Goal
  BY <1>4, CloseRefines DEF Table!TableNext
<1>5. ASSUME DialFailed PROVE Goal
  <2>1. runEntry \in Entries /\ Allocated(runEntry)
    BY <1>5, NoEntryAssumption DEF DialFailed, IInv, TypeOK, RunInv
  <2> QED
    BY <1>4, <1>5, <2>1 DEF DialFailed, mapVars
<1>6. ASSUME NEW e \in Entries, RunClose(e) \/ LoopClose(e) \/ IdleClose(e) PROVE Goal
  <2>1. Allocated(e) /\ UNCHANGED idOf
    BY <1>6 DEF RunClose, LoopClose, IdleClose, IInv, CloseInv, mapVars
  <2>2. \E who \in {"run", "idle", "loop"} : CloseWithErr(e, who)
    BY <1>6 DEF RunClose, LoopClose, IdleClose
  <2> QED
    BY <1>4, <2>1, <2>2
<1>7. ASSUME NEW e \in Entries, ExitLog(e) PROVE Goal
  <2>1. /\ exit[e] = "log" /\ exit' = [exit EXCEPT ![e] = "remove"]
        /\ UNCHANGED <<idOf, closed, conn>>
    BY <1>7 DEF ExitLog, mapVars
  <2>2. \A x \in Entries : Phase(x)' = Phase(x)
    BY <2>1 DEF Phase, IInv, TypeOK
  <2>3. ph' = ph
    BY <2>2
  <2> QED
    BY <2>1, <2>3 DEF Table!tableVars
<1>8. ASSUME UNCHANGED <<idOf, closed, conn, exit>> PROVE Goal
  <2>1. ph' = ph
    BY <1>8 DEF Phase
  <2> QED
    BY <1>8, <2>1 DEF Table!tableVars
<1> HIDE DEF Goal
<1>9. ASSUME NEW e \in Entries,
             LoopRead(e) \/ LoopReadError(e) \/ LoopSend(e) \/ LoopSendError(e) \/ BecomeIdle(e)
      PROVE  Goal
  BY <1>8, <1>9 DEF LoopRead, LoopReadError, LoopSend, LoopSendError, BecomeIdle,
     mapVars, sessionVars
<1>10. ASSUME NEW s \in SessionIDs, ReceiveMessage(s) \/ ReceiveDisconnect(s) PROVE Goal
  BY <1>8, <1>10 DEF ReceiveMessage, ReceiveDisconnect, mapVars, sessionVars
<1>11. ASSUME RunStart \/ ReceiveError \/ EntryFeed \/ InitConnLock \/ DialHook
              \/ RunSnapshot \/ RunReturn
       PROVE  Goal
  BY <1>8, <1>11 DEF RunStart, ReceiveError, EntryFeed, InitConnLock, DialHook,
     RunSnapshot, RunReturn, mapVars, sessionVars
<1>12. ASSUME IdleTick \/ IdleCheck \/ IdleStop \/ QuicClose \/ Finished \/ UNCHANGED vars
       PROVE  Goal
  BY <1>8, <1>12 DEF IdleTick, IdleCheck, IdleStop, QuicClose, Finished, vars,
     mapVars, sessionVars
<1>13. Goal
  BY <1>1, <1>2, <1>3, <1>5, <1>6, <1>7, <1>9, <1>10, <1>11, <1>12 DEF Next
<1> QED
  BY <1>13 DEF Goal

\* Sockets, slots and billed datagrams together (AdmissionSound).
THEOREM AdmissionSoundThm == Spec => []AdmissionSound
<1> QED
  BY SocketsOwnedThm, NoConnAfterExitThm, BilledIsAdmittedThm, PTL DEF AdmissionSound

\* The events of a session: one New, then one Close (EventsInOrder).
THEOREM EventsInOrderThm == Spec => EventsInOrder
<1> QED
  BY ClosedExactlyOnceThm, NewBeforeCloseThm, PTL DEF EventsInOrder

\* The session manager implements the bounded session table.
THEOREM Refinement == Spec => ImplementsTable
<1>1. Init => Table!TableInit
  BY DEF Init, Table!TableInit, Phase
<1>2. IInv /\ [Next]_vars => [Table!TableNext]_(Table!tableVars)
  BY TableStep
<1> QED
  BY <1>1, <1>2, Invariance, PTL DEF Spec, ImplementsTable, Table!TableSpec
=============================================================================
