------------------------- MODULE UDPSessionManager -------------------------
(***************************************************************************)
(* The server's per-connection UDP session manager (core/server/udp.go):   *)
(* the Run goroutine that receives datagrams and feeds sessions, one       *)
(* receiveLoop goroutine per session socket, and the idle cleanup          *)
(* goroutine that lives only while sessions exist.  All three may call     *)
(* CloseWithErr on the same session.                                       *)
(*                                                                         *)
(* An atomic step is a critical section of m.mutex or of a session's       *)
(* connLock, or one call that can block.  The only critical section that   *)
(* spans several steps is initConn, which holds connLock while the hook    *)
(* and the outbound dial run.                                              *)
(***************************************************************************)
EXTENDS Naturals, FiniteSets

CONSTANTS
    SessionIDs,   \* session IDs a client may put in a UDP message
    Entries,      \* identities of *udpSessionEntry allocations, each used once
    NoEntry,      \* the nil *udpSessionEntry
    NoID,         \* the ID of an entry that has not been allocated
    MaxSessions   \* Config.MaxUDPSessions

ASSUME NoEntryAssumption == NoEntry \notin Entries
ASSUME NoIDAssumption == NoID \notin SessionIDs
ASSUME SessionIDsAssumption == IsFiniteSet(SessionIDs)
ASSUME MaxSessionsAssumption == MaxSessions \in Nat \ {0}

VARIABLES
    quicOpen,       \* the QUIC connection has not been closed
    stopCh,         \* "nil" before Run, then "open", "closed" when Run returned
    runPC,          \* control point of the Run goroutine
    runID,          \* session ID of the datagram Run has accepted and billed
    runEntry,       \* the session Run is feeding, NoEntry when none
    m,              \* the session map: SessionIDs -> Entries \cup {NoEntry}
    idOf,           \* entry.ID, NoID for an entry not yet allocated
    closed,         \* entry.closed
    conn,           \* entry.conn: "nil", "open", or "shut" after conn.Close
    loop,           \* receiveLoop of the entry: "none", "read", "send", "fail", "done"
    exit,           \* progress of ExitFunc: "no", "log", "remove", "done"
    closer,         \* goroutine whose CloseWithErr won: "none", "run", "idle", "loop"
    expired,        \* entries whose Last is older than idleTimeout
    cleanupRunning, \* the manager's flag of the same name
    idlePC,         \* control point of the idle cleanup goroutine
    todo,           \* cleanup's timeoutEntry slice, per calling goroutine
    newEvents,      \* eventLogger.New calls per entry
    closeEvents     \* eventLogger.Close calls per entry

runVars     == <<runPC, runID, runEntry>>
mapVars     == <<m, idOf>>
sessionVars == <<closed, conn, loop, exit, closer>>
idleVars    == <<cleanupRunning, idlePC>>
eventVars   == <<newEvents, closeEvents>>
vars == <<quicOpen, stopCh, runVars, mapVars, sessionVars, expired,
          idleVars, todo, eventVars>>

\* Session IDs present in the map: len(m.m) is the cardinality.
Mapped == {s \in SessionIDs : m[s] # NoEntry}

\* The entries cleanup ranges over: the values of the map.
Sessions == {m[s] : s \in Mapped}

\* Entries that newUDPSessionEntry has not returned yet.
Fresh == {e \in Entries : idOf[e] = NoID}

\* The goroutine is still inside the ExitFunc of a session it closed.
Busy(who) == \E e \in Entries : closer[e] = who /\ exit[e] \in {"log", "remove"}

NeverLocked(e) == FALSE

\* connLock of e is held across steps only by initConn's dial.
ConnLocked(e) == runEntry = e /\ runPC \in {"hook", "udp"}

Init ==
    /\ quicOpen = TRUE
    /\ stopCh = "nil"
    /\ runPC = "start"
    /\ runID = NoID
    /\ runEntry = NoEntry
    /\ m = [s \in SessionIDs |-> NoEntry]
    /\ idOf = [e \in Entries |-> NoID]
    /\ closed = [e \in Entries |-> FALSE]
    /\ conn = [e \in Entries |-> "nil"]
    /\ loop = [e \in Entries |-> "none"]
    /\ exit = [e \in Entries |-> "no"]
    /\ closer = [e \in Entries |-> "none"]
    /\ expired = {}
    /\ cleanupRunning = FALSE
    /\ idlePC = "off"
    /\ todo = [p \in {"run", "idle"} |-> {}]
    /\ newEvents = [e \in Entries |-> 0]
    /\ closeEvents = [e \in Entries |-> 0]

-----------------------------------------------------------------------------
(* CloseWithErr and the ExitFunc closure made by feed *)

ClosedNotChecked(e) == FALSE

\* The test of entry.closed, made under connLock by CloseWithErr and initConn.
IsClosed(e) == closed[e]

\* CloseWithErr up to the unlock: the first caller marks the session closed
\* and shuts its socket, then runs ExitFunc; any later caller returns at once.
CloseWithErr(e, who) ==
    /\ ~ConnLocked(e)
    /\ IF IsClosed(e)
         THEN UNCHANGED <<closed, conn, exit, closer>>
         ELSE /\ closed' = [closed EXCEPT ![e] = TRUE]
              /\ conn' = [conn EXCEPT ![e] = IF @ = "open" THEN "shut" ELSE @]
              /\ exit' = [exit EXCEPT ![e] = "log"]
              /\ closer' = [closer EXCEPT ![e] = who]

\* exitFunc: eventLogger.Close.
ExitLog(e) ==
    /\ exit[e] = "log"
    /\ closeEvents' = [closeEvents EXCEPT ![e] = @ + 1]
    /\ exit' = [exit EXCEPT ![e] = "remove"]
    /\ UNCHANGED <<quicOpen, stopCh, runVars, mapVars, closed, conn, loop,
                   closer, expired, idleVars, todo, newEvents>>

\* exitFunc: delete the session from the map if it is still the mapped one.
ExitRemove(e) ==
    /\ exit[e] = "remove"
    /\ m' = IF m[idOf[e]] = e THEN [m EXCEPT ![idOf[e]] = NoEntry] ELSE m
    /\ exit' = [exit EXCEPT ![e] = "done"]
    /\ UNCHANGED <<quicOpen, stopCh, runVars, idOf, closed, conn, loop,
                   closer, expired, idleVars, todo, eventVars>>

-----------------------------------------------------------------------------
(* The Run goroutine *)

\* Run: publish stopCh.
RunStart ==
    /\ runPC = "start"
    /\ stopCh' = "open"
    /\ runPC' = "recv"
    /\ UNCHANGED <<quicOpen, runID, runEntry, mapVars, sessionVars, expired,
                   idleVars, todo, eventVars>>

\* Run is the only producer of sessions: canAdmit as ReceiveMessage calls it.
CanAdmit(s) == m[s] # NoEntry \/ Cardinality(Mapped) < MaxSessions

BillUnchecked(s) ==
    /\ runPC = "recv" /\ ~Busy("run")
    /\ quicOpen /\ Fresh # {}
    /\ runID' = s
    /\ runPC' = "feed"
    /\ UNCHANGED <<quicOpen, stopCh, runEntry, mapVars, sessionVars, expired,
                   idleVars, todo, eventVars>>

\* ReceiveMessage returns a parsed, admitted datagram the traffic logger has
\* accepted, that is, billed.  A datagram that does not parse, is refused for
\* capacity, or gets TrafficReject changes nothing: the loop continues.
\* (Fresh # {} bounds the allocations of an instance.)
ReceiveMessage(s) ==
    /\ runPC = "recv" /\ ~Busy("run")
    /\ quicOpen /\ Fresh # {}
    /\ CanAdmit(s)
    /\ runID' = s
    /\ runPC' = "feed"
    /\ UNCHANGED <<quicOpen, stopCh, runEntry, mapVars, sessionVars, expired,
                   idleVars, todo, eventVars>>

\* ReceiveMessage meets a LogTraffic refusal (or TrafficDisconnect): it closes
\* the QUIC connection and returns errDisconnect, which ends Run's loop.
ReceiveDisconnect(s) ==
    /\ runPC = "recv" /\ ~Busy("run")
    /\ quicOpen
    /\ CanAdmit(s)
    /\ quicOpen' = FALSE
    /\ runPC' = "snapshot"
    /\ UNCHANGED <<stopCh, runID, runEntry, mapVars, sessionVars, expired,
                   idleVars, todo, eventVars>>

\* ReceiveDatagram fails on a closed connection, which ends Run's loop.
ReceiveError ==
    /\ runPC = "recv" /\ ~Busy("run")
    /\ ~quicOpen
    /\ runPC' = "snapshot"
    /\ UNCHANGED <<quicOpen, stopCh, runID, runEntry, mapVars, sessionVars,
                   expired, idleVars, todo, eventVars>>

StartIdleCleanupOnce ==
    IF cleanupRunning \/ stopCh = "nil" \/ Cardinality(Fresh) < Cardinality(Entries)
      THEN UNCHANGED idleVars
      ELSE cleanupRunning' = TRUE /\ idlePC' = "select"

\* startIdleCleanupLocked, called with m.mutex held.
StartIdleCleanupLocked ==
    IF cleanupRunning \/ stopCh = "nil"
      THEN UNCHANGED idleVars
      ELSE cleanupRunning' = TRUE /\ idlePC' = "select"

\* feed, up to the unlock of m.mutex.  A known ID is only looked up.  For an
\* unknown one the cap is checked again, an entry is allocated and mapped, and
\* the idle cleanup goroutine is started, all in one critical section.
Feed(e) ==
    /\ runPC = "feed"
    /\ \/ /\ m[runID] = e
          /\ runEntry' = e
          /\ runPC' = "session"
          /\ UNCHANGED <<mapVars, idleVars>>
       \/ /\ m[runID] = NoEntry
          /\ e \in Fresh
          /\ IF Cardinality(Mapped) >= MaxSessions
               THEN /\ runPC' = "recv"
                    /\ UNCHANGED <<runEntry, mapVars, idleVars>>
               ELSE /\ m' = [m EXCEPT ![runID] = e]
                    /\ idOf' = [idOf EXCEPT ![e] = runID]
                    /\ StartIdleCleanupLocked
                    /\ runEntry' = e
                    /\ runPC' = "session"
    /\ UNCHANGED <<quicOpen, stopCh, runID, sessionVars, expired, todo, eventVars>>

\* entry.Feed touches Last and hands the datagram to the Defragger.  Nothing
\* more happens while a message is incomplete; a message for a session with a
\* socket passes checkAddr and is written (errors are ignored, also those of a
\* socket that is already shut); otherwise initConn is next.
EntryFeed ==
    /\ runPC = "session"
    /\ expired' = expired \ {runEntry}
    /\ \/ runPC' = "recv" /\ runEntry' = NoEntry
       \/ conn[runEntry] = "nil" /\ runPC' = "init" /\ UNCHANGED runEntry
    /\ UNCHANGED <<quicOpen, stopCh, runID, mapVars, sessionVars, idleVars,
                   todo, eventVars>>

\* initConn takes connLock; a session closed in the meantime is not dialled.
InitConnLock ==
    /\ runPC = "init"
    /\ IF IsClosed(runEntry)
         THEN runPC' = "recv" /\ runEntry' = NoEntry
         ELSE runPC' = "hook" /\ UNCHANGED runEntry
    /\ UNCHANGED <<quicOpen, stopCh, runID, mapVars, sessionVars, expired,
                   idleVars, todo, eventVars>>

\* dialFunc: the hook, and on success eventLogger.New, still under connLock.
DialHook ==
    /\ runPC = "hook"
    /\ \/ /\ newEvents' = [newEvents EXCEPT ![runEntry] = @ + 1]
          /\ runPC' = "udp"
       \/ /\ runPC' = "dialfail"
          /\ UNCHANGED newEvents
    /\ UNCHANGED <<quicOpen, stopCh, runID, runEntry, mapVars, sessionVars,
                   expired, idleVars, todo, closeEvents>>

\* dialFunc: io.UDP.  On success initConn publishes the socket, starts
\* receiveLoop and unlocks; the first message is then checked and written.
DialUDP ==
    /\ runPC = "udp"
    /\ \/ /\ conn' = [conn EXCEPT ![runEntry] = "open"]
          /\ loop' = [loop EXCEPT ![runEntry] = "read"]
          /\ runPC' = "recv"
          /\ runEntry' = NoEntry
       \/ /\ runPC' = "dialfail"
          /\ UNCHANGED <<conn, loop, runEntry>>
    /\ UNCHANGED <<quicOpen, stopCh, runID, mapVars, closed, exit, closer,
                   expired, idleVars, todo, eventVars>>

\* initConn's error path: connLock has been released, CloseWithErr takes it
\* again, and another goroutine may have come first.
DialFailed ==
    /\ runPC = "dialfail"
    /\ CloseWithErr(runEntry, "run")
    /\ runPC' = "recv"
    /\ runEntry' = NoEntry
    /\ UNCHANGED <<quicOpen, stopCh, runID, mapVars, loop, expired, idleVars,
                   todo, eventVars>>

SnapshotIdleOnly ==
    /\ runPC = "snapshot"
    /\ todo' = [todo EXCEPT !["run"] = Sessions \cap expired]
    /\ runPC' = "drain"
    /\ UNCHANGED <<quicOpen, stopCh, runID, runEntry, mapVars, sessionVars,
                   expired, idleVars, eventVars>>

\* Run's deferred cleanup(false): every session in the map is to be closed.
RunSnapshot ==
    /\ runPC = "snapshot"
    /\ todo' = [todo EXCEPT !["run"] = Sessions]
    /\ runPC' = "drain"
    /\ UNCHANGED <<quicOpen, stopCh, runID, runEntry, mapVars, sessionVars,
                   expired, idleVars, eventVars>>

\* cleanup(false) closes one session of its list, in map iteration order.
RunClose(e) ==
    /\ runPC = "drain" /\ ~Busy("run")
    /\ e \in todo["run"]
    /\ CloseWithErr(e, "run")
    /\ todo' = [todo EXCEPT !["run"] = @ \ {e}]
    /\ UNCHANGED <<quicOpen, stopCh, runVars, mapVars, loop, expired, idleVars,
                   eventVars>>

\* The last deferred call of Run: close(stopCh).
RunReturn ==
    /\ runPC = "drain" /\ ~Busy("run")
    /\ todo["run"] = {}
    /\ stopCh' = "closed"
    /\ runPC' = "done"
    /\ UNCHANGED <<quicOpen, runID, runEntry, mapVars, sessionVars, expired,
                   idleVars, todo, eventVars>>

-----------------------------------------------------------------------------
(* receiveLoop, one goroutine per session socket *)

\* ReadFrom returns a packet: Last is set and the packet is to be sent.
LoopRead(e) ==
    /\ loop[e] = "read"
    /\ conn[e] = "open"
    /\ expired' = expired \ {e}
    /\ loop' = [loop EXCEPT ![e] = "send"]
    /\ UNCHANGED <<quicOpen, stopCh, runVars, mapVars, closed, conn, exit,
                   closer, idleVars, todo, eventVars>>

\* ReadFrom fails on a socket that has been shut, and may fail on an open one.
LoopReadError(e) ==
    /\ loop[e] = "read"
    /\ loop' = [loop EXCEPT ![e] = "fail"]
    /\ UNCHANGED <<quicOpen, stopCh, runVars, mapVars, closed, conn, exit,
                   closer, expired, idleVars, todo, eventVars>>

\* sendMessageAutoFrag succeeds.
LoopSend(e) ==
    /\ loop[e] = "send"
    /\ quicOpen
    /\ loop' = [loop EXCEPT ![e] = "read"]
    /\ UNCHANGED <<quicOpen, stopCh, runVars, mapVars, closed, conn, exit,
                   closer, expired, idleVars, todo, eventVars>>

\* sendMessageAutoFrag fails; a LogTraffic refusal also closes the connection.
LoopSendError(e) ==
    /\ loop[e] = "send"
    /\ loop' = [loop EXCEPT ![e] = "fail"]
    /\ quicOpen' \in {quicOpen, FALSE}
    /\ UNCHANGED <<stopCh, runVars, mapVars, closed, conn, exit, closer,
                   expired, idleVars, todo, eventVars>>

\* receiveLoop returns through CloseWithErr.
LoopClose(e) ==
    /\ loop[e] = "fail"
    /\ CloseWithErr(e, "loop")
    /\ loop' = [loop EXCEPT ![e] = "done"]
    /\ UNCHANGED <<quicOpen, stopCh, runVars, mapVars, expired, idleVars, todo,
                   eventVars>>

-----------------------------------------------------------------------------
(* idleCleanupLoop *)

\* A tick: cleanup(true) collects the sessions idle at this moment.
IdleTick ==
    /\ idlePC = "select"
    /\ todo' = [todo EXCEPT !["idle"] = Sessions \cap expired]
    /\ idlePC' = "closing"
    /\ UNCHANGED <<quicOpen, stopCh, runVars, mapVars, sessionVars, expired,
                   cleanupRunning, eventVars>>

\* cleanup(true) closes one session of its list; Last is not looked at again.
IdleClose(e) ==
    /\ idlePC = "closing" /\ ~Busy("idle")
    /\ e \in todo["idle"]
    /\ CloseWithErr(e, "idle")
    /\ todo' = [todo EXCEPT !["idle"] = @ \ {e}]
    /\ UNCHANGED <<quicOpen, stopCh, runVars, mapVars, loop, expired, idleVars,
                   eventVars>>

\* The end of the ticker branch: the goroutine ends with the last session, and
\* the flag is cleared in the critical section that saw the map empty.
IdleCheck ==
    /\ idlePC = "closing" /\ ~Busy("idle")
    /\ todo["idle"] = {}
    /\ IF Mapped = {}
         THEN cleanupRunning' = FALSE /\ idlePC' = "off"
         ELSE idlePC' = "select" /\ UNCHANGED cleanupRunning
    /\ UNCHANGED <<quicOpen, stopCh, runVars, mapVars, sessionVars, expired,
                   todo, eventVars>>

\* The stopCh branch of the select.
IdleStop ==
    /\ idlePC = "select"
    /\ stopCh = "closed"
    /\ cleanupRunning' = FALSE
    /\ idlePC' = "off"
    /\ UNCHANGED <<quicOpen, stopCh, runVars, mapVars, sessionVars, expired,
                   todo, eventVars>>

-----------------------------------------------------------------------------
(* The environment *)

\* idleTimeout passes without traffic on a session.
BecomeIdle(e) ==
    /\ idOf[e] # NoID
    /\ e \notin expired
    /\ expired' = expired \cup {e}
    /\ UNCHANGED <<quicOpen, stopCh, runVars, mapVars, sessionVars, idleVars,
                   todo, eventVars>>

\* The peer, a TCP stream's refusal or Server.Close closes the connection.
QuicClose ==
    /\ quicOpen
    /\ quicOpen' = FALSE
    /\ UNCHANGED <<stopCh, runVars, mapVars, sessionVars, expired, idleVars,
                   todo, eventVars>>

\* Every goroutine of the manager has returned.
Terminated ==
    /\ runPC = "done" /\ idlePC = "off"
    /\ \A e \in Entries : loop[e] \in {"none", "done"} /\ exit[e] \in {"no", "done"}

\* Stuttering at termination, so that any other stop is a deadlock.
Finished == Terminated /\ UNCHANGED vars

Next ==
    \/ RunStart
    \/ \E s \in SessionIDs : ReceiveMessage(s) \/ ReceiveDisconnect(s)
    \/ ReceiveError
    \/ \E e \in Entries : Feed(e)
    \/ EntryFeed \/ InitConnLock \/ DialHook \/ DialUDP \/ DialFailed
    \/ RunSnapshot \/ RunReturn
    \/ \E e \in Entries :
          \/ RunClose(e) \/ ExitLog(e) \/ ExitRemove(e)
          \/ LoopRead(e) \/ LoopReadError(e) \/ LoopSend(e)
          \/ LoopSendError(e) \/ LoopClose(e)
          \/ IdleClose(e) \/ BecomeIdle(e)
    \/ IdleTick \/ IdleCheck \/ IdleStop
    \/ QuicClose
    \/ Finished

Spec == Init /\ [][Next]_vars

\* Calls return: feed, the hook and the dial, sends, closes and critical
\* sections.  Reads end once the socket or the connection is closed.  The
\* stopCh branch is one of two ready cases of a select, which picks at random.
Fairness ==
    /\ WF_vars(RunStart) /\ WF_vars(ReceiveError)
    /\ WF_vars(\E e \in Entries : Feed(e))
    /\ WF_vars(EntryFeed) /\ WF_vars(InitConnLock)
    /\ WF_vars(DialHook) /\ WF_vars(DialUDP) /\ WF_vars(DialFailed)
    /\ WF_vars(RunSnapshot) /\ WF_vars(RunReturn)
    /\ \A e \in Entries :
          /\ WF_vars(RunClose(e)) /\ WF_vars(ExitLog(e)) /\ WF_vars(ExitRemove(e))
          /\ WF_vars(conn[e] = "shut" /\ LoopReadError(e))
          /\ WF_vars(LoopSend(e) \/ LoopSendError(e)) /\ WF_vars(LoopClose(e))
          /\ WF_vars(IdleClose(e))
    /\ WF_vars(IdleTick) /\ WF_vars(IdleCheck) /\ SF_vars(IdleStop)

FairSpec == Spec /\ Fairness

-----------------------------------------------------------------------------
(* Properties *)

PCs == {"start", "recv", "feed", "session", "init", "hook", "udp", "dialfail",
        "snapshot", "drain", "done"}

\* Every variable has its type; in particular cleanup's lists hold no nil
\* entry and a goroutine that uses a session has one.
TypeOK ==
    /\ quicOpen \in BOOLEAN
    /\ stopCh \in {"nil", "open", "closed"}
    /\ runPC \in PCs
    /\ runID \in SessionIDs \cup {NoID}
    /\ runPC = "feed" => runID \in SessionIDs
    /\ runEntry \in Entries \cup {NoEntry}
    /\ runPC \in {"session", "init", "hook", "udp", "dialfail"} => runEntry \in Entries
    /\ m \in [SessionIDs -> Entries \cup {NoEntry}]
    /\ idOf \in [Entries -> SessionIDs \cup {NoID}]
    /\ closed \in [Entries -> BOOLEAN]
    /\ conn \in [Entries -> {"nil", "open", "shut"}]
    /\ loop \in [Entries -> {"none", "read", "send", "fail", "done"}]
    /\ exit \in [Entries -> {"no", "log", "remove", "done"}]
    /\ closer \in [Entries -> {"none", "run", "idle", "loop"}]
    /\ expired \in SUBSET Entries
    /\ cleanupRunning \in BOOLEAN
    /\ idlePC \in {"off", "select", "closing"}
    /\ todo \in [{"run", "idle"} -> SUBSET Entries]
    /\ newEvents \in [Entries -> Nat]
    /\ closeEvents \in [Entries -> Nat]

\* An open socket belongs to the session the map holds for its ID, and the map
\* never exceeds the cap: no sequence of dials, failures and closes by three
\* goroutines leaves a socket that a later cleanup cannot find.
SocketsOwned ==
    /\ \A e \in Entries :
          conn[e] = "open" => idOf[e] \in SessionIDs /\ m[idOf[e]] = e
    /\ Cardinality(Mapped) <= MaxSessions

\* A socket is never created after session exit (the comment on connLock in
\* CloseWithErr and initConn), even when the close arrives during the dial; and
\* once Run has returned every session is closed, also those that other
\* goroutines were closing at that moment.
NoConnAfterExit ==
    \A e \in Entries :
       /\ closed[e] => conn[e] # "open"
       /\ (runPC = "done" /\ idOf[e] # NoID) => closed[e]

\* However many goroutines call CloseWithErr on a session, one Close event is
\* logged, and it is logged before the session leaves the map.
ClosedExactlyOnce ==
    \A e \in Entries :
       /\ closeEvents[e] <= 1
       /\ (idOf[e] # NoID /\ m[idOf[e]] # e) => closeEvents[e] = 1

\* "Last session gone -> loop exits" and "first session added -> loop starts"
\* cannot interleave badly (comment on udpSessionManager.stopCh): while Run
\* lives, sessions are watched, by the one goroutine the flag stands for.
CleanupWatchesSessions ==
    /\ cleanupRunning <=> idlePC # "off"
    /\ (Mapped # {} /\ stopCh = "open") => cleanupRunning

\* The comment on canAdmit: between the check and feed nobody can consume a
\* free slot, so a datagram that was billed is never dropped for capacity.
BilledIsAdmitted == runPC = "feed" => CanAdmit(runID)

\* The event logger sees New at most once per session, and never once the
\* session has begun to close.
NewBeforeClose ==
    [][\A e \in Entries :
          newEvents'[e] # newEvents[e] =>
             newEvents[e] = 0 /\ closeEvents[e] = 0 /\ ~closed[e]]_vars

\* The cap is kept from both sides: every open socket is owned by a mapped,
\* unclosed session, the map stays within MaxUDPSessions, and what was billed on
\* the strength of canAdmit is not dropped by feed.
AdmissionSound == SocketsOwned /\ NoConnAfterExit /\ BilledIsAdmitted

\* The event logger sees at most one New and then exactly one Close for each
\* session, whichever goroutines open and close it.
EventsInOrder == []ClosedExactlyOnce /\ NewBeforeClose

\* A session that stays idle is removed from the map.
IdleSessionsReclaimed ==
    \A e \in Entries :
       (e \in Sessions /\ e \in expired) ~> (e \notin Sessions \/ e \notin expired)

\* Once the connection is closed, Run, the idle cleanup goroutine and every
\* receive loop return and the map is empty.
EverythingReturns == ~quicOpen ~> (Terminated /\ Mapped = {})

-----------------------------------------------------------------------------
(* Refinement *)

\* The phase of a session: released when ExitFunc has removed it, closing from
\* the moment CloseWithErr has marked it.
Phase(e) ==
    IF idOf[e] = NoID THEN "unused"
    ELSE IF exit[e] = "done" THEN "released"
    ELSE IF closed[e] THEN "closing"
    ELSE IF conn[e] = "open" THEN "open" ELSE "bound"

Table == INSTANCE UDPSessionTable WITH phase <- [e \in Entries |-> Phase(e)]

\* The goroutines of the manager, their locks and their hand-over of closing
\* implement the bounded session table: an ID is reused only after the session
\* that held it is released, and no interleaving exceeds the cap.
ImplementsTable == Table!TableSpec

-----------------------------------------------------------------------------
(* A statement of the documentation that the code does not keep *)

\* YUE_FORK.md: the receive buffers (two per receiveLoop) of a connection are
\* bounded by the session cap.
ReceiveLoopsBounded ==
    Cardinality({e \in Entries : loop[e] \in {"read", "send", "fail"}}) <= MaxSessions

=============================================================================
