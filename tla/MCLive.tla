------------------------------- MODULE MCLive -------------------------------
(***************************************************************************)
(* The components whose goroutines wait for each other, for the properties  *)
(* that say the waits end.  As in MCTransport a behaviour moves one of      *)
(* them; its fairness is assumed only of the component that moves.          *)
(***************************************************************************)
EXTENDS StreamCopy, ClientUDP, FastOpen, UDPHop, RealmRuntime, LocalInbounds

CONSTANTS t1, s1, s2, w1, w2, r1, p1, c1, a, b, e1, e2,
          Entries, NoEntry   \* of the server's session manager

VARIABLES part,              \* the component that moves
          quicOpen, stopCh, runPC, runID, runEntry, udpMap, idOf, udpClosed, conn, loop, exit, closer,
          expired, cleanupRunning, idlePC, todo, newEvents, closeEvents

Server == INSTANCE UDPSessionManager WITH SessionIDs <- {s1}, MaxSessions <- 1, m <- udpMap, closed <- udpClosed

serverVars == <<quicOpen, stopCh, runPC, runID, runEntry, udpMap, idOf, udpClosed, conn, loop, exit, closer,
                expired, cleanupRunning, idlePC, todo, newEvents, closeEvents>>

InitLive ==
    /\ part \in {"relay", "client", "fast", "hop", "realm", "inbounds", "sessions"}
    /\ InitCopy /\ Init /\ InitFast /\ InitHop /\ InitRealm /\ InitInb /\ Server!Init
    /\ addrIndex = 1
    /\ part # "realm" => portMap = "none"

Others(p) ==
    /\ UNCHANGED part
    /\ IF p = "relay" THEN TRUE ELSE UNCHANGED streamVars
    /\ IF p = "client" THEN TRUE ELSE UNCHANGED vars
    /\ IF p = "fast" THEN TRUE ELSE UNCHANGED fastVars
    /\ IF p = "hop" THEN TRUE ELSE UNCHANGED hopVars
    /\ IF p = "realm" THEN TRUE ELSE UNCHANGED realmVars
    /\ IF p = "inbounds" THEN TRUE ELSE UNCHANGED inb
    /\ IF p = "sessions" THEN TRUE ELSE UNCHANGED serverVars

\* Entries are interchangeable: they are allocated in this order.
InOrder == idOf[e2] # NoID => idOf[e1] # NoID

NextLive ==
    \/ part = "relay" /\ NextCopy /\ Others("relay")
    \/ part = "client" /\ Next /\ Others("client")
    \/ part = "fast" /\ NextFast /\ Others("fast")
    \/ part = "hop" /\ NextHop /\ Others("hop")
    \/ part = "realm" /\ NextRealm /\ Others("realm")
    \/ part = "inbounds" /\ NextInb /\ Others("inbounds")
    \/ part = "sessions" /\ Server!Next /\ InOrder' /\ Others("sessions")

liveVars == <<part, streamVars, vars, fastVars, hopVars, realmVars, inb, serverVars>>

-----------------------------------------------------------------------------
(* The fairness each module states, guarded by the component that moves (a  *)
(* guarded conjunction of WF formulas; an implication would make TLC treat  *)
(* every combination of parts as a case of its own).                        *)

RelayFair ==
    \A s \in Streams :
       /\ WF_streamVars(part = "relay" /\ ~connOpen /\ ReadRequest(s))
       /\ WF_streamVars(part = "relay" /\ RunHook(s)) /\ WF_streamVars(part = "relay" /\ Dial(s))
       /\ WF_streamVars(part = "relay" /\ PutBack(s))
       /\ WF_streamVars(part = "relay" /\ CopyReturn(s)) /\ WF_streamVars(part = "relay" /\ Cleanup(s))
       /\ WF_streamVars(part = "relay" /\ HandlerReturn(s))
       /\ \A d \in Dirs :
             /\ WF_streamVars(part = "relay" /\ SourceDead(s, d) /\ CopyReadEnd(s, d))
             /\ WF_streamVars(part = "relay" /\ CopyCheck(s, d))
             /\ WF_streamVars(part = "relay" /\ (CopyWrite(s, d) \/ CopyWriteError(s, d)))

ClientFair ==
    /\ WF_vars(part = "client" /\ \E x \in msg : Feed(x))
    /\ WF_vars(part = "client" /\ ReceiveError) /\ WF_vars(part = "client" /\ CloseCleanup)
    /\ \A c \in Conns : WF_vars(part = "client" /\ (ReceiveMsg(c) \/ ReceiveEOF(c)))

FastFair ==
    /\ \A w \in Writers : WF_fastVars(part = "fast" /\ WriterStep(w))
    /\ \A r \in Readers : WF_fastVars(part = "fast" /\ ReaderStep(r))

HopFair ==
    \A s \in Sockets :
       WF_hopVars(part = "hop" /\ RecvSendError(s)) /\ WF_hopVars(part = "hop" /\ RecvExit(s))

RealmFair ==
    /\ WF_realmVars(part = "realm" /\ RunStep) /\ WF_realmVars(part = "realm" /\ Deregister)
    /\ \A r \in Responders : WF_realmVars(part = "realm" /\ RespondStep(r))
    /\ WF_realmVars(part = "realm" /\ PortMapRenewed) /\ SF_realmVars(part = "realm" /\ PortMapStop)
    /\ \A s \in SessionIDs :
          WF_realmVars(part = "realm" /\ LoopStep(s)) /\ SF_realmVars(part = "realm" /\ HeartbeatStop(s))

InboundFair == \A c \in Inbound : WF_inb(part = "inbounds" /\ Unwind(c))

SessionsFair ==
    /\ WF_serverVars(part = "sessions" /\ Server!RunStart)
    /\ WF_serverVars(part = "sessions" /\ Server!ReceiveError)
    /\ WF_serverVars(part = "sessions" /\ \E e \in Entries : Server!Feed(e))
    /\ WF_serverVars(part = "sessions" /\ Server!EntryFeed)
    /\ WF_serverVars(part = "sessions" /\ Server!InitConnLock)
    /\ WF_serverVars(part = "sessions" /\ Server!DialHook)
    /\ WF_serverVars(part = "sessions" /\ Server!DialUDP)
    /\ WF_serverVars(part = "sessions" /\ Server!DialFailed)
    /\ WF_serverVars(part = "sessions" /\ Server!RunSnapshot)
    /\ WF_serverVars(part = "sessions" /\ Server!RunReturn)
    /\ \A e \in Entries :
          /\ WF_serverVars(part = "sessions" /\ Server!RunClose(e))
          /\ WF_serverVars(part = "sessions" /\ Server!ExitLog(e))
          /\ WF_serverVars(part = "sessions" /\ Server!ExitRemove(e))
          /\ WF_serverVars(part = "sessions" /\ conn[e] = "shut" /\ Server!LoopReadError(e))
          /\ WF_serverVars(part = "sessions" /\ (Server!LoopSend(e) \/ Server!LoopSendError(e)))
          /\ WF_serverVars(part = "sessions" /\ Server!LoopClose(e))
          /\ WF_serverVars(part = "sessions" /\ Server!IdleClose(e))
    /\ WF_serverVars(part = "sessions" /\ Server!IdleTick)
    /\ WF_serverVars(part = "sessions" /\ Server!IdleCheck)
    /\ SF_serverVars(part = "sessions" /\ Server!IdleStop)

FairLive ==
    /\ InitLive /\ [][NextLive]_liveVars
    /\ RelayFair /\ ClientFair /\ FastFair /\ HopFair /\ RealmFair /\ InboundFair /\ SessionsFair

-----------------------------------------------------------------------------

\* The server's goroutines end: an idle UDP session is removed from the map, and once the
\* connection is closed Run, the cleanup, every receive loop (core/server/udp.go) and every
\* stream handler with both of its copies (core/server/server.go, copy.go) return.
ServerGoroutinesEnd ==
    /\ Server!IdleSessionsReclaimed
    /\ Server!EverythingReturns
    /\ HandlersReturn

\* The client's waits end: Receive returns once the connection is closed (core/client/udp.go),
\* a Read of a fast-open connection is woken (fastopen.go), and the receive loop of a socket
\* that hopping has closed ends (udphop/conn.go).
ClientWaitsEnd == ReceivesReturn /\ ReadersWake /\ ReceiveLoopsEnd
=============================================================================
