------------------------------- MODULE UDPHop -------------------------------
(***************************************************************************)
(* Port hopping: udpHopPacketConn of extras/transport/udphop/conn.go.  The *)
(* timer of hopLoop replaces the local socket and the server port every    *)
(* interval; the previous socket is kept for one more interval because the *)
(* server still answers to it.  One recvLoop per socket fills recvQueue,   *)
(* which ReadFrom empties.  connMutex guards everything but the queue.     *)
(***************************************************************************)
EXTENDS Naturals, Sequences

CONSTANTS
    HopPorts,    \* the server's ports
    MaxHops,     \* bound on the number of hops
    QueueSize,   \* packetQueueSize
    MaxHopReads  \* bound on what the sockets receive

ASSUME MaxHopsAssumption == MaxHops \in Nat

Sockets == 1..(MaxHops + 1)
Zero == 0        \* no deadline

VARIABLES
    hopSocket,   \* per socket: "none", "open" or "closed"
    prevConn, currentConn, addrIndex,
    readDeadline, writeDeadline,
    socketDeadline,  \* per socket: the deadlines it has
    recvLoop,    \* per socket: "none", "read", blocked in "send", or "done"
    deaf,        \* history: the sockets whose ReadFrom failed while they were open
    recvQueue,
    hopClosed,
    hopReads,    \* what arrived so far
    hopReader    \* a ReadFrom of QUIC: "idle", "wait" or "closed"

hopVars == <<hopSocket, prevConn, currentConn, addrIndex, readDeadline, writeDeadline,
             socketDeadline, recvLoop, deaf, recvQueue, hopClosed, hopReads, hopReader>>

NoDeadline == [read |-> Zero, write |-> Zero]

\* NewUDPHopPacketConn opens the first socket and starts the goroutines.
InitHop ==
    /\ hopSocket = [s \in Sockets |-> IF s = 1 THEN "open" ELSE "none"]
    /\ prevConn = 0 /\ currentConn = 1
    /\ addrIndex \in HopPorts
    /\ readDeadline = Zero /\ writeDeadline = Zero
    /\ socketDeadline = [s \in Sockets |-> NoDeadline]
    /\ recvLoop = [s \in Sockets |-> IF s = 1 THEN "read" ELSE "none"]
    /\ deaf = {}
    /\ recvQueue = <<>> /\ hopClosed = FALSE /\ hopReads = 0 /\ hopReader = "idle"

-----------------------------------------------------------------------------
(* hopLoop *)

Shut(s, socks) == IF s = 0 THEN socks ELSE [socks EXCEPT ![s] = "closed"]

\* Mutation: a new socket starts without deadlines.
InheritNothing == NoDeadline

\* What hop gives a new socket: the deadlines set so far.
Inherited == [read |-> readDeadline, write |-> writeDeadline]

\* hop: prevConn is closed, currentConn becomes prevConn, a new socket with the
\* present deadlines becomes currentConn and the server port is drawn again.
\* A failing ListenUDPFunc skips the hop; after Close nothing happens.
Hop ==
    /\ ~hopClosed
    /\ \E s \in Sockets :
          /\ hopSocket[s] = "none" /\ \A k \in Sockets : k < s => hopSocket[k] # "none"
          /\ hopSocket' = [Shut(prevConn, hopSocket) EXCEPT ![s] = "open"]
          /\ prevConn' = currentConn
          /\ currentConn' = s
          /\ socketDeadline' = [socketDeadline EXCEPT ![s] = Inherited]
          /\ recvLoop' = [recvLoop EXCEPT ![s] = "read"]
    /\ addrIndex' \in HopPorts
    /\ UNCHANGED <<readDeadline, writeDeadline, recvQueue, hopClosed, hopReads, hopReader, deaf>>

\* SetDeadline, SetReadDeadline and SetWriteDeadline reach both sockets, and
\* are kept for the sockets to come.
SetDeadlines(r, w) ==
    /\ ~hopClosed
    /\ readDeadline' = r /\ writeDeadline' = w
    /\ socketDeadline' = [s \in Sockets |-> IF s \in {prevConn, currentConn}
                                            THEN [read |-> r, write |-> w] ELSE socketDeadline[s]]
    /\ UNCHANGED <<hopSocket, prevConn, currentConn, addrIndex, recvLoop, recvQueue, hopClosed,
                   hopReads, hopReader, deaf>>

CloseHop ==
    /\ ~hopClosed
    /\ hopSocket' = [Shut(prevConn, hopSocket) EXCEPT ![currentConn] = "closed"]
    /\ hopClosed' = TRUE
    /\ UNCHANGED <<prevConn, currentConn, addrIndex, readDeadline, writeDeadline, socketDeadline,
                   recvLoop, recvQueue, hopReads, hopReader, deaf>>

-----------------------------------------------------------------------------
(* recvLoop *)

HasRoom == Len(recvQueue) < QueueSize

\* A packet is queued, or dropped when the queue is full.
RecvPacket(s) ==
    /\ recvLoop[s] = "read" /\ hopSocket[s] = "open" /\ hopReads < MaxHopReads
    /\ hopReads' = hopReads + 1
    /\ recvQueue' = IF HasRoom THEN Append(recvQueue, "packet") ELSE recvQueue
    /\ UNCHANGED <<hopSocket, prevConn, currentConn, addrIndex, readDeadline, writeDeadline,
                   socketDeadline, recvLoop, hopClosed, hopReader, deaf>>

\* The read deadline passed: the error is sent to the queue without a default.
RecvTimeout(s) ==
    /\ recvLoop[s] = "read" /\ hopSocket[s] = "open" /\ socketDeadline[s].read # Zero
    /\ hopReads < MaxHopReads
    /\ hopReads' = hopReads + 1
    /\ recvLoop' = [recvLoop EXCEPT ![s] = "send"]
    /\ UNCHANGED <<hopSocket, prevConn, currentConn, addrIndex, readDeadline, writeDeadline,
                   socketDeadline, recvQueue, hopClosed, hopReader, deaf>>

RecvSendError(s) ==
    /\ recvLoop[s] = "send" /\ HasRoom
    /\ recvQueue' = Append(recvQueue, "timeout")
    /\ recvLoop' = [recvLoop EXCEPT ![s] = "read"]
    /\ UNCHANGED <<hopSocket, prevConn, currentConn, addrIndex, readDeadline, writeDeadline,
                   socketDeadline, hopClosed, hopReads, hopReader, deaf>>

\* The loop returns on every error of ReadFrom but a timeout.  This one comes from a
\* socket that is still open: nothing closes the socket and nothing starts another loop.
RecvFails(s) ==
    /\ recvLoop[s] = "read" /\ hopSocket[s] = "open"
    /\ recvLoop' = [recvLoop EXCEPT ![s] = "done"]
    /\ deaf' = deaf \cup {s}
    /\ UNCHANGED <<hopSocket, prevConn, currentConn, addrIndex, readDeadline, writeDeadline,
                   socketDeadline, recvQueue, hopClosed, hopReads, hopReader>>

\* The error of a socket that was closed.
RecvExit(s) ==
    /\ recvLoop[s] = "read" /\ hopSocket[s] = "closed"
    /\ recvLoop' = [recvLoop EXCEPT ![s] = "done"]
    /\ UNCHANGED <<hopSocket, prevConn, currentConn, addrIndex, readDeadline, writeDeadline,
                   socketDeadline, recvQueue, hopClosed, hopReads, hopReader, deaf>>

-----------------------------------------------------------------------------
(* ReadFrom; WriteTo uses currentConn and Addrs[addrIndex] under the lock *)

ReadFromCall ==
    /\ hopReader = "idle"
    /\ hopReader' = "wait"
    /\ UNCHANGED <<hopSocket, prevConn, currentConn, addrIndex, readDeadline, writeDeadline,
                   socketDeadline, recvLoop, recvQueue, hopClosed, hopReads, deaf>>

ReadFromReturn ==
    /\ hopReader = "wait"
    /\ \/ recvQueue # <<>> /\ recvQueue' = Tail(recvQueue) /\ hopReader' = "idle"
       \/ hopClosed /\ hopReader' = "closed" /\ UNCHANGED recvQueue
    /\ UNCHANGED <<hopSocket, prevConn, currentConn, addrIndex, readDeadline, writeDeadline,
                   socketDeadline, recvLoop, hopClosed, hopReads, deaf>>

NextHop ==
    \/ Hop \/ CloseHop \/ ReadFromCall \/ ReadFromReturn
    \/ \E r, w \in {Zero, 1} : SetDeadlines(r, w)
    \/ \E s \in Sockets : RecvPacket(s) \/ RecvTimeout(s) \/ RecvSendError(s) \/ RecvFails(s) \/ RecvExit(s)

SpecHop == InitHop /\ [][NextHop]_hopVars

\* A receive loop whose socket is closed gets its error, and a send into a queue with room happens.
HopFairness == \A s \in Sockets : WF_hopVars(RecvSendError(s)) /\ WF_hopVars(RecvExit(s))

-----------------------------------------------------------------------------
(* Properties *)

OpenSockets == {s \in Sockets : hopSocket[s] = "open"}

\* However hops, deadlines, failing reads and Close interleave, the open sockets
\* are exactly the current and the previous one (none after Close) and each has
\* the deadlines that were set last: QUIC ends a read by setting a deadline, on
\* whatever socket the connection has hopped to.  Each is served by a receive
\* loop, but for one whose ReadFrom failed; the sockets of later hops are served.
HopSockets ==
    /\ OpenSockets = IF hopClosed THEN {} ELSE {prevConn, currentConn} \ {0}
    /\ \A s \in OpenSockets : /\ s \in deaf \/ recvLoop[s] \in {"read", "send"}
                              /\ socketDeadline[s] = [read |-> readDeadline, write |-> writeDeadline]
    /\ \A s \in deaf : hopSocket[s] # "none" /\ recvLoop[s] = "done"

\* The loop of a closed socket ends unless the queue is full of packets that
\* nobody reads.
ReceiveLoopsEnd ==
    \A s \in Sockets :
       hopSocket[s] = "closed" ~> (recvLoop[s] = "done" \/ (recvLoop[s] = "send" /\ ~HasRoom))
=============================================================================
