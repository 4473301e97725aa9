----------------------------- MODULE Reconnect -----------------------------
(***************************************************************************)
(* reconnectableClientImpl (core/client/reconnect.go) over clientImpl      *)
(* (core/client/client.go).  Goroutines call TCP and UDP, one calls Close. *)
(* The mutex is held across a whole connection attempt: configFunc, the    *)
(* QUIC handshake, and the authentication request, whose RoundTrip has no  *)
(* timeout.  The operation on the client runs without the mutex; a TCP     *)
(* call waits for the server's response with no deadline.  A client that   *)
(* is not lazy makes its first connection before it is shared, which is a  *)
(* state reached here too.                                                 *)
(***************************************************************************)
EXTENDS Naturals

CONSTANTS
    Callers,    \* goroutines that call TCP or UDP
    Clients,    \* clientImpl values, one per successful NewClient
    NoClient    \* nil

ASSUME NoClientAssumption == NoClient \notin Clients

VARIABLES
    client,     \* rc.client
    closed,     \* rc.closed
    pc,         \* per caller: "idle", "lock" (waiting for rc.m); holding rc.m "dial",
                \* "auth" (awaiting the response), "lost" (connection gone); "call", "failed"
    op,         \* what the caller asked for: "tcp" or "udp"
    using,      \* the client a call fetched
    quic,       \* per client: its QUIC connection "none", "open", "closed"
    socket,     \* per client: its transport and UDP socket "none", "open", "closed"
    udpSM,      \* per client: "off" if UDP is disabled, "open", "closed"
    reported    \* clients on which some call returned ClosedError

connVars == <<quic, socket, udpSM>>
vars == <<client, closed, pc, op, using, connVars, reported>>

Unused == {c \in Clients : quic[c] = "none"}

\* rc.m is held across steps only by reconnect.
Connecting(p) == pc[p] \in {"dial", "auth", "lost"}

MutexFree == \A p \in Callers : ~Connecting(p)

Init ==
    /\ client = NoClient
    /\ closed = FALSE
    /\ pc = [p \in Callers |-> "idle"]
    /\ op = [p \in Callers |-> "tcp"]
    /\ using = [p \in Callers |-> NoClient]
    /\ quic = [c \in Clients |-> "none"]
    /\ socket = [c \in Clients |-> "none"]
    /\ udpSM = [c \in Clients |-> "off"]
    /\ reported = {}

-----------------------------------------------------------------------------
(* clientDo *)

\* A goroutine calls TCP or UDP and waits for the mutex.
ClientDo(p, o) ==
    /\ pc[p] = "idle"
    /\ op' = [op EXCEPT ![p] = o]
    /\ pc' = [pc EXCEPT ![p] = "lock"]
    /\ UNCHANGED <<client, closed, using, connVars, reported>>

\* Mutation: a call does not look at closed.
LockUnchecked(p) ==
    /\ pc[p] = "lock" /\ MutexFree
    /\ using' = [using EXCEPT ![p] = client]
    /\ pc' = [pc EXCEPT ![p] = IF client = NoClient THEN "dial" ELSE "call"]
    /\ UNCHANGED <<client, closed, op, connVars, reported>>

\* With the mutex: refused after Close, otherwise it uses the current client
\* or connects first.
Lock(p) ==
    /\ pc[p] = "lock" /\ MutexFree
    /\ IF closed
         THEN pc' = [pc EXCEPT ![p] = "idle"] /\ UNCHANGED using
         ELSE /\ using' = [using EXCEPT ![p] = client]
              /\ pc' = [pc EXCEPT ![p] = IF client = NoClient THEN "dial" ELSE "call"]
    /\ UNCHANGED <<client, closed, op, connVars, reported>>

\* configFunc and the QUIC handshake succeed; the request is sent.
Dialed(p) ==
    /\ pc[p] = "dial"
    /\ pc' = [pc EXCEPT ![p] = "auth"]
    /\ UNCHANGED <<client, closed, op, using, connVars, reported>>

\* The connection is lost while the response is awaited.
AttemptLost(p) ==
    /\ pc[p] = "auth"
    /\ pc' = [pc EXCEPT ![p] = "lost"]
    /\ UNCHANGED <<client, closed, op, using, connVars, reported>>

ErrorKeepsMutex(p) == Connecting(p) /\ UNCHANGED vars

\* reconnect fails: in configFunc, the handshake or RoundTrip, or on a status
\* that is not StatusAuthOK; connect closes what it opened.  rc.client is nil
\* throughout, so there is no previous client to close.
ReconnectError(p) ==
    /\ Connecting(p)
    /\ pc' = [pc EXCEPT ![p] = "idle"]
    /\ UNCHANGED <<client, closed, op, using, connVars, reported>>

\* reconnect succeeds; UDP may be disabled by the server.  The mutex is
\* released and the operation follows.
Reconnect(p, c) ==
    /\ pc[p] = "auth"
    /\ c \in Unused
    /\ quic' = [quic EXCEPT ![c] = "open"]
    /\ socket' = [socket EXCEPT ![c] = "open"]
    /\ \E u \in {"off", "open"} : udpSM' = [udpSM EXCEPT ![c] = u]
    /\ client' = c
    /\ using' = [using EXCEPT ![p] = c]
    /\ pc' = [pc EXCEPT ![p] = "call"]
    /\ UNCHANGED <<closed, op, reported>>

\* The operation ends with a result, a DialError or a recoverable error.  TCP
\* needs an open connection; UDP creates its session without touching it, and
\* fails with DialError if UDP is disabled.
CallReturn(p) ==
    /\ pc[p] = "call"
    /\ IF op[p] = "tcp" THEN quic[using[p]] = "open" ELSE udpSM[using[p]] # "closed"
    /\ pc' = [pc EXCEPT ![p] = "idle"]
    /\ using' = [using EXCEPT ![p] = NoClient]
    /\ UNCHANGED <<client, closed, op, connVars, reported>>

\* The operation ends with ClosedError: for UDP when the session manager has
\* stopped, for TCP on any error of the stream but StreamLimitReachedError.
CallClosedError(p) ==
    /\ pc[p] = "call"
    /\ op[p] = "udp" => udpSM[using[p]] = "closed"
    /\ reported' = reported \cup {using[p]}
    /\ pc' = [pc EXCEPT ![p] = "failed"]
    /\ UNCHANGED <<client, closed, op, using, connVars>>

\* After a ClosedError the client is set to nil, unless it has changed.
Drop(p) ==
    /\ pc[p] = "failed" /\ MutexFree
    /\ client' = IF client = using[p] THEN NoClient ELSE client
    /\ pc' = [pc EXCEPT ![p] = "idle"]
    /\ using' = [using EXCEPT ![p] = NoClient]
    /\ UNCHANGED <<closed, op, connVars, reported>>

-----------------------------------------------------------------------------

\* Close, any number of times: the current client is closed, not forgotten.
Close ==
    /\ MutexFree
    /\ closed' = TRUE
    /\ IF client = NoClient
         THEN UNCHANGED <<quic, socket>>
         ELSE /\ quic' = [quic EXCEPT ![client] = "closed"]
              /\ socket' = [socket EXCEPT ![client] = "closed"]
    /\ UNCHANGED <<client, pc, op, using, udpSM, reported>>

\* The server closes the connection, or it times out.
ConnLost(c) ==
    /\ quic[c] = "open"
    /\ quic' = [quic EXCEPT ![c] = "closed"]
    /\ UNCHANGED <<client, closed, pc, op, using, socket, udpSM, reported>>

\* The session manager of a closed connection stops.
UDPCleanup(c) ==
    /\ quic[c] = "closed" /\ udpSM[c] = "open"
    /\ udpSM' = [udpSM EXCEPT ![c] = "closed"]
    /\ UNCHANGED <<client, closed, pc, op, using, quic, socket, reported>>

Next ==
    \/ \E p \in Callers :
          \/ \E o \in {"tcp", "udp"} : ClientDo(p, o)
          \/ Lock(p) \/ Dialed(p) \/ AttemptLost(p)
          \/ ReconnectError(p) \/ CallReturn(p) \/ CallClosedError(p) \/ Drop(p)
          \/ \E c \in Clients : Reconnect(p, c)
    \/ Close
    \/ \E c \in Clients : ConnLost(c) \/ UDPCleanup(c)

Spec == Init /\ [][Next]_vars

\* Nothing is assumed of the server: neither that it answers nor that its
\* silence ends the connection (keep-alives do not stop).  The handshake has a
\* timeout; an operation on a dead connection fails, and one that does not wait
\* for the server returns; a mutex free again and again is obtained (sync.Mutex
\* hands it to a waiter that starves).
ReturnsAlone(p) ==
    /\ pc[p] = "call"
    /\ op[p] = "udp" \/ quic[using[p]] = "closed"
    /\ CallReturn(p) \/ CallClosedError(p)

Fairness ==
    /\ \A p \in Callers :
          /\ WF_vars(Dialed(p) \/ (pc[p] # "auth" /\ ReconnectError(p)))
          /\ WF_vars(ReturnsAlone(p))
          /\ SF_vars(Lock(p)) /\ SF_vars(Drop(p))
    /\ \A c \in Clients : WF_vars(UDPCleanup(c))

FairSpec == Spec /\ Fairness

-----------------------------------------------------------------------------
(* Properties *)

\* Every variable has its type; a call uses a client that was connected.
TypeOK ==
    /\ client \in Clients \cup {NoClient}
    /\ closed \in BOOLEAN
    /\ pc \in [Callers -> {"idle", "lock", "dial", "auth", "lost", "call", "failed"}]
    /\ op \in [Callers -> {"tcp", "udp"}]
    /\ using \in [Callers -> Clients \cup {NoClient}]
    /\ \A p \in Callers : pc[p] \in {"call", "failed"} => using[p] \in Clients \ Unused
    /\ quic \in [Clients -> {"none", "open", "closed"}]
    /\ socket \in [Clients -> {"none", "open", "closed"}]
    /\ udpSM \in [Clients -> {"off", "open", "closed"}]
    /\ reported \in SUBSET Clients

\* A connection is given up only for its own failure: one on which no call has
\* failed, and which is still connected, is the current one.  Two callers that
\* find no client do not both connect, and a late error from an old connection
\* does not drop its successor (the comment in clientDo).
HealthyIsCurrent ==
    \A c \in Clients : (quic[c] = "open" /\ c \notin reported) => client = c

\* Close is permanent: no connection is established after it.
NoConnectAfterClose ==
    [][\A c \in Clients : quic[c] = "none" /\ quic'[c] = "open" => ~closed]_vars

\* What a caller may rely on: a healthy connection is kept and shared by all
\* callers, and none is established behind the back of Close.
ReconnectSafe == []HealthyIsCurrent /\ NoConnectAfterClose

\* A TCP call that meets a dead connection makes way for a new one.
DeadIsReplaced ==
    \A p \in Callers, c \in Clients :
       (pc[p] = "call" /\ op[p] = "tcp" /\ using[p] = c /\ quic[c] = "closed")
          ~> (client # c)

\* The waits that only the server ends: for its authentication response, with
\* the mutex held, and for its response to a TCP request.
AwaitsAuth(p) == pc[p] = "auth"
AwaitsResponse(p) == pc[p] = "call" /\ op[p] = "tcp" /\ quic[using[p]] = "open"

\* Every call returns, unless a server that stays connected is silent for
\* ever: towards this call, or towards the one that holds the mutex.
CallsReturn ==
    \A p \in Callers :
       \/ pc[p] # "idle" ~> pc[p] = "idle"
       \/ <>[]AwaitsResponse(p)
       \/ \E q \in Callers : <>[]AwaitsAuth(q)

\* A dead connection blocks nobody: it makes way for a new one, and every call
\* returns that does not wait for a silent server.
ReconnectLive == DeadIsReplaced /\ CallsReturn

-----------------------------------------------------------------------------
(* Comments of the code that the code does not keep *)

\* clientDo: "detect if the client is closed, and if so, set it to nil".
NilOnlyIfClosed ==
    [][(client # NoClient /\ client' = NoClient) => quic[client] = "closed"]_vars

\* reconnectableClientImpl: Close permanently closes this client, with every
\* connection and socket it made.
CloseReleasesAll == closed => \A c \in Clients : socket[c] # "open"

=============================================================================
