----------------------------- MODULE H3sHandler -----------------------------
(***************************************************************************)
(* One accepted QUIC connection of the server, from handleClient's start   *)
(* to its return (core/server/server.go), with the pre-authentication      *)
(* receive cap (core/server/preauth_yue.go).                               *)
(*                                                                         *)
(* The goroutines are: handleClient; one per HTTP/3 auth request, holding  *)
(* authMutex across Authenticate; one per stream handed to                 *)
(* ProxyStreamHijacker; the UDP session manager; the AuthTimeout timer;    *)
(* the QUIC connection's own loop, which asks before it buffers received   *)
(* bytes; and the connection tracker, which may close the connection of a  *)
(* registered user at any moment.                                          *)
(***************************************************************************)
EXTENDS Naturals

CONSTANTS
    Requests,    \* auth requests (POST to the auth URL) on the connection
    Streams,     \* streams that reach ProxyStreamHijacker
    HasTracker,  \* the TrafficLogger is a ConnectionTracker
    Limit,       \* QUICConfig.PreAuthReceiveLimit
    MaxChunk     \* largest number of bytes of one receive or one read

ASSUME HasTrackerAssumption == HasTracker \in BOOLEAN
ASSUME LimitAssumption == Limit \in Nat \ {0} /\ MaxChunk \in Nat \ {0}
ASSUME NamesAssumption == {"free"} \cap Requests = {}

VARIABLES
    quic,          \* "open", "closing" (CloseWithError called), "closed"
    main,          \* control point of handleClient
    req,           \* state of each auth request
    authMutex,     \* "free", or the request that holds it
    authenticated, authExpired,
    untrack,       \* h.untrack is not nil
    registered,    \* the tracker holds a close function of this connection
    timer,         \* "armed", "fired", "close" (decided), "done"
    stream,        \* state of each proxy stream
    udp,           \* the session manager goroutine: "none", "run", "done"
    connects, disconnects,  \* online/offline reports to loggers
    entry,         \* preAuthReceive.conns holds an entry for the connection
    marked,        \* preAuthConn.authenticated
    unread,        \* preAuthConn.unread
    held           \* bytes QUIC holds for the application, at most Limit + MaxChunk

handlerVars == <<authenticated, authExpired, untrack>>
eventVars   == <<connects, disconnects>>
preVars     == <<entry, marked, unread>>
vars == <<quic, main, req, authMutex, handlerVars, registered, timer, stream,
          udp, eventVars, preVars, held>>

Chunks == 1..MaxChunk

Init ==
    /\ quic = "open"
    /\ main = "serving"
    /\ req = [r \in Requests |-> "none"]
    /\ authMutex = "free"
    /\ authenticated = FALSE /\ authExpired = FALSE
    /\ untrack = FALSE /\ registered = FALSE
    /\ timer = "armed"
    /\ stream = [s \in Streams |-> "none"]
    /\ udp = "none"
    /\ connects = 0 /\ disconnects = 0
    /\ entry = FALSE /\ marked = FALSE /\ unread = 0
    /\ held = 0

\* CloseWithError: the first close counts.
CloseQUIC == quic' = IF quic = "open" THEN "closing" ELSE quic

-----------------------------------------------------------------------------
(* The pre-authentication receive cap *)

\* A connection without an entry gets a fresh one from state().
UnreadNow == IF entry THEN unread ELSE 0
MarkedNow == entry /\ marked

\* preAuthReceive.allow: whether d more bytes fit under the cap.
Allow(d) == MarkedNow \/ (UnreadNow < Limit /\ d <= Limit - UnreadNow)

\* The connection loop receives d bytes.  Allowed bytes are charged until the
\* entry is marked.  A refusal by the cap, or by the embedder's own callback
\* (which returns the charge), closes the connection.
Receive(d) ==
    /\ quic = "open" /\ held + d <= Limit + MaxChunk
    /\ entry' = TRUE /\ marked' = MarkedNow
    /\ \/ /\ Allow(d)
          /\ unread' = IF MarkedNow THEN UnreadNow ELSE UnreadNow + d
          /\ held' = held + d
          /\ UNCHANGED quic
       \/ unread' = UnreadNow /\ CloseQUIC /\ UNCHANGED held
    /\ UNCHANGED <<main, req, authMutex, handlerVars, registered, timer, stream,
                   udp, eventVars>>

\* The application reads d bytes: preAuthReceive.release, which saturates at 0
\* and does not create an entry.
Read(d) ==
    /\ held >= d
    /\ held' = held - d
    /\ unread' = IF ~entry THEN unread ELSE IF d < unread THEN unread - d ELSE 0
    /\ UNCHANGED <<quic, main, req, authMutex, handlerVars, registered, timer,
                   stream, udp, eventVars, entry, marked>>

-----------------------------------------------------------------------------
(* ServeHTTP *)

\* An auth request arrives on the open connection.
RequestArrive(r) ==
    /\ quic = "open" /\ main = "serving"
    /\ req[r] = "none"
    /\ req' = [req EXCEPT ![r] = "lock"]
    /\ UNCHANGED <<quic, main, authMutex, handlerVars, registered, timer,
                   stream, udp, eventVars, preVars, held>>

\* ServeHTTP answers without asking the authenticator again.
Settled == authExpired \/ authenticated

\* ServeHTTP takes authMutex.  An expired connection gets the masquerade, an
\* authenticated one the same answer again; otherwise Authenticate is next.
RequestLock(r) ==
    /\ req[r] = "lock"
    /\ authMutex = "free"
    /\ IF Settled
         THEN req' = [req EXCEPT ![r] = "done"] /\ UNCHANGED authMutex
         ELSE req' = [req EXCEPT ![r] = "auth"] /\ authMutex' = r
    /\ UNCHANGED <<quic, main, handlerVars, registered, timer, stream, udp,
                   eventVars, preVars, held>>

\* Authenticate returns; it may take long and the connection may be closed.
Authenticate(r) ==
    /\ req[r] = "auth"
    /\ \/ /\ req' = [req EXCEPT ![r] = IF HasTracker THEN "track" ELSE "publish"]
          /\ UNCHANGED authMutex
       \/ req' = [req EXCEPT ![r] = "done"] /\ authMutex' = "free"
    /\ UNCHANGED <<quic, main, handlerVars, registered, timer, stream, udp,
                   eventVars, preVars, held>>

\* TrackConnection registers the close function, or refuses because the
\* authorization changed; a refused request is answered by the masquerade.
TrackConnection(r) ==
    /\ req[r] = "track"
    /\ \/ /\ registered' = TRUE /\ untrack' = TRUE
          /\ req' = [req EXCEPT ![r] = "publish"]
          /\ UNCHANGED authMutex
       \/ /\ untrack' = FALSE
          /\ req' = [req EXCEPT ![r] = "done"] /\ authMutex' = "free"
          /\ UNCHANGED registered
    /\ UNCHANGED <<quic, main, authenticated, authExpired, timer, stream, udp,
                   eventVars, preVars, held>>

\* The authenticated state is published, markAuthenticated included: it
\* creates the pre-auth entry if the connection has none any more.
Publish(r) ==
    /\ req[r] = "publish"
    /\ authenticated' = TRUE
    /\ entry' = TRUE /\ marked' = TRUE /\ unread' = UnreadNow
    /\ req' = [req EXCEPT ![r] = "log"]
    /\ UNCHANGED <<quic, main, authMutex, authExpired, untrack, registered,
                   timer, stream, udp, eventVars, held>>

\* The response, LogOnlineState(true) and Connect, and the start of the UDP
\* session manager; then ServeHTTP returns and unlocks.
LogConnect(r) ==
    /\ req[r] = "log"
    /\ connects' = connects + 1
    /\ udp' = "run"
    /\ req' = [req EXCEPT ![r] = "done"]
    /\ authMutex' = "free"
    /\ UNCHANGED <<quic, main, handlerVars, registered, timer, stream,
                   disconnects, preVars, held>>

-----------------------------------------------------------------------------
(* AuthTimeout *)

\* time.AfterFunc fires.
TimerFire ==
    /\ timer = "armed"
    /\ timer' = "fired"
    /\ UNCHANGED <<quic, main, req, authMutex, handlerVars, registered, stream,
                   udp, eventVars, preVars, held>>

ExpireAlways ==
    /\ timer = "fired" /\ authMutex = "free"
    /\ authExpired' = TRUE /\ timer' = "close"
    /\ UNCHANGED <<quic, main, req, authMutex, authenticated, untrack, registered,
                   stream, udp, eventVars, preVars, held>>

\* expireIfUnauthenticated decides under authMutex.
ExpireIfUnauthenticated ==
    /\ timer = "fired"
    /\ authMutex = "free"
    /\ IF authenticated
         THEN timer' = "done" /\ UNCHANGED authExpired
         ELSE timer' = "close" /\ authExpired' = TRUE
    /\ UNCHANGED <<quic, main, req, authMutex, authenticated, untrack, registered,
                   stream, udp, eventVars, preVars, held>>

ExpireWithoutClose ==
    /\ timer = "close" /\ timer' = "done"
    /\ UNCHANGED <<quic, main, req, authMutex, handlerVars, registered, stream, udp,
                   eventVars, preVars, held>>

\* expireIfUnauthenticated closes after the unlock.
ExpireClose ==
    /\ timer = "close"
    /\ CloseQUIC
    /\ timer' = "done"
    /\ UNCHANGED <<main, req, authMutex, handlerVars, registered, stream, udp,
                   eventVars, preVars, held>>

-----------------------------------------------------------------------------
(* Proxy streams and the UDP session manager *)

\* A stream reaches ProxyStreamHijacker.
StreamArrive(s) ==
    /\ quic = "open" /\ main = "serving"
    /\ stream[s] = "none"
    /\ stream' = [stream EXCEPT ![s] = "dispatch"]
    /\ UNCHANGED <<quic, main, req, authMutex, handlerVars, registered, timer,
                   udp, eventVars, preVars, held>>

HijackUnlocked(s) ==
    /\ stream[s] = "dispatch"
    /\ \/ authenticated /\ stream' = [stream EXCEPT ![s] = "run"]
       \/ stream' = [stream EXCEPT ![s] = "done"]
    /\ UNCHANGED <<quic, main, req, authMutex, handlerVars, registered, timer,
                   udp, eventVars, preVars, held>>

\* ProxyStreamHijacker reads authenticated under authMutex.  The stream of an
\* authenticated client is run unless it is not a TCP request or breaks.
ProxyStreamHijacker(s) ==
    /\ stream[s] = "dispatch"
    /\ authMutex = "free"
    /\ \/ authenticated /\ stream' = [stream EXCEPT ![s] = "run"]
       \/ stream' = [stream EXCEPT ![s] = "done"]
    /\ UNCHANGED <<quic, main, req, authMutex, handlerVars, registered, timer,
                   udp, eventVars, preVars, held>>

\* handleTCPRequest returns, closing the connection on errDisconnect.
StreamEnd(s) ==
    /\ stream[s] = "run"
    /\ stream' = [stream EXCEPT ![s] = "done"]
    /\ UNCHANGED quic \/ CloseQUIC
    /\ UNCHANGED <<main, req, authMutex, handlerVars, registered, timer, udp,
                   eventVars, preVars, held>>

\* The session manager's Run returns: the connection is closed, or a traffic
\* refusal has just closed it.
UDPEnd ==
    /\ udp = "run"
    /\ udp' = "done"
    /\ CloseQUIC
    /\ UNCHANGED <<main, req, authMutex, handlerVars, registered, timer, stream,
                   eventVars, preVars, held>>

-----------------------------------------------------------------------------
(* The QUIC connection and the tracker *)

\* The peer, an idle timeout or Server.Close closes the connection.
ConnectionClose ==
    /\ quic = "open" /\ quic' = "closing"
    /\ UNCHANGED <<main, req, authMutex, handlerVars, registered, timer, stream,
                   udp, eventVars, preVars, held>>

\* The tracker calls the close function of a registered connection.
Kick ==
    /\ registered /\ quic = "open"
    /\ quic' = "closing"
    /\ UNCHANGED <<main, req, authMutex, handlerVars, registered, timer, stream,
                   udp, eventVars, preVars, held>>

\* The connection loop ends: NotifyConnectionClosed forgets the entry.
NotifyClosed ==
    /\ quic = "closing"
    /\ quic' = "closed"
    /\ entry' = FALSE
    /\ UNCHANGED <<main, req, authMutex, handlerVars, registered, timer, stream,
                   udp, eventVars, marked, unread, held>>

-----------------------------------------------------------------------------
(* handleClient *)

\* ServeQUICConn returns after the connection ended and every request handler
\* and stream dispatcher it started has returned.
ServeReturn ==
    /\ main = "serving" /\ quic # "open"
    /\ \A r \in Requests : req[r] \in {"none", "done"}
    /\ \A s \in Streams : stream[s] # "dispatch"
    /\ main' = "join"
    /\ UNCHANGED <<quic, req, authMutex, handlerVars, registered, timer, stream,
                   udp, eventVars, preVars, held>>

\* backgroundWG.Wait.
Join ==
    /\ main = "join"
    /\ udp # "run" /\ \A s \in Streams : stream[s] # "run"
    /\ main' = "finish"
    /\ UNCHANGED <<quic, req, authMutex, handlerVars, registered, timer, stream,
                   udp, eventVars, preVars, held>>

\* finish takes untrack under authMutex and handleClient calls it.
Finish ==
    /\ main = "finish"
    /\ authMutex = "free"
    /\ untrack' = FALSE
    /\ registered' = IF untrack THEN FALSE ELSE registered
    /\ main' = "offline"
    /\ UNCHANGED <<quic, req, authMutex, authenticated, authExpired, timer,
                   stream, udp, eventVars, preVars, held>>

\* LogOnlineState(false) and Disconnect, then CloseWithError.
LogDisconnect ==
    /\ main = "offline"
    /\ disconnects' = IF authenticated THEN disconnects + 1 ELSE disconnects
    /\ CloseQUIC
    /\ main' = "forget"
    /\ UNCHANGED <<req, authMutex, handlerVars, registered, timer, stream, udp,
                   connects, preVars, held>>

NoFinalForget ==
    /\ main = "forget" /\ quic = "closed"
    /\ timer' = IF timer = "armed" THEN "done" ELSE timer
    /\ main' = "done"
    /\ UNCHANGED <<quic, req, authMutex, handlerVars, registered, stream, udp,
                   eventVars, preVars, held>>

\* CloseWithError has joined the connection loop: the final forget, and the
\* deferred authTimer.Stop, which does not wait for a timer that has fired.
FinalForget ==
    /\ main = "forget" /\ quic = "closed"
    /\ entry' = FALSE
    /\ timer' = IF timer = "armed" THEN "done" ELSE timer
    /\ main' = "done"
    /\ UNCHANGED <<quic, req, authMutex, handlerVars, registered, stream, udp,
                   eventVars, marked, unread, held>>

\* Stuttering once everything has returned.
Finished ==
    /\ main = "done" /\ timer = "done"
    /\ UNCHANGED vars

Next ==
    \/ \E d \in Chunks : Receive(d) \/ Read(d)
    \/ \E r \in Requests : \/ RequestArrive(r) \/ RequestLock(r) \/ Authenticate(r)
                           \/ TrackConnection(r) \/ Publish(r) \/ LogConnect(r)
    \/ TimerFire \/ ExpireIfUnauthenticated \/ ExpireClose
    \/ \E s \in Streams : StreamArrive(s) \/ ProxyStreamHijacker(s) \/ StreamEnd(s)
    \/ UDPEnd \/ ConnectionClose \/ Kick \/ NotifyClosed
    \/ ServeReturn \/ Join \/ Finish \/ LogDisconnect \/ FinalForget
    \/ Finished

Spec == Init /\ [][Next]_vars

\* Callbacks return, critical sections end, timers fire, and what waits for
\* the connection ends after it closed.  Go mutexes do not starve a waiter.
Fairness ==
    /\ \A r \in Requests :
          /\ SF_vars(RequestLock(r)) /\ WF_vars(Authenticate(r))
          /\ WF_vars(TrackConnection(r)) /\ WF_vars(Publish(r)) /\ WF_vars(LogConnect(r))
    /\ WF_vars(TimerFire) /\ SF_vars(ExpireIfUnauthenticated) /\ WF_vars(ExpireClose)
    /\ \A s \in Streams :
          SF_vars(ProxyStreamHijacker(s)) /\ WF_vars(quic # "open" /\ StreamEnd(s))
    /\ WF_vars(quic # "open" /\ UDPEnd) /\ WF_vars(NotifyClosed)
    /\ WF_vars(ServeReturn) /\ WF_vars(Join) /\ SF_vars(Finish)
    /\ WF_vars(LogDisconnect) /\ WF_vars(FinalForget)

FairSpec == Spec /\ Fairness

-----------------------------------------------------------------------------
(* Properties *)

\* Every variable has its type; a client is reported connected at most once.
TypeOK ==
    /\ quic \in {"open", "closing", "closed"}
    /\ main \in {"serving", "join", "finish", "offline", "forget", "done"}
    /\ req \in [Requests -> {"none", "lock", "auth", "track", "publish", "log", "done"}]
    /\ authMutex \in Requests \cup {"free"}
    /\ authenticated \in BOOLEAN /\ authExpired \in BOOLEAN
    /\ untrack \in BOOLEAN /\ registered \in BOOLEAN
    /\ timer \in {"armed", "fired", "close", "done"}
    /\ stream \in [Streams -> {"none", "dispatch", "run", "done"}]
    /\ udp \in {"none", "run", "done"}
    /\ connects \in 0..1 /\ disconnects \in 0..1
    /\ entry \in BOOLEAN /\ marked \in BOOLEAN /\ unread \in Nat
    /\ held \in 0..(Limit + MaxChunk)

\* The comment on expireIfUnauthenticated: an authentication either completed
\* before the timeout's decision or can no longer complete after it.
ExpiryExcludesAuth == ~(authenticated /\ authExpired)

\* Traffic is proxied only for a client that has been reported online and not
\* yet offline, so online counts never miss a client with live streams.
ProxyingIsOnline ==
    (udp = "run" \/ \E s \in Streams : stream[s] = "run") =>
       authenticated /\ connects = 1 /\ disconnects = 0

\* With a ConnectionTracker, an authenticated client can be kicked for as long
\* as it is served: registration precedes publication and outlives the streams.
AuthenticatedIsKickable ==
    (HasTracker /\ authenticated /\ main \in {"serving", "join", "finish"}) => registered

\* From authentication to the end of its last proxied request a client is shown as online and
\* can be disconnected through the tracker.
TrackedWhileProxying == ProxyingIsOnline /\ AuthenticatedIsKickable

\* When handleClient returns nothing of the connection is left: the QUIC
\* connection, its workers, its registration and its pre-auth entry are gone
\* and every Connect was matched by one Disconnect.
NothingLeftBehind ==
    main = "done" =>
       /\ quic = "closed" /\ ~entry /\ ~registered
       /\ udp # "run" /\ \A s \in Streams : stream[s] \notin {"run", "dispatch"}
       /\ connects = disconnects
       /\ connects = 1 <=> authenticated

\* Until the connection authenticates, the entry counts exactly the bytes QUIC
\* holds, and they stay within PreAuthReceiveLimit.
PreAuthBytesBounded ==
    (quic = "open" /\ ~authenticated) => held <= Limit /\ UnreadNow = held

\* Until it authenticates a connection is contained: it cannot authenticate once
\* it has expired, and the bytes the server buffers for it are counted and capped.
PreAuthContained == ExpiryExcludesAuth /\ PreAuthBytesBounded

\* AuthTimeout: an unauthenticated connection does not live forever.
TimeoutDecides == (timer = "fired") ~> (authenticated \/ quic = "closed")

\* handleClient returns once the connection closes, whatever the requests,
\* streams and timers are doing.
ConnectionFinishes == (quic # "open") ~> (main = "done" /\ timer = "done")

\* The authentication timer ends a connection that never authenticates, and a
\* closed connection ends its handler: together, no idle peer holds a handler.
HandlerEnds == TimeoutDecides /\ ConnectionFinishes

=============================================================================
