-------------------------- MODULE H3sHandlerProofs --------------------------
(***************************************************************************)
(* For any number of auth requests and streams, any receive limit and with *)
(* or without a tracker: an expired connection never authenticates, bytes  *)
(* before authentication are counted and capped, proxying implies being    *)
(* online and kickable, and handleClient leaves nothing behind.  The       *)
(* argument is about authMutex: who holds it, and what only the holder may *)
(* change.                                                                 *)
(***************************************************************************)
EXTENDS H3sHandler, TLAPS

Idle == {"none", "lock", "done"}

\* The request between RequestLock and its return holds authMutex, alone.
MutexInv == \A r \in Requests : req[r] \notin Idle <=> authMutex = r

\* What the request that holds authMutex may rely on: nobody else settles the
\* connection, and it is registered between TrackConnection and Publish.
HolderInv ==
    \A r \in Requests :
       /\ req[r] \in {"auth", "track", "publish"} => ~authenticated /\ ~authExpired
       /\ req[r] \in {"auth", "track"} => ~registered
       /\ req[r] = "track" => HasTracker
       /\ req[r] = "publish" => (registered <=> HasTracker)
       /\ req[r] = "log" => authenticated /\ connects = 0

\* A registration is one that finish will undo, and belongs to a client that
\* is, or is about to be, authenticated.
TrackInv ==
    /\ main \in {"serving", "join", "finish"} => (registered <=> untrack)
    /\ main \notin {"serving", "join", "finish"} => ~registered /\ ~untrack
    /\ registered => authenticated \/ \E r \in Requests : req[r] = "publish"
    /\ AuthenticatedIsKickable

\* A client is reported online once, by the request that authenticated it, and
\* proxies only after that.
OnlineInv ==
    /\ ~authenticated => connects = 0
    /\ authenticated /\ connects = 0 => \E r \in Requests : req[r] = "log"
    /\ connects = 0 => udp = "none" /\ \A s \in Streams : stream[s] # "run"
    /\ ExpiryExcludesAuth

\* Before the connection authenticates, its entry is not marked and counts what
\* is held.
ReceiveInv == (quic = "open" /\ ~authenticated) => ~MarkedNow /\ held <= Limit /\ UnreadNow = held

\* What handleClient has joined and logged at each of its control points.
MainInv ==
    /\ main # "serving" =>
          /\ quic # "open"
          /\ \A r \in Requests : req[r] \in {"none", "done"}
          /\ \A s \in Streams : stream[s] # "dispatch"
    /\ main \notin {"serving", "join"} => udp # "run" /\ \A s \in Streams : stream[s] # "run"
    /\ main \in {"forget", "done"} => disconnects = connects
    /\ main \notin {"forget", "done"} => disconnects = 0
    /\ main = "done" => quic = "closed" /\ ~entry

IInv ==
    /\ TypeOK /\ MutexInv /\ HolderInv /\ TrackInv /\ OnlineInv
    /\ ReceiveInv /\ MainInv

-----------------------------------------------------------------------------
(* The invariant is inductive *)

\* A fresh connection satisfies the invariant: nothing is held, authenticated,
\* registered or reported.
LEMMA InitIInv == Init => IInv
<1> SUFFICES ASSUME Init PROVE IInv
  OBVIOUS
<1> USE LimitAssumption, NamesAssumption DEF Init
<1>1. TypeOK
  <2>1. /\ authenticated \in BOOLEAN /\ authExpired \in BOOLEAN
        /\ untrack \in BOOLEAN /\ registered \in BOOLEAN
        /\ entry \in BOOLEAN /\ marked \in BOOLEAN
    BY Zenon
  <2> QED
    BY <2>1 DEF TypeOK
<1>2. MutexInv /\ HolderInv
  BY DEF MutexInv, HolderInv, Idle
<1>3. TrackInv
  BY DEF TrackInv, AuthenticatedIsKickable
<1>4. OnlineInv
  BY DEF OnlineInv, ExpiryExcludesAuth
<1>5. ReceiveInv /\ MainInv
  BY DEF ReceiveInv, MainInv, MarkedNow, UnreadNow
<1> QED
  BY <1>1, <1>2, <1>3, <1>4, <1>5 DEF IInv

\* Every handler, callback and timer of the connection preserves it.
LEMMA IInvStep == IInv /\ [Next]_vars => IInv'
<1> SUFFICES ASSUME IInv, [Next]_vars PROVE IInv'
  OBVIOUS
<1> USE HasTrackerAssumption, LimitAssumption, NamesAssumption DEF IInv, TypeOK, MutexInv, HolderInv, TrackInv,
        OnlineInv, ReceiveInv, MainInv, Idle, AuthenticatedIsKickable, ExpiryExcludesAuth, MarkedNow,
        UnreadNow, Chunks, handlerVars, eventVars, preVars
<1>1. ASSUME NEW d \in Chunks, Receive(d) PROVE IInv'
  BY <1>1 DEF Receive, Allow, CloseQUIC
<1>2. ASSUME NEW d \in Chunks, Read(d) PROVE IInv'
  BY <1>2 DEF Read
<1>3. ASSUME NEW r \in Requests, RequestArrive(r) PROVE IInv'
  BY <1>3 DEF RequestArrive
<1>4. ASSUME NEW r \in Requests, RequestLock(r) PROVE IInv'
  BY <1>4 DEF RequestLock, Settled
<1>5. ASSUME NEW r \in Requests, Authenticate(r) PROVE IInv'
  BY <1>5 DEF Authenticate
<1>6. ASSUME NEW r \in Requests, TrackConnection(r) PROVE IInv'
  <2>1. TypeOK'
    BY <1>6 DEF TrackConnection
  <2>2. MutexInv'
    BY <1>6 DEF TrackConnection
  <2>3. HolderInv'
    BY <1>6 DEF TrackConnection
  <2>4. TrackInv'
    <3>1. main = "serving" /\ main' = main /\ ~registered
      BY <1>6 DEF TrackConnection
    <3>2. CASE registered' = TRUE /\ untrack' = TRUE /\ req' = [req EXCEPT ![r] = "publish"]
      <4>1. req'[r] = "publish"
        BY <3>2
      <4> QED
        BY <3>1, <3>2, <4>1
    <3>3. CASE untrack' = FALSE /\ registered' = registered
      BY <1>6, <3>1, <3>3 DEF TrackConnection
    <3> QED
      BY <1>6, <3>2, <3>3 DEF TrackConnection
  <2>5. OnlineInv'
    BY <1>6 DEF TrackConnection
  <2>6. ReceiveInv'
    BY <1>6 DEF TrackConnection
  <2>7. MainInv'
    BY <1>6 DEF TrackConnection
  <2> QED
    BY <2>1, <2>2, <2>3, <2>4, <2>5, <2>6, <2>7
<1>7. ASSUME NEW r \in Requests, Publish(r) PROVE IInv'
  BY <1>7 DEF Publish
<1>8. ASSUME NEW r \in Requests, LogConnect(r) PROVE IInv'
  BY <1>8 DEF LogConnect
<1>9. CASE TimerFire
  BY <1>9 DEF TimerFire
<1>10. CASE ExpireIfUnauthenticated
  BY <1>10, ZenonT(40) DEF ExpireIfUnauthenticated
<1>11. CASE ExpireClose
  BY <1>11 DEF ExpireClose, CloseQUIC
<1>12. ASSUME NEW s \in Streams, StreamArrive(s) PROVE IInv'
  BY <1>12 DEF StreamArrive
<1>13. ASSUME NEW s \in Streams, ProxyStreamHijacker(s) PROVE IInv'
  BY <1>13 DEF ProxyStreamHijacker
<1>14. ASSUME NEW s \in Streams, StreamEnd(s) PROVE IInv'
  BY <1>14 DEF StreamEnd, CloseQUIC
<1>15. CASE UDPEnd
  BY <1>15 DEF UDPEnd, CloseQUIC
<1>16. CASE ConnectionClose
  BY <1>16 DEF ConnectionClose
<1>17. CASE Kick
  BY <1>17 DEF Kick
<1>18. CASE NotifyClosed
  <2>1. TypeOK'
    BY <1>18 DEF NotifyClosed
  <2>2. MutexInv'
    BY <1>18 DEF NotifyClosed
  <2>3. HolderInv'
    BY <1>18 DEF NotifyClosed
  <2>4. TrackInv'
    BY <1>18 DEF NotifyClosed
  <2>5. OnlineInv'
    BY <1>18 DEF NotifyClosed
  <2>6. ReceiveInv'
    BY <1>18 DEF NotifyClosed
  <2>7. MainInv'
    BY <1>18 DEF NotifyClosed
  <2> QED
    BY <2>1, <2>2, <2>3, <2>4, <2>5, <2>6, <2>7
<1>19. CASE ServeReturn
  BY <1>19 DEF ServeReturn
<1>20. CASE Join
  BY <1>20 DEF Join
<1>21. CASE Finish
  BY <1>21, ZenonT(40) DEF Finish
<1>22. CASE LogDisconnect
  BY <1>22 DEF LogDisconnect, CloseQUIC
<1>23. CASE FinalForget
  BY <1>23 DEF FinalForget
<1>24. CASE Finished
  BY <1>24 DEF Finished, vars
<1>25. CASE UNCHANGED vars
  BY <1>25 DEF vars
<1> QED
    BY <1>1, <1>2, <1>3, <1>4, <1>5, <1>6, <1>7, <1>8, <1>9, <1>10, <1>11, <1>12, <1>13, <1>14,
     <1>15, <1>16, <1>17, <1>18, <1>19, <1>20, <1>21, <1>22, <1>23, <1>24, <1>25 DEF Next

-----------------------------------------------------------------------------
(* What it gives *)

\* The inductive invariant holds in every reachable state.
THEOREM HandlerInvariance == Spec => []IInv
  BY InitIInv, IInvStep, PTL DEF Spec

\* Every variable keeps its type; in particular a client is reported connected
\* and disconnected at most once, and QUIC never holds more than one chunk over
\* the cap.
THEOREM HandlerTypeCorrect == Spec => []TypeOK
<1>1. IInv => TypeOK
  BY DEF IInv
<1> QED
  BY <1>1, HandlerInvariance, PTL

\* expireIfUnauthenticated against ServeHTTP, for any number of requests: a
\* connection whose timeout has decided never authenticates, and until it
\* authenticates the entry counts exactly the bytes held, within the limit.
THEOREM PreAuthIsContained == Spec => []PreAuthContained
<1>1. IInv => PreAuthContained
  BY DEF IInv, OnlineInv, ReceiveInv, PreAuthContained, PreAuthBytesBounded
<1> QED
  BY <1>1, HandlerInvariance, PTL

\* For any number of streams: what is proxied belongs to a client reported
\* online and not yet offline, and with a tracker it can be disconnected.
THEOREM ProxyingIsTracked == Spec => []TrackedWhileProxying
<1>1. IInv => ProxyingIsOnline
  BY DEF IInv, TypeOK, OnlineInv, MainInv, ProxyingIsOnline
<1>2. IInv => AuthenticatedIsKickable
  BY DEF IInv, TrackInv
<1>3. IInv => TrackedWhileProxying
  BY <1>1, <1>2 DEF TrackedWhileProxying
<1> QED
  BY <1>3, HandlerInvariance, PTL

\* When handleClient has returned, the connection, its workers, its registration
\* and its pre-auth entry are gone and its reports match.
THEOREM HandlerLeavesNothing == Spec => []NothingLeftBehind
<1>1. IInv => NothingLeftBehind
  BY DEF IInv, TypeOK, TrackInv, OnlineInv, MainInv, NothingLeftBehind
<1> QED
  BY <1>1, HandlerInvariance, PTL

=============================================================================
