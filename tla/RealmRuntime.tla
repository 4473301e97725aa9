---------------------------- MODULE RealmRuntime ----------------------------
(***************************************************************************)
(* A server behind a NAT that is found through a rendezvous server:        *)
(* realmServerRuntime of app/cmd/server.go, over the HTTP client of        *)
(* extras/realm/client.go.  One goroutine keeps the session (run), each    *)
(* session has a heartbeat loop and an events loop, each punch event a     *)
(* goroutine of its own (respond), one more renews the mapping of the port *)
(* at the gateway (realmPortMapLoop of app/cmd/realm_portmap.go), and      *)
(* Close deregisters.                                                      *)
(*                                                                         *)
(* A request may reach the rendezvous server although its caller gets an   *)
(* error.  Sessions are numbered; an address stands for the sorted list    *)
(* that currentAddrs merges of what STUN and the port mapping gave.        *)
(* Whether a failure came later than a TTL after the last success is left  *)
(* open.                                                                   *)
(***************************************************************************)
EXTENDS Naturals

CONSTANTS
    MaxSessions,    \* bound on the sessions registered
    RealmAddrs,     \* external addresses
    Responders      \* goroutines running respond

SessionIDs == 1..MaxSessions
NoSession == 0
NoAddr == 0

ASSUME SessionsAssumption == MaxSessions \in Nat \ {0}
ASSUME AddrsAssumption == NoAddr \notin RealmAddrs

VARIABLES
    ctxDone,      \* the context of the runtime is cancelled
    runLoop,      \* control point of run
    runSess,      \* the session run works with
    current,      \* r.session
    external,     \* the external address as the NAT has it
    addrs,        \* currentAddrs: r.addrs with the mapper's address merged in
    sessCtx,      \* sessions whose context is alive
    heartbeat,    \* per session: "none", "wait", "post" or "done"
    lastPublished, request,   \* per session: in heartbeatLoop
    events,       \* per session: "none", "connect", "stream" or "done"
    responder,    \* per goroutine of respond: "none", "addrs", "post" or "punch"
    portMap,      \* realmPortMapLoop: "none" without a mapper, "wait", "renew" or "done"
    closing,      \* Close: "no", "cancelled", or the session it deregisters, "returned"
    registered,   \* the rendezvous server: the session it knows, and its address
    published,
    lostUpdate    \* history: sessions of which an update of the address got lost

realmVars == <<ctxDone, runLoop, runSess, current, external, addrs, sessCtx, heartbeat,
               lastPublished, request, events, responder, portMap, closing, registered, published,
               lostUpdate>>

sessVars == <<sessCtx, heartbeat, lastPublished, request, events, lostUpdate>>
server == <<registered, published>>

NoRequest == NoAddr

Started(s, hb, a) == IF s = 1 THEN a ELSE hb

\* startRealmServerRuntime: STUN, the first registration, then the goroutines;
\* without port mapping, or when the gateway refused it, there is no mapper.
InitRealm ==
    /\ ctxDone = FALSE
    /\ runLoop = "session" /\ runSess = 1 /\ current = 1
    /\ external = 1 /\ addrs = 1
    /\ sessCtx = {1}
    /\ heartbeat = [s \in SessionIDs |-> Started(s, "none", "wait")]
    /\ lastPublished = [s \in SessionIDs |-> Started(s, NoAddr, 1)]
    /\ request = [s \in SessionIDs |-> NoRequest]
    /\ events = [s \in SessionIDs |-> Started(s, "none", "connect")]
    /\ responder = [r \in Responders |-> "none"]
    /\ portMap \in {"none", "wait"}
    /\ closing = "no"
    /\ registered = 1 /\ published = 1
    /\ lostUpdate = {}

-----------------------------------------------------------------------------
(* The environment *)

\* The NAT gives another address; the rendezvous server forgets the session.
NATChange(a) ==
    /\ external # a /\ external' = a
    /\ UNCHANGED <<ctxDone, runLoop, runSess, current, addrs, sessVars, responder, portMap, closing, server>>

SessionExpires ==
    /\ registered # NoSession /\ registered' = NoSession /\ published' = NoAddr
    /\ UNCHANGED <<ctxDone, runLoop, runSess, current, external, addrs, sessVars, responder, portMap, closing>>

\* What a STUN discovery over the shared socket may leave in r.addrs: the
\* address as it is now, or the old one when it fails.
Discovered == {external, addrs}

-----------------------------------------------------------------------------
(* run *)

\* Mutation: the other loop is not cancelled.
SessionEndsUncancelled ==
    /\ runLoop = "session"
    /\ heartbeat[runSess] = "done" \/ events[runSess] = "done"
    /\ runLoop' = "refresh"
    /\ UNCHANGED <<ctxDone, runSess, current, external, addrs, sessVars, responder, portMap, closing, server>>

\* runSession returns the first error of its two loops and cancels the other.
SessionEnds ==
    /\ runLoop = "session"
    /\ heartbeat[runSess] = "done" \/ events[runSess] = "done"
    /\ sessCtx' = sessCtx \ {runSess}
    /\ runLoop' = "refresh"
    /\ UNCHANGED <<ctxDone, runSess, current, external, addrs, heartbeat, lastPublished, request,
                   events, responder, portMap, closing, server, lostUpdate>>

\* registerWithBackoff, at the top of its loop.
RefreshBeforeRegister ==
    /\ runLoop = "refresh"
    /\ IF ctxDone THEN runLoop' = "stopped" /\ UNCHANGED addrs
                  ELSE runLoop' = "register" /\ addrs' \in Discovered
    /\ UNCHANGED <<ctxDone, runSess, current, external, sessVars, responder, portMap, closing, server>>

\* Register: refused for good, failed (with or without effect on the server), or
\* a new session, which replaces the one the server had.
Register ==
    /\ runLoop = "register"
    /\ \/ runLoop' \in {"stopped", "backoff"} /\ UNCHANGED <<runSess, server>>
       \/ /\ runSess < MaxSessions
          /\ registered' = runSess + 1 /\ published' = addrs
          /\ runSess' = runSess + 1
          /\ runLoop' \in {"registered", "backoff"}
    /\ UNCHANGED <<ctxDone, current, external, addrs, sessVars, responder, portMap, closing>>

Backoff ==
    /\ runLoop = "backoff"
    /\ runLoop' = IF ctxDone THEN "stopped" ELSE "refresh"
    /\ UNCHANGED <<ctxDone, runSess, current, external, addrs, sessVars, responder, portMap, closing, server>>

\* setSession, then runSession with new loops unless the context is done.  The
\* heartbeat loop takes the present address for the registered one, also when a
\* responder has refreshed it in the meantime.
SetSession ==
    /\ runLoop = "registered"
    /\ current' = runSess
    /\ IF ctxDone
         THEN runLoop' = "stopped" /\ UNCHANGED <<sessCtx, heartbeat, lastPublished, events>>
         ELSE /\ runLoop' = "session"
              /\ sessCtx' = sessCtx \cup {runSess}
              /\ heartbeat' = [heartbeat EXCEPT ![runSess] = "wait"]
              /\ lastPublished' = [lastPublished EXCEPT ![runSess] = addrs]
              /\ events' = [events EXCEPT ![runSess] = "connect"]
    /\ lostUpdate' = IF registered = runSess /\ published # addrs THEN lostUpdate \cup {runSess} ELSE lostUpdate
    /\ UNCHANGED <<ctxDone, runSess, external, addrs, request, responder, portMap, closing, server>>

-----------------------------------------------------------------------------
(* heartbeatLoop *)

Alive(s) == s \in sessCtx /\ ~ctxDone

HeartbeatStop(s) ==
    /\ heartbeat[s] = "wait" /\ ~Alive(s)
    /\ heartbeat' = [heartbeat EXCEPT ![s] = "done"]
    /\ UNCHANGED <<ctxDone, runLoop, runSess, current, external, addrs, sessCtx, lastPublished,
                   request, events, responder, portMap, closing, server, lostUpdate>>

\* A tick: a changed address goes into the request and counts as published.
HeartbeatTick(s) ==
    /\ heartbeat[s] = "wait"
    /\ heartbeat' = [heartbeat EXCEPT ![s] = "post"]
    /\ request' = [request EXCEPT ![s] = IF addrs # lastPublished[s] THEN addrs ELSE NoRequest]
    /\ lastPublished' = [lastPublished EXCEPT ![s] = addrs]
    /\ UNCHANGED <<ctxDone, runLoop, runSess, current, external, addrs, sessCtx, events, responder, portMap,
                   closing, server, lostUpdate>>

\* The request arrives at the server while it still knows the session ...
Delivered(s) ==
    /\ registered = s
    /\ published' = IF request[s] # NoRequest THEN request[s] ELSE published
    /\ UNCHANGED registered

Posted(s, next) ==
    /\ heartbeat' = [heartbeat EXCEPT ![s] = next]
    /\ request' = [request EXCEPT ![s] = NoRequest]
    /\ UNCHANGED <<ctxDone, runLoop, runSess, current, external, addrs, sessCtx, lastPublished,
                   events, responder, portMap, closing>>

\* ... and the answer comes back; or the session is unknown; or the request
\* fails, and the session counts as lost once that has gone on for a TTL.
HeartbeatReply(s) ==
    /\ heartbeat[s] = "post"
    /\ \/ Delivered(s) /\ Posted(s, "wait") /\ UNCHANGED lostUpdate
       \/ registered # s /\ Posted(s, "done") /\ UNCHANGED <<server, lostUpdate>>
       \/ /\ Delivered(s) \/ UNCHANGED server
          /\ \E next \in {"wait", "done"} : Posted(s, next)
          /\ lostUpdate' = IF request[s] # NoRequest THEN lostUpdate \cup {s} ELSE lostUpdate

-----------------------------------------------------------------------------
(* eventsLoop *)

EventsGo(s, next) ==
    /\ events' = [events EXCEPT ![s] = next]
    /\ UNCHANGED <<ctxDone, runLoop, runSess, current, external, addrs, sessCtx, heartbeat,
                   lastPublished, request, closing, portMap, server, lostUpdate>>

\* Mutation: neither the loop nor its requests look at the context.
EventsConnectBlind(s) ==
    /\ events[s] = "connect"
    /\ (registered = s /\ EventsGo(s, "stream")) \/ EventsGo(s, "done")
    /\ UNCHANGED responder

\* The stream opens, or is refused, or fails and is tried again after a backoff
\* until the session counts as lost.
EventsConnect(s) ==
    /\ events[s] = "connect"
    /\ \/ ~Alive(s) /\ EventsGo(s, "done")
       \/ Alive(s) /\ registered = s /\ EventsGo(s, "stream")
       \/ Alive(s) /\ registered # s /\ EventsGo(s, "done")
       \/ Alive(s) /\ EventsGo(s, "done")
    /\ UNCHANGED responder

\* The stream ends; the top of the loop looks at the context.
EventsDropped(s) ==
    /\ events[s] = "stream"
    /\ EventsGo(s, "connect")
    /\ UNCHANGED responder

\* A punch event of the rendezvous server starts respond.
EventsPunch(s, r) ==
    /\ events[s] = "stream" /\ registered = s /\ responder[r] = "none"
    /\ responder' = [responder EXCEPT ![r] = "addrs"]
    /\ EventsGo(s, "stream")

-----------------------------------------------------------------------------
(* respond *)

RespondGo(r, next) ==
    /\ responder' = [responder EXCEPT ![r] = next]
    /\ UNCHANGED <<ctxDone, runLoop, runSess, current, external, sessVars, closing, portMap, server>>

\* The addresses of the event do not parse.
RespondInvalid(r) ==
    /\ responder[r] = "addrs" /\ RespondGo(r, "none")
    /\ UNCHANGED addrs

\* connectAddrs: the cached address, a fresh one, or the last one known.
ConnectAddrs(r) ==
    /\ responder[r] = "addrs"
    /\ addrs' \in Discovered
    /\ RespondGo(r, "post")

\* ConnectResponse with the current session, failing or not, within 4 seconds.
RespondPost(r) ==
    /\ responder[r] = "post" /\ RespondGo(r, "punch")
    /\ UNCHANGED addrs

\* puncher.Respond returns within the punch timeout (RealmPunch models it).
RespondPunched(r) ==
    /\ responder[r] = "punch" /\ RespondGo(r, "none")
    /\ UNCHANGED addrs

-----------------------------------------------------------------------------
(* realmPortMapLoop *)

PortMapGo(from, to) ==
    /\ portMap = from /\ portMap' = to
    /\ UNCHANGED <<ctxDone, runLoop, runSess, current, external, sessVars, responder, closing, server>>

PortMapTick == PortMapGo("wait", "renew") /\ UNCHANGED addrs

\* Renew: the mapping is extended and its address read again, also when the
\* context has gone in the meantime; or it fails, and the loop ends if it has.
PortMapRenewed ==
    \/ PortMapGo("renew", "wait") /\ addrs' \in Discovered
    \/ PortMapGo("renew", IF ctxDone THEN "done" ELSE "wait") /\ UNCHANGED addrs

\* The context is done: the mapping is removed, as far as the gateway lets it.
PortMapStop == ctxDone /\ PortMapGo("wait", "done") /\ UNCHANGED addrs

-----------------------------------------------------------------------------
(* Close *)

\* Close: cancel, then the current session is read ...
CloseCancel ==
    /\ closing = "no"
    /\ ctxDone' = TRUE /\ closing' = "cancelled"
    /\ UNCHANGED <<runLoop, runSess, current, external, addrs, sessVars, responder, portMap, server>>

\* ... and deregistered, unless the request fails.
Deregister ==
    /\ closing = "cancelled"
    /\ closing' = "returned"
    /\ \/ registered = current /\ registered' = NoSession /\ published' = NoAddr
       \/ UNCHANGED server
    /\ UNCHANGED <<ctxDone, runLoop, runSess, current, external, addrs, sessVars, responder, portMap>>

RunStep == SessionEnds \/ RefreshBeforeRegister \/ Register \/ Backoff \/ SetSession

LoopStep(s) ==
    \/ HeartbeatReply(s) \/ EventsConnect(s) \/ (~Alive(s) /\ EventsDropped(s))

RespondStep(r) == RespondInvalid(r) \/ ConnectAddrs(r) \/ RespondPost(r) \/ RespondPunched(r)

NextRealm ==
    \/ RunStep \/ CloseCancel \/ Deregister \/ SessionExpires
    \/ \E a \in RealmAddrs : NATChange(a)
    \/ \E s \in SessionIDs : LoopStep(s) \/ HeartbeatStop(s) \/ HeartbeatTick(s) \/ EventsDropped(s)
                             \/ \E r \in Responders : EventsPunch(s, r)
    \/ \E r \in Responders : RespondStep(r)
    \/ PortMapTick \/ PortMapRenewed \/ PortMapStop

SpecRealm == InitRealm /\ [][NextRealm]_realmVars

\* Every call of the rendezvous server, of the gateway and of the puncher has a
\* timeout or takes the context; a select that finds both a tick and the
\* cancelled context ready picks one at random, so it takes the context in the end.
RealmFairness ==
    /\ WF_realmVars(RunStep) /\ WF_realmVars(Deregister)
    /\ \A s \in SessionIDs : WF_realmVars(LoopStep(s)) /\ SF_realmVars(HeartbeatStop(s))
    /\ \A r \in Responders : WF_realmVars(RespondStep(r))
    /\ WF_realmVars(PortMapRenewed) /\ SF_realmVars(PortMapStop)

-----------------------------------------------------------------------------
(* Properties *)

Running(s) == s \in sessCtx /\ heartbeat[s] # "none"

\* Only the session run is working with has loops that are not cancelled, so
\* two sessions never compete for the realm; it is also the session respond
\* and Close use.  The address the rendezvous server has is the one the
\* heartbeat loop takes for published, unless an update got lost: the request
\* failed, which is not repeated, or the address changed while registering.
OneLiveSession ==
    /\ \A s \in SessionIDs : Running(s) => s = runSess /\ s = current /\ runLoop = "session"
    /\ \A s \in SessionIDs :
          registered = s /\ heartbeat[s] = "wait" /\ s \notin lostUpdate
             => published = lastPublished[s]

\* After Close every goroutine of the runtime has ended, Close itself too:
\* run, the loops of every session, the responders of every punch event, and
\* the loop that keeps the port mapping (which removes it as it goes).
RealmStops ==
    ctxDone ~> (/\ runLoop = "stopped" /\ closing = "returned"
                /\ \A s \in SessionIDs : {heartbeat[s], events[s]} \subseteq {"none", "done"}
                /\ \A r \in Responders : responder[r] = "none"
                /\ portMap \in {"none", "done"})
=============================================================================
