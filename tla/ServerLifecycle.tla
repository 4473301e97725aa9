-------------------------- MODULE ServerLifecycle --------------------------
(***************************************************************************)
(* serverImpl of core/server/server.go: Serve loops that accept and        *)
(* register connections, one serveClient goroutine per connection, and     *)
(* Close, which any number of goroutines may call.  A connection handler   *)
(* is abstracted to what H3sHandler shows of it: it runs until its QUIC    *)
(* connection is closed and then returns.                                  *)
(***************************************************************************)
EXTENDS Naturals, FiniteSets

CONSTANTS
    Conns,     \* QUIC connections that may be established
    Servers,   \* goroutines that call Serve
    Closers,   \* goroutines that call Close
    NoConn     \* no connection

ASSUME NoConnAssumption == NoConn \notin Conns

VARIABLES
    listener,   \* "open" or "closed"
    transport,  \* "open", "closed", and "released" after Cleanup.Close
    closing,    \* s.closing
    conns,      \* s.conns
    quic,       \* per connection: "none", "queued" for Accept, "open", "closed"
    handler,    \* serveClient per connection: "none", "run", "unregister", "done"
    serve,      \* per Serve call: "idle", "accept", "register", "returned"
    accepted,   \* the connection a Serve call is about to register
    body,       \* progress of the function given to closeOnce
    todo,       \* connections Close is still closing
    caller      \* per Close call: "idle", "in", "returned"

serveVars == <<serve, accepted>>
closeVars == <<body, todo, caller>>
vars == <<listener, transport, closing, conns, quic, handler, serveVars, closeVars>>

Init ==
    /\ listener = "open" /\ transport = "open"
    /\ closing = FALSE
    /\ conns = {}
    /\ quic = [c \in Conns |-> "none"]
    /\ handler = [c \in Conns |-> "none"]
    /\ serve = [p \in Servers |-> "idle"]
    /\ accepted = [p \in Servers |-> NoConn]
    /\ body = "none"
    /\ todo = {}
    /\ caller = [k \in Closers |-> "idle"]

\* The calls serveWG counts.
NoServeLoops == {}
ServeLoops == {p \in Servers : serve[p] \in {"accept", "register"}}

\* The goroutines handlerWG counts.
NoHandlers == {}
Handlers == {c \in Conns : handler[c] \in {"run", "unregister"}}

-----------------------------------------------------------------------------
(* The network *)

\* A handshake completes and the connection waits for Accept.
Establish(c) ==
    /\ listener = "open" /\ quic[c] = "none"
    /\ quic' = [quic EXCEPT ![c] = "queued"]
    /\ UNCHANGED <<listener, transport, closing, conns, handler, serveVars, closeVars>>

\* The peer closes, or the connection times out.
PeerClose(c) ==
    /\ quic[c] \in {"queued", "open"}
    /\ quic' = [quic EXCEPT ![c] = "closed"]
    /\ UNCHANGED <<listener, transport, closing, conns, handler, serveVars, closeVars>>

-----------------------------------------------------------------------------
(* Serve *)

\* Serve is called: refused once closing is set, otherwise counted by serveWG.
ServeCall(p) ==
    /\ serve[p] = "idle"
    /\ serve' = [serve EXCEPT ![p] = IF closing THEN "returned" ELSE "accept"]
    /\ UNCHANGED <<listener, transport, closing, conns, quic, handler, accepted, closeVars>>

\* Accept returns a connection; a closed listener may still hand out one that
\* was queued.
Accept(p, c) ==
    /\ serve[p] = "accept"
    /\ quic[c] = "queued"
    /\ quic' = [quic EXCEPT ![c] = "open"]
    /\ accepted' = [accepted EXCEPT ![p] = c]
    /\ serve' = [serve EXCEPT ![p] = "register"]
    /\ UNCHANGED <<listener, transport, closing, conns, handler, closeVars>>

\* Accept fails on a closed listener, and Serve returns.
AcceptError(p) ==
    /\ serve[p] = "accept"
    /\ listener = "closed"
    /\ serve' = [serve EXCEPT ![p] = "returned"]
    /\ UNCHANGED <<listener, transport, closing, conns, quic, handler, accepted, closeVars>>

\* Under s.mutex: during shutdown the connection is closed, otherwise it is
\* registered, counted by handlerWG, and its handler starts.
Register(p) ==
    /\ serve[p] = "register"
    /\ LET c == accepted[p] IN
         IF closing
           THEN /\ quic' = [quic EXCEPT ![c] = "closed"]
                /\ UNCHANGED <<conns, handler>>
           ELSE /\ conns' = conns \cup {c}
                /\ handler' = [handler EXCEPT ![c] = "run"]
                /\ UNCHANGED quic
    /\ accepted' = [accepted EXCEPT ![p] = NoConn]
    /\ serve' = [serve EXCEPT ![p] = "accept"]
    /\ UNCHANGED <<listener, transport, closing, closeVars>>

-----------------------------------------------------------------------------
(* serveClient *)

\* handleClient returns: its connection is closed, at the latest by itself.
HandlerEnd(c) ==
    /\ handler[c] = "run"
    /\ quic[c] = "closed"
    /\ handler' = [handler EXCEPT ![c] = "unregister"]
    /\ UNCHANGED <<listener, transport, closing, conns, quic, serveVars, closeVars>>

\* The deferred calls: delete from s.conns, then handlerWG.Done.
Unregister(c) ==
    /\ handler[c] = "unregister"
    /\ conns' = conns \ {c}
    /\ handler' = [handler EXCEPT ![c] = "done"]
    /\ UNCHANGED <<listener, transport, closing, quic, serveVars, closeVars>>

-----------------------------------------------------------------------------
(* Close *)

\* Close is called; the first caller runs the body, the others wait in Once.
CloseCall(k) ==
    /\ caller[k] = "idle"
    /\ caller' = [caller EXCEPT ![k] = "in"]
    /\ body' = IF body = "none" THEN "flag" ELSE body
    /\ UNCHANGED <<listener, transport, closing, conns, quic, handler, serveVars, todo>>

\* s.closing is set under s.mutex.
CloseFlag ==
    /\ body = "flag"
    /\ closing' = TRUE
    /\ body' = "listener"
    /\ UNCHANGED <<listener, transport, conns, quic, handler, serveVars, todo, caller>>

\* listener.Close.
CloseListener ==
    /\ body = "listener"
    /\ listener' = "closed"
    /\ body' = "serve"
    /\ UNCHANGED <<transport, closing, conns, quic, handler, serveVars, todo, caller>>

\* The shutdown snapshot, with nothing in it.
SnapshotNothing ==
    /\ body = "serve" /\ ServeLoops = {}
    /\ todo' = {} /\ body' = "conns"
    /\ UNCHANGED <<listener, transport, closing, conns, quic, handler, serveVars, caller>>

\* serveWG.Wait, then the snapshot of s.conns under s.mutex.
CloseSnapshot ==
    /\ body = "serve"
    /\ ServeLoops = {}
    /\ todo' = conns
    /\ body' = "conns"
    /\ UNCHANGED <<listener, transport, closing, conns, quic, handler, serveVars, caller>>

\* One of the goroutines that close the connections concurrently.
CloseConn(c) ==
    /\ body = "conns"
    /\ c \in todo
    /\ quic' = [quic EXCEPT ![c] = "closed"]
    /\ todo' = todo \ {c}
    /\ UNCHANGED <<listener, transport, closing, conns, handler, serveVars, body, caller>>

\* closeWG.Wait and handlerWG.Wait, then Transport.Close and Conn.Close, which
\* end whatever was never accepted.
CloseTransport ==
    /\ body = "conns" /\ todo = {}
    /\ Handlers = {}
    /\ transport' = "closed"
    /\ quic' = [c \in Conns |-> IF quic[c] = "queued" THEN "closed" ELSE quic[c]]
    /\ body' = "cleanup"
    /\ UNCHANGED <<listener, closing, conns, handler, serveVars, todo, caller>>

\* Cleanup.Close and close(closeDone).
CloseCleanup ==
    /\ body = "cleanup"
    /\ transport' = "released"
    /\ body' = "done"
    /\ UNCHANGED <<listener, closing, conns, quic, handler, serveVars, todo, caller>>

\* Close returns after closeDone.
CloseReturn(k) ==
    /\ caller[k] = "in"
    /\ body = "done"
    /\ caller' = [caller EXCEPT ![k] = "returned"]
    /\ UNCHANGED <<listener, transport, closing, conns, quic, handler, serveVars, body, todo>>

\* Stuttering once every call has returned.
Finished ==
    /\ \A p \in Servers : serve[p] = "returned"
    /\ \A k \in Closers : caller[k] = "returned"
    /\ UNCHANGED vars

Next ==
    \/ \E c \in Conns : \/ Establish(c) \/ PeerClose(c) \/ HandlerEnd(c)
                        \/ Unregister(c) \/ CloseConn(c)
    \/ \E p \in Servers : \/ ServeCall(p) \/ AcceptError(p) \/ Register(p)
                          \/ \E c \in Conns : Accept(p, c)
    \/ \E k \in Closers : CloseCall(k) \/ CloseReturn(k)
    \/ CloseFlag \/ CloseListener \/ CloseSnapshot \/ CloseTransport \/ CloseCleanup
    \/ Finished

Spec == Init /\ [][Next]_vars

\* Calls return and goroutines run; nothing obliges a peer to close, or anyone
\* to call Serve or Close.  Accept on a closed listener eventually reports it.
Fairness ==
    /\ \A c \in Conns : WF_vars(HandlerEnd(c)) /\ WF_vars(Unregister(c)) /\ WF_vars(CloseConn(c))
    /\ \A p \in Servers : SF_vars(AcceptError(p)) /\ WF_vars(Register(p))
    /\ \A k \in Closers : WF_vars(CloseReturn(k))
    /\ WF_vars(CloseFlag) /\ WF_vars(CloseListener) /\ WF_vars(CloseSnapshot)
    /\ WF_vars(CloseTransport) /\ WF_vars(CloseCleanup)

FairSpec == Spec /\ Fairness

-----------------------------------------------------------------------------
(* Properties *)

\* Every variable has its type; a Serve call that must register has a
\* connection to register.
TypeOK ==
    /\ listener \in {"open", "closed"}
    /\ transport \in {"open", "closed", "released"}
    /\ closing \in BOOLEAN
    /\ conns \in SUBSET Conns
    /\ quic \in [Conns -> {"none", "queued", "open", "closed"}]
    /\ handler \in [Conns -> {"none", "run", "unregister", "done"}]
    /\ serve \in [Servers -> {"idle", "accept", "register", "returned"}]
    /\ accepted \in [Servers -> Conns \cup {NoConn}]
    /\ \A p \in Servers : serve[p] = "register" => accepted[p] \in Conns
    /\ body \in {"none", "flag", "listener", "serve", "conns", "cleanup", "done"}
    /\ todo \in SUBSET Conns
    /\ caller \in [Closers -> {"idle", "in", "returned"}]

\* The comment in Serve: no connection can slip past the shutdown snapshot.
\* After it, an accepted connection that is still open is about to be closed.
NoneSlipsPastSnapshot ==
    body \in {"conns", "cleanup", "done"} =>
       \A c \in Conns : quic[c] = "open" => body = "conns" /\ c \in todo

\* The comment in Close: handlers have observed connection closure before the
\* UDP transport and the cleanup resources go away.
TransportGoesLast ==
    transport # "open" =>
       \A c \in Conns : handler[c] \in {"none", "done"} /\ quic[c] \in {"none", "closed"}

\* A returned Close is a lifecycle barrier, also for the callers that found
\* another Close in progress: everything is released and no Serve loop runs.
CloseIsBarrier ==
    (\E k \in Closers : caller[k] = "returned") =>
       /\ transport = "released" /\ conns = {}
       /\ \A p \in Servers : serve[p] \in {"idle", "returned"}

\* Shutdown is ordered: the transport outlives every handler, and a returned
\* Close outlives everything.
ShutdownOrdered == TransportGoesLast /\ CloseIsBarrier

\* Close returns, whatever the connections do; as it waits for the Serve loops
\* and the handlers, so do they.
CloseReturns == \A k \in Closers : (caller[k] = "in") ~> (caller[k] = "returned")

=============================================================================
