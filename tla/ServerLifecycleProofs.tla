----------------------- MODULE ServerLifecycleProofs -----------------------
(***************************************************************************)
(* The shutdown of serverImpl is correct for any number of connections,    *)
(* Serve loops and callers of Close.  The inductive invariant has one part *)
(* for each hand-over of a connection:                                     *)
(*   RegistryInv  s.conns and the serveClient goroutines                   *)
(*   AcceptInv    connections between Accept and Register                  *)
(*   ShutdownInv  what the body of Close has established at each step      *)
(***************************************************************************)
EXTENDS ServerLifecycle, TLAPS

Held(p) == serve[p] = "register"

\* A connection is registered exactly while its handler runs; before Accept it
\* has none, and a handler ends only after its connection.
RegistryInv ==
    \A c \in Conns :
       /\ c \in conns <=> handler[c] \in {"run", "unregister"}
       /\ quic[c] \in {"none", "queued"} => handler[c] = "none"
       /\ handler[c] \in {"unregister", "done"} => quic[c] = "closed"

\* An open connection is either registered or held by exactly one Serve loop,
\* which has not started its handler.
AcceptInv ==
    /\ \A c \in Conns :
          quic[c] = "open" => c \in conns \/ \E p \in Servers : Held(p) /\ accepted[p] = c
    /\ \A p \in Servers :
          Held(p) => /\ quic[accepted[p]] \in {"open", "closed"}
                     /\ handler[accepted[p]] = "none"
    /\ \A p, q \in Servers : Held(p) /\ Held(q) /\ accepted[p] = accepted[q] => p = q

\* closing stops new Serve loops, the closed listener new connections, and the
\* wait for serveWG new registrations; only then is the snapshot complete.
ShutdownInv ==
    /\ closing <=> body \notin {"none", "flag"}
    /\ body \in {"serve", "conns", "cleanup", "done"} => listener = "closed"
    /\ body \in {"conns", "cleanup", "done"} =>
          \A p \in Servers : serve[p] \in {"idle", "returned"}
    /\ body = "conns" => \A c \in Conns : quic[c] = "open" => c \in todo
    /\ body \in {"cleanup", "done"} =>
          \A c \in Conns : quic[c] \in {"none", "closed"} /\ handler[c] \in {"none", "done"}
    /\ transport # "open" <=> body \in {"cleanup", "done"}
    /\ transport = "released" <=> body = "done"
    /\ \A k \in Closers : caller[k] = "returned" => body = "done"

IInv == TypeOK /\ RegistryInv /\ AcceptInv /\ ShutdownInv

-----------------------------------------------------------------------------

\* newServer's state satisfies the invariant.
LEMMA InitIInv == Init => IInv
<1> SUFFICES ASSUME Init PROVE IInv
  OBVIOUS
<1>1. closing \in BOOLEAN
  BY DEF Init
<1>2. TypeOK
  BY <1>1 DEF Init, TypeOK
<1>3. RegistryInv
  BY DEF Init, RegistryInv
<1>4. AcceptInv
  BY DEF Init, AcceptInv, Held
<1>5. ShutdownInv
  BY DEF Init, ShutdownInv
<1> QED
  BY <1>2, <1>3, <1>4, <1>5 DEF IInv

\* Every step of the network, Serve, serveClient and Close keeps the types.
LEMMA TypeStep == TypeOK /\ [Next]_vars => TypeOK'
<1> SUFFICES ASSUME TypeOK, [Next]_vars PROVE TypeOK'
  OBVIOUS
<1> USE DEF TypeOK, serveVars, closeVars
<1>1. ASSUME NEW c \in Conns, Establish(c) PROVE TypeOK'
  BY <1>1 DEF Establish
<1>2. ASSUME NEW c \in Conns, PeerClose(c) PROVE TypeOK'
  BY <1>2 DEF PeerClose
<1>3. ASSUME NEW c \in Conns, HandlerEnd(c) PROVE TypeOK'
  BY <1>3 DEF HandlerEnd
<1>4. ASSUME NEW c \in Conns, Unregister(c) PROVE TypeOK'
  BY <1>4 DEF Unregister
<1>5. ASSUME NEW c \in Conns, CloseConn(c) PROVE TypeOK'
  BY <1>5 DEF CloseConn
<1>6. ASSUME NEW p \in Servers, ServeCall(p) PROVE TypeOK'
  BY <1>6 DEF ServeCall
<1>7. ASSUME NEW p \in Servers, AcceptError(p) PROVE TypeOK'
  BY <1>7 DEF AcceptError
<1>8. ASSUME NEW p \in Servers, Register(p) PROVE TypeOK'
  BY <1>8 DEF Register
<1>9. ASSUME NEW p \in Servers, NEW c \in Conns, Accept(p, c) PROVE TypeOK'
  BY <1>9 DEF Accept
<1>10. ASSUME NEW k \in Closers, CloseCall(k) PROVE TypeOK'
  BY <1>10 DEF CloseCall
<1>11. ASSUME NEW k \in Closers, CloseReturn(k) PROVE TypeOK'
  BY <1>11 DEF CloseReturn
<1>12. CASE CloseFlag
  BY <1>12 DEF CloseFlag
<1>13. CASE CloseListener
  BY <1>13 DEF CloseListener
<1>14. CASE CloseSnapshot
  BY <1>14 DEF CloseSnapshot
<1>15. CASE CloseTransport
  BY <1>15 DEF CloseTransport
<1>16. CASE CloseCleanup
  BY <1>16 DEF CloseCleanup
<1>17. CASE UNCHANGED vars
  BY <1>17 DEF vars
<1>18. CASE Finished
  BY <1>18 DEF Finished, vars
<1> QED
  BY <1>1, <1>2, <1>3, <1>4, <1>5, <1>6, <1>7, <1>8, <1>9, <1>10, <1>11, <1>12,
     <1>13, <1>14, <1>15, <1>16, <1>17, <1>18 DEF Next

\* Every step keeps the invariant; one step per action.
LEMMA IInvStep == IInv /\ [Next]_vars => IInv'
<1> SUFFICES ASSUME IInv, [Next]_vars PROVE RegistryInv' /\ AcceptInv' /\ ShutdownInv'
  BY TypeStep DEF IInv
<1> USE DEF IInv, TypeOK, RegistryInv, AcceptInv, ShutdownInv, Held, serveVars, closeVars
<1> DEFINE Parts == RegistryInv' /\ AcceptInv' /\ ShutdownInv'
<1>1. ASSUME NEW c \in Conns, Establish(c) PROVE Parts
  <2>1. RegistryInv'
    BY <1>1 DEF Establish
  <2>2. AcceptInv'
    BY <1>1 DEF Establish
  <2>3. ShutdownInv'
    BY <1>1 DEF Establish
  <2> QED
    BY <2>1, <2>2, <2>3
<1>2. ASSUME NEW c \in Conns, PeerClose(c) PROVE Parts
  <2>1. RegistryInv'
    BY <1>2 DEF PeerClose
  <2>2. AcceptInv'
    BY <1>2 DEF PeerClose
  <2>3. ShutdownInv'
    BY <1>2 DEF PeerClose
  <2> QED
    BY <2>1, <2>2, <2>3
<1>3. ASSUME NEW c \in Conns, HandlerEnd(c) PROVE Parts
  <2>1. RegistryInv'
    BY <1>3 DEF HandlerEnd
  <2>2. AcceptInv'
    BY <1>3 DEF HandlerEnd
  <2>3. ShutdownInv'
    BY <1>3 DEF HandlerEnd
  <2> QED
    BY <2>1, <2>2, <2>3
<1>4. ASSUME NEW c \in Conns, Unregister(c) PROVE Parts
  <2>1. RegistryInv'
    BY <1>4 DEF Unregister
  <2>2. AcceptInv'
    BY <1>4 DEF Unregister
  <2>3. ShutdownInv'
    BY <1>4 DEF Unregister
  <2> QED
    BY <2>1, <2>2, <2>3
<1>5. ASSUME NEW c \in Conns, CloseConn(c) PROVE Parts
  <2>1. RegistryInv'
    BY <1>5 DEF CloseConn
  <2>2. AcceptInv'
    BY <1>5 DEF CloseConn
  <2>3. ShutdownInv'
    BY <1>5 DEF CloseConn
  <2> QED
    BY <2>1, <2>2, <2>3
<1>6. ASSUME NEW p \in Servers, ServeCall(p) PROVE Parts
  <2>1. RegistryInv'
    BY <1>6 DEF ServeCall
  <2>2. AcceptInv'
    BY <1>6 DEF ServeCall
  <2>3. ShutdownInv'
    BY <1>6 DEF ServeCall
  <2> QED
    BY <2>1, <2>2, <2>3
<1>7. ASSUME NEW p \in Servers, AcceptError(p) PROVE Parts
  <2>1. RegistryInv'
    BY <1>7 DEF AcceptError
  <2>2. AcceptInv'
    BY <1>7 DEF AcceptError
  <2>3. ShutdownInv'
    BY <1>7 DEF AcceptError
  <2> QED
    BY <2>1, <2>2, <2>3
<1>8. ASSUME NEW p \in Servers, Register(p) PROVE Parts
  <2>1. RegistryInv'
    BY <1>8 DEF Register
  <2>2. AcceptInv'
    BY <1>8 DEF Register
  <2>3. ShutdownInv'
    BY <1>8 DEF Register
  <2> QED
    BY <2>1, <2>2, <2>3
<1>9. ASSUME NEW p \in Servers, NEW c \in Conns, Accept(p, c) PROVE Parts
  <2>1. RegistryInv'
    BY <1>9 DEF Accept
  <2>2. AcceptInv'
    BY <1>9 DEF Accept
  <2>3. ShutdownInv'
    BY <1>9 DEF Accept
  <2> QED
    BY <2>1, <2>2, <2>3
<1>10. ASSUME NEW k \in Closers, CloseCall(k) PROVE Parts
  <2>1. RegistryInv'
    BY <1>10 DEF CloseCall
  <2>2. AcceptInv'
    BY <1>10 DEF CloseCall
  <2>3. ShutdownInv'
    BY <1>10 DEF CloseCall
  <2> QED
    BY <2>1, <2>2, <2>3
<1>11. ASSUME NEW k \in Closers, CloseReturn(k) PROVE Parts
  <2>1. RegistryInv'
    BY <1>11 DEF CloseReturn
  <2>2. AcceptInv'
    BY <1>11 DEF CloseReturn
  <2>3. ShutdownInv'
    BY <1>11 DEF CloseReturn
  <2> QED
    BY <2>1, <2>2, <2>3
<1>12. CASE CloseFlag
  <2>1. RegistryInv'
    BY <1>12 DEF CloseFlag
  <2>2. AcceptInv'
    BY <1>12 DEF CloseFlag
  <2>3. ShutdownInv'
    BY <1>12 DEF CloseFlag
  <2> QED
    BY <2>1, <2>2, <2>3
<1>13. CASE CloseListener
  <2>1. RegistryInv'
    BY <1>13 DEF CloseListener
  <2>2. AcceptInv'
    BY <1>13 DEF CloseListener
  <2>3. ShutdownInv'
    BY <1>13 DEF CloseListener
  <2> QED
    BY <2>1, <2>2, <2>3
<1>14. CASE CloseSnapshot
  <2>1. RegistryInv'
    BY <1>14 DEF CloseSnapshot, ServeLoops
  <2>2. AcceptInv'
    BY <1>14 DEF CloseSnapshot, ServeLoops
  <2>3. ShutdownInv'
    BY <1>14 DEF CloseSnapshot, ServeLoops
  <2> QED
    BY <2>1, <2>2, <2>3
<1>15. CASE CloseTransport
  <2>1. RegistryInv'
    BY <1>15 DEF CloseTransport, Handlers
  <2>2. AcceptInv'
    BY <1>15 DEF CloseTransport, Handlers
  <2>3. ShutdownInv'
    BY <1>15 DEF CloseTransport, Handlers
  <2> QED
    BY <2>1, <2>2, <2>3
<1>16. CASE CloseCleanup
  <2>1. RegistryInv'
    BY <1>16 DEF CloseCleanup
  <2>2. AcceptInv'
    BY <1>16 DEF CloseCleanup
  <2>3. ShutdownInv'
    BY <1>16 DEF CloseCleanup
  <2> QED
    BY <2>1, <2>2, <2>3
<1>17. CASE UNCHANGED vars
  BY <1>17 DEF vars
<1>18. CASE Finished
  BY <1>18 DEF Finished, vars
<1> QED
  BY <1>1, <1>2, <1>3, <1>4, <1>5, <1>6, <1>7, <1>8, <1>9,
     <1>10, <1>11, <1>12, <1>13, <1>14, <1>15, <1>16, <1>17, <1>18 DEF Next

\* The invariant holds in every state of every behaviour.
THEOREM Invariance == Spec => []IInv
  BY InitIInv, IInvStep, PTL DEF Spec

\* The state of serverImpl is always well typed; a Serve loop that is about to
\* register has a connection.
THEOREM TypeCorrect == Spec => []TypeOK
<1>1. IInv => TypeOK
  BY DEF IInv
<1> QED
  BY <1>1, Invariance, PTL

\* For any number of connections and Serve loops, no accepted connection slips
\* past the snapshot Close takes (the comment in Serve).
THEOREM NoneSlipsPastSnapshotThm == Spec => []NoneSlipsPastSnapshot
<1>1. IInv => NoneSlipsPastSnapshot
  BY DEF IInv, TypeOK, ShutdownInv, NoneSlipsPastSnapshot
<1> QED
  BY <1>1, Invariance, PTL

\* Close releases the transport only after every handler has returned and
\* every connection is closed.
THEOREM TransportGoesLastThm == Spec => []TransportGoesLast
<1>1. IInv => TransportGoesLast
  BY DEF IInv, TypeOK, ShutdownInv, TransportGoesLast
<1> QED
  BY <1>1, Invariance, PTL

\* Every Close that returned, first or concurrent, is a lifecycle barrier.
THEOREM CloseIsBarrierThm == Spec => []CloseIsBarrier
<1>1. IInv => CloseIsBarrier
  BY DEF IInv, TypeOK, RegistryInv, ShutdownInv, CloseIsBarrier
<1> QED
  BY <1>1, Invariance, PTL

\* The order of release and the barrier together (ShutdownOrdered).
THEOREM ShutdownOrderedThm == Spec => []ShutdownOrdered
<1> QED
  BY TransportGoesLastThm, CloseIsBarrierThm, PTL DEF ShutdownOrdered
=============================================================================
