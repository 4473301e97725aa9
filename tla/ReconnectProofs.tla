-------------------------- MODULE ReconnectProofs --------------------------
(***************************************************************************)
(* For any number of callers and connections, the reconnecting client      *)
(* gives up a healthy connection only for that connection's own failure    *)
(* and connects to nothing after Close.  The strengthening says what the   *)
(* mutex guarantees while it is held across a connection attempt.          *)
(***************************************************************************)
EXTENDS Reconnect, TLAPS

\* During an attempt there is no current client, Close has not run, and no
\* other caller is connecting.
MutexInv ==
    /\ \A p \in Callers : Connecting(p) => client = NoClient /\ ~closed
    /\ \A p, q \in Callers : Connecting(p) /\ Connecting(q) => p = q

\* A caller that is about to drop its client has seen it fail.
FailedInv == \A p \in Callers : pc[p] = "failed" => using[p] \in reported

\* The current client was connected.
CurrentInv == client # NoClient => client \notin Unused

IInv == TypeOK /\ MutexInv /\ FailedInv /\ CurrentInv /\ HealthyIsCurrent

-----------------------------------------------------------------------------

\* A new reconnectableClientImpl satisfies the invariant.
LEMMA InitIInv == Init => IInv
<1> SUFFICES ASSUME Init PROVE IInv
  OBVIOUS
<1>1. closed \in BOOLEAN
  BY DEF Init
<1>2. TypeOK
  BY <1>1 DEF Init, TypeOK
<1>3. MutexInv /\ FailedInv /\ CurrentInv /\ HealthyIsCurrent
  BY DEF Init, MutexInv, Connecting, FailedInv, CurrentInv, HealthyIsCurrent
<1> QED
  BY <1>2, <1>3 DEF IInv

\* Every step keeps the types; a caller takes over a connected client.
LEMMA TypeStep == TypeOK /\ CurrentInv /\ [Next]_vars => TypeOK'
<1> SUFFICES ASSUME TypeOK, CurrentInv, [Next]_vars PROVE TypeOK'
  OBVIOUS
<1> USE DEF TypeOK, CurrentInv, Unused, connVars, Connecting
<1>1. ASSUME NEW p \in Callers, NEW o \in {"tcp", "udp"}, ClientDo(p, o) PROVE TypeOK'
  BY <1>1 DEF ClientDo, MutexFree
<1>2. ASSUME NEW p \in Callers, ReconnectError(p) PROVE TypeOK'
  BY <1>2 DEF ReconnectError
<1>3. ASSUME NEW p \in Callers, CallReturn(p) PROVE TypeOK'
  BY <1>3 DEF CallReturn
<1>4. ASSUME NEW p \in Callers, CallClosedError(p) PROVE TypeOK'
  BY <1>4 DEF CallClosedError
<1>5. ASSUME NEW p \in Callers, Drop(p) PROVE TypeOK'
  BY <1>5 DEF Drop, MutexFree
<1>6. ASSUME NEW p \in Callers, NEW c \in Clients, Reconnect(p, c) PROVE TypeOK'
  BY <1>6 DEF Reconnect, Unused
<1>7. ASSUME NEW c \in Clients, ConnLost(c) PROVE TypeOK'
  BY <1>7 DEF ConnLost
<1>8. ASSUME NEW c \in Clients, UDPCleanup(c) PROVE TypeOK'
  BY <1>8 DEF UDPCleanup
<1>9. CASE Close
  BY <1>9 DEF Close, MutexFree
<1>10. ASSUME NEW p \in Callers, Lock(p) PROVE TypeOK'
  BY <1>10 DEF Lock, MutexFree
<1>11. ASSUME NEW p \in Callers, Dialed(p) PROVE TypeOK'
  BY <1>11 DEF Dialed, MutexFree
<1>12. ASSUME NEW p \in Callers, AttemptLost(p) PROVE TypeOK'
  BY <1>12 DEF AttemptLost, MutexFree
<1>13. CASE UNCHANGED vars
  BY <1>13 DEF vars
<1> QED
  BY <1>1, <1>2, <1>3, <1>4, <1>5, <1>6, <1>7, <1>8, <1>9, <1>10, <1>11, <1>12, <1>13 DEF Next

\* Every step keeps what the mutex protects, and the healthy client current.
LEMMA ClientStep ==
    IInv /\ [Next]_vars => MutexInv' /\ FailedInv' /\ CurrentInv' /\ HealthyIsCurrent'
<1> SUFFICES ASSUME IInv, [Next]_vars
             PROVE MutexInv' /\ FailedInv' /\ CurrentInv' /\ HealthyIsCurrent'
  OBVIOUS
<1> USE NoClientAssumption DEF IInv, TypeOK, MutexInv, FailedInv, CurrentInv, HealthyIsCurrent,
        Unused, connVars, Connecting
<1>1. ASSUME NEW p \in Callers, NEW o \in {"tcp", "udp"}, ClientDo(p, o) PROVE MutexInv' /\ FailedInv' /\ CurrentInv' /\ HealthyIsCurrent'
  <2>1. MutexInv'
    BY <1>1 DEF ClientDo, MutexFree
  <2>2. FailedInv'
    BY <1>1 DEF ClientDo, MutexFree
  <2>3. CurrentInv'
    BY <1>1 DEF ClientDo, MutexFree
  <2>4. HealthyIsCurrent'
    BY <1>1 DEF ClientDo, MutexFree
  <2> QED
    BY <2>1, <2>2, <2>3, <2>4
<1>2. ASSUME NEW p \in Callers, ReconnectError(p) PROVE MutexInv' /\ FailedInv' /\ CurrentInv' /\ HealthyIsCurrent'
  <2>1. MutexInv'
    BY <1>2 DEF ReconnectError
  <2>2. FailedInv'
    BY <1>2 DEF ReconnectError
  <2>3. CurrentInv'
    BY <1>2 DEF ReconnectError
  <2>4. HealthyIsCurrent'
    BY <1>2 DEF ReconnectError
  <2> QED
    BY <2>1, <2>2, <2>3, <2>4
<1>3. ASSUME NEW p \in Callers, CallReturn(p) PROVE MutexInv' /\ FailedInv' /\ CurrentInv' /\ HealthyIsCurrent'
  <2>1. MutexInv'
    BY <1>3 DEF CallReturn
  <2>2. FailedInv'
    BY <1>3 DEF CallReturn
  <2>3. CurrentInv'
    BY <1>3 DEF CallReturn
  <2>4. HealthyIsCurrent'
    BY <1>3 DEF CallReturn
  <2> QED
    BY <2>1, <2>2, <2>3, <2>4
<1>4. ASSUME NEW p \in Callers, CallClosedError(p) PROVE MutexInv' /\ FailedInv' /\ CurrentInv' /\ HealthyIsCurrent'
  <2>1. MutexInv'
    BY <1>4 DEF CallClosedError
  <2>2. FailedInv'
    BY <1>4 DEF CallClosedError
  <2>3. CurrentInv'
    BY <1>4 DEF CallClosedError
  <2>4. HealthyIsCurrent'
    BY <1>4 DEF CallClosedError
  <2> QED
    BY <2>1, <2>2, <2>3, <2>4
<1>5. ASSUME NEW p \in Callers, Drop(p) PROVE MutexInv' /\ FailedInv' /\ CurrentInv' /\ HealthyIsCurrent'
  <2>1. MutexInv'
    BY <1>5 DEF Drop, MutexFree
  <2>2. FailedInv'
    BY <1>5 DEF Drop, MutexFree
  <2>3. CurrentInv'
    BY <1>5 DEF Drop, MutexFree
  <2>4. HealthyIsCurrent'
    BY <1>5 DEF Drop, MutexFree
  <2> QED
    BY <2>1, <2>2, <2>3, <2>4
<1>6. ASSUME NEW p \in Callers, NEW c \in Clients, Reconnect(p, c) PROVE MutexInv' /\ FailedInv' /\ CurrentInv' /\ HealthyIsCurrent'
  <2>1. MutexInv'
    BY <1>6 DEF Reconnect, Unused
  <2>2. FailedInv'
    BY <1>6 DEF Reconnect, Unused
  <2>3. CurrentInv'
    BY <1>6 DEF Reconnect, Unused
  <2>4. HealthyIsCurrent'
    BY <1>6 DEF Reconnect, Unused
  <2> QED
    BY <2>1, <2>2, <2>3, <2>4
<1>7. ASSUME NEW c \in Clients, ConnLost(c) PROVE MutexInv' /\ FailedInv' /\ CurrentInv' /\ HealthyIsCurrent'
  <2>1. MutexInv'
    BY <1>7 DEF ConnLost
  <2>2. FailedInv'
    BY <1>7 DEF ConnLost
  <2>3. CurrentInv'
    BY <1>7 DEF ConnLost
  <2>4. HealthyIsCurrent'
    BY <1>7 DEF ConnLost
  <2> QED
    BY <2>1, <2>2, <2>3, <2>4
<1>8. ASSUME NEW c \in Clients, UDPCleanup(c) PROVE MutexInv' /\ FailedInv' /\ CurrentInv' /\ HealthyIsCurrent'
  <2>1. MutexInv'
    BY <1>8 DEF UDPCleanup
  <2>2. FailedInv'
    BY <1>8 DEF UDPCleanup
  <2>3. CurrentInv'
    BY <1>8 DEF UDPCleanup
  <2>4. HealthyIsCurrent'
    BY <1>8 DEF UDPCleanup
  <2> QED
    BY <2>1, <2>2, <2>3, <2>4
<1>9. CASE Close
  <2>1. MutexInv'
    BY <1>9 DEF Close, MutexFree
  <2>2. FailedInv'
    BY <1>9 DEF Close, MutexFree
  <2>3. CurrentInv'
    BY <1>9 DEF Close, MutexFree
  <2>4. HealthyIsCurrent'
    BY <1>9 DEF Close, MutexFree
  <2> QED
    BY <2>1, <2>2, <2>3, <2>4
<1>10. ASSUME NEW p \in Callers, Lock(p) PROVE MutexInv' /\ FailedInv' /\ CurrentInv' /\ HealthyIsCurrent'
  <2>1. MutexInv'
    BY <1>10 DEF Lock, MutexFree
  <2>2. FailedInv'
    BY <1>10 DEF Lock, MutexFree
  <2>3. CurrentInv'
    BY <1>10 DEF Lock, MutexFree
  <2>4. HealthyIsCurrent'
    BY <1>10 DEF Lock, MutexFree
  <2> QED
    BY <2>1, <2>2, <2>3, <2>4
<1>11. ASSUME NEW p \in Callers, Dialed(p) PROVE MutexInv' /\ FailedInv' /\ CurrentInv' /\ HealthyIsCurrent'
  <2>1. MutexInv'
    BY <1>11 DEF Dialed, MutexFree
  <2>2. FailedInv'
    BY <1>11 DEF Dialed, MutexFree
  <2>3. CurrentInv'
    BY <1>11 DEF Dialed, MutexFree
  <2>4. HealthyIsCurrent'
    BY <1>11 DEF Dialed, MutexFree
  <2> QED
    BY <2>1, <2>2, <2>3, <2>4
<1>12. ASSUME NEW p \in Callers, AttemptLost(p) PROVE MutexInv' /\ FailedInv' /\ CurrentInv' /\ HealthyIsCurrent'
  <2>1. MutexInv'
    BY <1>12 DEF AttemptLost, MutexFree
  <2>2. FailedInv'
    BY <1>12 DEF AttemptLost, MutexFree
  <2>3. CurrentInv'
    BY <1>12 DEF AttemptLost, MutexFree
  <2>4. HealthyIsCurrent'
    BY <1>12 DEF AttemptLost, MutexFree
  <2> QED
    BY <2>1, <2>2, <2>3, <2>4
<1>13. CASE UNCHANGED vars
  BY <1>13 DEF vars
<1> QED
  BY <1>1, <1>2, <1>3, <1>4, <1>5, <1>6, <1>7, <1>8, <1>9, <1>10, <1>11, <1>12, <1>13 DEF Next

\* The invariant holds in every state of every behaviour.
THEOREM Invariance == Spec => []IInv
<1>1. IInv /\ [Next]_vars => IInv'
  BY TypeStep, ClientStep DEF IInv
<1> QED
  BY <1>1, InitIInv, PTL DEF Spec

\* A connection that is open and on which no call failed is the current one,
\* for any number of callers: the mutex lets only one of them connect, and
\* clientDo's comparison keeps late errors from dropping a successor.
THEOREM HealthyIsCurrentThm == Spec => []HealthyIsCurrent
<1>1. IInv => HealthyIsCurrent
  BY DEF IInv
<1> QED
  BY <1>1, Invariance, PTL

\* No connection is established once Close has run.
THEOREM NoConnectAfterCloseThm == Spec => NoConnectAfterClose
<1> DEFINE Step == \A c \in Clients : quic[c] = "none" /\ quic'[c] = "open" => ~closed
<1>1. IInv /\ [Next]_vars => [Step]_vars
  <2> SUFFICES ASSUME IInv, [Next]_vars, NEW c \in Clients, quic[c] = "none", quic'[c] = "open"
               PROVE ~closed
    OBVIOUS
  <2>1. ASSUME NEW p \in Callers, NEW d \in Clients, Reconnect(p, d) PROVE ~closed
    BY <2>1 DEF IInv, MutexInv, Reconnect, Connecting
  <2>2. ASSUME Close PROVE FALSE
    BY <2>2 DEF Close, IInv, TypeOK, CurrentInv, Unused
  <2>3. ASSUME NEW d \in Clients, ConnLost(d) PROVE FALSE
    BY <2>3 DEF ConnLost, IInv, TypeOK
  <2>4. quic' # quic
    OBVIOUS
  <2> QED
    BY <2>1, <2>2, <2>3, <2>4 DEF Next, ClientDo, Lock, Dialed, AttemptLost, ReconnectError,
       CallReturn, CallClosedError, Drop, UDPCleanup, connVars, vars
<1> QED
  BY <1>1, Invariance, PTL DEF Spec, NoConnectAfterClose

\* Both safety promises of the reconnecting client (ReconnectSafe).
THEOREM ReconnectSafeThm == Spec => ReconnectSafe
<1> QED
  BY HealthyIsCurrentThm, NoConnectAfterCloseThm, PTL DEF ReconnectSafe
=============================================================================
