------------------------------ MODULE ProxyMux ------------------------------
(***************************************************************************)
(* SOCKS5 and HTTP on one local address: muxManager and muxListener of     *)
(* app/internal/proxymux.  A muxListener runs two goroutines, acceptLoop   *)
(* and mainLoop, and one dispatch goroutine per connection, which reads    *)
(* the first byte and hands the connection to the sub-listener of that     *)
(* protocol over an unbuffered channel.  The critical sections under the   *)
(* locks of the manager and of the listener contain no call that blocks,   *)
(* so each is one step.                                                    *)
(***************************************************************************)
EXTENDS Naturals, FiniteSets

CONSTANTS
    MaxMux,     \* bound on the muxListeners created for the address
    MaxSubs,    \* bound on the sub-listeners created
    LocalConns  \* connections of local applications

ASSUME MuxAssumption == MaxMux \in Nat /\ MaxSubs \in Nat

Protocols == {"socks", "http"}
Nil == 0
Muxes == 1..MaxMux
Subs == 1..MaxSubs

VARIABLES
    registry,   \* muxManager.listeners[key], or Nil
    base,       \* per mux: "none", "open" or "closed" base listener
    acceptor,   \* per mux: acceptLoop at "accept", holding a connection, or "done"
    acceptErr,  \* per mux: an error of Accept not yet reported
    main,       \* per mux: control point of mainLoop
    watched,    \* per mux: the sub-listeners whose closeChan mainLoop selects on
    slot,       \* per mux and protocol: socksListener, httpListener
    sub,        \* per sub-listener: its mux, protocol and two channels
    localConn,  \* per connection: where it is, and the sub-listener it is sent to
    caller,     \* per protocol: the mux got by a Listen call under way
    muxPanic    \* a send on a closed channel

muxVars == <<registry, base, acceptor, acceptErr, main, watched, slot, sub, localConn,
             caller, muxPanic>>

NoSub == [mux |-> Nil, proto |-> "none", acceptClosed |-> FALSE, closeClosed |-> FALSE]
NoSlots == [p \in Protocols |-> Nil]

InitMux ==
    /\ registry = Nil
    /\ base = [m \in Muxes |-> "none"]
    /\ acceptor = [m \in Muxes |-> "none"]
    /\ acceptErr = [m \in Muxes |-> FALSE]
    /\ main = [m \in Muxes |-> "none"]
    /\ watched = [m \in Muxes |-> NoSlots]
    /\ slot = [m \in Muxes |-> NoSlots]
    /\ sub = [s \in Subs |-> NoSub]
    /\ localConn = [c \in LocalConns |-> [at |-> "new", mux |-> Nil, to |-> Nil]]
    /\ caller = NoSlots
    /\ muxPanic = FALSE

-----------------------------------------------------------------------------
(* ListenSOCKS and ListenHTTP *)

\* closeChan of the listener is closed by mainLoop on its way out.
MuxClosed(m) == main[m] \in {"release", "done"}

\* GetOrCreate: the registered listener, or a new one.  Listening fails while
\* an older listener still holds the port.
GetOrCreate(p) ==
    /\ caller[p] = Nil
    /\ \/ /\ registry # Nil
          /\ caller' = [caller EXCEPT ![p] = registry]
          /\ UNCHANGED <<registry, base, acceptor, main>>
       \/ /\ registry = Nil
          /\ \A m \in Muxes : base[m] # "open"
          /\ \E m \in Muxes :
                /\ base[m] = "none" /\ \A k \in Muxes : k < m => base[k] # "none"
                /\ registry' = m
                /\ base' = [base EXCEPT ![m] = "open"]
                /\ acceptor' = [acceptor EXCEPT ![m] = "accept"]
                /\ main' = [main EXCEPT ![m] = "top"]
                /\ caller' = [caller EXCEPT ![p] = m]
    /\ UNCHANGED <<acceptErr, watched, slot, sub, localConn, muxPanic>>

\* The listener already has an open sub-listener for the protocol.
InUse(m, p) == slot[m][p] # Nil /\ ~sub[slot[m][p]].closeClosed

FreeSub(s) == sub[s] = NoSub /\ \A k \in Subs : k < s => sub[k] # NoSub

NewSub(m, p, s) ==
    /\ FreeSub(s)
    /\ sub' = [sub EXCEPT ![s] = [NoSub EXCEPT !.mux = m, !.proto = p]]
    /\ slot' = [slot EXCEPT ![m][p] = s]

\* Mutation: closeChan is not examined.
ListenUnchecked(p) ==
    LET m == caller[p]
    IN /\ m # Nil
       /\ \/ InUse(m, p) /\ UNCHANGED <<slot, sub>>
          \/ ~InUse(m, p) /\ \E s \in Subs : NewSub(m, p, s)
       /\ caller' = [caller EXCEPT ![p] = Nil]
       /\ UNCHANGED <<registry, base, acceptor, acceptErr, main, watched, localConn, muxPanic>>

\* ListenSOCKS or ListenHTTP of the mux: ErrProtocolInUse, net.ErrClosed after
\* a sub-listener that is pending closed was taken out, or a new sub-listener.
Listen(p) ==
    LET m == caller[p]
    IN /\ m # Nil
       /\ \/ InUse(m, p) /\ UNCHANGED <<slot, sub>>
          \/ /\ ~InUse(m, p) /\ MuxClosed(m)
             /\ slot' = [slot EXCEPT ![m][p] = Nil]
             /\ UNCHANGED sub
          \/ /\ ~InUse(m, p) /\ ~MuxClosed(m)
             /\ \E s \in Subs : NewSub(m, p, s)
       /\ caller' = [caller EXCEPT ![p] = Nil]
       /\ UNCHANGED <<registry, base, acceptor, acceptErr, main, watched, localConn, muxPanic>>

\* subListener.Close by its owner; a second call changes nothing.
CloseSub(s) ==
    /\ sub[s] # NoSub /\ ~sub[s].closeClosed
    /\ sub' = [sub EXCEPT ![s].closeClosed = TRUE]
    /\ UNCHANGED <<registry, base, acceptor, acceptErr, main, watched, slot, localConn, caller,
                   muxPanic>>

\* subListener.Accept takes a connection that a dispatch goroutine offers.
AcceptConn(s, c) ==
    /\ localConn[c].at = "send" /\ localConn[c].to = s
    /\ ~sub[s].acceptClosed
    /\ localConn' = [localConn EXCEPT ![c].at = "delivered"]
    /\ UNCHANGED <<registry, base, acceptor, acceptErr, main, watched, slot, sub, caller, muxPanic>>

\* Accept finds acceptChan closed and takes the error of the base listener.
AcceptError(s) ==
    /\ sub[s].acceptClosed /\ acceptErr[sub[s].mux]
    /\ acceptErr' = [acceptErr EXCEPT ![sub[s].mux] = FALSE]
    /\ UNCHANGED <<registry, base, acceptor, main, watched, slot, sub, localConn, caller, muxPanic>>

-----------------------------------------------------------------------------
(* acceptLoop *)

BaseAccept(m, c) ==
    /\ acceptor[m] = "accept" /\ base[m] = "open" /\ localConn[c].at = "new"
    /\ acceptor' = [acceptor EXCEPT ![m] = "hold"]
    /\ localConn' = [localConn EXCEPT ![c] = [at |-> "held", mux |-> m, to |-> Nil]]
    /\ UNCHANGED <<registry, base, acceptErr, main, watched, slot, sub, caller, muxPanic>>

\* Accept fails: the base listener was closed, or any other error.
BaseAcceptError(m) ==
    /\ acceptor[m] = "accept"
    /\ acceptErr' = [acceptErr EXCEPT ![m] = TRUE]
    /\ acceptor' = [acceptor EXCEPT ![m] = "done"]
    /\ UNCHANGED <<registry, base, main, watched, slot, sub, localConn, caller, muxPanic>>

\* closeChan is closed while a connection is offered: the loop returns and
\* nobody closes the connection.
AcceptLoopQuit(m, c) ==
    /\ acceptor[m] = "hold" /\ MuxClosed(m)
    /\ localConn[c].at = "held" /\ localConn[c].mux = m
    /\ acceptor' = [acceptor EXCEPT ![m] = "done"]
    /\ localConn' = [localConn EXCEPT ![c].at = "dropped"]
    /\ UNCHANGED <<registry, base, acceptErr, main, watched, slot, sub, caller, muxPanic>>

-----------------------------------------------------------------------------
(* mainLoop *)

\* The top of the loop copies the closeChans of the present sub-listeners;
\* the copies are gone when the select is left.
MainTop(m) ==
    /\ main[m] = "top"
    /\ main' = [main EXCEPT ![m] = "select"]
    /\ watched' = [watched EXCEPT ![m] = slot[m]]
    /\ UNCHANGED <<registry, base, acceptor, acceptErr, slot, sub, localConn, caller, muxPanic>>

\* A connection arrives on acceptChan: go dispatch.
MainConn(m, c) ==
    /\ main[m] = "select" /\ acceptor[m] = "hold"
    /\ localConn[c].at = "held" /\ localConn[c].mux = m
    /\ main' = [main EXCEPT ![m] = "top"]
    /\ acceptor' = [acceptor EXCEPT ![m] = "accept"]
    /\ localConn' = [localConn EXCEPT ![c].at = "read"]
    /\ watched' = [watched EXCEPT ![m] = NoSlots]
    /\ UNCHANGED <<registry, base, acceptErr, slot, sub, caller, muxPanic>>

\* acceptChan is closed.
MainAcceptClosed(m) ==
    /\ main[m] = "select" /\ acceptor[m] = "done"
    /\ main' = [main EXCEPT ![m] = "exit"]
    /\ watched' = [watched EXCEPT ![m] = NoSlots]
    /\ UNCHANGED <<registry, base, acceptor, acceptErr, slot, sub, localConn, caller, muxPanic>>

\* A watched sub-listener was closed: it leaves its slot unless another one
\* took its place.
MainSubClosed(m, p) ==
    LET s == watched[m][p]
    IN /\ main[m] = "select" /\ s # Nil
       /\ sub[s].closeClosed
       /\ slot' = [slot EXCEPT ![m][p] = IF @ = s THEN Nil ELSE @]
       /\ main' = [main EXCEPT ![m] = "idle"]
       /\ watched' = [watched EXCEPT ![m] = NoSlots]
       /\ UNCHANGED <<registry, base, acceptor, acceptErr, sub, localConn, caller, muxPanic>>

\* checkIdle, in a critical section of its own.
CheckIdle(m) ==
    /\ main[m] = "idle"
    /\ main' = [main EXCEPT ![m] = IF slot[m] = NoSlots THEN "exit" ELSE "top"]
    /\ UNCHANGED <<registry, base, acceptor, acceptErr, watched, slot, sub, localConn, caller,
                   muxPanic>>

\* The deferred function, first deleteFunc under the lock of the manager ...
ExitDelete(m) ==
    /\ main[m] = "exit"
    /\ registry' = Nil
    /\ main' = [main EXCEPT ![m] = "close"]
    /\ UNCHANGED <<base, acceptor, acceptErr, watched, slot, sub, localConn, caller, muxPanic>>

\* ... then the base listener and closeChan ...
ExitClose(m) ==
    /\ main[m] = "close"
    /\ base' = [base EXCEPT ![m] = "closed"]
    /\ main' = [main EXCEPT ![m] = "release"]
    /\ UNCHANGED <<registry, acceptor, acceptErr, watched, slot, sub, localConn, caller, muxPanic>>

\* ... and the channels of the sub-listeners that are left.
ExitRelease(m) ==
    /\ main[m] = "release"
    /\ sub' = [s \in Subs |-> IF \E p \in Protocols : slot[m][p] = s
                              THEN [sub[s] EXCEPT !.acceptClosed = TRUE] ELSE sub[s]]
    /\ slot' = [slot EXCEPT ![m] = NoSlots]
    /\ main' = [main EXCEPT ![m] = "done"]
    /\ UNCHANGED <<registry, base, acceptor, acceptErr, watched, localConn, caller, muxPanic>>

-----------------------------------------------------------------------------
(* dispatch *)

\* The first byte names the protocol; the connection is closed when it cannot
\* be read or when the protocol has no sub-listener.
DispatchRead(c) ==
    LET m == localConn[c].mux
    IN /\ localConn[c].at = "read"
       /\ \/ localConn' = [localConn EXCEPT ![c].at = "closed"]
          \/ \E p \in Protocols :
                localConn' = [localConn EXCEPT ![c].to = slot[m][p],
                                               ![c].at = IF slot[m][p] = Nil THEN "closed" ELSE "send"]
       /\ UNCHANGED <<registry, base, acceptor, acceptErr, main, watched, slot, sub, caller, muxPanic>>

\* The sub-listener was closed: the goroutine returns without closing the
\* connection.
DispatchDropped(c) ==
    /\ localConn[c].at = "send" /\ sub[localConn[c].to].closeClosed
    /\ localConn' = [localConn EXCEPT ![c].at = "dropped"]
    /\ UNCHANGED <<registry, base, acceptor, acceptErr, main, watched, slot, sub, caller, muxPanic>>

\* mainLoop closed the channel this goroutine is sending on.
DispatchPanic(c) ==
    /\ localConn[c].at = "send" /\ sub[localConn[c].to].acceptClosed
    /\ muxPanic' = TRUE
    /\ UNCHANGED <<registry, base, acceptor, acceptErr, main, watched, slot, sub, localConn, caller>>

DispatchStep(c) == DispatchRead(c) \/ DispatchDropped(c) \/ DispatchPanic(c)

MainStep(m) ==
    \/ MainTop(m) \/ CheckIdle(m) \/ MainAcceptClosed(m)
    \/ ExitDelete(m) \/ ExitClose(m) \/ ExitRelease(m)
    \/ \E p \in Protocols : MainSubClosed(m, p)
    \/ \E c \in LocalConns : MainConn(m, c)

\* A panic ends the process.
NextMux ==
    /\ ~muxPanic
    /\ \/ \E p \in Protocols : GetOrCreate(p) \/ Listen(p)
       \/ \E s \in Subs : CloseSub(s) \/ AcceptError(s) \/ \E c \in LocalConns : AcceptConn(s, c)
       \/ \E m \in Muxes :
             MainStep(m) \/ BaseAcceptError(m)
             \/ \E c \in LocalConns : BaseAccept(m, c) \/ AcceptLoopQuit(m, c)
       \/ \E c \in LocalConns : DispatchStep(c)

SpecMux == InitMux /\ [][NextMux]_muxVars

\* The goroutines run; connections, errors, Listen and Close are up to others.
FairMux ==
    /\ SpecMux
    /\ \A m \in Muxes :
          /\ WF_muxVars(MainStep(m))
          /\ WF_muxVars(base[m] = "closed" /\ BaseAcceptError(m))
          /\ WF_muxVars(\E c \in LocalConns : AcceptLoopQuit(m, c))
    /\ \A p \in Protocols : WF_muxVars(Listen(p))

-----------------------------------------------------------------------------
(* Properties *)

Serving(s) == sub[s] # NoSub /\ ~sub[s].closeClosed /\ ~sub[s].acceptClosed

\* A sub-listener that was handed out and not closed belongs to a muxListener
\* whose mainLoop runs, and will be offered connections or told of the end:
\* no Listen that races the shutdown of the mux leaves an Accept waiting for
\* ever.
NoOrphanListener ==
    \A s \in Subs : Serving(s) => /\ slot[sub[s].mux][sub[s].proto] = s
                                  /\ main[sub[s].mux] # "done"

AllClosed(m) == \A s \in Subs : sub[s].mux = m => sub[s].closeClosed

\* The tests of the manager: once every sub-listener is closed, the address is
\* given up (unless somebody listens on it again).
ReleasedWhenClosed ==
    \A m \in Muxes :
       (registry = m /\ (\E s \in Subs : sub[s].mux = m) /\ AllClosed(m))
          ~> (registry # m \/ ~AllClosed(m) \/ muxPanic)
=============================================================================
