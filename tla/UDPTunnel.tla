----------------------------- MODULE UDPTunnel -----------------------------
(***************************************************************************)
(* UDPTunnel of app/internal/forwarding: local datagrams are forwarded to   *)
(* one remote address, with one UDP session of the Hysteria client per      *)
(* local source.  Serve reads and feeds; every session has a receive        *)
(* goroutine that removes it from the table when it ends; a third goroutine *)
(* closes idle sessions.                                                    *)
(***************************************************************************)
EXTENDS Naturals

CONSTANTS Sources,      \* local source addresses
          MaxTunnel     \* bound: sessions opened

ASSUME TunnelAssumption == MaxTunnel \in Nat

VARIABLES tunAt,        \* Serve: "read", "insert", "last" (the deferred cleanup) or "returned"
          feeding,      \* [src, id]: what feed is about to insert
          tunMap,       \* t.m, 0 for no entry
          tunSes,       \* the sessions ever opened
          tunClosing    \* per cleanup: the entry it has marked and not yet closed; it holds the read lock

tunVars == <<tunAt, feeding, tunMap, tunSes, tunClosing>>

\* The cleanup of idleCleanupLoop, and the one that Serve defers.
Cleanups == {"idle", "last"}

NotOpened == [src |-> "none", conn |-> "none", loop |-> "none", timeout |-> FALSE, idle |-> FALSE]

InitTun ==
    /\ tunAt = "read"
    /\ feeding = 0
    /\ tunMap = [a \in Sources |-> 0]
    /\ tunSes = [i \in 1..MaxTunnel |-> NotOpened]
    /\ tunClosing = [k \in Cleanups |-> 0]

Opened == {i \in DOMAIN tunSes : tunSes[i].conn # "none"}

\* No cleanup holds the read lock.
Unlocked == \A k \in Cleanups : tunClosing[k] = 0

\* feed, first part: an existing entry gets the datagram; otherwise a session is opened and
\* its receive goroutine started, unless HyClient.UDP fails.
TunnelFeed(a) ==
    /\ tunAt = "read"
    /\ \/ /\ tunMap[a] # 0
          /\ tunSes' = [tunSes EXCEPT ![tunMap[a]].idle = FALSE]
          /\ UNCHANGED <<tunAt, feeding>>
       \/ /\ tunMap[a] = 0
          /\ \E i \in DOMAIN tunSes \ Opened :
               /\ \A j \in DOMAIN tunSes \ Opened : i <= j
               /\ tunSes' = [tunSes EXCEPT ![i] = [NotOpened EXCEPT !.src = a, !.conn = "open", !.loop = "run"]]
               /\ feeding' = i
          /\ tunAt' = "insert"
    /\ UNCHANGED <<tunMap, tunClosing>>

\* feed, second part: the entry goes into the map only after its goroutine was started.
Insert ==
    /\ tunAt = "insert"
    /\ Unlocked
    /\ tunMap' = [tunMap EXCEPT ![tunSes[feeding].src] = feeding]
    /\ tunAt' = "read"
    /\ feeding' = 0
    /\ UNCHANGED <<tunSes, tunClosing>>

\* ReceiveLoop returns: the session is closed, or the tunnel or the local socket fails.
LoopEnds(i) ==
    /\ tunSes[i].loop = "run"
    /\ tunSes' = [tunSes EXCEPT ![i].loop = "exit"]
    /\ UNCHANGED <<tunAt, feeding, tunMap, tunClosing>>

\* The goroutine leaves the connection to whoever closed it.
LoopExitKeep(i) ==
    /\ tunSes[i].loop = "exit"
    /\ tunSes' = [tunSes EXCEPT ![i].loop = "delete"]
    /\ UNCHANGED <<tunAt, feeding, tunMap, tunClosing>>

\* After the loop: close the session unless the cleanup has marked (and closes) it.
LoopExit(i) ==
    /\ tunSes[i].loop = "exit"
    /\ tunSes' = [tunSes EXCEPT ![i].loop = "delete", ![i].conn = IF tunSes[i].timeout THEN @ ELSE "closed"]
    /\ UNCHANGED <<tunAt, feeding, tunMap, tunClosing>>

\* delete(t.m, addr) under the write lock.
LoopDelete(i) ==
    /\ tunSes[i].loop = "delete"
    /\ Unlocked
    /\ tunMap' = [tunMap EXCEPT ![tunSes[i].src] = 0]
    /\ tunSes' = [tunSes EXCEPT ![i].loop = "gone"]
    /\ UNCHANGED <<tunAt, feeding, tunClosing>>

GoesIdle(i) ==
    /\ tunSes[i].conn # "none" /\ ~tunSes[i].idle
    /\ tunSes' = [tunSes EXCEPT ![i].idle = TRUE]
    /\ UNCHANGED <<tunAt, feeding, tunMap, tunClosing>>

\* cleanup marks an entry, idle unless it is the last cleanup of Serve; another cleanup may
\* be at it as well, and what is marked and closed already stays as it is ...
CleanupMark(k, a) ==
    /\ tunClosing[k] = 0
    /\ tunMap[a] # 0
    /\ tunSes[tunMap[a]].timeout => tunSes[tunMap[a]].conn # "closed"
    /\ IF k = "idle" THEN tunSes[tunMap[a]].idle ELSE tunAt = "last"
    /\ tunClosing' = [tunClosing EXCEPT ![k] = tunMap[a]]
    /\ tunSes' = [tunSes EXCEPT ![tunMap[a]].timeout = TRUE]
    /\ UNCHANGED <<tunAt, feeding, tunMap>>

\* ... and closes it.
CleanupClose(k) ==
    /\ tunClosing[k] # 0
    /\ tunSes' = [tunSes EXCEPT ![tunClosing[k]].conn = "closed"]
    /\ tunClosing' = [tunClosing EXCEPT ![k] = 0]
    /\ UNCHANGED <<tunAt, feeding, tunMap>>

\* pc.ReadFrom fails: the deferred cleanup(false) closes what is in the map, then Serve returns.
ServeEnds ==
    /\ \/ tunAt = "read" /\ tunAt' = "last"
       \/ /\ tunAt = "last" /\ tunClosing["last"] = 0
          /\ \A a \in Sources : tunMap[a] # 0 => tunSes[tunMap[a]].conn = "closed"
          /\ tunAt' = "returned"
    /\ UNCHANGED <<feeding, tunMap, tunSes, tunClosing>>

NextTun ==
    \/ \E a \in Sources : TunnelFeed(a) \/ \E k \in Cleanups : CleanupMark(k, a)
    \/ Insert \/ ServeEnds
    \/ \E k \in Cleanups : CleanupClose(k)
    \/ \E i \in DOMAIN tunSes : LoopEnds(i) \/ LoopExit(i) \/ LoopDelete(i) \/ GoesIdle(i)

SpecTun == InitTun /\ [][NextTun]_tunVars

----------------------------------------------------------------------------

\* Once Serve has returned no session is open: the table, the receive goroutines and the two
\* cleanups between them lose none, whichever of them gets to it first; and no goroutine
\* deletes the entry of a later session.
TunnelClosesSessions ==
    /\ tunAt = "returned" => \A i \in Opened : tunSes[i].conn = "closed"
    /\ \A i \in Opened : tunSes[i].loop = "delete" => tunMap[tunSes[i].src] \in {0, i}

============================================================================
