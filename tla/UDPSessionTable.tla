-------------------------- MODULE UDPSessionTable --------------------------
(***************************************************************************)
(* What the UDP session manager promises, without goroutines or locks: a   *)
(* bounded table of sessions.  A session holds its ID from admission until *)
(* it is released, opens at most one socket, and once it closes it can     *)
(* never open one.  An ID can be used again only after its release.        *)
(***************************************************************************)
EXTENDS Naturals, FiniteSets

CONSTANTS SessionIDs, Entries, NoID, MaxSessions

VARIABLES
    phase,   \* "unused", "bound" (no socket), "open", "closing", "released"
    idOf     \* the session ID of an admitted entry

tableVars == <<phase, idOf>>

Live == {e \in Entries : phase[e] \in {"bound", "open", "closing"}}
IDsInUse == {idOf[e] : e \in Live}

TableInit ==
    /\ phase = [e \in Entries |-> "unused"]
    /\ idOf = [e \in Entries |-> NoID]

Admit(e, s) ==
    /\ phase[e] = "unused"
    /\ s \notin IDsInUse
    /\ Cardinality(IDsInUse) < MaxSessions
    /\ phase' = [phase EXCEPT ![e] = "bound"]
    /\ idOf' = [idOf EXCEPT ![e] = s]

OpenSocket(e) ==
    /\ phase[e] = "bound"
    /\ phase' = [phase EXCEPT ![e] = "open"]
    /\ UNCHANGED idOf

Close(e) ==
    /\ phase[e] \in {"bound", "open"}
    /\ phase' = [phase EXCEPT ![e] = "closing"]
    /\ UNCHANGED idOf

Release(e) ==
    /\ phase[e] = "closing"
    /\ phase' = [phase EXCEPT ![e] = "released"]
    /\ UNCHANGED idOf

TableNext ==
    \E e \in Entries :
       \/ \E s \in SessionIDs : Admit(e, s)
       \/ OpenSocket(e) \/ Close(e) \/ Release(e)

TableSpec == TableInit /\ [][TableNext]_tableVars
=============================================================================
