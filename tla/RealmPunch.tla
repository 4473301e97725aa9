----------------------------- MODULE RealmPunch -----------------------------
(***************************************************************************)
(* Hole punching on the server: PunchPacketConn (extras/realm/             *)
(* punch_conn.go), which takes the punch packets of registered attempts    *)
(* out of the traffic of QUIC, and ServerPuncher (server_punch.go), which  *)
(* hands them to the Respond call of their attempt.  The rendezvous server *)
(* may announce an attempt again, so two calls of Respond for one attempt  *)
(* may overlap.  Both tables are guarded by locks of their own.            *)
(***************************************************************************)
EXTENDS Naturals, Sequences

CONSTANTS
    Attempts,      \* attempt IDs, with the metadata each stands for
    RespondCalls,  \* calls of Respond, and the attempt of each
    AttemptOf,
    EventBuffer,   \* defaultPunchEventBuffer, defaultServerPunchEventBuffer
    MaxPunches     \* bound on the punch packets that arrive

NoCall == "none"

ASSUME AttemptOfAssumption == AttemptOf \in [RespondCalls -> Attempts]
ASSUME NoCallAssumption == NoCall \notin RespondCalls

VARIABLES
    connAttempts,  \* PunchPacketConn.attempts
    channel,       \* ServerPuncher.attempts: the call that owns the channel
    respond,       \* per call: control point of Respond
    inbox,         \* per call: its channel of events
    punchEvents,   \* PunchPacketConn.events
    punches,       \* packets that arrived so far
    passed         \* history: packets handed to QUIC while a call for them was running

punchVars == <<connAttempts, channel, respond, inbox, punchEvents, punches, passed>>

InitPunch ==
    /\ connAttempts = {}
    /\ channel = [a \in Attempts |-> NoCall]
    /\ respond = [c \in RespondCalls |-> "start"]
    /\ inbox = [c \in RespondCalls |-> <<>>]
    /\ punchEvents = <<>>
    /\ punches = 0 /\ passed = {}

At(c, next) == respond' = [respond EXCEPT ![c] = next]

-----------------------------------------------------------------------------
(* Respond *)

\* addAttempt: a duplicate ID is refused under the lock of the puncher ...
AddAttempt(c) ==
    LET a == AttemptOf[c]
    IN /\ respond[c] = "start"
       /\ IF channel[a] = NoCall
            THEN channel' = [channel EXCEPT ![a] = c] /\ At(c, "add")
            ELSE At(c, "refused") /\ UNCHANGED channel
       /\ UNCHANGED <<connAttempts, inbox, punchEvents, punches, passed>>

\* ... and AddPunchAttempt follows under the lock of the connection.
AddPunchAttempt(c) ==
    /\ respond[c] = "add"
    /\ connAttempts' = connAttempts \cup {AttemptOf[c]}
    /\ At(c, "wait")
    /\ UNCHANGED <<channel, inbox, punchEvents, punches, passed>>

\* The first packet of the peer (a hello is acknowledged), or the timeout.
RespondReturns(c) ==
    /\ respond[c] = "wait"
    /\ inbox' = [inbox EXCEPT ![c] = <<>>]
    /\ At(c, "remove")
    /\ UNCHANGED <<connAttempts, channel, punchEvents, punches, passed>>

\* removeAttempt: first RemovePunchAttempt of the connection ...
RemoveFromConn(c) ==
    /\ respond[c] = "remove"
    /\ connAttempts' = connAttempts \ {AttemptOf[c]}
    /\ At(c, "delete")
    /\ UNCHANGED <<channel, inbox, punchEvents, punches, passed>>

\* ... then the entry of the puncher.
RemoveFromMap(c) ==
    /\ respond[c] = "delete"
    /\ channel' = [channel EXCEPT ![AttemptOf[c]] = NoCall]
    /\ At(c, "done")
    /\ UNCHANGED <<connAttempts, inbox, punchEvents, punches, passed>>

\* Mutation: the two removals the other way round.
DeleteFirst(c) ==
    /\ respond[c] = "remove"
    /\ channel' = [channel EXCEPT ![AttemptOf[c]] = NoCall]
    /\ At(c, "delete")
    /\ UNCHANGED <<connAttempts, inbox, punchEvents, punches, passed>>
RemoveLast(c) ==
    /\ respond[c] = "delete"
    /\ connAttempts' = connAttempts \ {AttemptOf[c]}
    /\ At(c, "done")
    /\ UNCHANGED <<channel, inbox, punchEvents, punches, passed>>
RemoveSwapped(c) == DeleteFirst(c) \/ RemoveLast(c)

RemoveAttempt(c) == RemoveFromConn(c) \/ RemoveFromMap(c)

-----------------------------------------------------------------------------
(* Packets *)

Waiting(a) == \E c \in RespondCalls : AttemptOf[c] = a /\ respond[c] = "wait"

\* ReadFrom of the connection: a punch packet of a registered attempt becomes
\* an event, or is dropped when the buffer is full; any other goes to QUIC.
PunchArrives(a) ==
    /\ punches < MaxPunches
    /\ punches' = punches + 1
    /\ IF a \in connAttempts
         THEN /\ punchEvents' = IF Len(punchEvents) < EventBuffer THEN Append(punchEvents, a) ELSE punchEvents
              /\ UNCHANGED passed
         ELSE /\ passed' = IF Waiting(a) THEN passed \cup {a} ELSE passed
              /\ UNCHANGED punchEvents
    /\ UNCHANGED <<connAttempts, channel, respond, inbox>>

\* dispatch: to the channel of the attempt, unless there is none or it is full.
Dispatch ==
    /\ punchEvents # <<>>
    /\ punchEvents' = Tail(punchEvents)
    /\ LET c == channel[Head(punchEvents)]
       IN inbox' = IF c # NoCall /\ respond[c] \in {"add", "wait"} /\ Len(inbox[c]) < EventBuffer
                   THEN [inbox EXCEPT ![c] = Append(@, Head(punchEvents))] ELSE inbox
    /\ UNCHANGED <<connAttempts, channel, respond, punches, passed>>

NextPunch ==
    \/ \E c \in RespondCalls :
          AddAttempt(c) \/ AddPunchAttempt(c) \/ RespondReturns(c) \/ RemoveAttempt(c)
    \/ \E a \in Attempts : PunchArrives(a)
    \/ Dispatch

SpecPunch == InitPunch /\ [][NextPunch]_punchVars

-----------------------------------------------------------------------------
(* Properties *)

Active(c) == respond[c] \in {"add", "wait", "remove", "delete"}

\* A Respond that waits is registered in both tables, also when an earlier call
\* for the same attempt is still cleaning up: none of its packets goes to QUIC
\* instead.  Its events are those of its attempt, and what nobody runs for any
\* more is in neither table.
RegisteredWhileWaiting ==
    /\ passed = {}
    /\ \A c \in RespondCalls :
          respond[c] = "wait" => channel[AttemptOf[c]] = c /\ AttemptOf[c] \in connAttempts
    /\ \A c \in RespondCalls : \A i \in DOMAIN inbox[c] : inbox[c][i] = AttemptOf[c]
    /\ \A a \in Attempts :
          (a \in connAttempts \/ channel[a] # NoCall)
             => \E c \in RespondCalls : AttemptOf[c] = a /\ Active(c)
=============================================================================
