----------------------------- MODULE ClientUDP -----------------------------
(***************************************************************************)
(* The client's udpSessionManager (core/client/udp.go): one goroutine runs *)
(* run, the caller's goroutines open, read and close sessions.             *)
(*                                                                         *)
(* A datagram is an answer of the server: its SessionID and, for the       *)
(* properties, the session it was meant for.  Fragments are the subject of *)
(* UDPFragmentation; here every datagram is a whole message.  SessionID is *)
(* a uint32, and IDMod stands for 2^32.                                    *)
(***************************************************************************)
EXTENDS Naturals, Sequences

CONSTANTS
    Conns,      \* udpConn values, one per successful NewUDP
    NoConn,     \* no udpConn
    IDMod,      \* 2^32, at which nextID wraps
    ChanSize,   \* udpMessageChanSize
    MaxAnswers  \* bound on the answers of the server

ASSUME NoConnAssumption == NoConn \notin Conns
ASSUME IDModAssumption == IDMod \in Nat /\ IDMod > 1
ASSUME BoundsAssumption == ChanSize \in Nat /\ MaxAnswers \in Nat

IDs == 0..(IDMod - 1)
NoID == IDMod
Answers == [sid : IDs, for : Conns]

VARIABLES
    quic,       \* the QUIC connection is open
    net,        \* answers under way
    answered,   \* number of answers sent
    run,        \* control point of run: "receive", "feed", "cleanup", "done"
    msg,        \* the message run feeds, as a set of at most one
    m,          \* m.m: SessionID to udpConn
    nextID,     \* m.nextID
    closed,     \* m.closed
    id,         \* udpConn.ID
    connClosed, \* udpConn.Closed, and with it ReceiveCh
    ch,         \* contents of udpConn.ReceiveCh
    reader,     \* Receive per udpConn: "idle", "wait", "eof"
    got         \* messages Receive returned

envVars == <<quic, net, answered>>
mgrVars == <<m, nextID, closed>>
vars == <<envVars, run, msg, mgrVars, id, connClosed, ch, reader, got>>

Created(c) == id[c] # NoID

Init ==
    /\ quic = TRUE /\ net = {} /\ answered = 0
    /\ run = "receive" /\ msg = {}
    /\ m = [i \in IDs |-> NoConn]
    /\ nextID = 1
    /\ closed = FALSE
    /\ id = [c \in Conns |-> NoID]
    /\ connClosed = [c \in Conns |-> FALSE]
    /\ ch = [c \in Conns |-> <<>>]
    /\ reader = [c \in Conns |-> "idle"]
    /\ got = [c \in Conns |-> {}]

-----------------------------------------------------------------------------
(* The callers *)

NewUDPUnchecked(c) ==
    /\ ~Created(c)
    /\ id' = [id EXCEPT ![c] = nextID]
    /\ m' = [m EXCEPT ![nextID] = c]
    /\ nextID' = (nextID + 1) % IDMod
    /\ UNCHANGED <<envVars, run, msg, closed, connClosed, ch, reader, got>>

\* NewUDP; once the manager is closed it only returns ClosedError.
NewUDP(c) ==
    /\ ~closed
    /\ ~Created(c)
    /\ id' = [id EXCEPT ![c] = nextID]
    /\ m' = [m EXCEPT ![nextID] = c]
    /\ nextID' = (nextID + 1) % IDMod
    /\ UNCHANGED <<envVars, run, msg, closed, connClosed, ch, reader, got>>

ForgetToDelete(c) ==
    IF connClosed[c]
      THEN UNCHANGED <<connClosed, m>>
      ELSE connClosed' = [connClosed EXCEPT ![c] = TRUE] /\ UNCHANGED m

\* m.close under m.mutex: the first call closes the channel and deletes the
\* session's ID from the map, whoever is mapped there.
Close(c) ==
    IF connClosed[c]
      THEN UNCHANGED <<connClosed, m>>
      ELSE /\ connClosed' = [connClosed EXCEPT ![c] = TRUE]
           /\ m' = [m EXCEPT ![id[c]] = NoConn]

\* udpConn.Close, any number of times.
CloseFunc(c) ==
    /\ Created(c)
    /\ Close(c)
    /\ UNCHANGED <<envVars, run, msg, nextID, closed, id, ch, reader, got>>

\* A caller enters Receive; sessions have one reader.
ReceiveCall(c) ==
    /\ Created(c) /\ reader[c] = "idle"
    /\ reader' = [reader EXCEPT ![c] = "wait"]
    /\ UNCHANGED <<envVars, run, msg, mgrVars, id, connClosed, ch, got>>

\* Receive takes a message; those buffered before the close come first.
ReceiveMsg(c) ==
    /\ reader[c] = "wait" /\ ch[c] # <<>>
    /\ got' = [got EXCEPT ![c] = @ \cup {Head(ch[c])}]
    /\ ch' = [ch EXCEPT ![c] = Tail(@)]
    /\ reader' = [reader EXCEPT ![c] = "idle"]
    /\ UNCHANGED <<envVars, run, msg, mgrVars, id, connClosed>>

\* Receive on a closed and drained channel returns io.EOF.
ReceiveEOF(c) ==
    /\ reader[c] = "wait" /\ ch[c] = <<>> /\ connClosed[c]
    /\ reader' = [reader EXCEPT ![c] = "eof"]
    /\ UNCHANGED <<envVars, run, msg, mgrVars, id, connClosed, ch, got>>

-----------------------------------------------------------------------------
(* run *)

\* io.ReceiveMessage returns a datagram.
ReceiveMessage(a) ==
    /\ run = "receive" /\ quic
    /\ a \in net
    /\ net' = net \ {a}
    /\ msg' = {a}
    /\ run' = "feed"
    /\ UNCHANGED <<quic, answered, mgrVars, id, connClosed, ch, reader, got>>

\* feed: the message of an unknown session is ignored, and so is one for a
\* session whose channel is full.
Feed(a) ==
    /\ run = "feed" /\ a \in msg
    /\ LET c == m[a.sid] IN
         ch' = IF c # NoConn /\ Len(ch[c]) < ChanSize
                 THEN [ch EXCEPT ![c] = Append(@, a)] ELSE ch
    /\ run' = "receive"
    /\ msg' = {}
    /\ UNCHANGED <<envVars, mgrVars, id, connClosed, reader, got>>

\* io.ReceiveMessage fails with the connection, which ends the loop.
ReceiveError ==
    /\ run = "receive" /\ ~quic
    /\ run' = "cleanup"
    /\ UNCHANGED <<envVars, msg, mgrVars, id, connClosed, ch, reader, got>>

\* closeCleanup, in one critical section: every mapped session is closed and
\* the manager with them.
CloseCleanup ==
    /\ run = "cleanup"
    /\ connClosed' = [c \in Conns |-> connClosed[c] \/ \E i \in IDs : m[i] = c]
    /\ m' = [i \in IDs |-> NoConn]
    /\ closed' = TRUE
    /\ run' = "done"
    /\ UNCHANGED <<envVars, msg, nextID, id, ch, reader, got>>

-----------------------------------------------------------------------------
(* The environment *)

\* The server answers on the session that c opened, also after c was closed.
Answer(c) ==
    /\ quic /\ Created(c) /\ answered < MaxAnswers
    /\ net' = net \cup {[sid |-> id[c], for |-> c]}
    /\ answered' = answered + 1
    /\ UNCHANGED <<quic, run, msg, mgrVars, id, connClosed, ch, reader, got>>

\* The connection ends, by either side or by idle timeout.
QuicClose ==
    /\ quic /\ quic' = FALSE
    /\ UNCHANGED <<net, answered, run, msg, mgrVars, id, connClosed, ch, reader, got>>

\* Stuttering once run has returned and nobody is left in Receive.
Finished == run = "done" /\ (\A c \in Conns : reader[c] # "wait") /\ UNCHANGED vars

Next ==
    \/ \E c \in Conns : \/ NewUDP(c) \/ CloseFunc(c) \/ ReceiveCall(c) \/ ReceiveMsg(c)
                        \/ ReceiveEOF(c) \/ Answer(c)
    \/ \E a \in net : ReceiveMessage(a)
    \/ \E a \in msg : Feed(a)
    \/ ReceiveError \/ CloseCleanup \/ QuicClose
    \/ Finished

Spec == Init /\ [][Next]_vars

\* The run goroutine is scheduled, ReceiveDatagram reports a closed connection,
\* and a channel operation that can proceed does.
Fairness ==
    /\ WF_vars(\E a \in msg : Feed(a)) /\ WF_vars(ReceiveError) /\ WF_vars(CloseCleanup)
    /\ \A c \in Conns : WF_vars(ReceiveMsg(c) \/ ReceiveEOF(c))

FairSpec == Spec /\ Fairness

-----------------------------------------------------------------------------
(* Properties *)

\* Every variable has its type; channels stay within their capacity.
TypeOK ==
    /\ quic \in BOOLEAN
    /\ net \in SUBSET Answers
    /\ answered \in 0..MaxAnswers
    /\ run \in {"receive", "feed", "cleanup", "done"}
    /\ msg \in SUBSET Answers
    /\ m \in [IDs -> Conns \cup {NoConn}]
    /\ nextID \in IDs
    /\ closed \in BOOLEAN
    /\ id \in [Conns -> IDs \cup {NoID}]
    /\ connClosed \in [Conns -> BOOLEAN]
    /\ ch \in [Conns -> Seq(Answers)]
    /\ \A c \in Conns : Len(ch[c]) <= ChanSize
    /\ reader \in [Conns -> {"idle", "wait", "eof"}]
    /\ got \in [Conns -> SUBSET Answers]

\* A mapped session is not closed and is mapped under its own ID, so that feed
\* never sends on a closed channel (which would panic), even after nextID has
\* wrapped and a session was replaced in the map.
MappedIsOpen ==
    \A i \in IDs : m[i] # NoConn => ~connClosed[m[i]] /\ id[m[i]] = i

\* While IDs have not been reused, a session that is not closed is mapped, so
\* that closeCleanup finds it; after run has returned every session is closed.
NoneOrphaned ==
    /\ \A c \in Conns : (Created(c) /\ ~connClosed[c]) => m[id[c]] = c
    /\ run = "done" => \A c \in Conns : Created(c) => connClosed[c]

\* Receive returns only answers that were meant for its session, also when
\* answers to closed sessions are still under way.
OwnAnswersOnly == \A c \in Conns : \A a \in got[c] : a.for = c

\* A session the application holds can be reached and closed by run, and receives its own
\* answers only.
SessionsReachable == NoneOrphaned /\ OwnAnswersOnly

\* Every Receive returns once the connection is closed (udp_test.go: "Test close
\* IO unblocks Receive() and blocks new UDP creation").
ReceivesReturn == \A c \in Conns : (~quic /\ reader[c] = "wait") ~> (reader[c] # "wait")

=============================================================================
