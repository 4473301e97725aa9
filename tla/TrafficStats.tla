---------------------------- MODULE TrafficStats ----------------------------
(***************************************************************************)
(* The traffic statistics API (extras/trafficlogger/http.go) together with *)
(* the UDP path of the connections that report to it: ReceiveMessage and   *)
(* SendMessage of udpIOImpl (core/server/server.go) and                    *)
(* sendMessageAutoFrag (core/server/udp.go).  A datagram received from the *)
(* client is charged before it is forwarded; one that is sent is charged   *)
(* after SendDatagram.  A message that is too large for a datagram fails   *)
(* as a whole and is sent again as fragments.                              *)
(*                                                                         *)
(* One sender per connection stands for the receive loops of its sessions. *)
(***************************************************************************)
EXTENDS Integers, Sequences, FiniteSets, FiniteSetsExt

CONSTANTS
    Users, StatConns,
    UserOf,        \* the user of each connection
    Sizes,         \* payload sizes of UDP messages
    DatagramLimit, \* the largest payload of one datagram
    MaxKicks, MaxBytes   \* bounds on the kicks posted and the bytes moved

ASSUME StatsAssumption ==
    /\ IsFiniteSet(StatConns) /\ UserOf \in [StatConns -> Users]
    /\ Sizes \subseteq Nat \ {0} /\ DatagramLimit \in Nat \ {0}

VARIABLES
    StatsMap,    \* bytes per user since the last clearing
    reported,    \* bytes handed out by getTraffic with clear
    KickMap,
    OnlineMap,   \* connections per user, 0 when absent
    StreamMap,   \* connections with a traced stream
    link,        \* per connection: "new", "online", "closed" (by CloseWithError) or "offline"
    outgoing,    \* per connection: payloads of one message still to be sent
    unbilled,    \* per connection: payload on the wire, not yet charged
    moved,       \* history: bytes forwarded or put on the wire per user
    refused,     \* history: those of them the logger refused, and how many datagrams
    kicks        \* history: kicks posted

statVars == <<StatsMap, reported, KickMap, OnlineMap, StreamMap, link, outgoing, unbilled, moved,
              refused, kicks>>

ZeroPerUser == [u \in Users |-> 0]

InitStats ==
    /\ StatsMap = ZeroPerUser /\ reported = ZeroPerUser
    /\ KickMap = {} /\ OnlineMap = ZeroPerUser /\ StreamMap = {}
    /\ link = [c \in StatConns |-> "new"]
    /\ outgoing = [c \in StatConns |-> <<>>]
    /\ unbilled = [c \in StatConns |-> 0]
    /\ moved = ZeroPerUser
    /\ refused = [u \in Users |-> [bytes |-> 0, datagrams |-> 0]]
    /\ kicks = 0

-----------------------------------------------------------------------------
(* The logger *)

\* LogTraffic of n bytes: a pending kick is consumed and nothing is charged.
LogTraffic(u, n) ==
    IF u \in KickMap
      THEN KickMap' = KickMap \ {u} /\ UNCHANGED StatsMap
      ELSE StatsMap' = [StatsMap EXCEPT ![u] = @ + n] /\ UNCHANGED KickMap

\* LogOnlineState, around the life of an authenticated connection.
Connect(c) ==
    /\ link[c] = "new"
    /\ link' = [link EXCEPT ![c] = "online"]
    /\ OnlineMap' = [OnlineMap EXCEPT ![UserOf[c]] = @ + 1]
    /\ UNCHANGED <<StatsMap, reported, KickMap, StreamMap, outgoing, unbilled, moved, refused, kicks>>

Disconnect(c) ==
    LET u == UserOf[c]
    IN /\ link[c] \in {"online", "closed"} /\ unbilled[c] = 0 /\ c \notin StreamMap
       /\ link' = [link EXCEPT ![c] = "offline"]
       /\ OnlineMap' = [OnlineMap EXCEPT ![u] = IF @ - 1 <= 0 THEN 0 ELSE @ - 1]
       /\ outgoing' = [outgoing EXCEPT ![c] = <<>>]
       /\ UNCHANGED <<StatsMap, reported, KickMap, StreamMap, unbilled, moved, refused, kicks>>

\* TraceStream and UntraceStream around a TCP stream; getDumpStreams reads them.
TraceStream(c) ==
    /\ \/ link[c] = "online" /\ StreamMap' = StreamMap \cup {c}
       \/ c \in StreamMap /\ StreamMap' = StreamMap \ {c}
    /\ StreamMap' # StreamMap
    /\ UNCHANGED <<StatsMap, reported, KickMap, OnlineMap, link, outgoing, unbilled, moved, refused,
                   kicks>>

-----------------------------------------------------------------------------
(* ServeHTTP with the right secret: the requests that change something *)

GetTrafficClear ==
    /\ reported' = [u \in Users |-> reported[u] + StatsMap[u]]
    /\ StatsMap' = ZeroPerUser
    /\ UNCHANGED <<KickMap, OnlineMap, StreamMap, link, outgoing, unbilled, moved, refused, kicks>>

Kick(ids) ==
    /\ kicks < MaxKicks
    /\ kicks' = kicks + 1
    /\ KickMap' = KickMap \cup ids
    /\ UNCHANGED <<StatsMap, reported, OnlineMap, StreamMap, link, outgoing, unbilled, moved, refused>>

-----------------------------------------------------------------------------
(* ReceiveMessage and SendMessage *)

Total == FoldSet(LAMBDA u, t : t + moved[u], 0, Users)

\* A message of the client is charged and forwarded, or ends the connection.
CountedReceive(c, n) ==
    LET u == UserOf[c]
    IN /\ link[c] = "online" /\ Total + n <= MaxBytes
       /\ LogTraffic(u, n)
       /\ IF u \in KickMap
            THEN link' = [link EXCEPT ![c] = "closed"] /\ UNCHANGED moved
            ELSE moved' = [moved EXCEPT ![u] = @ + n] /\ UNCHANGED link
       /\ UNCHANGED <<reported, OnlineMap, StreamMap, outgoing, unbilled, refused, kicks>>

\* FragUDPMessage of a payload of n bytes.
FragSizes(n) ==
    LET count == (n + DatagramLimit - 1) \div DatagramLimit
    IN [i \in 1..count |-> IF i < count THEN DatagramLimit ELSE n - (count - 1) * DatagramLimit]

\* An answer arrives from the target; as a whole it may exceed a datagram.
AnswerPacket(c, n) ==
    /\ link[c] = "online" /\ outgoing[c] = <<>> /\ unbilled[c] = 0
    /\ Total + n <= MaxBytes
    /\ outgoing' = [outgoing EXCEPT ![c] = <<n>>]
    /\ UNCHANGED <<StatsMap, reported, KickMap, OnlineMap, StreamMap, link, unbilled, moved, refused,
                   kicks>>

Pending(c) == outgoing[c] # <<>> /\ unbilled[c] = 0

\* Mutation: the attempt to send the whole message is charged as well.
SendDatagramCharged(c) ==
    LET n == Head(outgoing[c])
    IN /\ Pending(c)
       /\ \/ /\ n > DatagramLimit
             /\ outgoing' = [outgoing EXCEPT ![c] = FragSizes(n)]
             /\ StatsMap' = [StatsMap EXCEPT ![UserOf[c]] = @ + n]
             /\ UNCHANGED <<unbilled, moved>>
          \/ /\ n <= DatagramLimit /\ link[c] = "online"
             /\ outgoing' = [outgoing EXCEPT ![c] = Tail(@)]
             /\ unbilled' = [unbilled EXCEPT ![c] = n]
             /\ moved' = [moved EXCEPT ![UserOf[c]] = @ + n]
             /\ UNCHANGED StatsMap
       /\ UNCHANGED <<reported, KickMap, OnlineMap, StreamMap, link, refused, kicks>>

\* SendDatagram of SendMessage: too large, so that sendMessageAutoFrag goes on
\* with fragments; failed, which ends the session; or on the wire.
SendDatagram(c) ==
    LET n == Head(outgoing[c])
    IN /\ Pending(c)
       /\ \/ /\ n > DatagramLimit
             /\ outgoing' = [outgoing EXCEPT ![c] = FragSizes(n)]
             /\ UNCHANGED <<unbilled, moved>>
          \/ /\ link[c] # "online"
             /\ outgoing' = [outgoing EXCEPT ![c] = <<>>]
             /\ UNCHANGED <<unbilled, moved>>
          \/ /\ n <= DatagramLimit /\ link[c] = "online"
             /\ outgoing' = [outgoing EXCEPT ![c] = Tail(@)]
             /\ unbilled' = [unbilled EXCEPT ![c] = n]
             /\ moved' = [moved EXCEPT ![UserOf[c]] = @ + n]
       /\ UNCHANGED <<StatsMap, reported, KickMap, OnlineMap, StreamMap, link, refused, kicks>>

\* The charge of SendMessage once the datagram is out; a refusal closes the
\* connection and the datagram stays uncharged.
ChargeSent(c) ==
    LET u == UserOf[c]
        n == unbilled[c]
    IN /\ n > 0
       /\ unbilled' = [unbilled EXCEPT ![c] = 0]
       /\ LogTraffic(u, n)
       /\ IF u \in KickMap
            THEN /\ link' = [link EXCEPT ![c] = "closed"]
                 /\ outgoing' = [outgoing EXCEPT ![c] = <<>>]
                 /\ refused' = [refused EXCEPT ![u].bytes = @ + n, ![u].datagrams = @ + 1]
            ELSE UNCHANGED <<link, outgoing, refused>>
       /\ UNCHANGED <<reported, OnlineMap, StreamMap, moved, kicks>>

NextStats ==
    \/ \E c \in StatConns :
          \/ Connect(c) \/ Disconnect(c) \/ TraceStream(c) \/ SendDatagram(c) \/ ChargeSent(c)
          \/ \E n \in Sizes : CountedReceive(c, n) \/ AnswerPacket(c, n)
    \/ GetTrafficClear
    \/ \E ids \in SUBSET Users : Kick(ids)

SpecStats == InitStats /\ [][NextStats]_statVars

-----------------------------------------------------------------------------
(* Properties *)

\* The bytes of a user that are on the wire and not charged yet, one by one.
UnbilledBytes(u) == UNION {{c} \X (1..unbilled[c]) : c \in {d \in StatConns : UserOf[d] = u}}

OnlineConns(u) == {c \in StatConns : UserOf[c] = u /\ link[c] \in {"online", "closed"}}

\* The comments of SendMessage: every byte that moved is charged exactly once,
\* fragmented or not, across clearings of the statistics, except for at most
\* one datagram for every kick; and OnlineMap counts the connections that are
\* online.
BilledOnce ==
    \A u \in Users :
       /\ moved[u] = StatsMap[u] + reported[u] + refused[u].bytes + Cardinality(UnbilledBytes(u))
       /\ refused[u].datagrams <= kicks
       /\ OnlineMap[u] = Cardinality(OnlineConns(u))
=============================================================================
