-------------------------- MODULE UDPFragmentation --------------------------
(***************************************************************************)
(* Fragmentation and reassembly of the UDP messages of one session in one  *)
(* direction: FragUDPMessage and Defragger of core/internal/frag/frag.go,  *)
(* driven by sendMessageAutoFrag (core/server/udp.go) or udpConn.Send      *)
(* (core/client/udp.go) over QUIC datagrams, which may be lost (never      *)
(* delivered) or reordered.                                                *)
(*                                                                         *)
(* Message k carries the bytes <<k, 1>>, <<k, 2>>, ... so that mixing and  *)
(* truncation are visible.  FragID and FragCount are uint8.  A message that *)
(* needs more slices than FragCount can say (a long address leaves a        *)
(* datagram little room for data) panics FragUDPMessage, which indexes its  *)
(* result out of range; nothing of it was sent yet.                         *)
(***************************************************************************)
EXTENDS Naturals, Sequences, SequencesExt, FiniteSets

CONSTANTS
    Lens,         \* payload lengths
    Limits,       \* maxSize minus HeaderSize when a message is sent
    PacketIDs,    \* what rand may return, plus 1
    CountSpace,   \* the number of values of a uint8
    MaxMessages   \* bound on the messages sent

ASSUME SizesAssumption ==
    /\ Lens \subseteq Nat \ {0} /\ Limits \subseteq Nat /\ PacketIDs \subseteq Nat \ {0}
    /\ CountSpace \in Nat \ {0}

VARIABLES
    sent,       \* the messages sent, in order: [pktID, len]
    datagrams,  \* datagrams under way
    panicked,   \* the message, as <<length, limit>>, whose fragmentation panicked
    pktID, frags, count, size,   \* the Defragger
    fed,        \* history: the datagrams given to Feed, in order
    out         \* history: what each of those calls returned

defragger == <<pktID, frags, count, size>>
fragVars == <<sent, datagrams, panicked, defragger, fed, out>>

Data(k, len) == [i \in 1..len |-> <<k, i>>]

\* A missing fragment, or nil returned by Feed.
Nothing == <<>>

InitFrag ==
    /\ sent = <<>> /\ datagrams = {} /\ panicked = {}
    /\ pktID = 0 /\ frags = <<>> /\ count = 0 /\ size = 0
    /\ fed = <<>> /\ out = <<>>

-----------------------------------------------------------------------------
(* Sending *)

\* How many slices of max bytes the loop cuts.
Slices(len, max) == (len + max - 1) \div max

RoundDown(len, max) == (len \div max) % CountSpace

\* The number of fragments, rounded up and converted to uint8.
FragCount(len, max) == Slices(len, max) % CountSpace

\* frags has FragCount elements; the loop writes one per slice.
FragPanics(len, max) == len > max /\ max > 0 /\ Slices(len, max) > FragCount(len, max)

\* The payload of fragment id: from off = id * max, at most max bytes.
FragData(data, id, max) ==
    SubSeq(data, id * max + 1, IF (id + 1) * max > Len(data) THEN Len(data) ELSE (id + 1) * max)

\* FragUDPMessage for message k: as a whole if it fits, nothing if not even
\* the header does (or the call panics), otherwise one datagram per slice.
FragUDPMessage(k, id, data, max) ==
    LET Datagram(i, n, slice) == [msg |-> k, pktID |-> id, fragID |-> i, fragCount |-> n, data |-> slice]
    IN IF Len(data) <= max THEN {Datagram(0, 1, data)}
       ELSE IF max = 0 \/ FragPanics(Len(data), max) THEN {}
       ELSE LET n == FragCount(Len(data), max)
            IN {Datagram(i, n, FragData(data, i, max)) : i \in 0..(n - 1)}

\* The sender tries the whole message first, with PacketID 0; if it is too
\* large for a datagram, it draws a PacketID and sends the fragments.  Nobody
\* recovers from a panic: the sender is gone.
Send(len, max, id) ==
    /\ Len(sent) < MaxMessages /\ panicked = {}
    /\ panicked' = IF FragPanics(len, max) THEN {<<len, max>>} ELSE {}
    /\ LET k == Len(sent) + 1
           p == IF len <= max THEN 0 ELSE id
       IN /\ sent' = Append(sent, [pktID |-> p, len |-> len])
          /\ datagrams' = datagrams \cup FragUDPMessage(k, p, Data(k, len), max)
    /\ UNCHANGED <<defragger, fed, out>>

-----------------------------------------------------------------------------
(* Receiving *)

\* The fragment does not belong to the message under assembly.
NewMessage(f) == f.pktID # pktID \/ f.fragCount # Len(frags)

\* The slots, 1-based: frags[i + 1] is fragment i, Nothing while missing (a
\* parsed datagram has at least one byte of data).
Slots(f) == [i \in 1..f.fragCount |-> IF i = f.fragID + 1 THEN f.data ELSE Nothing]

\* The data of the slots, copied one after the other.
Assemble(slots) == FlattenSeq(slots)

\* The message is copied into a buffer of d.size bytes.
Copied(slots, n) ==
    LET data == Assemble(slots)
    IN [i \in 1..n |-> IF i <= Len(data) THEN data[i] ELSE <<0, 0>>]

Valid(f) == f.fragCount > 1 /\ f.fragID < f.fragCount

\* The fragment is missing from the message under assembly.
Fills(f) == ~NewMessage(f) /\ frags[f.fragID + 1] = Nothing

Filled(f) == [frags EXCEPT ![f.fragID + 1] = f.data]

\* What Feed returns: an unfragmented message as it is, a fragmented one with
\* its last missing fragment.
FeedReturns(f) ==
    IF f.fragCount <= 1 THEN f.data
    ELSE IF Valid(f) /\ Fills(f) /\ count + 1 = Len(frags)
      THEN Copied(Filled(f), size + Len(f.data))
      ELSE Nothing

\* Defragger.Feed: another message clears the state, a missing fragment is
\* kept, anything else leaves it alone.
FeedFragment(f) ==
    IF Valid(f) /\ NewMessage(f)
      THEN pktID' = f.pktID /\ frags' = Slots(f) /\ count' = 1 /\ size' = Len(f.data)
    ELSE IF Valid(f) /\ Fills(f)
      THEN frags' = Filled(f) /\ count' = count + 1 /\ size' = size + Len(f.data) /\ UNCHANGED pktID
      ELSE UNCHANGED defragger

\* A datagram arrives.
Receive(f) ==
    /\ datagrams' = datagrams \ {f}
    /\ FeedFragment(f)
    /\ fed' = Append(fed, f)
    /\ out' = Append(out, FeedReturns(f))
    /\ UNCHANGED <<sent, panicked>>

\* A datagram with FragID = FragCount, which no message has.
Stray(id) ==
    LET f == [msg |-> 0, pktID |-> id, fragID |-> 2, fragCount |-> 2, data |-> <<<<0, 0>>>>]
    IN /\ \A i \in DOMAIN fed : fed[i].msg # 0
       /\ Receive(f)

\* Stuttering once everything has been sent and received.
FragFinished ==
    /\ Len(sent) = MaxMessages \/ panicked # {}
    /\ datagrams = {} /\ UNCHANGED fragVars

NextFrag ==
    \/ \E len \in Lens, max \in Limits, id \in PacketIDs : Send(len, max, id)
    \/ \E f \in datagrams : Receive(f)
    \/ \E id \in PacketIDs : Stray(id)
    \/ FragFinished

SpecFrag == InitFrag /\ [][NextFrag]_fragVars

-----------------------------------------------------------------------------
(* Properties *)

\* Every variable has its type; the counters of the Defragger agree with its
\* slots, so that the assembled message is neither padded nor cut.
FragTypeOK ==
    /\ sent \in Seq([pktID : PacketIDs \cup {0}, len : Lens])
    /\ pktID \in PacketIDs \cup {0}
    /\ count = Cardinality({i \in DOMAIN frags : frags[i] # Nothing})
    /\ size = Len(Assemble(frags))
    /\ Len(out) = Len(fed)

\* The valid fragments among the first i datagrams fed.
Fragments(i) == {j \in 1..i : Valid(fed[j])}

Key(j) == <<fed[j].pktID, fed[j].fragCount>>

\* The fragments since the message of fragment i was begun: no fragment with
\* another PacketID or count came in between.
Window(i) == {j \in Fragments(i) : \A l \in Fragments(i) : l >= j => Key(l) = Key(i)}

IDsIn(W) == {fed[j].fragID : j \in W}

\* The first fragment of the window with this FragID.
First(W, id) == CHOOSE j \in W : fed[j].fragID = id /\ \A l \in W : fed[l].fragID = id => j <= l

\* What Feed should return for datagram i, from the history alone.
Expected(i) ==
    IF fed[i].fragCount <= 1 THEN fed[i].data
    ELSE IF ~Valid(fed[i]) THEN Nothing
    ELSE LET W == Window(i)
             All == 0..(fed[i].fragCount - 1)
         IN IF IDsIn(W) = All /\ IDsIn(W \ {i}) # All
              THEN Assemble([n \in 1..fed[i].fragCount |-> fed[First(W, n - 1)].data])
              ELSE Nothing

\* The comment on Defragger: one PacketID at a time, and any previous state is
\* discarded when another packet arrives.  Feed returns exactly what the
\* history of datagrams calls for, whatever the order, loss and mixture.
MatchesReference == \A i \in DOMAIN fed : out[i] = Expected(i)

Whole(k) == Data(k, sent[k].len)

UniqueIDs == \A k, l \in DOMAIN sent : sent[k].pktID = sent[l].pktID => k = l \/ sent[k].pktID = 0

\* As long as PacketIDs are not repeated, what comes out are whole messages,
\* each at most once; none is mixed, cut or assembled from a partial arrival.
WholeMessagesOnly ==
    UniqueIDs =>
       /\ \A i \in DOMAIN out : out[i] # Nothing => \E k \in DOMAIN sent : out[i] = Whole(k)
       /\ \A i, j \in DOMAIN out : out[i] # Nothing /\ out[i] = out[j] => i = j

\* FragUDPMessage's result has room for every slice, unless there are more than
\* a FragCount can count.
PanicsOnlyOnWrap == \A m \in panicked : Slices(m[1], m[2]) >= CountSpace

\* Defragger.Feed returns what its history calls for, and with unrepeated PacketIDs that is
\* each message whole and once; its counters agree with its slots all along.  The
\* sender panics only where the uint8 count wraps.
DefragsExactly == FragTypeOK /\ MatchesReference /\ WholeMessagesOnly /\ PanicsOnlyOnWrap

=============================================================================
