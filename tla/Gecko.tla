------------------------------- MODULE Gecko -------------------------------
(***************************************************************************)
(* Gecko obfuscation, extras/obfs: a QUIC long-header packet is cut into   *)
(* chunks that travel in datagrams of their own and are put together again *)
(* by the receiver, in a table keyed by the source and an 8-bit message    *)
(* ID.  Datagrams are lost, duplicated and reordered.  Salamander below it *)
(* XORs each datagram and keeps its bytes, and short-header packets pass   *)
(* through; both are left out, and so is the padding, which decodeFrame    *)
(* strips.                                                                 *)
(*                                                                         *)
(* Packet k carries the bytes <<k, 1>>, <<k, 2>>, ...  A deadline is the   *)
(* tick at which its entry was made: the TTL is two ticks of gcLoop.       *)
(***************************************************************************)
EXTENDS Naturals, Sequences, SequencesExt, FiniteSets

CONSTANTS
    Peers,          \* source addresses
    PacketLens,     \* lengths of long-header packets
    ChunkCounts,    \* what randomFragmentChunks may return (2 to 8 in the code)
    IDSpace,        \* 2^8 in the code
    MaxPerSource, MaxReassembly,   \* geckoMaxPerSource, geckoMaxReassembly
    MaxPackets, MaxTicks           \* bounds on the packets sent and on time

ASSUME CapsAssumption == MaxPerSource \in Nat /\ MaxReassembly \in Nat
ASSUME FramesAssumption ==
    PacketLens \subseteq Nat /\ ChunkCounts \subseteq Nat \ {0} /\ IDSpace \in Nat \ {0}

VARIABLES
    gkSent,       \* the packets sent: [from, len]
    gkNet,        \* datagrams under way
    reassembly,   \* <<addr, msgID>> -> [total, chunks, made]
    perSource,    \* entries per source
    gkNow,
    gkOut         \* packets returned by ReadFrom: [from, data]

gkVars == <<gkSent, gkNet, reassembly, perSource, gkNow, gkOut>>

NoChunk == <<<<0, 0>>>>   \* a nil slot; a chunk may well be empty

InitGecko ==
    /\ gkSent = <<>> /\ gkNet = {}
    /\ reassembly = <<>>
    /\ perSource = [a \in Peers |-> 0]
    /\ gkNow = 0 /\ gkOut = {}

-----------------------------------------------------------------------------
(* writeFragmented *)

PacketData(k, len) == [i \in 1..len |-> <<k, i>>]

\* Chunk i of n: len \div n bytes, and the last one takes what is left.
Chunk(data, i, n) ==
    LET size == Len(data) \div n
    IN SubSeq(data, i * size + 1, IF i < n - 1 THEN (i + 1) * size ELSE Len(data))

\* The message ID is the low byte of a counter of the sender.
MsgID(k, a) == (1 + Cardinality({j \in 1..(k - 1) : gkSent[j].from = a})) % IDSpace

WriteFragmented(a, len, n) ==
    LET k == Len(gkSent) + 1
    IN /\ k <= MaxPackets
       /\ gkSent' = Append(gkSent, [from |-> a, len |-> len])
       /\ gkNet' = gkNet \cup
             {[from |-> a, msgID |-> MsgID(k, a), idx |-> i, total |-> n,
               chunk |-> Chunk(PacketData(k, len), i, n)] : i \in 0..(n - 1)}
       /\ UNCHANGED <<reassembly, perSource, gkNow, gkOut>>

-----------------------------------------------------------------------------
(* acceptChunk *)

Keys == DOMAIN reassembly

\* evictOldestLocked picks an entry with the earliest deadline.
Oldest == {k \in Keys : \A j \in Keys : reassembly[k].made <= reassembly[j].made}

\* What may go to make room for one more entry.
Evictions ==
    IF Cardinality(Keys) < MaxReassembly THEN {{}} ELSE {{k} : k \in Oldest}

\* Mutation: the count of the source is not taken back.
CountsKept(S) == perSource

\* The table and the counts after the entries of S left: dropEntryLocked.
Dropped(S) == [k \in Keys \ S |-> reassembly[k]]
CountsWithout(S) ==
    [a \in Peers |-> perSource[a] - Cardinality({k \in S \cap Keys : k[1] = a})]

AllChunks(e) == \A i \in DOMAIN e.chunks : e.chunks[i] # NoChunk

Joined(chunks) == FlattenSeq(chunks)

\* A chunk for which there is no entry: dropped at the cap of its source,
\* otherwise a new entry, for which the oldest one may have to go.
AcceptFirst(f, k) ==
    IF perSource[f.from] >= MaxPerSource THEN UNCHANGED <<reassembly, perSource>>
    ELSE \E S \in Evictions :
           LET entry == [total |-> f.total, made |-> gkNow,
                         chunks |-> [i \in 1..f.total |-> IF i = f.idx + 1 THEN f.chunk ELSE NoChunk]]
               rest == Dropped(S)
           IN /\ reassembly' = [j \in DOMAIN rest \cup {k} |-> IF j = k THEN entry ELSE rest[j]]
              /\ perSource' = [CountsWithout(S) EXCEPT ![f.from] = @ + 1]

\* A chunk for an entry: dropped if the count differs or the slot is taken;
\* the last missing one completes the packet and removes the entry.
AcceptNext(f, k) ==
    LET e == reassembly[k]
        filled == [e EXCEPT !.chunks[f.idx + 1] = f.chunk]
    IN IF e.total # f.total \/ e.chunks[f.idx + 1] # NoChunk
         THEN UNCHANGED <<reassembly, perSource, gkOut>>
       ELSE IF AllChunks(filled)
         THEN /\ reassembly' = Dropped({k}) /\ perSource' = CountsWithout({k})
              /\ gkOut' = gkOut \cup {[from |-> f.from, data |-> Joined(filled.chunks)]}
         ELSE reassembly' = [reassembly EXCEPT ![k] = filled] /\ UNCHANGED <<perSource, gkOut>>

\* A datagram arrives, perhaps again.
AcceptChunk(f) ==
    LET k == <<f.from, f.msgID>>
    IN /\ gkNet' \in {gkNet, gkNet \ {f}}
       /\ \/ k \notin Keys /\ AcceptFirst(f, k) /\ UNCHANGED gkOut
          \/ k \in Keys /\ AcceptNext(f, k)
       /\ UNCHANGED <<gkSent, gkNow>>

\* A tick of gcLoop: gcExpired drops the entries whose deadline has passed.
GCTick ==
    LET expired == {k \in Keys : gkNow + 1 - reassembly[k].made > 2}
    IN /\ gkNow < MaxTicks
       /\ gkNow' = gkNow + 1
       /\ reassembly' = Dropped(expired)
       /\ perSource' = CountsWithout(expired)
       /\ UNCHANGED <<gkSent, gkNet, gkOut>>

NextGecko ==
    \/ \E a \in Peers, len \in PacketLens, n \in ChunkCounts : WriteFragmented(a, len, n)
    \/ \E f \in gkNet : AcceptChunk(f)
    \/ GCTick

SpecGecko == InitGecko /\ [][NextGecko]_gkVars

-----------------------------------------------------------------------------
(* Properties *)

\* The table keeps its two caps, and the counts per source are those of the
\* table, whatever was completed, evicted or expired: a source is never locked
\* out by entries that are gone.
TableCounts ==
    /\ Cardinality(Keys) <= MaxReassembly
    /\ \A a \in Peers : /\ perSource[a] = Cardinality({k \in Keys : k[1] = a})
                        /\ perSource[a] <= MaxPerSource

\* No two packets of one source share a message ID.
NoWrap == \A a \in Peers : Cardinality({k \in DOMAIN gkSent : gkSent[k].from = a}) <= IDSpace

\* As long as the message ID has not wrapped, what ReadFrom returns is a packet
\* that was sent, whole and in order, from its own source.
WholePackets ==
    NoWrap => \A o \in gkOut : \E k \in DOMAIN gkSent :
                 /\ o.from = gkSent[k].from
                 /\ o.data = PacketData(k, gkSent[k].len)

\* The reassembly table of gecko.go keeps its books and never gives out a damaged packet.
GeckoReassembly == TableCounts /\ WholePackets
=============================================================================
