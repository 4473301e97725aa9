-------------------------- MODULE BandwidthSampler --------------------------
(***************************************************************************)
(* The bandwidth sampler of BBR (core/internal/congestion/bbr/             *)
(* bandwidth_sampler.go) with the queue of sent packets that it indexes by *)
(* packet number (packet_number_indexed_queue.go) and the tracker of ack   *)
(* aggregation.  The options are those of the conservative profile:        *)
(* overestimateAvoidance and reduceExtraAckedOnBandwidthIncrease.  QUIC    *)
(* itself is external: what is outstanding and which packets its loss      *)
(* detection gives up, in events that list them in ascending order.        *)
(* Every packet counts one byte.                                           *)
(***************************************************************************)
EXTENDS Integers, Sequences, SequencesExt, FiniteSets, FiniteSetsExt

CONSTANTS
    MaxPacket,        \* bound on the packet numbers
    MaxNow,           \* bound on the clock
    HeightWindow,     \* bandwidthWindowSize
    TargetPackets,    \* the target window, in packets
    PacketThreshold   \* packetThreshold of quic-go's loss detection

\* quic-go's threshold is 3; with a larger one it would keep packets outstanding
\* that are older than LeastUnacked, which assumes the 3.
ASSUME SamplerAssumption == MaxPacket \in Nat /\ MaxNow \in Nat /\ PacketThreshold \in 0..3

Invalid == -1         \* invalidPacketNumber
InfRate == 1000       \* infBandwidth
Second == 2           \* units of time in which a rate counts bytes

VARIABLES
    entries, firstPacket,          \* connectionStateMap
    totals,                        \* totalBytesSent, totalBytesAcked, totalBytesLost
    lastAckedAt,                   \* what is known of the last acknowledged packet
    lastSentPacket,
    appPhase,                      \* isAppLimited, endOfAppLimitedPhase
    ackPoints, a0Candidates,       \* recentAckPoints, a0Candidates
    epoch, heights, ackedBefore,   \* maxAckHeightTracker, totalBytesAckedAfterLastAckEvent
    maxRate, roundTrip, roundEnd,  \* of the sender: bandwidth estimate, round trips
    outstanding, largestAcked, clockNow,   \* QUIC
    slopesForward                  \* history: every A0 point was behind its sample

queueVars == <<entries, firstPacket>>
samplerVars == <<entries, firstPacket, totals, lastAckedAt, lastSentPacket, appPhase, ackPoints,
                 a0Candidates, epoch, heights, ackedBefore, maxRate, roundTrip, roundEnd, outstanding,
                 largestAcked, clockNow, slopesForward>>

Filter == INSTANCE WindowedFilter WITH WindowLength <- HeightWindow, Samples <- {}, MaxTime <- 0,
             estimates <- heights, filterTime <- roundTrip, lastSample <- 0

NoPoint == [time |-> 0, acked |-> 0]
NoHeight == [sample |-> 0, time |-> 0, bytes |-> 0, delta |-> 0, round |-> 0]

InitSampler ==
    /\ entries = <<>> /\ firstPacket = Invalid
    /\ totals = [sent |-> 0, acked |-> 0, lost |-> 0]
    /\ lastAckedAt = [sentTime |-> 0, ackTime |-> 0, totalSent |-> 0]
    /\ lastSentPacket = Invalid
    /\ appPhase = [limited |-> FALSE, end |-> Invalid]
    /\ ackPoints = <<NoPoint, NoPoint>> /\ a0Candidates = <<>>
    /\ epoch = [start |-> 0, bytes |-> 0] /\ heights = Filter!Reset(NoHeight) /\ ackedBefore = 0
    /\ maxRate = 0 /\ roundTrip = 0 /\ roundEnd = Invalid
    /\ outstanding = {} /\ largestAcked = Invalid /\ clockNow = 1
    /\ slopesForward = TRUE

-----------------------------------------------------------------------------
(* packetNumberIndexedQueue: a slot is <<>> (not present) or <<entry>>. *)

IsEmpty == \A i \in DOMAIN entries : entries[i] = <<>>
LastPacket == IF IsEmpty THEN Invalid ELSE firstPacket + Len(entries) - 1

Emplace(pn, entry) ==
    \/ /\ IsEmpty
       /\ entries' = Append(entries, <<entry>>) /\ firstPacket' = pn
    \/ /\ ~IsEmpty /\ pn <= LastPacket
       /\ UNCHANGED queueVars
    \/ /\ ~IsEmpty /\ pn > LastPacket
       /\ entries' = entries \o [i \in 1..(pn - LastPacket - 1) |-> <<>>] \o <<<<entry>>>>
       /\ UNCHANGED firstPacket

\* GetEntry: <<>> when there is none.
GetEntry(pn) ==
    IF IsEmpty \/ pn < firstPacket \/ pn - firstPacket >= Len(entries)
    THEN <<>> ELSE entries[pn - firstPacket + 1]

\* RemoveUpTo, with clearup: also the unused slots that are then in front.
RemoveUpTo(pn) ==
    LET below == IF firstPacket = Invalid THEN 0 ELSE Max({0, Min({pn - firstPacket, Len(entries)})})
        present == {i \in (below + 1)..Len(entries) : entries[i] # <<>>}
        gone == IF present = {} THEN Len(entries) ELSE Min(present) - 1
    IN /\ entries' = SubSeq(entries, gone + 1, Len(entries))
       /\ firstPacket' = IF gone = Len(entries) THEN Invalid ELSE firstPacket + gone

-----------------------------------------------------------------------------
(* Ack points *)

\* recentAckPoints.Update
PointsAfter(points, time, acked) ==
    LET newest == [time |-> time, acked |-> acked]
    IN IF time > points[2].time THEN <<points[2], newest>> ELSE <<points[1], newest>>

\* LessRecentPoint
LessRecent(points) == IF points[1].acked # 0 THEN points[1] ELSE points[2]

\* chooseA0Point: the last candidate before the first one that is ahead of what
\* was acknowledged when the packet was sent.  The candidates before it go; if
\* none is ahead, the loop that drops all but the last one counts to a length
\* that shrinks with it.
ChooseA0(cand, acked) ==
    LET ahead == {i \in 2..Len(cand) : cand[i].acked > acked}
        i == IF Len(cand) = 1 THEN 1 ELSE IF ahead = {} THEN Len(cand) ELSE Min(ahead) - 1
        dropped == IF ahead = {} THEN Len(cand) \div 2 ELSE i - 1
    IN [a0 |-> cand[i], rest |-> SubSeq(cand, dropped + 1, Len(cand))]

Rate(bytes, delta) == (bytes * Second) \div delta
BytesIn(rate, delta) == (rate * delta) \div Second

-----------------------------------------------------------------------------
(* OnPacketSent *)

\* newConnectionStateOnSentPacket (pn is history)
Snapshot(pn, t) ==
    [pn |-> pn, sentTime |-> clockNow, at |-> lastAckedAt', limited |-> appPhase.limited,
     sent |-> t.sent, acked |-> t.acked, lost |-> t.lost, inFlight |-> Cardinality(outstanding) + 1]

\* A packet that is not retransmittable leaves only its number: the next one
\* makes a gap in the queue.
OnPacketSentAckOnly(pn) ==
    /\ pn = lastSentPacket + 1 /\ pn <= MaxPacket
    /\ lastSentPacket' = pn
    /\ UNCHANGED <<entries, firstPacket, totals, lastAckedAt, appPhase, ackPoints, a0Candidates, epoch,
                   heights, ackedBefore, maxRate, roundTrip, roundEnd, outstanding, largestAcked, clockNow,
                   slopesForward>>

OnPacketSent(pn) ==
    LET t == [totals EXCEPT !.sent = @ + 1]
        idle == outstanding = {}
        fresh == PointsAfter(<<NoPoint, NoPoint>>, clockNow, totals.acked)
    IN /\ pn = lastSentPacket + 1 /\ pn <= MaxPacket
       /\ lastSentPacket' = pn
       /\ totals' = t
       /\ lastAckedAt' = IF idle THEN [sentTime |-> clockNow, ackTime |-> clockNow, totalSent |-> t.sent]
                         ELSE lastAckedAt
       /\ ackPoints' = IF idle THEN fresh ELSE ackPoints
       /\ a0Candidates' = IF idle THEN <<fresh[2]>> ELSE a0Candidates
       /\ Emplace(pn, Snapshot(pn, t))
       /\ outstanding' = outstanding \cup {pn}
       /\ UNCHANGED <<appPhase, epoch, heights, ackedBefore, maxRate, roundTrip, roundEnd, largestAcked, clockNow,
                      slopesForward>>

-----------------------------------------------------------------------------
(* OnCongestionEvent *)

\* onPacketAcknowledged, on the part of the state that it changes.  The entry
\* stays in the queue.
Acknowledged(s, pn) ==
    LET e == GetEntry(pn)[1]
        acked == s.acked + 1
        points == PointsAfter(s.points, clockNow, acked)
        phase == IF s.phase.limited /\ (s.phase.end = Invalid \/ pn > s.phase.end)
                 THEN [s.phase EXCEPT !.limited = FALSE] ELSE s.phase
        seen == [s EXCEPT !.acked = acked, !.points = points, !.phase = phase,
                          !.last = [sentTime |-> e.sentTime, ackTime |-> clockNow, totalSent |-> e.sent]]
        chosen == IF s.cand = <<>> THEN [a0 |-> [time |-> e.at.ackTime, acked |-> e.acked], rest |-> s.cand]
                  ELSE ChooseA0(s.cand, e.acked)
        sendRate == IF e.sentTime > e.at.sentTime
                    THEN Rate(e.sent - e.at.totalSent, e.sentTime - e.at.sentTime) ELSE InfRate
        rate == Min({sendRate, Rate(acked - chosen.a0.acked, clockNow - chosen.a0.time)})
    IN IF GetEntry(pn) = <<>> THEN s
       ELSE IF e.at.sentTime = 0 THEN seen
       ELSE IF clockNow <= chosen.a0.time THEN [seen EXCEPT !.cand = chosen.rest]
       ELSE [seen EXCEPT !.cand = chosen.rest,
                         !.rate = Max({@, rate}),
                         !.forward = @ /\ chosen.a0.acked < acked]

\* The acknowledged packets of an event one after the other, in ascending order.
AcknowledgedAll(s0, acked) ==
    LET upTo[p \in Invalid..MaxPacket] ==
          IF p = Invalid THEN s0 ELSE IF p \in acked THEN Acknowledged(upTo[p - 1], p) ELSE upTo[p - 1]
    IN upTo[MaxPacket]

\* maxAckHeightTracker.Update with a new maximum: the heights are measured again
\* against it and put in anew, each under the round it carries.
Remeasured(est, rate) ==
    LET Again(f, h) == IF BytesIn(rate, h.delta) < h.bytes
                       THEN Filter!Updated(f, [h EXCEPT !.sample = h.bytes - BytesIn(rate, h.delta),
                                                        !.time = h.round])
                       ELSE f
    IN FoldLeft(Again, Filter!Reset(NoHeight), est)

\* onAckEventEnd: either a new epoch of aggregation begins and the last point of
\* the old one becomes a candidate, or the extra bytes go to the filter.
EventEnd(s, round, best) ==
    LET newly == s.acked - ackedBefore
        est == IF s.rate > maxRate THEN Remeasured(heights, best) ELSE heights
        expected == BytesIn(best, clockNow - epoch.start)
        fresh == epoch.start = 0 \/ epoch.bytes <= 2 * expected
        height == [sample |-> epoch.bytes + newly - expected, time |-> round,
                   bytes |-> epoch.bytes + newly, delta |-> clockNow - epoch.start, round |-> 0]
    IN IF newly = 0
         THEN heights' = heights /\ a0Candidates' = s.cand /\ UNCHANGED <<epoch, ackedBefore>>
         ELSE /\ ackedBefore' = s.acked
              /\ epoch' = IF fresh THEN [start |-> clockNow, bytes |-> newly]
                                   ELSE [epoch EXCEPT !.bytes = @ + newly]
              /\ heights' = IF fresh THEN est ELSE Filter!Updated(est, height)
              /\ a0Candidates' = IF fresh \/ height.sample = 0 THEN Append(s.cand, LessRecent(s.points)) ELSE s.cand

\* Which packets QUIC may report together: it gives up all that are
\* PacketThreshold or more below the largest acknowledged, and with a timer
\* more of those below it, the earliest first.
LossesOf(acked) ==
    LET top == Max(acked \cup {largestAcked})
        open == outstanding \ acked
    IN {lost \in SUBSET {p \in open : p < top} :
           /\ {p \in open : p <= top - PacketThreshold} \subseteq lost
           /\ \A p \in lost, q \in open : q < p => q \in lost}

\* Mutation: as if QUIC kept no packet below the last one it acknowledged.
UnackedAtLast(acked, lost) == IF acked # {} THEN Max(acked) ELSE Max(lost) + 1

\* leastUnacked, which the sender hands to RemoveObsoletePackets.
LeastUnacked(acked, lost) == IF acked # {} THEN Max(acked) - 2 ELSE Max(lost) + 1

\* OnCongestionEventEx of the sender, its part of the sampler: OnAppLimited
\* (fewer bytes in flight than the target), the round trip, losses, then
\* acknowledgements, then the end of the event and RemoveObsoletePackets.
CongestionEvent(acked, lost) ==
    LET roundStart == acked # {} /\ (roundEnd = Invalid \/ Max(acked) > roundEnd)
        phase0 == IF Cardinality(outstanding) < TargetPackets THEN [limited |-> TRUE, end |-> lastSentPacket] ELSE appPhase
        s0 == [acked |-> totals.acked, points |-> ackPoints, phase |-> phase0, last |-> lastAckedAt,
               cand |-> a0Candidates, rate |-> 0, forward |-> slopesForward]
        s == AcknowledgedAll(s0, acked)
    IN /\ acked \cup lost # {}
       /\ totals' = [totals EXCEPT !.acked = s.acked, !.lost = @ + Cardinality(lost)]
       /\ lastAckedAt' = s.last /\ ackPoints' = s.points
       /\ appPhase' = s.phase
       /\ maxRate' = Max({maxRate, s.rate})
       /\ roundTrip' = IF roundStart THEN roundTrip + 1 ELSE roundTrip
       /\ roundEnd' = IF roundStart THEN lastSentPacket ELSE roundEnd
       /\ IF acked = {} THEN a0Candidates' = s.cand /\ UNCHANGED <<epoch, heights, ackedBefore>>
                        ELSE EventEnd(s, roundTrip', maxRate')
       /\ RemoveUpTo(LeastUnacked(acked, lost))
       /\ outstanding' = outstanding \ (acked \cup lost)
       /\ largestAcked' = Max(acked \cup {largestAcked})
       /\ slopesForward' = s.forward
       /\ UNCHANGED <<lastSentPacket, clockNow>>

SamplerTick ==
    /\ clockNow < MaxNow
    /\ clockNow' = clockNow + 1
    /\ UNCHANGED <<entries, firstPacket, totals, lastAckedAt, lastSentPacket, appPhase, ackPoints,
                   a0Candidates, epoch, heights, ackedBefore, maxRate, roundTrip, roundEnd, outstanding,
                   largestAcked, slopesForward>>

NextSampler ==
    \/ \E pn \in 0..MaxPacket : OnPacketSent(pn) \/ OnPacketSentAckOnly(pn)
    \/ \E acked \in SUBSET outstanding : \E lost \in LossesOf(acked) :
          CongestionEvent(acked, lost)
    \/ SamplerTick

SpecSampler == InitSampler /\ [][NextSampler]_samplerVars

-----------------------------------------------------------------------------
(* Properties *)

\* Whatever the gaps in the packet numbers and the order of acknowledgements and
\* losses: QUIC's outstanding packets are still in the queue, so none is
\* acknowledged without a sample; a slot holds what was recorded for its own
\* packet number; and a queue that is not empty starts with a present entry
\* (otherwise LastPacket and the offsets are those of other packets).
\* The point A0 of a rate lies behind its acknowledgement, so no rate is
\* negative.
SampledAtSend ==
    /\ \A p \in outstanding : GetEntry(p) # <<>>
    /\ \A i \in DOMAIN entries : entries[i] # <<>> => entries[i][1].pn = firstPacket + i - 1
    /\ entries # <<>> => entries[1] # <<>> /\ firstPacket # Invalid
    /\ slopesForward
=============================================================================
