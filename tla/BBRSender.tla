----------------------------- MODULE BBRSender ------------------------------
(***************************************************************************)
(* The sender of core/internal/congestion/bbr/bbr_sender.go: its modes,    *)
(* its recovery and the windows it computes.  What the bandwidth sampler   *)
(* reports (BandwidthSampler) is an input of every event.  A bandwidth is  *)
(* written as the bytes of one minimum round trip, so that it is its own   *)
(* bandwidth-delay product; whether a timestamp has passed (minRttExpiry,  *)
(* one RTT of the gain cycle, probeRttTime) is an input too.  Gains are in *)
(* quarters.  The pacing rate, which no window depends on, is left out.    *)
(***************************************************************************)
EXTENDS Integers, FiniteSetsExt

CONSTANTS
    InitialPackets, MinPackets, MaxWindowPackets,  \* the windows, in datagrams
    DatagramSizes,     \* maxDatagramSize of the path, as MTU discovery raises it
    Rates,             \* the bandwidths that are sampled
    HighGain, HighCwndGain, CwndGain,        \* of the profile, in quarters
    NumStartupRtts, DrainToTarget, AckAggregationStartup, \* of the profile
    FullLossCount,     \* defaultStartupFullLossCount
    MaxSent,           \* bound on the packets sent
    CycleStarts,       \* where the gain cycle starts (random in the code)
    AckSizes           \* bytes acknowledged or lost by an event

ASSUME PacketsAssumption ==
    /\ MinPackets \in Nat \ {0} /\ InitialPackets \in Nat /\ MaxWindowPackets \in Nat
    /\ MinPackets <= InitialPackets /\ InitialPackets <= MaxWindowPackets
ASSUME BytesAssumption ==
    DatagramSizes \subseteq Nat \ {0} /\ DatagramSizes # {} /\ Rates \subseteq Nat /\ AckSizes \subseteq Nat
ASSUME GainsAssumption == HighCwndGain \in Nat /\ CwndGain \in Nat /\ CycleStarts \subseteq 0..7

InvalidPacket == -1
Gains == <<5, 3, 4, 4, 4, 4, 4, 4>>    \* pacingGain, the cycle of PROBE_BW

VARIABLES
    mode, pacingGain, cwndGain, cycleOffset,
    congestionWindow, initialWindow, minWindow, maxWindow, maxDatagramSize,
    recoveryState, recoveryWindow, endRecoveryAt,
    bandwidth,                     \* maxBandwidth.GetBest()
    sentPacket, roundTripEnd, bytesInFlight,
    isAtFullBandwidth, roundsWithoutGain, bandwidthAtLastRound,
    lossEvents,                    \* numLossEventsInRound
    probeRtt,                      \* exitProbeRttAt ("unknown" or "set"), probeRttRoundPassed
    exitingQuiescence, totalAcked, maxAckHeight

windowVars == <<congestionWindow, initialWindow, minWindow, maxWindow, maxDatagramSize>>
bbrVars == <<mode, pacingGain, cwndGain, cycleOffset, windowVars, recoveryState, recoveryWindow,
             endRecoveryAt, bandwidth, sentPacket, roundTripEnd, bytesInFlight, isAtFullBandwidth,
             roundsWithoutGain, bandwidthAtLastRound, lossEvents, probeRtt,
             exitingQuiescence, totalAcked, maxAckHeight>>

Smallest == Min(DatagramSizes)

\* newBbrSender, applyProfile and enterStartupMode.
InitBBR ==
    /\ mode = "startup" /\ pacingGain = HighGain /\ cwndGain = HighCwndGain /\ cycleOffset = 0
    /\ maxDatagramSize = Smallest
    /\ initialWindow = InitialPackets * Smallest /\ congestionWindow = InitialPackets * Smallest
    /\ minWindow = MinPackets * Smallest /\ maxWindow = MaxWindowPackets * Smallest
    /\ recoveryState = "none" /\ recoveryWindow = MaxWindowPackets * Smallest /\ endRecoveryAt = InvalidPacket
    /\ bandwidth = 0
    /\ sentPacket = InvalidPacket /\ roundTripEnd = InvalidPacket /\ bytesInFlight = 0
    /\ isAtFullBandwidth = FALSE /\ roundsWithoutGain = 0 /\ bandwidthAtLastRound = 0
    /\ lossEvents = 0
    /\ probeRtt = [exit |-> "unknown", roundPassed |-> FALSE]
    /\ exitingQuiescence = FALSE /\ totalAcked = 0 /\ maxAckHeight = 0

-----------------------------------------------------------------------------
(* What is read from the state *)

\* getTargetCongestionWindow
Target(gain, bw) ==
    LET w == (gain * bw) \div 4
    IN Max({minWindow, IF w = 0 THEN (gain * initialWindow) \div 4 ELSE w})

InRecovery == recoveryState # "none"

\* GetCongestionWindow; CanSend compares bytesInFlight with it.
GetCongestionWindow ==
    IF mode = "probe_rtt" THEN minWindow
    ELSE IF InRecovery THEN Min({congestionWindow, recoveryWindow})
    ELSE congestionWindow

-----------------------------------------------------------------------------
(* OnPacketSent and SetMaxDatagramSize *)

\* One packet at a time, when CanSend allows it (or a probe that ignores it).
BBROnPacketSent ==
    /\ sentPacket < MaxSent
    /\ sentPacket' = sentPacket + 1
    /\ bytesInFlight' = bytesInFlight + maxDatagramSize
    /\ exitingQuiescence' = (exitingQuiescence \/ bytesInFlight = 0)
    /\ UNCHANGED <<mode, pacingGain, cwndGain, cycleOffset, windowVars, recoveryState, recoveryWindow,
                   endRecoveryAt, bandwidth, roundTripEnd, isAtFullBandwidth, roundsWithoutGain,
                   bandwidthAtLastRound, lossEvents, probeRtt, totalAcked, maxAckHeight>>

Clamp(w, lo, hi) == Min({hi, Max({w, lo})})

\* Mutation: the congestion window keeps its bytes.
ResizedKept(s, min, init, max) == congestionWindow

\* The window after the datagrams grew: still the minimum or the initial window
\* if it was that, else within the new limits.
Resized(s, min, init, max) ==
    IF congestionWindow = minWindow THEN min
    ELSE IF congestionWindow = initialWindow THEN init
    ELSE Clamp(congestionWindow, min, max)

\* SetMaxDatagramSize (a smaller size panics: QUIC only raises it).
BBRSetMaxDatagramSize(s) ==
    LET Scaled(w) == (w * s) \div maxDatagramSize
        min == MinPackets * s
    IN /\ s > maxDatagramSize
       /\ maxDatagramSize' = s
       /\ initialWindow' = Scaled(initialWindow) /\ maxWindow' = Scaled(maxWindow) /\ minWindow' = min
       /\ congestionWindow' = Resized(s, min, Scaled(initialWindow), Scaled(maxWindow))
       /\ recoveryWindow' = Clamp(recoveryWindow, min, Scaled(maxWindow))
       /\ UNCHANGED <<mode, pacingGain, cwndGain, cycleOffset, recoveryState, endRecoveryAt, bandwidth,
                      sentPacket, roundTripEnd, bytesInFlight, isAtFullBandwidth, roundsWithoutGain,
                      bandwidthAtLastRound, lossEvents, probeRtt, exitingQuiescence,
                      totalAcked, maxAckHeight>>

-----------------------------------------------------------------------------
(* The steps of OnCongestionEventEx.  e is the event: last, the largest       *)
(* acknowledged packet or Invalid; acked, lost and extra bytes; rate and      *)
(* limited, the sample; expired, rttPassed, probeDone, which timestamps have  *)
(* passed; offset, the random start of the gain cycle.                        *)

\* updateRoundTripCounter
RoundStart(e) == e.last # InvalidPacket /\ (roundTripEnd = InvalidPacket \/ e.last > roundTripEnd)

\* updateRecoveryState: the recovery state, its end and the end of the round.
UpdateRecovery(e) ==
    LET losses == e.lost > 0
        active == e.last # InvalidPacket /\ isAtFullBandwidth
        end == IF active /\ losses THEN sentPacket ELSE endRecoveryAt
        enters == active /\ losses /\ ~InRecovery
        grown == IF recoveryState = "conservation" /\ RoundStart(e) THEN "growth" ELSE recoveryState
    IN [state |-> IF enters THEN "conservation"
                  ELSE IF ~active \/ ~InRecovery THEN recoveryState
                  ELSE IF ~losses /\ e.last > end THEN "none" ELSE grown,
        window |-> IF enters THEN 0 ELSE recoveryWindow,
        end |-> end,
        round |-> IF enters \/ RoundStart(e) THEN sentPacket ELSE roundTripEnd]

\* The bandwidth filter: a better sample is the new best; otherwise the best
\* stays, or expires to something not worse than the sample.  An application
\* limited sample counts only if it is better; an event without samples not.
BandwidthAfter(e) ==
    IF e.acked = 0 \/ (e.limited /\ e.rate <= bandwidth) THEN {bandwidth}
    ELSE IF e.rate >= bandwidth THEN {e.rate}
    ELSE {b \in Rates : e.rate <= b /\ b <= bandwidth}

\* updateGainCyclePhase (PROBE_BW): the offset and the gain.
GainCycle(e, bw, inFlight) ==
    LET probing == pacingGain > 4 /\ e.lost = 0 /\ e.prior < Target(pacingGain, bw)
        drained == pacingGain < 4 /\ inFlight <= Target(4, bw)
        next == (cycleOffset + 1) % 8
        stay == DrainToTarget /\ pacingGain < 4 /\ Gains[next + 1] = 4 /\ inFlight > Target(4, bw)
    IN IF mode = "probe_bw" /\ ((e.rttPassed /\ ~probing) \/ drained)
       THEN [offset |-> next, gain |-> IF stay THEN pacingGain ELSE Gains[next + 1]]
       ELSE [offset |-> cycleOffset, gain |-> pacingGain]

\* checkIfFullBandwidthReached with shouldExitStartupDueToLoss.
FullBandwidth(e, bw, losses) ==
    LET checked == RoundStart(e) /\ ~isAtFullBandwidth /\ ~e.limited
        grew == 4 * bw >= 5 * bandwidthAtLastRound
        rounds == roundsWithoutGain + 1
    IN IF ~checked THEN [full |-> isAtFullBandwidth, rounds |-> roundsWithoutGain, at |-> bandwidthAtLastRound]
       ELSE IF grew THEN [full |-> FALSE, rounds |-> 0, at |-> bw]
       ELSE [full |-> rounds >= NumStartupRtts \/ losses >= FullLossCount, rounds |-> rounds,
             at |-> bandwidthAtLastRound]

\* enterProbeBandwidthMode, enterStartupMode
ProbeBw(e) == [mode |-> "probe_bw", gain |-> Gains[e.offset + 1], cwnd |-> CwndGain, offset |-> e.offset]
Startup == [mode |-> "startup", gain |-> HighGain, cwnd |-> HighCwndGain, offset |-> cycleOffset]

\* maybeExitStartupOrDrain, after m, the mode and gains so far.
ExitStartupOrDrain(e, m, full, bw, inFlight) ==
    LET d == IF m.mode = "startup" /\ full
             THEN [m EXCEPT !.mode = "drain", !.gain = (4 * 4) \div HighGain, !.cwnd = HighCwndGain] ELSE m
    IN IF d.mode = "drain" /\ inFlight <= Target(4, bw) THEN ProbeBw(e) ELSE d

\* maybeEnterOrExitProbeRtt: PROBE_RTT is entered when the minimum RTT expired
\* and left when the time is up and a round has passed since the flight was small.
EnterOrExitProbeRtt(e, m, full, inFlight) ==
    LET enters == e.expired /\ ~exitingQuiescence /\ m.mode # "probe_rtt"
        p == IF enters THEN [probeRtt EXCEPT !.exit = "unknown"] ELSE probeRtt
        in == IF enters THEN [m EXCEPT !.mode = "probe_rtt", !.gain = 4] ELSE m
        small == inFlight < minWindow + maxDatagramSize
        passed == p.roundPassed \/ RoundStart(e)
    IN IF in.mode # "probe_rtt" THEN [m |-> in, p |-> p]
       ELSE IF p.exit = "unknown"
         THEN [m |-> in, p |-> IF small THEN [exit |-> "set", roundPassed |-> FALSE] ELSE p]
       ELSE IF e.probeDone /\ passed
         THEN [m |-> IF full THEN ProbeBw(e) ELSE Startup, p |-> [p EXCEPT !.roundPassed = passed]]
       ELSE [m |-> in, p |-> [p EXCEPT !.roundPassed = passed]]

\* calculateCongestionWindow
WindowAfter(e, m, full, bw, acked) ==
    LET target == Target(m.cwnd, bw) + (IF full THEN maxAckHeight ELSE IF AckAggregationStartup THEN e.extra ELSE 0)
        w == IF full THEN Min({target, congestionWindow + e.acked})
             ELSE IF congestionWindow < target \/ acked < initialWindow THEN congestionWindow + e.acked
             ELSE congestionWindow
    IN IF m.mode = "probe_rtt" THEN congestionWindow ELSE Min({maxWindow, Max({minWindow, w})})

\* calculateRecoveryWindow
RecoveryAfter(e, r, inFlight) ==
    LET less == IF r.window >= e.lost THEN r.window - e.lost ELSE maxDatagramSize
        more == IF r.state = "growth" THEN less + e.acked ELSE less
    IN IF r.state = "none" THEN r.window
       ELSE IF r.window = 0 THEN Max({minWindow, inFlight + e.acked})
       ELSE Max({minWindow, more, inFlight + e.acked})

\* OnCongestionEventEx
BBROnCongestionEventEx(e) ==
    LET inFlight == bytesInFlight - e.acked - e.lost
        r == UpdateRecovery(e)
        losses == lossEvents + (IF e.lost > 0 THEN 1 ELSE 0)
    IN \E bw \in BandwidthAfter(e) :
       LET g == GainCycle(e, bw, inFlight)
           f == FullBandwidth(e, bw, losses)
           m0 == [mode |-> mode, gain |-> g.gain, cwnd |-> cwndGain, offset |-> g.offset]
           x == EnterOrExitProbeRtt(e, ExitStartupOrDrain(e, m0, f.full, bw, inFlight), f.full, inFlight)
       IN /\ bandwidth' = bw /\ bytesInFlight' = inFlight
          /\ recoveryState' = r.state /\ endRecoveryAt' = r.end /\ roundTripEnd' = r.round
          /\ isAtFullBandwidth' = f.full /\ roundsWithoutGain' = f.rounds /\ bandwidthAtLastRound' = f.at
          /\ mode' = x.m.mode /\ pacingGain' = x.m.gain /\ cwndGain' = x.m.cwnd /\ cycleOffset' = x.m.offset
          /\ probeRtt' = x.p /\ exitingQuiescence' = FALSE
          /\ totalAcked' = Min({totalAcked + e.acked, maxWindow})
          /\ maxAckHeight' = Max({maxAckHeight, e.extra})
          /\ congestionWindow' = WindowAfter(e, x.m, f.full, bw, totalAcked + e.acked)
          /\ recoveryWindow' = RecoveryAfter(e, r, inFlight)
          /\ lossEvents' = IF RoundStart(e) THEN 0 ELSE Min({losses, FullLossCount})
          /\ UNCHANGED <<initialWindow, minWindow, maxWindow, maxDatagramSize, sentPacket>>

Event(last, acked, lost, rate, limited, passed, offset) ==
    [last |-> last, acked |-> acked, lost |-> lost, rate |-> rate, limited |-> limited,
     prior |-> bytesInFlight, extra |-> IF rate > 0 /\ limited THEN 1 ELSE 0,
     expired |-> passed, rttPassed |-> passed, probeDone |-> passed, offset |-> offset]

NextBBR ==
    \/ BBROnPacketSent
    \/ \E s \in DatagramSizes : BBRSetMaxDatagramSize(s)
    \/ \E last \in {InvalidPacket, sentPacket - 1, sentPacket} : \E a, l \in AckSizes :
          /\ (last = InvalidPacket) = (a = 0)
          /\ last >= InvalidPacket /\ a + l > 0 /\ a + l <= bytesInFlight
          /\ \E rate \in Rates, limited, passed \in BOOLEAN, offset \in CycleStarts :
                BBROnCongestionEventEx(Event(last, a, l, rate, limited, passed, offset))

SpecBBR == InitBBR /\ [][NextBBR]_bbrVars

-----------------------------------------------------------------------------
(* Properties *)

\* In every mode and in recovery, whatever the order of losses, acknowledgements
\* and datagram sizes, the window handed to QUIC lets at least minWindow bytes
\* in flight and at most maxWindow: the connection can neither stall nor
\* overrun.  Recovery and the modes after STARTUP belong to a connection that
\* has found its full bandwidth, and PROBE_BW paces with a gain of the cycle.
WindowWithinLimits ==
    /\ minWindow <= GetCongestionWindow /\ GetCongestionWindow <= maxWindow
    /\ minWindow = MinPackets * maxDatagramSize
    /\ (InRecovery \/ mode \in {"drain", "probe_bw"}) => isAtFullBandwidth
    /\ mode = "probe_bw" => \/ pacingGain = Gains[cycleOffset + 1]
                            \/ DrainToTarget /\ pacingGain = 3

=============================================================================
