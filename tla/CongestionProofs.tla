------------------------- MODULE CongestionProofs --------------------------
(***************************************************************************)
(* What is proved of the congestion controllers, for every setting of      *)
(* their constants: the windowed maximum never outlives its window, BBR's  *)
(* window stays within its limits, Brutal's rate and pacer follow the      *)
(* packets that they count, and BBR's bandwidth sampler finds every packet *)
(* as it was sent.                                                         *)
(***************************************************************************)
EXTENDS WindowedFilter, BBRSender, BrutalSender, BandwidthSampler, SequenceTheorems,
        FiniteSetTheorems, WellFoundedInduction, TLAPS

-----------------------------------------------------------------------------
(* WindowedFilter *)

Entries == [sample : Nat, time : Nat]

\* The estimates are three entries; the filter clock is a natural number.
FilterTypeOK ==
    /\ estimates \in Entries \X Entries \X Entries
    /\ filterTime \in Nat /\ lastSample \in Nat

FilterInv == FilterTypeOK /\ FilterFresh

\* A new filter satisfies the invariant.
LEMMA InitFilterInv == InitFilter => FilterInv
  BY WindowAssumption
  DEF InitFilter, FilterInv, FilterTypeOK, FilterFresh, Cleared, NoEntry, Entries, GetBest

\* Three entries, in order and fresh at time t, at which s is sampled.
Good(a, b, c, s, t) ==
    /\ a.sample >= b.sample /\ b.sample >= c.sample /\ a.time <= b.time /\ b.time <= c.time
    /\ a.sample >= s /\ c.time <= t
    /\ a.sample # 0 => t - a.time <= WindowLength

LEMMA GoodKeeps ==
  ASSUME NEW a \in Entries, NEW b \in Entries, NEW c \in Entries, NEW s \in Nat, NEW t \in Nat,
         Good(a, b, c, s, t), estimates' = <<a, b, c>>, filterTime' = t, lastSample' = s
  PROVE  FilterInv'
  BY DEF Good, FilterInv, FilterTypeOK, FilterFresh, Entries, GetBest

\* Every update and reset keeps it.
LEMMA FilterStep == FilterInv /\ [NextFilter]_filterVars => FilterInv'
<1> SUFFICES ASSUME FilterInv, [NextFilter]_filterVars PROVE FilterInv'
  OBVIOUS
<1>0. ASSUME NEW s \in Nat, NEW t \in Nat
      PROVE  Entry(s, t) \in Entries /\ Good(Entry(s, t), Entry(s, t), Entry(s, t), s, t)
  BY WindowAssumption DEF Entry, Entries, Good
<1>1. ASSUME NEW t \in 0..MaxTime, ResetFilter(t) PROVE FilterInv'
  <2>1. estimates' = <<Entry(0, t), Entry(0, t), Entry(0, t)>> /\ filterTime' = t /\ lastSample' = 0
    BY <1>1 DEF ResetFilter, Reset
  <2> QED
    BY <1>0, <2>1, GoodKeeps
<1>2. ASSUME NEW t \in 0..MaxTime, NEW s \in Samples, Update(s, t) PROVE FilterInv'
  <2> DEFINE new == Entry(s, t)
             e1 == estimates[1]
             e2 == estimates[2]
             e3 == estimates[3]
  <2>1. /\ e1 \in Entries /\ e2 \in Entries /\ e3 \in Entries /\ new \in Entries
        /\ estimates = <<e1, e2, e3>> /\ s \in Nat /\ t \in Nat /\ new.sample = s /\ new.time = t
    BY SamplesAssumption DEF FilterInv, FilterTypeOK, Entry, Entries
  <2>2. Good(e1, e2, e3, 0, filterTime) /\ filterTime \in Nat /\ t >= filterTime
    BY <1>2, <2>1 DEF FilterInv, FilterTypeOK, FilterFresh, GetBest, Good, Entries, Update
  <2>3. estimates' = Updated(<<e1, e2, e3>>, new) /\ filterTime' = t /\ lastSample' = s
    BY <1>2, <2>1 DEF Update
  <2> HIDE DEF new, e1, e2, e3
  <2>4. CASE e1.sample = 0 \/ s >= e1.sample \/ t - e3.time > WindowLength
    <3>1. estimates' = <<new, new, new>>
      BY <2>1, <2>3, <2>4 DEF Updated, Reset
    <3>2. Good(new, new, new, s, t)
      BY <2>1, WindowAssumption DEF Good, Entries
    <3> QED
      BY <2>1, <2>3, <3>1, <3>2, GoodKeeps
  <2>5. CASE ~(e1.sample = 0 \/ s >= e1.sample \/ t - e3.time > WindowLength)
    <3>1. PICK r2 \in {e2, new}, r3 \in {e3, new} :
             /\ Ranked(<<e1, e2, e3>>, new) = <<e1, r2, r3>>
             /\ e1.sample >= r2.sample /\ r2.sample >= r3.sample /\ r3.sample >= s
             /\ e1.time <= r2.time /\ r2.time <= r3.time /\ r3.time <= t
      BY <2>1, <2>2, <2>5 DEF Ranked, Good, Entries
    <3>2. r2 \in Entries /\ r3 \in Entries /\ t - r3.time <= WindowLength
      BY <2>1, <2>5, <3>1, WindowAssumption DEF Entries
    <3>3. CASE t - e1.time > WindowLength
      <4>1. estimates' = Expired(<<e1, r2, r3>>, new)
        BY <2>1, <2>3, <2>5, <3>1, <3>3 DEF Updated
      <4>2. CASE t - r2.time > WindowLength
        <5>1. estimates' = <<r3, new, new>>
          BY <2>1, <4>1, <4>2 DEF Expired
        <5>2. Good(r3, new, new, s, t)
          BY <2>1, <3>1, <3>2 DEF Good, Entries
        <5> QED
          BY <2>1, <2>3, <3>2, <5>1, <5>2, GoodKeeps
      <4>3. CASE ~(t - r2.time > WindowLength)
        <5>1. estimates' = <<r2, r3, new>>
          BY <2>1, <4>1, <4>3 DEF Expired
        <5>2. Good(r2, r3, new, s, t)
          BY <2>1, <3>1, <3>2, <4>3, WindowAssumption DEF Good, Entries
        <5> QED
          BY <2>1, <2>3, <3>2, <5>1, <5>2, GoodKeeps
      <4> QED
        BY <4>2, <4>3
    <3>4. CASE ~(t - e1.time > WindowLength)
      <4>1. estimates' = Renewed(<<e1, r2, r3>>, new)
        BY <2>1, <2>3, <2>5, <3>1, <3>4 DEF Updated
      <4>2. PICK q2 \in {r2, new}, q3 \in {r3, new} :
               /\ estimates' = <<e1, q2, q3>>
               /\ e1.sample >= q2.sample /\ q2.sample >= q3.sample
               /\ e1.time <= q2.time /\ q2.time <= q3.time /\ q3.time <= t
        BY <2>1, <2>2, <3>1, <3>2, <4>1 DEF Renewed, Entries
      <4>3. Good(e1, q2, q3, s, t)
        BY <2>1, <2>5, <3>4, <4>2, WindowAssumption DEF Good, Entries
      <4> QED
        BY <2>1, <2>3, <3>2, <4>2, <4>3, GoodKeeps
    <3> QED
      BY <3>3, <3>4
  <2> QED
    BY <2>4, <2>5
<1>3. CASE UNCHANGED filterVars
  BY <1>3 DEF filterVars, FilterInv, FilterTypeOK, FilterFresh
<1> QED
  BY <1>1, <1>2, <1>3 DEF NextFilter

\* For any samples, window and sequence of updates and resets: the estimates are
\* ordered, the best is no worse than the newest sample and no older than the
\* window.
THEOREM FilterStaysFresh == SpecFilter => []FilterFresh
<1>1. FilterInv => FilterFresh
  BY DEF FilterInv
<1> QED
  BY <1>1, InitFilterInv, FilterStep, PTL DEF SpecFilter

-----------------------------------------------------------------------------
(* Minimum and maximum of small sets of integers *)

LEMMA Max2 == \A a, b \in Int : Max({a, b}) = IF a >= b THEN a ELSE b
  BY DEF Max

LEMMA Min2 == \A a, b \in Int : Min({a, b}) = IF a <= b THEN a ELSE b
  BY DEF Min

LEMMA Max3 ==
  ASSUME NEW a \in Int, NEW b \in Int, NEW c \in Int
  PROVE  /\ Max({a, b, c}) \in Int
         /\ Max({a, b, c}) >= a /\ Max({a, b, c}) >= b /\ Max({a, b, c}) >= c
<1>1. \E x \in {a, b, c} : \A y \in {a, b, c} : x >= y
  OBVIOUS
<1>2. Max({a, b, c}) \in {a, b, c} /\ \A y \in {a, b, c} : Max({a, b, c}) >= y
  BY <1>1 DEF Max
<1> QED
  BY <1>2

\* Every non-empty set of natural numbers has a least element.
LEMMA LeastNat ==
  ASSUME NEW T, T \subseteq Nat, T # {}
  PROVE  \E x \in T : \A y \in T : x <= y
<1> DEFINE R == {ss \in Nat \X Nat : ss[1] < ss[2]}
<1>1. IsWellFoundedOn(R, Nat)
  BY NatLessThanWellFounded DEF OpToRel
<1> HIDE DEF R
<1>2. PICK x \in T : \A y \in T : ~(<<y, x>> \in R)
  BY <1>1, WFMin
<1>3. ASSUME NEW y \in T PROVE x <= y
  <2>1. x \in Nat /\ y \in Nat /\ ~(<<y, x>> \in R)
    BY <1>2
  <2>2. y < x => <<y, x>> \in R
    BY <2>1 DEF R
  <2> QED
    BY <2>1, <2>2
<1> QED
  BY <1>3

LEMMA MinOfNats ==
  ASSUME NEW T, T \subseteq Nat, T # {}
  PROVE  Min(T) \in T /\ \A y \in T : Min(T) <= y
  BY LeastNat DEF Min

-----------------------------------------------------------------------------
(* BBRSender: the invariant *)

Modes == {"startup", "drain", "probe_bw", "probe_rtt"}

\* The three limits are whole numbers of the present datagrams, also after
\* SetMaxDatagramSize has scaled them.
LimitsInv ==
    /\ maxDatagramSize \in Nat \ {0}
    /\ minWindow = MinPackets * maxDatagramSize
    /\ initialWindow = InitialPackets * maxDatagramSize
    /\ maxWindow = MaxWindowPackets * maxDatagramSize
    /\ minWindow \in Nat /\ initialWindow \in Nat /\ maxWindow \in Nat
    /\ minWindow <= initialWindow /\ initialWindow <= maxWindow

\* Both windows respect them; the recovery window is meaningless outside of
\* recovery, which starts by computing it anew.
WindowsInv ==
    /\ congestionWindow \in Nat /\ minWindow <= congestionWindow /\ congestionWindow <= maxWindow
    /\ recoveryWindow \in Nat
    /\ InRecovery => minWindow <= recoveryWindow

\* The modes, as a record of the mode, its gains and its place in the cycle.
InCycle(m) == m.mode = "probe_bw" => m.gain = Gains[m.offset + 1] \/ (DrainToTarget /\ m.gain = 3)
ModeOK(m, full) ==
    /\ m = [mode |-> m.mode, gain |-> m.gain, cwnd |-> m.cwnd, offset |-> m.offset]
    /\ m.mode \in Modes /\ m.cwnd \in Nat /\ m.offset \in 0..7
    /\ m.mode \in {"drain", "probe_bw"} => full
    /\ InCycle(m)
PresentMode == [mode |-> mode, gain |-> pacingGain, cwnd |-> cwndGain, offset |-> cycleOffset]

ModeInv ==
    /\ isAtFullBandwidth \in BOOLEAN
    /\ ModeOK(PresentMode, isAtFullBandwidth)
    /\ recoveryState \in {"none", "conservation", "growth"}
    /\ InRecovery => isAtFullBandwidth

CountersInv == bandwidth \in Nat /\ bytesInFlight \in Nat /\ maxAckHeight \in Nat /\ totalAcked \in Nat

BBRInv == LimitsInv /\ WindowsInv /\ ModeInv /\ CountersInv

\* What an event of quic-go looks like.
EventOK(e) ==
    /\ e.acked \in Nat /\ e.lost \in Nat /\ e.acked + e.lost <= bytesInFlight
    /\ e.extra \in Nat /\ e.rate \in Rates /\ e.offset \in 0..7

-----------------------------------------------------------------------------
(* BBRSender: the proof *)

\* Scaling a whole number of datagrams gives as many of the new ones.
LEMMA ScaledExactly ==
  ASSUME NEW n \in Nat, NEW d \in Nat \ {0}, NEW s \in Nat
  PROVE  ((n * d) * s) \div d = n * s
<1>1. n * s \in Nat /\ (n * d) * s = d * (n * s)
  OBVIOUS
<1>2. \A q \in Nat : (d * q) \div d = q
  OBVIOUS
<1> QED
  BY <1>1, <1>2

\* newBbrSender's state satisfies the invariant.
LEMMA InitBBRInv == InitBBR => BBRInv
<1> SUFFICES ASSUME InitBBR PROVE BBRInv
  OBVIOUS
<1>1. Smallest \in Nat \ {0}
  BY MinOfNats, BytesAssumption DEF Smallest
<1>2. /\ MinPackets * Smallest \in Nat /\ InitialPackets * Smallest \in Nat
      /\ MaxWindowPackets * Smallest \in Nat
      /\ MinPackets * Smallest <= InitialPackets * Smallest
      /\ InitialPackets * Smallest <= MaxWindowPackets * Smallest
  BY <1>1, PacketsAssumption
<1>3. LimitsInv /\ WindowsInv
  BY <1>1, <1>2 DEF InitBBR, LimitsInv, WindowsInv, InRecovery
<1>4. ModeInv
  <2>1. isAtFullBandwidth \in BOOLEAN
    BY DEF InitBBR
  <2> QED
    BY <2>1, GainsAssumption DEF InitBBR, ModeInv, InRecovery, ModeOK, PresentMode, InCycle, Modes
<1> QED
  BY <1>3, <1>4 DEF InitBBR, BBRInv, CountersInv

\* SetMaxDatagramSize scales the limits and keeps the windows within them.
LEMMA ResizeKeeps ==
  ASSUME BBRInv, NEW s \in DatagramSizes, BBRSetMaxDatagramSize(s)
  PROVE  BBRInv'
<1> DEFINE min == MinPackets * s
           init == InitialPackets * s
           max == MaxWindowPackets * s
<1>1. s \in Nat \ {0} /\ maxDatagramSize \in Nat \ {0}
  BY BytesAssumption DEF BBRInv, LimitsInv
<1>2. min \in Nat /\ init \in Nat /\ max \in Nat /\ min <= init /\ init <= max
  BY <1>1, PacketsAssumption
<1>3. /\ (initialWindow * s) \div maxDatagramSize = init
      /\ (maxWindow * s) \div maxDatagramSize = max
  BY <1>1, ScaledExactly, PacketsAssumption DEF BBRInv, LimitsInv
<1>4. /\ maxDatagramSize' = s /\ minWindow' = min /\ initialWindow' = init /\ maxWindow' = max
      /\ congestionWindow' = Resized(s, min, init, max)
      /\ recoveryWindow' = Clamp(recoveryWindow, min, max)
  BY <1>3 DEF BBRSetMaxDatagramSize
<1> HIDE DEF min, init, max
<1>5. \A w \in Nat : Clamp(w, min, max) \in Nat /\ min <= Clamp(w, min, max) /\ Clamp(w, min, max) <= max
  BY <1>2, Min2, Max2 DEF Clamp
<1>6. WindowsInv'
  BY <1>2, <1>4, <1>5 DEF BBRInv, WindowsInv, Resized, InRecovery
<1>7. LimitsInv'
  BY <1>1, <1>2, <1>4 DEF LimitsInv, min, init, max
<1>8. ModeInv' /\ CountersInv'
  BY DEF BBRInv, BBRSetMaxDatagramSize, ModeInv, InRecovery, PresentMode, CountersInv, ModeOK, InCycle
<1> QED
  BY <1>6, <1>7, <1>8 DEF BBRInv

\* updateRecoveryState: recovery is for a sender at full bandwidth.
LEMMA RecoveryIsFull ==
  ASSUME BBRInv, NEW e, EventOK(e)
  PROVE  /\ UpdateRecovery(e).state \in {"none", "conservation", "growth"}
         /\ UpdateRecovery(e).state # "none" => isAtFullBandwidth
         /\ UpdateRecovery(e).window \in Nat
         /\ UpdateRecovery(e).state # "none" /\ UpdateRecovery(e).window # 0 =>
               minWindow <= UpdateRecovery(e).window
  BY DEF BBRInv, ModeInv, WindowsInv, InRecovery, UpdateRecovery

\* calculateRecoveryWindow
LEMMA RecoveryKeepsMin ==
  ASSUME BBRInv, NEW e, EventOK(e), NEW inFlight \in Nat
  PROVE  LET r == UpdateRecovery(e)
         IN /\ RecoveryAfter(e, r, inFlight) \in Nat
            /\ r.state # "none" => minWindow <= RecoveryAfter(e, r, inFlight)
<1> DEFINE r == UpdateRecovery(e)
           less == IF r.window >= e.lost THEN r.window - e.lost ELSE maxDatagramSize
           more == IF r.state = "growth" THEN less + e.acked ELSE less
<1>1. r.window \in Nat /\ e.acked \in Nat /\ e.lost \in Nat /\ minWindow \in Nat /\ maxDatagramSize \in Nat
  BY RecoveryIsFull DEF BBRInv, LimitsInv, EventOK
<1> HIDE DEF r
<1>2. more \in Nat /\ inFlight + e.acked \in Nat
  BY <1>1
<1>3. RecoveryAfter(e, r, inFlight) =
        IF r.state = "none" THEN r.window
        ELSE IF r.window = 0 THEN Max({minWindow, inFlight + e.acked})
        ELSE Max({minWindow, more, inFlight + e.acked})
  BY DEF RecoveryAfter
<1> HIDE DEF more
<1>4. /\ Max({minWindow, inFlight + e.acked}) \in Int
      /\ Max({minWindow, inFlight + e.acked}) >= minWindow
  BY <1>1, <1>2, Max2
<1>5. /\ Max({minWindow, more, inFlight + e.acked}) \in Int
      /\ Max({minWindow, more, inFlight + e.acked}) >= minWindow
  <2>1. \A a, b, c \in Int : /\ Max({a, b, c}) \in Int
                            /\ Max({a, b, c}) >= a
    BY Max3
  <2>2. minWindow \in Int /\ more \in Int /\ inFlight + e.acked \in Int
    BY <1>1, <1>2
  <2> QED
    BY <2>1, <2>2
<1>6. /\ RecoveryAfter(e, r, inFlight) \in Nat
      /\ r.state # "none" => minWindow <= RecoveryAfter(e, r, inFlight)
  BY <1>1, <1>3, <1>4, <1>5
<1> QED
  BY <1>6 DEF r

\* getTargetCongestionWindow is a number of bytes.
LEMMA TargetType ==
  ASSUME BBRInv, NEW g \in Nat, NEW bw \in Nat
  PROVE  Target(g, bw) \in Nat
<1>1. (g * bw) \div 4 \in Nat /\ (g * initialWindow) \div 4 \in Nat /\ minWindow \in Nat
  BY DEF BBRInv, LimitsInv
<1>2. \A a, b \in Nat : Max({a, b}) \in Nat
  BY Max2
<1> QED
  BY <1>1, <1>2 DEF Target

\* calculateCongestionWindow
LEMMA WindowKeepsLimits ==
  ASSUME BBRInv, NEW e, EventOK(e), NEW m, m.cwnd \in Nat, NEW full \in BOOLEAN, NEW bw \in Nat, NEW acked
  PROVE  LET w == WindowAfter(e, m, full, bw, acked) IN w \in Nat /\ minWindow <= w /\ w <= maxWindow
<1> DEFINE target == Target(m.cwnd, bw)
                       + (IF full THEN maxAckHeight ELSE IF AckAggregationStartup THEN e.extra ELSE 0)
           w == IF full THEN Min({target, congestionWindow + e.acked})
                ELSE IF congestionWindow < target \/ acked < initialWindow THEN congestionWindow + e.acked
                ELSE congestionWindow
<1>1. target \in Nat
  <2>1. (IF full THEN maxAckHeight ELSE IF AckAggregationStartup THEN e.extra ELSE 0) \in Nat
    BY DEF BBRInv, CountersInv, EventOK
  <2>2. Target(m.cwnd, bw) \in Nat
    BY TargetType
  <2> QED
    BY <2>1, <2>2
<1>2. /\ congestionWindow \in Nat /\ e.acked \in Nat /\ congestionWindow + e.acked \in Nat
      /\ minWindow \in Nat /\ maxWindow \in Nat
      /\ minWindow <= maxWindow /\ minWindow <= congestionWindow /\ congestionWindow <= maxWindow
  BY DEF BBRInv, LimitsInv, WindowsInv, EventOK
<1>3. WindowAfter(e, m, full, bw, acked) =
        IF m.mode = "probe_rtt" THEN congestionWindow ELSE Min({maxWindow, Max({minWindow, w})})
  BY DEF WindowAfter
<1> HIDE DEF target
<1>4. w \in Nat
  BY <1>1, <1>2, Min2
<1> HIDE DEF w
<1>5. Max({minWindow, w}) \in Nat /\ Max({minWindow, w}) >= minWindow
  BY <1>2, <1>4, Max2
<1>6. LET c == Min({maxWindow, Max({minWindow, w})}) IN c \in Nat /\ minWindow <= c /\ c <= maxWindow
  BY <1>2, <1>5, Min2
<1> QED
  BY <1>2, <1>3, <1>6

\* checkIfFullBandwidthReached: full bandwidth is never forgotten.
LEMMA FullStays ==
  ASSUME BBRInv, NEW e, NEW bw, NEW losses
  PROVE  LET f == FullBandwidth(e, bw, losses)
         IN f.full \in BOOLEAN /\ (isAtFullBandwidth => f.full)
  BY DEF BBRInv, ModeInv, FullBandwidth

\* updateGainCyclePhase stays in the cycle.
LEMMA CycleStays ==
  ASSUME BBRInv, NEW e, NEW bw, NEW inFlight
  PROVE  LET g == GainCycle(e, bw, inFlight)
         IN ModeOK([mode |-> mode, gain |-> g.gain, cwnd |-> cwndGain, offset |-> g.offset], isAtFullBandwidth)
<1> DEFINE g == GainCycle(e, bw, inFlight)
           next == (cycleOffset + 1) % 8
<1>1. /\ mode \in Modes /\ cwndGain \in Nat /\ cycleOffset \in 0..7
      /\ mode \in {"drain", "probe_bw"} => isAtFullBandwidth
      /\ mode = "probe_bw" => pacingGain = Gains[cycleOffset + 1] \/ (DrainToTarget /\ pacingGain = 3)
  BY DEF BBRInv, ModeInv, ModeOK, PresentMode, InCycle
<1>2. next \in 0..7
  BY <1>1
<1>3. CASE g = [offset |-> cycleOffset, gain |-> pacingGain]
  BY <1>1, <1>3 DEF ModeOK, InCycle
<1>4. CASE g = [offset |-> next, gain |-> Gains[next + 1]]
  BY <1>1, <1>2, <1>4 DEF ModeOK, InCycle
<1>5. CASE /\ g = [offset |-> next, gain |-> pacingGain] /\ mode = "probe_bw"
           /\ DrainToTarget /\ pacingGain < 4
  <2>1. pacingGain = 3
    <3>1. \A i \in 0..7 : Gains[i + 1] \in {3, 4, 5}
      BY DEF Gains
    <3> QED
      BY <1>1, <1>5, <3>1
  <2> QED
    BY <1>1, <1>2, <1>5, <2>1 DEF ModeOK, InCycle
<1> QED
  BY <1>3, <1>4, <1>5 DEF GainCycle

\* enterProbeBandwidthMode and enterStartupMode
LEMMA EnteredModes ==
  ASSUME BBRInv, NEW e, EventOK(e), NEW full \in BOOLEAN
  PROVE  (full => ModeOK(ProbeBw(e), full)) /\ ModeOK(Startup, full)
  BY GainsAssumption
  DEF BBRInv, ModeInv, PresentMode, EventOK, ModeOK, InCycle, ProbeBw, Startup, Modes

\* maybeExitStartupOrDrain
LEMMA ExitKeepsMode ==
  ASSUME BBRInv, NEW e, EventOK(e), NEW m, NEW full \in BOOLEAN, ModeOK(m, full), NEW bw, NEW inFlight
  PROVE  ModeOK(ExitStartupOrDrain(e, m, full, bw, inFlight), full)
<1> DEFINE d == IF m.mode = "startup" /\ full
                THEN [m EXCEPT !.mode = "drain", !.gain = (4 * 4) \div HighGain, !.cwnd = HighCwndGain] ELSE m
<1>1. ModeOK(d, full)
  <2>1. CASE m.mode = "startup" /\ full
    <3>1. d = [mode |-> "drain", gain |-> (4 * 4) \div HighGain, cwnd |-> HighCwndGain, offset |-> m.offset]
      BY <2>1 DEF ModeOK
    <3> QED
      BY <2>1, <3>1, GainsAssumption DEF ModeOK, InCycle, Modes
  <2> QED
    BY <2>1
<1>2. ExitStartupOrDrain(e, m, full, bw, inFlight) =
        IF d.mode = "drain" /\ inFlight <= Target(4, bw) THEN ProbeBw(e) ELSE d
  BY DEF ExitStartupOrDrain
<1> HIDE DEF d
<1>3. d.mode = "drain" => full
  BY <1>1 DEF ModeOK
<1> QED
  BY <1>1, <1>2, <1>3, EnteredModes

\* maybeEnterOrExitProbeRtt
LEMMA ProbeRttKeepsMode ==
  ASSUME BBRInv, NEW e, EventOK(e), NEW m, NEW full \in BOOLEAN, ModeOK(m, full), NEW inFlight
  PROVE  ModeOK(EnterOrExitProbeRtt(e, m, full, inFlight).m, full)
<1> DEFINE enters == e.expired /\ ~exitingQuiescence /\ m.mode # "probe_rtt"
           in == IF enters THEN [m EXCEPT !.mode = "probe_rtt", !.gain = 4] ELSE m
<1>1. ModeOK(in, full)
  <2>1. CASE enters
    <3>1. in = [mode |-> "probe_rtt", gain |-> 4, cwnd |-> m.cwnd, offset |-> m.offset]
      BY <2>1 DEF ModeOK
    <3> QED
      BY <3>1 DEF ModeOK, InCycle, Modes
  <2> QED
    BY <2>1
<1>2. EnterOrExitProbeRtt(e, m, full, inFlight).m \in {in, IF full THEN ProbeBw(e) ELSE Startup}
  BY DEF EnterOrExitProbeRtt
<1> HIDE DEF in
<1> QED
  BY <1>1, <1>2, EnteredModes

\* OnCongestionEventEx keeps the invariant.
LEMMA EventKeeps ==
  ASSUME BBRInv, NEW e, EventOK(e), BBROnCongestionEventEx(e)
  PROVE  BBRInv'
<1> DEFINE inFlight == bytesInFlight - e.acked - e.lost
           r == UpdateRecovery(e)
           losses == lossEvents + (IF e.lost > 0 THEN 1 ELSE 0)
           G(bw) == GainCycle(e, bw, inFlight)
           F(bw) == FullBandwidth(e, bw, losses)
           M0(bw) == [mode |-> mode, gain |-> G(bw).gain, cwnd |-> cwndGain, offset |-> G(bw).offset]
           X(bw) == EnterOrExitProbeRtt(e, ExitStartupOrDrain(e, M0(bw), F(bw).full, bw, inFlight),
                                        F(bw).full, inFlight)
<1>1. PICK bw \in BandwidthAfter(e) :
          /\ bandwidth' = bw /\ bytesInFlight' = inFlight
          /\ recoveryState' = r.state /\ isAtFullBandwidth' = F(bw).full
          /\ mode' = X(bw).m.mode /\ pacingGain' = X(bw).m.gain /\ cwndGain' = X(bw).m.cwnd
          /\ cycleOffset' = X(bw).m.offset
          /\ totalAcked' = Min({totalAcked + e.acked, maxWindow})
          /\ maxAckHeight' = Max({maxAckHeight, e.extra})
          /\ congestionWindow' = WindowAfter(e, X(bw).m, F(bw).full, bw, totalAcked + e.acked)
          /\ recoveryWindow' = RecoveryAfter(e, r, inFlight)
          /\ UNCHANGED <<initialWindow, minWindow, maxWindow, maxDatagramSize>>
  BY DEF BBROnCongestionEventEx
<1>2. inFlight \in Nat /\ bw \in Nat
  BY BytesAssumption DEF BBRInv, CountersInv, EventOK, BandwidthAfter
<1>3. F(bw).full \in BOOLEAN /\ (isAtFullBandwidth => F(bw).full)
  BY FullStays
<1>4. ModeOK(M0(bw), isAtFullBandwidth)
  BY CycleStays
<1>5. ModeOK(M0(bw), F(bw).full)
  BY <1>3, <1>4 DEF ModeOK
<1> HIDE DEF M0, F, G, inFlight, losses
<1>6. ModeOK(X(bw).m, F(bw).full)
  BY <1>3, <1>5, ExitKeepsMode, ProbeRttKeepsMode
<1>7. LimitsInv'
  BY <1>1 DEF BBRInv, LimitsInv
<1>8. CountersInv'
  <2>1. \A a, b \in Nat : Max({a, b}) \in Nat /\ Min({a, b}) \in Nat
    BY Max2, Min2
  <2>2. totalAcked + e.acked \in Nat /\ maxWindow \in Nat /\ maxAckHeight \in Nat /\ e.extra \in Nat
    BY DEF BBRInv, CountersInv, LimitsInv, EventOK
  <2>3. bandwidth' \in Nat /\ bytesInFlight' \in Nat
    BY <1>1, <1>2
  <2>4. totalAcked' \in Nat
    BY <1>1, <2>1, <2>2
  <2>5. maxAckHeight' \in Nat
    BY <1>1, <2>1, <2>2
  <2> QED
    BY <2>3, <2>4, <2>5 DEF CountersInv
<1> HIDE DEF X
<1>9. ModeInv'
  <2>1. PresentMode' = X(bw).m
    BY <1>1, <1>6 DEF PresentMode, ModeOK
  <2>2. ModeOK(PresentMode, isAtFullBandwidth)'
    BY <1>1, <1>6, <2>1 DEF ModeOK, InCycle
  <2> QED
    BY <1>1, <1>3, <2>2, RecoveryIsFull DEF ModeInv, InRecovery
<1>10. WindowsInv'
  <2>1. X(bw).m.cwnd \in Nat
    BY <1>6 DEF ModeOK
  <2>2. /\ congestionWindow' \in Nat /\ minWindow <= congestionWindow' /\ congestionWindow' <= maxWindow
    BY <1>1, <1>2, <1>3, <2>1, WindowKeepsLimits
  <2>3. recoveryWindow' \in Nat /\ (r.state # "none" => minWindow <= recoveryWindow')
    BY <1>1, <1>2, RecoveryKeepsMin
  <2> QED
    BY <1>1, <2>2, <2>3 DEF WindowsInv, InRecovery
<1> QED
  BY <1>7, <1>8, <1>9, <1>10 DEF BBRInv

\* Every step of the sender keeps it.
LEMMA BBRStep == BBRInv /\ [NextBBR]_bbrVars => BBRInv'
<1> SUFFICES ASSUME BBRInv, [NextBBR]_bbrVars PROVE BBRInv'
  OBVIOUS
<1>1. CASE BBROnPacketSent
  <2>1. bytesInFlight' \in Nat
    BY <1>1 DEF BBROnPacketSent, BBRInv, CountersInv, LimitsInv
  <2> QED
    BY <1>1, <2>1
    DEF BBROnPacketSent, BBRInv, LimitsInv, WindowsInv, ModeInv, CountersInv, InRecovery, PresentMode,
        ModeOK, InCycle, windowVars
<1>2. ASSUME NEW s \in DatagramSizes, BBRSetMaxDatagramSize(s) PROVE BBRInv'
  BY <1>2, ResizeKeeps
<1>3. ASSUME NEW last, NEW a \in AckSizes, NEW l \in AckSizes, a + l <= bytesInFlight,
             NEW rate \in Rates, NEW limited \in BOOLEAN, NEW passed \in BOOLEAN, NEW offset \in CycleStarts,
             BBROnCongestionEventEx(Event(last, a, l, rate, limited, passed, offset))
      PROVE  BBRInv'
  <2>1. EventOK(Event(last, a, l, rate, limited, passed, offset))
    BY <1>3, BytesAssumption, GainsAssumption DEF EventOK, Event
  <2> QED
    BY <1>3, <2>1, EventKeeps
<1>4. CASE UNCHANGED bbrVars
  BY <1>4
  DEF bbrVars, windowVars, BBRInv, LimitsInv, WindowsInv, ModeInv, CountersInv, InRecovery, PresentMode,
      ModeOK, InCycle
<1> QED
  BY <1>1, <1>2, <1>3, <1>4 DEF NextBBR

\* For any profile, datagram sizes, rates and order of acknowledgements, losses
\* and timeouts: the window handed to QUIC stays between minWindow and maxWindow,
\* and recovery and the later modes belong to a sender at full bandwidth.
THEOREM BBRWindowWithinLimits == SpecBBR => []WindowWithinLimits
<1>1. BBRInv => WindowWithinLimits
  <2> SUFFICES ASSUME BBRInv PROVE WindowWithinLimits
    OBVIOUS
  <2>1. minWindow <= GetCongestionWindow /\ GetCongestionWindow <= maxWindow
    BY Min2 DEF BBRInv, LimitsInv, WindowsInv, InRecovery, GetCongestionWindow
  <2> QED
    BY <2>1 DEF BBRInv, LimitsInv, ModeInv, ModeOK, InCycle, PresentMode, WindowWithinLimits
<1> QED
  BY <1>1, InitBBRInv, BBRStep, PTL DEF SpecBBR

-----------------------------------------------------------------------------
(* BrutalSender: sums over the ring *)

\* sum[i] is the sum of the first i values of f.
SumsOf(sum, f, n) == sum = [i \in 0..n |-> IF i = 0 THEN 0 ELSE sum[i - 1] + f[i - 1]]

LEMMA SumsExist ==
  ASSUME NEW f, NEW n \in Nat
  PROVE  \E sum : SumsOf(sum, f, n)
<1> SUFFICES ASSUME ~ \E sum : SumsOf(sum, f, n) PROVE FALSE
  OBVIOUS
<1> DEFINE T == {m \in Nat : ~ \E sum : SumsOf(sum, f, m)}
<1>1. T \subseteq Nat /\ T # {}
  OBVIOUS
<1> HIDE DEF T
<1>2. PICK m \in T : \A y \in T : m <= y
  BY <1>1, LeastNat
<1>3. m \in Nat /\ ~ \E sum : SumsOf(sum, f, m)
  BY <1>2 DEF T
<1>4. CASE m = 0
  <2> DEFINE g == [i \in 0..0 |-> 0]
  <2>1. g = [i \in 0..0 |-> IF i = 0 THEN 0 ELSE g[i - 1] + f[i - 1]]
    OBVIOUS
  <2> QED
    BY <1>3, <1>4, <2>1 DEF SumsOf
<1>5. CASE m # 0
  <2>1. m - 1 \in Nat /\ ~(m <= m - 1)
    BY <1>3, <1>5
  <2>2. PICK g : SumsOf(g, f, m - 1)
    BY <1>2, <2>1 DEF T
  <2> DEFINE h == [i \in 0..m |-> IF i = m THEN g[m - 1] + f[m - 1] ELSE g[i]]
  <2>3. ASSUME NEW i \in 0..m PROVE h[i] = IF i = 0 THEN 0 ELSE h[i - 1] + f[i - 1]
    <3>1. CASE i = m
      <4>1. m \in 0..m /\ m - 1 \in 0..m /\ m - 1 # m
        BY <1>3, <1>5
      <4>2. h[m] = g[m - 1] + f[m - 1] /\ h[m - 1] = g[m - 1]
        BY <4>1
      <4> QED
        BY <1>5, <3>1, <4>2
    <3>2. CASE i # m
      <4>1. i \in 0..(m - 1) /\ h[i] = g[i] /\ (i # 0 => h[i - 1] = g[i - 1])
        BY <1>3, <3>2
      <4>2. g[i] = IF i = 0 THEN 0 ELSE g[i - 1] + f[i - 1]
        BY <2>2, <4>1 DEF SumsOf
      <4> QED
        BY <4>1, <4>2
    <3> QED
      BY <3>1, <3>2
  <2>4. SumsOf(h, f, m)
    BY <2>3, Zenon DEF SumsOf
  <2> QED
    BY <1>3, <2>4
<1> QED
  BY <1>4, <1>5

\* The sums of the first values, one after the other.
Adds(sum, f, n) ==
    /\ sum \in [0..n -> Nat] /\ sum[0] = 0
    /\ \A i \in 1..n : sum[i] = sum[i - 1] + f[i - 1]

LEMMA SumSteps ==
  ASSUME NEW n \in Nat, NEW f \in [0..(n - 1) -> Nat]
  PROVE  \E sum : Adds(sum, f, n) /\ SumTo(f, n) = sum[n]
<1> DEFINE g == CHOOSE sum : sum = [i \in 0..n |-> IF i = 0 THEN 0 ELSE sum[i - 1] + f[i - 1]]
<1>1. SumTo(f, n) = g[n]
  BY DEF SumTo
<1>2. \E sum : sum = [i \in 0..n |-> IF i = 0 THEN 0 ELSE sum[i - 1] + f[i - 1]]
  BY SumsExist DEF SumsOf
<1>3. g = [i \in 0..n |-> IF i = 0 THEN 0 ELSE g[i - 1] + f[i - 1]]
  BY <1>2
<1> HIDE DEF g
<1>4. \A i \in 0..n : g[i] = IF i = 0 THEN 0 ELSE g[i - 1] + f[i - 1]
  BY <1>3
<1>5. g[0] = 0 /\ \A i \in 1..n : g[i] = g[i - 1] + f[i - 1]
  BY <1>4
<1>6. \A i \in 0..n : g[i] \in Nat
  <2> SUFFICES ASSUME NEW j \in 0..n, g[j] \notin Nat PROVE FALSE
    OBVIOUS
  <2> DEFINE T == {i \in 0..n : g[i] \notin Nat}
  <2>0. T \subseteq Nat /\ T # {}
    OBVIOUS
  <2>1. PICK i \in T : \A y \in T : i <= y
    BY <2>0, LeastNat
  <2>2. i \in 1..n /\ i - 1 \in 0..n /\ ~(i <= i - 1) /\ g[i] \notin Nat /\ i - 1 \in 0..(n - 1)
    BY <2>1, <1>5
  <2>3. g[i - 1] \in Nat /\ f[i - 1] \in Nat
    BY <2>1, <2>2
  <2> QED
    BY <1>5, <2>2, <2>3
<1>7. g \in [0..n -> Nat]
  BY <1>3, <1>6
<1> QED
  BY <1>1, <1>5, <1>7 DEF Adds

LEMMA SumInNat ==
  ASSUME NEW n \in Nat, NEW f \in [0..(n - 1) -> Nat]
  PROVE  SumTo(f, n) \in Nat
  BY SumSteps DEF Adds

\* A set with 0 and with each number the next one holds all of 0..n.
LEMMA Upwards ==
  ASSUME NEW n \in Nat, NEW P, 0 \in P, \A i \in 1..n : i - 1 \in P => i \in P
  PROVE  \A i \in 0..n : i \in P
<1> SUFFICES ASSUME NEW j \in 0..n, j \notin P PROVE FALSE
  OBVIOUS
<1> DEFINE T == {i \in 0..n : i \notin P}
<1>0. T \subseteq Nat /\ T # {}
  OBVIOUS
<1>1. PICK i \in T : \A y \in T : i <= y
  BY <1>0, LeastNat
<1>2. i \in 1..n /\ i - 1 \in 0..n /\ ~(i <= i - 1)
  BY <1>1
<1> QED
  BY <1>1, <1>2

LEMMA ZeroSum ==
  ASSUME NEW n \in Nat, NEW f \in [0..(n - 1) -> Nat], \A i \in 0..(n - 1) : f[i] = 0
  PROVE  SumTo(f, n) = 0
<1>1. PICK a : Adds(a, f, n) /\ SumTo(f, n) = a[n]
  BY SumSteps
<1> DEFINE P == {i \in 0..n : a[i] = 0}
<1>2. 0 \in P /\ \A i \in 1..n : i - 1 \in P => i \in P
  BY <1>1 DEF Adds
<1>3. \A i \in 0..n : i \in P
  BY <1>2, Upwards
<1> QED
  BY <1>1, <1>3

\* w lists the values of v backwards from v[q], around the ring.
Backwards(w, v, q, n) ==
    \A k \in 0..(n - 1) : w[k] = IF k <= q THEN v[q - k] ELSE v[q - k + n]

\* Both have the same sum.
LEMMA RotatedSum ==
  ASSUME NEW n \in Nat \ {0}, NEW v \in [0..(n - 1) -> Nat], NEW w \in [0..(n - 1) -> Nat],
         NEW q \in 0..(n - 1), Backwards(w, v, q, n)
  PROVE  SumTo(w, n) = SumTo(v, n)
<1>1. PICK a : Adds(a, v, n) /\ SumTo(v, n) = a[n]
  BY SumSteps
<1>2. PICK b : Adds(b, w, n) /\ SumTo(w, n) = b[n]
  BY SumSteps
<1> DEFINE Of(k) == IF k <= q + 1 THEN a[q + 1] - a[q + 1 - k] ELSE a[q + 1] + a[n] - a[q + 1 - k + n]
           P == {k \in 0..n : b[k] = Of(k)}
<1>3. \A i \in 0..n : a[i] \in Nat
  BY <1>1 DEF Adds
<1>4. 0 \in P
  BY <1>1, <1>2, <1>3 DEF Adds
<1>5. ASSUME NEW k \in 1..n, k - 1 \in P PROVE k \in P
  <2>0. b[k] = b[k - 1] + w[k - 1]
    BY <1>2 DEF Adds
  <2>1. b[k - 1] = Of(k - 1)
    BY <1>5
  <2>2. CASE k <= q + 1
    <3>1. PICK i \in 0..(n - 1) : i = q + 1 - k
      BY <2>2
    <3>2. /\ q - (k - 1) = i /\ q + 1 - (k - 1) = i + 1 /\ i + 1 - 1 = i /\ i + 1 \in 1..n
          /\ k - 1 \in 0..(n - 1) /\ k - 1 <= q /\ k - 1 <= q + 1
      BY <2>2, <3>1
    <3>3. w[k - 1] = v[i]
      BY <3>2 DEF Backwards
    <3>4. a[i + 1] = a[i] + v[i]
      BY <1>1, <3>2 DEF Adds
    <3>5. b[k - 1] = a[q + 1] - a[i + 1]
      BY <2>1, <2>2, <3>2
    <3>6. a[q + 1] \in Nat /\ a[i] \in Nat /\ v[i] \in Nat
      BY <1>3, <3>1
    <3>7. b[k] = a[q + 1] - (a[i] + v[i]) + v[i]
      BY <2>0, <3>3, <3>4, <3>5, Zenon
    <3>8. b[k] = a[q + 1] - a[i]
      BY <3>6, <3>7, SMTT(60)
    <3> QED
      BY <2>2, <3>1, <3>8
  <2>3. CASE k = q + 2
    <3>1. q - (k - 1) + n = n - 1 /\ k - 1 \in 0..(n - 1) /\ ~(k - 1 <= q)
      BY <2>3
    <3>2. w[k - 1] = v[n - 1]
      BY <3>1 DEF Backwards
    <3>3. a[n] = a[n - 1] + v[n - 1]
      BY <1>1 DEF Adds
    <3>4. q + 1 - (k - 1) = 0 /\ k - 1 <= q + 1
      BY <2>3
    <3>5. b[k - 1] = a[q + 1] - a[0]
      BY <2>1, <3>4
    <3>6. a[q + 1] \in Nat /\ a[n - 1] \in Nat /\ v[n - 1] \in Nat /\ a[0] = 0
      BY <1>1, <1>3 DEF Adds
    <3>7. b[k] = a[q + 1] + a[n] - a[n - 1]
      BY <2>0, <3>2, <3>3, <3>5, <3>6, SMTT(60)
    <3>8. q + 1 - k + n = n - 1 /\ ~(k <= q + 1)
      BY <2>3
    <3>9. b[k] = Of(k)
      BY <3>7, <3>8, Zenon
    <3> QED
      BY <3>9
  <2>4. CASE k > q + 2
    <3>1. PICK i \in 0..(n - 1) : i = q + 1 - k + n
      BY <2>4
    <3>2. /\ q - (k - 1) + n = i /\ q + 1 - (k - 1) + n = i + 1 /\ i + 1 - 1 = i /\ i + 1 \in 1..n
          /\ k - 1 \in 0..(n - 1) /\ ~(k - 1 <= q) /\ ~(k - 1 <= q + 1) /\ ~(k <= q + 1)
      BY <2>4, <3>1
    <3>3. w[k - 1] = v[i]
      BY <3>2 DEF Backwards
    <3>4. a[i + 1] = a[i] + v[i]
      BY <1>1, <3>2 DEF Adds
    <3>5. b[k - 1] = a[q + 1] + a[n] - a[i + 1]
      BY <2>1, <3>2
    <3>6. a[q + 1] \in Nat /\ a[i] \in Nat /\ v[i] \in Nat /\ a[n] \in Nat
      BY <1>3, <3>1
    <3>7. b[k] = a[q + 1] + a[n] - (a[i] + v[i]) + v[i]
      BY <2>0, <3>3, <3>4, <3>5, Zenon
    <3>8. a[q + 1] + a[n] - (a[i] + v[i]) + v[i] = a[q + 1] + a[n] - a[i]
      <4> HIDE DEF Of, P
      <4> QED
        BY ONLY <3>6, SMTT(60)
    <3>9. b[k] = a[q + 1] + a[n] - a[i]
      BY <3>7, <3>8, Zenon
    <3> QED
      BY <3>1, <3>2, <3>9
  <2> QED
    BY <2>2, <2>3, <2>4
<1>6. \A k \in 0..n : k \in P
  BY <1>4, <1>5, Upwards
<1>7. b[n] = Of(n)
  BY <1>6
<1>8. CASE n = q + 1
  BY <1>1, <1>2, <1>3, <1>7, <1>8 DEF Adds
<1>9. CASE n # q + 1
  <2>1. ~(n <= q + 1) /\ q + 1 - n + n = q + 1 /\ a[q + 1] \in Nat /\ a[n] \in Nat
    BY <1>3, <1>9
  <2> QED
    BY <1>1, <1>2, <1>7, <2>1
<1> QED
  BY <1>8, <1>9

-----------------------------------------------------------------------------
(* BrutalSender: the ring of seconds *)

Slot == [time : Nat, ack : Nat, loss : Nat]
Count == [ack : Nat, loss : Nat]

BrutalTypeOK ==
    /\ slots \in [0..(SlotCount - 1) -> Slot] /\ ackRate \in MinAckRate..10
    /\ lossCompensation \in BOOLEAN /\ brutalSize \in BrutalSizes
    /\ budgetAtLastSent \in Nat /\ lastSentTime \in Nat /\ lastSentTime <= brutalNow
    /\ brutalNow \in 1..MaxUnits /\ lastEvent \in Nat /\ lastEvent <= Timestamp
    /\ counted \in [0..(MaxUnits \div OneSecond) -> Count]

\* Slot i holds what was counted in its second, the last second of the slot in
\* which anything was counted; a slot that was never used is empty.
HoldsItsSecond(i, e, c) ==
    /\ e.time <= lastEvent
    /\ IF e.time % SlotCount = i THEN e.time \in DOMAIN c /\ e.ack = c[e.time].ack /\ e.loss = c[e.time].loss
       ELSE e.time = 0 /\ e.ack = 0 /\ e.loss = 0
    /\ \A t \in DOMAIN c : t % SlotCount = i /\ t > e.time => c[t].ack = 0 /\ c[t].loss = 0

RingInv == \A i \in 0..(SlotCount - 1) : HoldsItsSecond(i, slots[i], counted)

BrutalInv == BrutalTypeOK /\ RingInv /\ RateOfRecentSeconds

-----------------------------------------------------------------------------
(* Division and remainder of natural numbers *)

LEMMA DivMono ==
  ASSUME NEW a \in Nat, NEW c \in Nat, NEW b \in Nat \ {0}, a <= c
  PROVE  a \div b <= c \div b
  OBVIOUS

LEMMA MulSteps ==
  ASSUME NEW i \in Nat, NEW j \in Nat, NEW b \in Nat
  PROVE  i * b \in Nat /\ (i + 1) * b = i * b + b /\ (i <= j => i * b <= j * b)
  OBVIOUS

\* Every number is a multiple and a remainder, and the other way round.
LEMMA Quotient ==
  ASSUME NEW a \in Nat, NEW n \in Nat \ {0}
  PROVE  \E x \in Nat, r \in 0..(n - 1) : r = a % n /\ a = x * n + r
<1>1. PICK r \in 0..(n - 1) : r = a % n
  OBVIOUS
<1>2. PICK x \in Nat : x = a \div n
  OBVIOUS
<1>3. PICK p \in Nat : p = x * n
  OBVIOUS
<1>4. a % n = a - n * (a \div n) /\ n * (a \div n) = x * n
  BY <1>2
<1>5. r = a - p
  BY <1>1, <1>3, <1>4, Zenon
<1>6. a = p + r
  BY <1>5
<1> QED
  BY <1>1, <1>3, <1>6

LEMMA ModOf ==
  ASSUME NEW x \in Nat, NEW r \in Nat, NEW n \in Nat \ {0}, r < n
  PROVE  (x * n + r) % n = r
  OBVIOUS

LEMMA ModSmall == \A n \in Nat \ {0} : \A r \in 0..(n - 1) : r % n = r
  OBVIOUS

LEMMA ModGap ==
  ASSUME NEW a \in Nat, NEW c \in Nat, NEW n \in Nat \ {0}, a % n = c % n, a < c
  PROVE  a + n <= c
<1>1. PICK x \in Nat, r \in 0..(n - 1) : r = a % n /\ a = x * n + r
  BY Quotient
<1>2. PICK y \in Nat, z \in 0..(n - 1) : z = c % n /\ c = y * n + z
  BY Quotient
<1>3. r = z
  BY <1>1, <1>2
<1>4. x * n \in Nat /\ y * n \in Nat /\ (y <= x => y * n <= x * n)
  BY MulSteps
<1>5. a = x * n + r /\ c = y * n + r
  BY <1>1, <1>2, <1>3
<1>6. x + 1 <= y
  <2> SUFFICES ASSUME y <= x PROVE FALSE
    OBVIOUS
  <2> QED
    BY <1>4, <1>5
<1>7. (x + 1) * n = x * n + n /\ (x + 1) * n <= y * n
  BY <1>6, MulSteps
<1> QED
  BY <1>4, <1>5, <1>7

LEMMA ModBack ==
  ASSUME NEW t \in Nat, NEW n \in Nat \ {0}, NEW k \in 0..(n - 1), k <= t
  PROVE  (t - k) % n = IF k <= t % n THEN (t % n) - k ELSE (t % n) - k + n
<1>2. PICK x \in Nat, r \in 0..(n - 1) : r = t % n /\ t = x * n + r
  BY Quotient
<1>3. x * n \in Nat /\ t = x * n + r
  BY <1>2, MulSteps
<1>4. CASE k <= r
  <2>1. t - k = x * n + (r - k) /\ r - k \in Nat /\ r - k < n
    BY <1>3, <1>4
  <2>2. (x * n + (r - k)) % n = r - k
    BY <2>1, ModOf
  <2> QED
    BY <1>2, <1>4, <2>1, <2>2
<1>5. CASE ~(k <= r)
  <2>1. x # 0
    <3> SUFFICES ASSUME x = 0 PROVE FALSE
      OBVIOUS
    <3>1. x * n = 0
      OBVIOUS
    <3> QED
      BY <1>3, <1>5, <3>1
  <2>2. x - 1 \in Nat /\ (x - 1) + 1 = x
    BY <2>1
  <2>3. x * n = (x - 1) * n + n /\ (x - 1) * n \in Nat
    BY <2>2, MulSteps
  <2>4. t - k = (x - 1) * n + (r - k + n) /\ r - k + n \in Nat /\ r - k + n < n
    BY <1>3, <1>5, <2>3
  <2>5. ((x - 1) * n + (r - k + n)) % n = r - k + n
    BY <2>2, <2>4, ModOf
  <2> QED
    BY <1>2, <1>5, <2>4, <2>5
<1> QED
  BY <1>4, <1>5

\* The slot of an earlier second.
LEMMA ModBackTo ==
  ASSUME NEW t \in Nat, NEW n \in Nat \ {0}, NEW k \in 0..(n - 1), k <= t,
         NEW j, j = IF k <= t % n THEN (t % n) - k ELSE (t % n) - k + n
  PROVE  (t - k) % n = j
<1>1. (t - k) % n = IF k <= t % n THEN (t % n) - k ELSE (t % n) - k + n
  BY ModBack
<1> QED
  BY <1>1, Zenon

-----------------------------------------------------------------------------
(* BrutalSender: the rate and the pacer *)

LEMMA ShareType ==
  ASSUME NEW a \in Nat, NEW l \in Nat
  PROVE  Share(a, l) \in MinAckRate..10
<1>1. CASE ~lossCompensation \/ a + l < MinSampleCount
  BY <1>1 DEF Share, MinAckRate
<1>2. CASE ~(~lossCompensation \/ a + l < MinSampleCount)
  <2>1. a + l \in Nat \ {0} /\ 10 * a <= 10 * (a + l)
    BY <1>2, BrutalAssumption
  <2>2. PICK m \in Nat : m = a + l /\ m # 0
    BY <2>1
  <2>3. (10 * a) \div m <= (10 * m) \div m /\ (10 * a) \div m \in Nat
    BY <2>1, <2>2, DivMono
  <2>4. (10 * m) \div m = 10
    BY <2>2
  <2>5. (10 * a) \div (a + l) \in 0..10
    BY <2>2, <2>3, <2>4
  <2>6. Share(a, l) = Max({8, (10 * a) \div (a + l)})
    BY <1>2 DEF Share, MinAckRate
  <2> QED
    BY <2>5, <2>6, Max2 DEF MinAckRate
<1> QED
  BY <1>1, <1>2

LEMMA BandwidthType == ackRate \in MinAckRate..10 => Bandwidth \in Nat \ {0}
<1> SUFFICES ASSUME ackRate \in 8..10 PROVE Bandwidth \in Nat \ {0}
  BY DEF MinAckRate
<1>1. ackRate = 8 \/ ackRate = 9 \/ ackRate = 10
  OBVIOUS
<1> QED
  BY <1>1, BrutalAssumption DEF Bandwidth

\* In the time that Delay names at least the missing bytes accrue.
LEMMA DelayAccrues ==
  ASSUME NEW m \in Nat \ {0}, NEW b \in Nat \ {0}, NEW u \in Nat \ {0}, NEW d \in Nat,
         d >= (u * m + b - 1) \div b
  PROVE  d # 0 /\ (b * d) \div u \in Nat /\ (b * d) \div u >= m
<1>1. PICK p \in Nat : p = u * m /\ p >= 1
  OBVIOUS
<1>2. PICK c \in Nat : c = (p + b - 1) \div b
  BY <1>1
<1>3. p + b - 1 < b * c + b /\ c # 0
  BY <1>1, <1>2
<1>4. b * c <= b * d /\ b * c \in Nat /\ b * d \in Nat /\ c <= d
  BY <1>1, <1>2, MulSteps
<1>5. p <= b * d
  BY <1>1, <1>3, <1>4
<1>6. (u * m) \div u <= (b * d) \div u /\ (b * d) \div u \in Nat
  BY <1>1, <1>4, <1>5, DivMono
<1>7. (u * m) \div u = m
  OBVIOUS
<1> QED
  BY <1>3, <1>4, <1>6, <1>7

LEMMA BurstFits ==
  ASSUME BrutalTypeOK
  PROVE  MaxBurstSize \in Nat /\ MaxBurstSize >= brutalSize
<1>1. Bandwidth \in Nat \ {0}
  BY BandwidthType DEF BrutalTypeOK
<1>2. brutalSize \in Nat \ {0} /\ BurstPackets \in Nat \ {0} /\ OneSecond \in Nat \ {0}
  BY BrutalAssumption DEF BrutalTypeOK
<1>3. BurstPackets * brutalSize \in Nat /\ BurstPackets * brutalSize >= brutalSize
  BY <1>2
<1>4. PICK x \in Nat : x = BurstDelays * MinPacingDelay * Bandwidth
  BY <1>1, BrutalAssumption
<1>5. x \div OneSecond \in Nat
  BY <1>2
<1>6. MaxBurstSize = Max({x \div OneSecond, BurstPackets * brutalSize})
  BY <1>4 DEF MaxBurstSize
<1> QED
  BY <1>2, <1>3, <1>5, <1>6, Max2

\* What has accrued by a time after the last packet.
LEMMA BudgetAt ==
  ASSUME BrutalTypeOK, NEW now \in Nat, now >= lastSentTime
  PROVE  /\ Budget(now) \in Nat
         /\ lastSentTime = 0 => Budget(now) >= brutalSize
         /\ budgetAtLastSent + (Bandwidth * (now - lastSentTime)) \div OneSecond >= brutalSize
            => Budget(now) >= brutalSize
         /\ (Bandwidth * (now - lastSentTime)) \div OneSecond \in Nat
<1>1. Bandwidth \in Nat \ {0} /\ now - lastSentTime \in Nat /\ budgetAtLastSent \in Nat
  BY BandwidthType DEF BrutalTypeOK
<1>2. OneSecond \in Nat \ {0} /\ brutalSize \in Nat
  BY BrutalAssumption DEF BrutalTypeOK
<1>3. PICK x \in Nat : x = Bandwidth * (now - lastSentTime)
  BY <1>1
<1>4. x \div OneSecond \in Nat
  BY <1>2
<1>5. PICK y \in Nat : y = budgetAtLastSent + x \div OneSecond
  BY <1>1, <1>4
<1>6. Budget(now) = IF lastSentTime = 0 THEN MaxBurstSize ELSE Min({MaxBurstSize, y})
  BY <1>3, <1>5 DEF Budget
<1> QED
  BY <1>2, <1>3, <1>4, <1>5, <1>6, BurstFits, Min2

\* The pacer names a time at which there is budget.
LEMMA PacerWakes == BrutalTypeOK => WakesWithBudget
<1> SUFFICES ASSUME BrutalTypeOK PROVE WakesWithBudget
  OBVIOUS
<1>1. /\ Bandwidth \in Nat \ {0} /\ OneSecond \in Nat \ {0} /\ brutalSize \in Nat
      /\ budgetAtLastSent \in Nat /\ lastSentTime \in Nat /\ brutalNow \in Nat /\ lastSentTime <= brutalNow
      /\ MinPacingDelay \in Nat
  BY BandwidthType, BrutalAssumption DEF BrutalTypeOK
<1>2. CASE budgetAtLastSent >= brutalSize
  <2>1. TimeUntilSend = 0
    BY <1>2 DEF TimeUntilSend
  <2>2. Budget(brutalNow) >= brutalSize
    BY <1>1, <1>2, BudgetAt
  <2> QED
    BY <2>1, <2>2 DEF WakesWithBudget
<1>3. CASE ~(budgetAtLastSent >= brutalSize)
  <2>1. PICK m \in Nat \ {0} : m = brutalSize - budgetAtLastSent
    BY <1>1, <1>3
  <2>2. (OneSecond * m + Bandwidth - 1) \div Bandwidth \in Nat
    BY <1>1
  <2>3. PICK d \in Nat : d = Max({MinPacingDelay, Delay(m)}) /\ d >= (OneSecond * m + Bandwidth - 1) \div Bandwidth
    BY <1>1, <2>2, Max2 DEF Delay
  <2>4. d # 0 /\ (Bandwidth * d) \div OneSecond \in Nat /\ (Bandwidth * d) \div OneSecond >= m
    BY <1>1, <2>3, DelayAccrues
  <2>5. TimeUntilSend = lastSentTime + d
    BY <1>3, <2>1, <2>3 DEF TimeUntilSend
  <2>6. TimeUntilSend \in Nat /\ TimeUntilSend >= lastSentTime /\ TimeUntilSend # 0
        /\ TimeUntilSend - lastSentTime = d
    BY <1>1, <2>4, <2>5
  <2>7. budgetAtLastSent + (Bandwidth * d) \div OneSecond >= brutalSize
    BY <1>1, <2>1, <2>4
  <2>8. Budget(TimeUntilSend) >= brutalSize
    BY <2>6, <2>7, BudgetAt
  <2> QED
    BY <2>6, <2>8 DEF WakesWithBudget
<1> QED
  BY <1>2, <1>3

-----------------------------------------------------------------------------
(* BrutalSender: the steps *)

\* What a slot contributes to the sum of x, "ack" or "loss".
InRing(ring, x) == [i \in 0..(SlotCount - 1) |-> IF InWindow(ring[i]) THEN ring[i][x] ELSE 0]

\* What the seconds before t contribute to it.
InSeconds(c, t, x) ==
    [k \in 0..(SlotCount - 1) |-> (IF (t - k) \in DOMAIN c THEN c[t - k] ELSE NoCount)[x]]

\* The clock's second is one that is counted.
LEMMA SecondType == BrutalTypeOK => Timestamp \in DOMAIN counted /\ Timestamp \in Nat
<1> SUFFICES ASSUME BrutalTypeOK PROVE Timestamp \in 0..(MaxUnits \div OneSecond)
  BY DEF BrutalTypeOK
<1>1. brutalNow \in Nat /\ brutalNow <= MaxUnits /\ OneSecond \in Nat \ {0} /\ MaxUnits \in Nat
  BY BrutalAssumption DEF BrutalTypeOK
<1>2. brutalNow \div OneSecond <= MaxUnits \div OneSecond
  BY <1>1, DivMono
<1>3. brutalNow \div OneSecond \in Nat /\ MaxUnits \div OneSecond \in Nat
  BY <1>1
<1> QED
  BY <1>2, <1>3 DEF Timestamp

\* A ring whose slots hold their seconds, and that has just counted second t,
\* holds the seconds t, t - 1, ... in the slots t, t - 1, ... of the ring.
LEMMA RingHoldsSeconds ==
  ASSUME NEW ring \in [0..(SlotCount - 1) -> Slot], NEW D \in Nat, NEW c \in [0..D -> Count],
         NEW t \in 0..D, t = Timestamp,
         ring[t % SlotCount].time = t,
         \A i \in 0..(SlotCount - 1) :
            /\ ring[i].time <= t
            /\ IF ring[i].time % SlotCount = i
               THEN ring[i].time \in 0..D /\ ring[i].ack = c[ring[i].time].ack /\ ring[i].loss = c[ring[i].time].loss
               ELSE ring[i].time = 0 /\ ring[i].ack = 0 /\ ring[i].loss = 0
            /\ \A s \in 0..D : s % SlotCount = i /\ s > ring[i].time => c[s].ack = 0 /\ c[s].loss = 0,
         NEW x \in {"ack", "loss"}
  PROVE  SumTo(InSeconds(c, t, x), SlotCount) = SumTo(InRing(ring, x), SlotCount)
<1> DEFINE n == SlotCount
           q == t % n
           v == InRing(ring, x)
           w == InSeconds(c, t, x)
<1>0. n \in Nat \ {0} /\ t \in Nat /\ q \in 0..(n - 1)
  BY BrutalAssumption
<1>1. v \in [0..(n - 1) -> Nat]
  <2>1. \A i \in 0..(n - 1) : ring[i][x] \in Nat
    BY DEF Slot
  <2> QED
    BY <2>1 DEF InRing
<1>2. w \in [0..(n - 1) -> Nat]
  <2>1. ASSUME NEW k \in 0..(n - 1) PROVE (IF (t - k) \in DOMAIN c THEN c[t - k] ELSE NoCount)[x] \in Nat
    BY DEF NoCount, Count
  <2> QED
    BY <2>1 DEF InSeconds
<1>3. ASSUME NEW k \in 0..(n - 1), NEW j \in 0..(n - 1), j = IF k <= q THEN q - k ELSE q - k + n
      PROVE  w[k] = v[j]
  <2> DEFINE e == ring[j]
  <2>1. w[k] = IF (t - k) \in 0..D THEN c[t - k][x] ELSE 0
    BY DEF InSeconds, NoCount
  <2>2. v[j] = IF e.time >= t - n THEN e[x] ELSE 0
    BY DEF InRing, InWindow
  <2>3. e.time \in Nat /\ e.time <= t /\ e \in Slot
    BY DEF Slot
  <2>4. e.time % n # j => e.time = 0 /\ e[x] = 0
    OBVIOUS
  <2>5. e.time % n = j => e.time \in 0..D /\ e[x] = c[e.time][x]
    OBVIOUS
  <2>6. ASSUME NEW s \in 0..D, s % n = j, s > e.time PROVE c[s][x] = 0
    BY <2>6
  <2>7. CASE k <= t
    <3>1. t - k \in 0..D /\ t - k \in Nat
      BY <1>0, <2>7
    <3>2. (t - k) % n = j
      <4>1. j = IF k <= t % n THEN (t % n) - k ELSE (t % n) - k + n
        BY <1>3, Zenon
      <4>2. t \in Nat /\ n \in Nat \ {0} /\ k \in 0..(n - 1) /\ k <= t
        BY <1>0, <2>7
      <4> HIDE DEF n, q, v, w
      <4> QED
        BY ONLY <4>1, <4>2, ModBackTo, Zenon
    <3>3. w[k] = c[t - k][x]
      BY <2>1, <3>1
    <3>4. CASE e.time = t - k
      <4>1. e[x] = c[t - k][x] /\ e.time >= t - n
        BY <1>0, <2>5, <3>2, <3>4
      <4> QED
        BY <2>2, <3>3, <4>1
    <3>5. CASE e.time < t - k
      <4>1. w[k] = 0
        BY <2>6, <3>1, <3>2, <3>3, <3>5
      <4>2. CASE e.time % n # j
        BY <2>2, <2>4, <4>1, <4>2
      <4>3. CASE e.time % n = j
        <5>1. e.time + n <= t - k
          BY <1>0, <2>3, <3>1, <3>2, <3>5, <4>3, ModGap
        <5>2. k # 0
          <6> SUFFICES ASSUME k = 0 PROVE FALSE
            OBVIOUS
          <6>1. j = q
            BY <1>0, <1>3
          <6> QED
            BY <1>0, <2>3, <3>5, <6>1
        <5>3. ~(e.time >= t - n)
          BY <1>0, <2>3, <5>1, <5>2
        <5> QED
          BY <2>2, <4>1, <5>3
      <4> QED
        BY <4>2, <4>3
    <3>6. CASE e.time > t - k
      <4>1. e.time % n # j
        <5> SUFFICES ASSUME e.time % n = j PROVE FALSE
          OBVIOUS
        <5>1. t - k + n <= e.time
          BY <1>0, <2>3, <3>1, <3>2, <3>6, ModGap
        <5> QED
          BY <1>0, <2>3, <5>1
      <4>2. e.time = 0
        BY <2>4, <4>1
      <4> QED
        BY <1>0, <3>1, <3>6, <4>2
    <3> QED
      BY <1>0, <2>3, <3>4, <3>5, <3>6
  <2>8. CASE ~(k <= t)
    <3>1. w[k] = 0
      BY <1>0, <2>1, <2>8
    <3>2. t \in 0..(n - 1) /\ e.time \in 0..(n - 1)
      BY <1>0, <2>3, <2>8
    <3>3. q = t /\ e.time % n = e.time
      BY <1>0, <3>2, ModSmall
    <3>4. j = t - k + n
      BY <1>3, <2>8, <3>3, Zenon
    <3>5. e.time < j
      BY <1>0, <2>3, <3>4
    <3>6. e.time % n # j
      BY <2>3, <3>3, <3>5
    <3> QED
      BY <2>2, <2>4, <3>1, <3>6
  <2> QED
    BY <2>7, <2>8
<1>4. Backwards(w, v, q, n)
  <2> SUFFICES ASSUME NEW k \in 0..(n - 1) PROVE w[k] = IF k <= q THEN v[q - k] ELSE v[q - k + n]
    BY DEF Backwards
  <2>1. CASE k <= q
    <3>1. q - k \in 0..(n - 1)
      BY <1>0, <2>1
    <3> QED
      BY <1>3, <2>1, <3>1
  <2>2. CASE ~(k <= q)
    <3>1. q - k + n \in 0..(n - 1)
      BY <1>0, <2>2
    <3> QED
      BY <1>3, <2>2, <3>1
  <2> QED
    BY <2>1, <2>2
<1> HIDE DEF n, q, v, w
<1>5. SumTo(w, n) = SumTo(v, n)
  BY <1>0, <1>1, <1>2, <1>4, RotatedSum
<1> QED
  BY <1>5 DEF n, v, w

LEMMA InitBrutalInv == InitBrutal => BrutalInv
<1> SUFFICES ASSUME InitBrutal PROVE BrutalInv
  OBVIOUS
<1> DEFINE D == MaxUnits \div OneSecond
<1>0. /\ SlotCount \in Nat \ {0} /\ OneSecond \in Nat \ {0} /\ MaxUnits \in Nat \ {0} /\ D \in Nat
      /\ BurstPackets \in Nat /\ brutalNow = 1 /\ Timestamp \in Nat
  BY BrutalAssumption DEF InitBrutal, Timestamp
<1>1. BrutalTypeOK
  <2>1. Initial \in BrutalSizes /\ Initial \in Nat
    BY MinOfNats, BrutalAssumption DEF Initial
  <2>2. slots \in [0..(SlotCount - 1) -> Slot] /\ counted \in [0..D -> Count]
    BY <1>0 DEF InitBrutal, Slot, Count, NoCount
  <2>3. budgetAtLastSent \in Nat
    BY <1>0, <2>1 DEF InitBrutal
  <2> QED
    BY <1>0, <2>1, <2>2, <2>3 DEF InitBrutal, BrutalTypeOK, MinAckRate
<1>2. RingInv
  <2> SUFFICES ASSUME NEW i \in 0..(SlotCount - 1) PROVE HoldsItsSecond(i, slots[i], counted)
    BY DEF RingInv
  <2>1. slots[i].time = 0 /\ slots[i].ack = 0 /\ slots[i].loss = 0 /\ lastEvent = 0
    BY DEF InitBrutal
  <2>2. DOMAIN counted = 0..D /\ 0 \in 0..D /\ \A t \in 0..D : counted[t].ack = 0 /\ counted[t].loss = 0
    BY <1>0 DEF InitBrutal, NoCount
  <2> QED
    BY <2>1, <2>2 DEF HoldsItsSecond
<1>3. RateOfRecentSeconds
  <2> DEFINE f == [k \in 0..(SlotCount - 1) |-> CountedIn(lastEvent - k).ack]
             g == [k \in 0..(SlotCount - 1) |-> CountedIn(lastEvent - k).loss]
  <2>1. \A t : CountedIn(t).ack = 0 /\ CountedIn(t).loss = 0
    BY DEF InitBrutal, CountedIn, NoCount
  <2>2. /\ f \in [0..(SlotCount - 1) -> Nat] /\ g \in [0..(SlotCount - 1) -> Nat]
        /\ \A k \in 0..(SlotCount - 1) : f[k] = 0 /\ g[k] = 0
    BY <2>1
  <2> HIDE DEF f, g
  <2>3. SumTo(f, SlotCount) = 0 /\ SumTo(g, SlotCount) = 0
    BY <1>0, <2>2, ZeroSum
  <2>4. Share(0, 0) = 10
    BY BrutalAssumption DEF Share
  <2>5. ackRate = Share(SumTo(f, SlotCount), SumTo(g, SlotCount))
    BY <2>3, <2>4 DEF InitBrutal
  <2> QED
    BY <2>5 DEF RateOfRecentSeconds, f, g
<1> QED
  BY <1>1, <1>2, <1>3 DEF BrutalInv

\* OnCongestionEventEx
LEMMA BrutalEventKeeps ==
  ASSUME BrutalInv, NEW a \in BrutalAcks, NEW l \in BrutalAcks, BrutalOnCongestionEventEx(a, l)
  PROVE  BrutalInv'
<1> USE DEF BrutalInv
<1>1. PICK t, n, D, ring, c :
         /\ t = Timestamp /\ n = SlotCount /\ D = MaxUnits \div OneSecond
         /\ ring = Counted(a, l) /\ c = counted'
  OBVIOUS
<1>2. /\ n \in Nat \ {0} /\ D \in Nat /\ a \in Nat /\ l \in Nat /\ t \in 0..D
      /\ slots \in [0..(n - 1) -> Slot] /\ counted \in [0..D -> Count]
      /\ lastEvent <= t /\ lastEvent \in Nat
  BY <1>1, SecondType, BrutalAssumption DEF BrutalTypeOK
<1>3. PICK q \in 0..(n - 1) : q = t % n
  BY <1>2
<1>4. \A i \in 0..(n - 1) :
         /\ slots[i] \in Slot /\ slots[i].time <= lastEvent
         /\ IF slots[i].time % n = i
            THEN slots[i].time \in 0..D /\ slots[i].ack = counted[slots[i].time].ack
                 /\ slots[i].loss = counted[slots[i].time].loss
            ELSE slots[i].time = 0 /\ slots[i].ack = 0 /\ slots[i].loss = 0
         /\ \A s \in 0..D : s % n = i /\ s > slots[i].time => counted[s].ack = 0 /\ counted[s].loss = 0
  BY <1>1, <1>2 DEF RingInv, HoldsItsSecond
<1>5. c = [counted EXCEPT ![t] = [ack |-> counted[t].ack + a, loss |-> counted[t].loss + l]]
  BY <1>1 DEF BrutalOnCongestionEventEx
<1>6. /\ c \in [0..D -> Count] /\ c[t].ack = counted[t].ack + a /\ c[t].loss = counted[t].loss + l
      /\ \A s \in 0..D : s # t => c[s] = counted[s]
  <2>1. counted[t] \in Count /\ counted[t].ack \in Nat /\ counted[t].loss \in Nat
    BY <1>2 DEF Count
  <2>2. PICK x, y \in Nat : x = counted[t].ack + a /\ y = counted[t].loss + l
    BY <1>2, <2>1
  <2>3. [ack |-> x, loss |-> y] \in Count
    BY <2>2 DEF Count
  <2>4. c = [counted EXCEPT ![t] = [ack |-> x, loss |-> y]]
    BY <1>5, <2>2
  <2> QED
    BY <1>2, <2>2, <2>3, <2>4
<1>7. ring[q] = [time |-> t, ack |-> c[t].ack, loss |-> c[t].loss]
  <2>1. CASE slots[q].time = t
    <3>1. ring[q] = [slots[q] EXCEPT !.ack = @ + a, !.loss = @ + l]
      BY <1>1, <1>2, <1>3, <2>1 DEF Counted
    <3>2. slots[q].ack = counted[t].ack /\ slots[q].loss = counted[t].loss /\ slots[q] \in Slot
      BY <1>3, <1>4, <2>1
    <3> QED
      BY <1>6, <2>1, <3>1, <3>2 DEF Slot
  <2>2. CASE slots[q].time # t
    <3>1. ring[q] = [time |-> t, ack |-> 0 + a, loss |-> 0 + l]
      BY <1>1, <1>2, <1>3, <2>2 DEF Counted
    <3>2. slots[q].time < t
      <4>1. slots[q].time \in Nat /\ slots[q].time <= lastEvent
        BY <1>4 DEF Slot
      <4> QED
        BY <1>2, <2>2, <4>1
    <3>3. counted[t].ack = 0 /\ counted[t].loss = 0
      BY <1>2, <1>3, <1>4, <3>2
    <3> QED
      BY <1>6, <3>1, <3>3
  <2> QED
    BY <2>1, <2>2
<1>8. \A i \in 0..(n - 1) : i # q => ring[i] = slots[i]
  BY <1>1, <1>2, <1>3 DEF Counted
<1>9. ring \in [0..(n - 1) -> Slot]
  <2>1. DOMAIN ring = 0..(n - 1) /\ ring = [i \in 0..(n - 1) |-> ring[i]]
    BY <1>1, <1>2 DEF Counted
  <2>2. t \in Nat /\ c[t].ack \in Nat /\ c[t].loss \in Nat
    <3>1. t \in Nat /\ c[t] \in Count
      BY <1>2, <1>6
    <3> QED
      BY <3>1 DEF Count
  <2>3. ring[q] \in Slot
    BY <1>7, <2>2 DEF Slot
  <2> QED
    BY <1>2, <1>8, <2>1, <2>3
<1>10. ASSUME NEW i \in 0..(n - 1)
       PROVE /\ ring[i].time <= t
             /\ IF ring[i].time % n = i
                THEN ring[i].time \in 0..D /\ ring[i].ack = c[ring[i].time].ack /\ ring[i].loss = c[ring[i].time].loss
                ELSE ring[i].time = 0 /\ ring[i].ack = 0 /\ ring[i].loss = 0
             /\ \A s \in 0..D : s % n = i /\ s > ring[i].time => c[s].ack = 0 /\ c[s].loss = 0
  <2>1. CASE i = q
    <3>1. ring[i].time = t /\ ring[i].ack = c[t].ack /\ ring[i].loss = c[t].loss
      BY <1>7, <2>1
    <3>2. ASSUME NEW s \in 0..D, s % n = i, s > t PROVE c[s].ack = 0 /\ c[s].loss = 0
      <4>0. slots[i].time \in Nat /\ slots[i].time <= lastEvent
        BY <1>4 DEF Slot
      <4>1. s > slots[i].time /\ s # t
        BY <1>2, <3>2, <4>0
      <4> QED
        BY <1>4, <1>6, <3>2, <4>1
    <3> QED
      BY <1>2, <1>3, <2>1, <3>1, <3>2
  <2>2. CASE i # q
    <3>1. ring[i] = slots[i] /\ slots[i].time <= t
      BY <1>2, <1>4, <1>8, <2>2 DEF Slot
    <3>2. \A s \in 0..D : s % n = i => c[s] = counted[s]
      BY <1>3, <1>6, <2>2
    <3> QED
      BY <1>4, <3>1, <3>2
  <2> QED
    BY <2>1, <2>2
<1>11. /\ SumTo(InSeconds(c, t, "ack"), n) = SumTo(InRing(ring, "ack"), n)
       /\ SumTo(InSeconds(c, t, "loss"), n) = SumTo(InRing(ring, "loss"), n)
  <2>1. ring[t % SlotCount].time = t
    BY <1>1, <1>3, <1>7
  <2>2. t \in 0..D /\ D \in Nat /\ t = Timestamp /\ c \in [0..D -> Count] /\ n = SlotCount
    BY <1>1, <1>2, <1>6
  <2> QED
    BY <1>9, <1>10, <2>1, <2>2, RingHoldsSeconds, ZenonT(90)
<1>12. /\ InRing(ring, "ack") \in [0..(n - 1) -> Nat] /\ InRing(ring, "loss") \in [0..(n - 1) -> Nat]
  BY <1>1, <1>9 DEF InRing, Slot
<1>13. SumTo(InRing(ring, "ack"), n) \in Nat /\ SumTo(InRing(ring, "loss"), n) \in Nat
  BY <1>2, <1>12, SumInNat
<1>14. ackRate' = Share(SumTo(InRing(ring, "ack"), n), SumTo(InRing(ring, "loss"), n))
  BY <1>1 DEF BrutalOnCongestionEventEx, RateOf, InRing
<1>15. UNCHANGED <<lossCompensation, brutalSize, budgetAtLastSent, lastSentTime, brutalNow>>
       /\ slots' = ring /\ lastEvent' = t /\ Timestamp' = t
  BY <1>1 DEF BrutalOnCongestionEventEx, Timestamp
<1>16. BrutalTypeOK'
  <2>1. ackRate' \in MinAckRate..10
    BY <1>13, <1>14, ShareType
  <2> QED
    BY <1>1, <1>2, <1>6, <1>9, <1>15, <2>1 DEF BrutalTypeOK
<1>17. RingInv'
  <2> SUFFICES ASSUME NEW i \in 0..(SlotCount - 1) PROVE HoldsItsSecond(i, slots[i], counted)'
    BY DEF RingInv
  <2>1. DOMAIN c = 0..D
    BY <1>6
  <2> QED
    BY <1>1, <1>10, <1>15, <2>1 DEF HoldsItsSecond
<1>18. RateOfRecentSeconds'
  <2>1. /\ InSeconds(c, t, "ack") = [k \in 0..(SlotCount - 1) |-> CountedIn(lastEvent - k).ack]'
        /\ InSeconds(c, t, "loss") = [k \in 0..(SlotCount - 1) |-> CountedIn(lastEvent - k).loss]'
    BY <1>1, <1>15 DEF InSeconds, CountedIn
  <2>2. ackRate' = Share(SumTo(InSeconds(c, t, "ack"), n), SumTo(InSeconds(c, t, "loss"), n))
    BY <1>11, <1>14, Zenon
  <2> QED
    BY <1>1, <1>15, <2>1, <2>2 DEF RateOfRecentSeconds, Share
<1> QED
  BY <1>16, <1>17, <1>18

\* Every other step.
LEMMA BrutalStep == BrutalInv /\ [NextBrutal]_brutalVars => BrutalInv'
<1> SUFFICES ASSUME BrutalInv, [NextBrutal]_brutalVars PROVE BrutalInv'
  OBVIOUS
<1>1. ASSUME NEW a \in BrutalAcks, NEW l \in BrutalAcks, BrutalOnCongestionEventEx(a, l) PROVE BrutalInv'
  BY <1>1, BrutalEventKeeps
<1>2. ASSUME UNCHANGED <<slots, ackRate, lossCompensation, lastEvent, counted>>, BrutalTypeOK' PROVE BrutalInv'
  <2>1. RingInv'
    BY <1>2 DEF BrutalInv, RingInv, HoldsItsSecond
  <2>2. RateOfRecentSeconds'
    BY <1>2 DEF BrutalInv, RateOfRecentSeconds, CountedIn, Share
  <2> QED
    BY <1>2, <2>1, <2>2 DEF BrutalInv
<1>3. BrutalTypeOK
  BY DEF BrutalInv
<1>4. ASSUME NEW s \in BrutalSizes, BrutalSetMaxDatagramSize(s) PROVE BrutalInv'
  <2>1. BrutalTypeOK'
    BY <1>3, <1>4 DEF BrutalTypeOK, BrutalSetMaxDatagramSize, Timestamp
  <2> QED
    BY <1>2, <1>4, <2>1 DEF BrutalSetMaxDatagramSize
<1>5. ASSUME NEW s \in BrutalSizes, BrutalOnPacketSent(s) PROVE BrutalInv'
  <2>1. Budget(brutalNow) \in Nat /\ s \in Nat /\ brutalNow \in Nat
    BY <1>3, BudgetAt, BrutalAssumption DEF BrutalTypeOK
  <2>2. Max({0, Budget(brutalNow) - s}) \in Nat
    BY <2>1, Max2
  <2>3. BrutalTypeOK'
    BY <1>3, <1>5, <2>1, <2>2 DEF BrutalTypeOK, BrutalOnPacketSent, Timestamp
  <2> QED
    BY <1>2, <1>5, <2>3 DEF BrutalOnPacketSent
<1>6. ASSUME BrutalTick PROVE BrutalInv'
  <2>1. brutalNow \in Nat /\ brutalNow' = brutalNow + 1 /\ OneSecond \in Nat \ {0}
    BY <1>3, <1>6, BrutalAssumption DEF BrutalTypeOK, BrutalTick
  <2>2. brutalNow \div OneSecond <= (brutalNow + 1) \div OneSecond
    BY <2>1, DivMono
  <2>3. brutalNow \div OneSecond \in Nat /\ (brutalNow + 1) \div OneSecond \in Nat
    BY <2>1
  <2>4. lastEvent <= Timestamp'
    BY <1>3, <2>1, <2>2, <2>3 DEF BrutalTypeOK, Timestamp
  <2>5. BrutalTypeOK'
    BY <1>3, <1>6, <2>1, <2>4, BrutalAssumption DEF BrutalTypeOK, BrutalTick
  <2> QED
    BY <1>2, <1>6, <2>5 DEF BrutalTick
<1>7. CASE UNCHANGED brutalVars
  <2>1. BrutalTypeOK'
    BY <1>3, <1>7 DEF BrutalTypeOK, brutalVars, Timestamp
  <2> QED
    BY <1>2, <1>7, <2>1 DEF brutalVars
<1> QED
  BY <1>1, <1>4, <1>5, <1>6, <1>7 DEF NextBrutal

\* brutal.go, pacer.go: whatever the sizes of the ring, of a second and of the
\* datagrams, the rate is that of the recent seconds and TimeUntilSend names a
\* time at which there is budget for a datagram.
THEOREM BrutalSenderPaces == SpecBrutal => []BrutalPaces
<1>1. BrutalInv => BrutalPaces
  BY PacerWakes DEF BrutalInv, BrutalPaces
<1> QED
  BY <1>1, InitBrutalInv, BrutalStep, PTL DEF SpecBrutal

-----------------------------------------------------------------------------
(* BandwidthSampler: the invariant *)

Stamp == [sentTime : Nat, ackTime : Nat, totalSent : Nat]
Phase == [limited : BOOLEAN, end : Int]
Sent == [pn : Nat, sentTime : Nat, at : Stamp, limited : BOOLEAN, sent : Nat, acked : Nat, lost : Nat,
         inFlight : Nat]

\* A slot of the queue holds one packet or none.
Slots == {<<>>} \cup {<<e>> : e \in Sent}

\* Points of the acknowledgements up to a.
Points(a) == [time : Nat, acked : 0..a]

SamplerTypeOK ==
    /\ entries \in Seq(Slots) /\ firstPacket \in Nat \cup {Invalid}
    /\ totals \in [sent : Nat, acked : Nat, lost : Nat]
    /\ lastAckedAt \in Stamp /\ lastSentPacket \in Nat \cup {Invalid} /\ lastSentPacket <= MaxPacket
    /\ appPhase \in Phase /\ clockNow \in Nat
    /\ outstanding \subseteq 0..lastSentPacket /\ largestAcked \in Nat \cup {Invalid}
    /\ largestAcked <= lastSentPacket

\* The queue starts with a present slot, ends at the last packet at the latest,
\* holds every packet under its own number and every outstanding packet.
QueueInv ==
    /\ entries = <<>> => firstPacket = Invalid
    /\ entries # <<>> => /\ firstPacket # Invalid /\ entries[1] # <<>>
                         /\ firstPacket + Len(entries) - 1 <= lastSentPacket
    /\ \A i \in DOMAIN entries :
          entries[i] # <<>> => entries[i][1].pn = firstPacket + i - 1 /\ entries[i][1].acked <= totals.acked
    /\ \A p \in outstanding :
          /\ firstPacket # Invalid /\ firstPacket <= p /\ p - firstPacket + 1 <= Len(entries)
          /\ entries[p - firstPacket + 1] # <<>>

\* No point is ahead of what has been acknowledged.
PointsInv ==
    /\ ackPoints \in Points(totals.acked) \X Points(totals.acked)
    /\ a0Candidates \in Seq(Points(totals.acked))
    /\ slopesForward = TRUE

SamplerInv == SamplerTypeOK /\ QueueInv /\ PointsInv

LEMMA InitSamplerInv == InitSampler => SamplerInv
<1> SUFFICES ASSUME InitSampler PROVE SamplerInv
  OBVIOUS
<1>1. SamplerTypeOK
  BY SamplerAssumption DEF InitSampler, SamplerTypeOK, Stamp, Phase, Invalid
<1>2. QueueInv
  BY DEF InitSampler, QueueInv
<1>3. PointsInv
  BY DEF InitSampler, PointsInv, Points, NoPoint
<1> QED
  BY <1>1, <1>2, <1>3 DEF SamplerInv

\* A set of integers with an upper bound has a greatest element.
LEMMA MaxOfBounded ==
  ASSUME NEW T, NEW N \in Int, T \subseteq Int, T # {}, \A x \in T : x <= N
  PROVE  Max(T) \in T /\ \A y \in T : y <= Max(T)
<1> DEFINE U == {N - x : x \in T}
<1>1. U \subseteq Nat /\ U # {}
  <2>1. \A x \in T : N - x \in Nat
    OBVIOUS
  <2> QED
    BY <2>1
<1>2. PICK u \in U : \A y \in U : u <= y
  BY <1>1, LeastNat
<1>3. PICK x \in T : u = N - x
  BY <1>2
<1>4. ASSUME NEW y \in T PROVE x >= y
  <2>1. N - y \in U
    OBVIOUS
  <2>2. N - x <= N - y /\ x \in Int /\ y \in Int
    BY <1>2, <1>3, <2>1
  <2> QED
    BY <2>2
<1>5. \E z \in T : \A y \in T : z >= y
  BY <1>4
<1>6. Max(T) \in T /\ \A y \in T : Max(T) >= y
  BY <1>5 DEF Max
<1> QED
  BY <1>6

\* What SampledAtSend needs follows.
LEMMA SamplerInvSuffices == SamplerInv => SampledAtSend
<1> SUFFICES ASSUME SamplerInv PROVE SampledAtSend
  OBVIOUS
<1>0. entries \in Seq(Slots) /\ firstPacket \in Int
  BY DEF SamplerInv, SamplerTypeOK, Invalid
<1>1. ASSUME NEW p \in outstanding PROVE GetEntry(p) # <<>>
  <2>1. /\ p \in Nat /\ firstPacket <= p /\ p - firstPacket + 1 <= Len(entries)
        /\ entries[p - firstPacket + 1] # <<>>
    BY DEF SamplerInv, SamplerTypeOK, QueueInv, Invalid
  <2>2. p - firstPacket + 1 \in DOMAIN entries
    BY <1>0, <2>1
  <2>3. ~IsEmpty /\ ~(p < firstPacket) /\ ~(p - firstPacket >= Len(entries))
    BY <1>0, <2>1, <2>2 DEF IsEmpty
  <2> QED
    BY <2>1, <2>3 DEF GetEntry
<1> QED
  BY <1>1 DEF SamplerInv, QueueInv, PointsInv, SampledAtSend

-----------------------------------------------------------------------------
(* BandwidthSampler: OnPacketSent *)

LEMMA PointsGrow ==
  ASSUME NEW a \in Nat, NEW b \in Nat, a <= b
  PROVE  /\ Points(a) \subseteq Points(b)
         /\ Seq(Points(a)) \subseteq Seq(Points(b))
<1>1. 0..a \subseteq 0..b
  OBVIOUS
<1>2. Points(a) \subseteq Points(b)
  BY <1>1 DEF Points
<1>3. ASSUME NEW s \in Seq(Points(a)) PROVE s \in Seq(Points(b))
  <2>1. Len(s) \in Nat /\ \A i \in 1..Len(s) : s[i] \in Points(b)
    BY <1>2
  <2> QED
    BY <2>1, SeqDef, LenProperties
<1> QED
  BY <1>2, <1>3

\* recentAckPoints.Update with what has just been acknowledged.
LEMMA PointsAfterType ==
  ASSUME NEW b \in Nat, NEW points \in Points(b) \X Points(b), NEW t \in Nat
  PROVE  PointsAfter(points, t, b) \in Points(b) \X Points(b)
<1>1. [time |-> t, acked |-> b] \in Points(b)
  BY DEF Points
<1> QED
  BY <1>1 DEF PointsAfter

\* A packet goes into the slot of its number.
LEMMA EmplaceKeeps ==
  ASSUME SamplerInv, NEW pn \in Nat, pn = lastSentPacket + 1, NEW e \in Sent, e.pn = pn,
         e.acked <= totals.acked, Emplace(pn, e)
  PROVE  /\ entries' \in Seq(Slots) /\ firstPacket' \in Nat /\ entries' # <<>> /\ entries'[1] # <<>>
         /\ firstPacket' + Len(entries') - 1 = pn
         /\ \A i \in DOMAIN entries' :
               entries'[i] # <<>> => entries'[i][1].pn = firstPacket' + i - 1 /\ entries'[i][1].acked <= totals.acked
         /\ \A p \in outstanding \cup {pn} :
               /\ firstPacket' <= p /\ p - firstPacket' + 1 <= Len(entries')
               /\ entries'[p - firstPacket' + 1] # <<>>
<1> USE DEF SamplerInv, SamplerTypeOK, QueueInv, Invalid
<1>0. <<e>> \in Slots /\ <<e>> # <<>> /\ <<e>>[1] = e /\ <<>> \in Slots
  BY DEF Slots
<1>1. CASE IsEmpty
  <2>1. entries = <<>>
    <3> SUFFICES ASSUME entries # <<>> PROVE FALSE
      OBVIOUS
    <3>1. 1 \in DOMAIN entries /\ entries[1] # <<>>
      OBVIOUS
    <3> QED
      BY <1>1, <3>1 DEF IsEmpty
  <2>2. outstanding = {}
    BY <2>1
  <2>3. entries' = <<<<e>>>> /\ firstPacket' = pn
    BY <1>1, <2>1 DEF Emplace
  <2>4. entries' \in Seq(Slots) /\ Len(entries') = 1 /\ entries'[1] = <<e>> /\ DOMAIN entries' = {1}
    BY <1>0, <2>3
  <2> QED
    BY <1>0, <2>2, <2>3, <2>4
<1>2. CASE ~IsEmpty
  <2>0. PICK m \in Nat, f \in Nat : m = Len(entries) /\ f = firstPacket
    BY <1>2 DEF IsEmpty
  <2>1. /\ entries # <<>> /\ m >= 1
        /\ LastPacket = f + m - 1 /\ f + m - 1 < pn /\ entries[1] # <<>>
    BY <1>2, <2>0 DEF IsEmpty, LastPacket
  <2>2. PICK d \in Nat : d = pn - LastPacket - 1
    BY <2>0, <2>1
  <2> DEFINE gap == [i \in 1..d |-> <<>>]
  <2>3. entries' = (entries \o gap) \o <<<<e>>>> /\ firstPacket' = f
    <3>1. ~(pn <= LastPacket)
      BY <2>0, <2>1
    <3>2. /\ entries' = entries \o [i \in 1..(pn - LastPacket - 1) |-> <<>>] \o <<<<e>>>>
          /\ UNCHANGED firstPacket
      BY <1>2, <3>1 DEF Emplace
    <3> QED
      BY <2>0, <2>2, <3>2, Zenon
  <2>4. gap \in Seq(Slots) /\ Len(gap) = d
    BY <1>0
  <2>5. /\ entries \o gap \in Seq(Slots) /\ Len(entries \o gap) = m + d
        /\ \A i \in 1..m : (entries \o gap)[i] = entries[i]
        /\ \A i \in (m + 1)..(m + d) : (entries \o gap)[i] = <<>>
    BY <2>0, <2>4
  <2> HIDE DEF gap
  <2>6. /\ entries' \in Seq(Slots) /\ Len(entries') = m + d + 1
        /\ \A i \in 1..m : entries'[i] = entries[i]
        /\ \A i \in (m + 1)..(m + d) : entries'[i] = <<>>
        /\ entries'[m + d + 1] = <<e>>
    <3>1. PICK g \in Seq(Slots) : g = entries \o gap
      BY <2>5
    <3>2. Len(g) = m + d /\ entries' = Append(g, <<e>>)
      <4>1. g \o <<<<e>>>> = Append(g, <<e>>)
        BY <1>0
      <4> QED
        BY <2>3, <2>5, <3>1, <4>1, Zenon
    <3>3. /\ Append(g, <<e>>) \in Seq(Slots) /\ Len(Append(g, <<e>>)) = m + d + 1
          /\ \A i \in 1..(m + d) : Append(g, <<e>>)[i] = g[i]
          /\ Append(g, <<e>>)[m + d + 1] = <<e>>
      BY <1>0, <3>2
    <3>4. \A i \in 1..m : i \in 1..(m + d)
      OBVIOUS
    <3>5. \A i \in (m + 1)..(m + d) : i \in 1..(m + d)
      OBVIOUS
    <3> QED
      BY <2>5, <3>1, <3>2, <3>3, <3>4, <3>5, Zenon
  <2>7. f + (m + d + 1) - 1 = pn
    BY <2>0, <2>1, <2>2
  <2>8. ASSUME NEW i \in DOMAIN entries', entries'[i] # <<>>
        PROVE  entries'[i][1].pn = f + i - 1 /\ entries'[i][1].acked <= totals.acked
    <3>1. CASE i \in 1..m
      BY <2>0, <2>6, <2>8, <3>1
    <3>2. CASE i = m + d + 1
      BY <1>0, <2>6, <2>7, <3>2
    <3> QED
      BY <2>6, <2>8, <3>1, <3>2
  <2>9. ASSUME NEW p \in outstanding
        PROVE  f <= p /\ p - f + 1 <= Len(entries') /\ entries'[p - f + 1] # <<>>
    <3>0. /\ firstPacket <= p /\ p - firstPacket + 1 <= Len(entries)
          /\ entries[p - firstPacket + 1] # <<>>
      BY Zenon
    <3>1. p \in Nat /\ f <= p /\ p - f + 1 <= m /\ entries[p - f + 1] # <<>>
      <4>1. p \in 0..lastSentPacket
        BY Zenon
      <4>2. p \in Nat
        BY <4>1
      <4> QED
        BY <2>0, <3>0, <4>2, Zenon
    <3>2. p - f + 1 \in 1..m
      BY <2>0, <3>1
    <3>3. entries'[p - f + 1] = entries[p - f + 1]
      BY <2>6, <3>2
    <3>4. p - f + 1 <= m + d + 1
      BY <3>2
    <3> QED
      BY <2>6, <3>1, <3>3, <3>4, Zenon
  <2>10. f <= pn /\ pn - f + 1 <= Len(entries') /\ entries'[pn - f + 1] # <<>>
    <3>1. pn - f + 1 = m + d + 1
      BY <2>7
    <3>2. f <= pn /\ m + d + 1 <= m + d + 1
      BY <2>0, <2>1
    <3> QED
      BY <1>0, <2>6, <3>1, <3>2, Zenon
  <2>11. entries'[1] # <<>> /\ entries' # <<>>
    BY <2>0, <2>1, <2>6
  <2> QED
    BY <2>0, <2>3, <2>6, <2>7, <2>8, <2>9, <2>10, <2>11
<1> QED
  BY <1>1, <1>2

LEMMA PacketSentKeeps ==
  ASSUME SamplerInv, NEW pn \in 0..MaxPacket, OnPacketSent(pn)
  PROVE  SamplerInv'
<1> DEFINE t == [totals EXCEPT !.sent = @ + 1]
           idle == outstanding = {}
           fresh == PointsAfter(<<NoPoint, NoPoint>>, clockNow, totals.acked)
<1>0. SamplerTypeOK /\ QueueInv /\ PointsInv /\ pn \in Nat
  BY DEF SamplerInv
<1>1. pn = lastSentPacket + 1 /\ pn <= MaxPacket /\ lastSentPacket' = pn /\ totals' = t
  BY DEF OnPacketSent
<1>2. t \in [sent : Nat, acked : Nat, lost : Nat] /\ t.acked = totals.acked /\ totals.acked \in Nat
  BY <1>0 DEF SamplerTypeOK
<1>3. UNCHANGED <<appPhase, largestAcked, clockNow, slopesForward>> /\ outstanding' = outstanding \cup {pn}
  BY DEF OnPacketSent
<1>4. lastAckedAt' \in Stamp
  <2>1. lastAckedAt' = IF idle THEN [sentTime |-> clockNow, ackTime |-> clockNow, totalSent |-> t.sent]
                       ELSE lastAckedAt
    BY DEF OnPacketSent
  <2>2. clockNow \in Nat /\ t.sent \in Nat /\ lastAckedAt \in Stamp
    BY <1>0, <1>2 DEF SamplerTypeOK
  <2> QED
    BY <2>1, <2>2 DEF Stamp
<1>5. Cardinality(outstanding) \in Nat
  <2>1. lastSentPacket \in Int /\ outstanding \subseteq 0..lastSentPacket
    BY <1>0 DEF SamplerTypeOK, Invalid
  <2>2. IsFiniteSet(0..lastSentPacket)
    BY <2>1, FS_Interval
  <2> QED
    BY <2>1, <2>2, FS_Subset, FS_CardinalityType
<1>6. PICK e \in Sent : e = Snapshot(pn, t) /\ e.pn = pn /\ e.acked = totals.acked
  <2>1. appPhase.limited \in BOOLEAN /\ clockNow \in Nat
    BY <1>0 DEF SamplerTypeOK, Phase
  <2>2. t.sent \in Nat /\ t.lost \in Nat /\ Cardinality(outstanding) + 1 \in Nat
    BY <1>2, <1>5
  <2>3. Snapshot(pn, t) \in Sent
    BY <1>0, <1>2, <1>4, <2>1, <2>2 DEF Snapshot, Sent
  <2> QED
    BY <1>2, <2>3 DEF Snapshot
<1>7. Emplace(pn, e)
  BY <1>6 DEF OnPacketSent
<1>8. /\ entries' \in Seq(Slots) /\ firstPacket' \in Nat /\ entries' # <<>> /\ entries'[1] # <<>>
      /\ firstPacket' + Len(entries') - 1 = pn
      /\ \A i \in DOMAIN entries' :
            entries'[i] # <<>> => entries'[i][1].pn = firstPacket' + i - 1 /\ entries'[i][1].acked <= totals.acked
      /\ \A p \in outstanding \cup {pn} :
            /\ firstPacket' <= p /\ p - firstPacket' + 1 <= Len(entries')
            /\ entries'[p - firstPacket' + 1] # <<>>
  <2>1. e.acked <= totals.acked
    BY <1>2, <1>6
  <2> QED
    BY <1>0, <1>1, <1>6, <1>7, <2>1, EmplaceKeeps
<1>9. SamplerTypeOK'
  <2>1. outstanding' \subseteq 0..lastSentPacket' /\ lastSentPacket' \in Nat /\ lastSentPacket' <= MaxPacket
    BY <1>0, <1>1, <1>3 DEF SamplerTypeOK, Invalid
  <2>2. largestAcked' \in Nat \cup {Invalid} /\ largestAcked' <= lastSentPacket'
    BY <1>0, <1>1, <1>3 DEF SamplerTypeOK, Invalid
  <2>3. totals' \in [sent : Nat, acked : Nat, lost : Nat] /\ appPhase' \in Phase /\ clockNow' \in Nat
    BY <1>0, <1>1, <1>2, <1>3 DEF SamplerTypeOK
  <2> QED
    BY <1>4, <1>8, <2>1, <2>2, <2>3 DEF SamplerTypeOK
<1>10. QueueInv'
  <2>1. firstPacket' # Invalid /\ totals'.acked = totals.acked /\ lastSentPacket' = pn
    BY <1>1, <1>2, <1>8 DEF Invalid
  <2>2. firstPacket' + Len(entries') - 1 <= lastSentPacket'
    BY <1>0, <1>8, <2>1
  <2> QED
    BY <1>3, <1>8, <2>1, <2>2 DEF QueueInv
<1>11. PointsInv'
  <2>1. clockNow \in Nat /\ NoPoint \in Points(totals.acked)
    BY <1>0, <1>2 DEF SamplerTypeOK, NoPoint, Points
  <2>2. fresh \in Points(totals.acked) \X Points(totals.acked)
    BY <1>2, <2>1, PointsAfterType
  <2>3. /\ ackPoints' = IF idle THEN fresh ELSE ackPoints
        /\ a0Candidates' = IF idle THEN <<fresh[2]>> ELSE a0Candidates
    BY DEF OnPacketSent
  <2>4. <<fresh[2]>> \in Seq(Points(totals.acked))
    BY <2>2
  <2>5. totals'.acked = totals.acked
    BY <1>1, <1>2
  <2> QED
    BY <1>0, <1>3, <2>2, <2>3, <2>4, <2>5 DEF PointsInv
<1> QED
  BY <1>9, <1>10, <1>11 DEF SamplerInv

LEMMA AckOnlyKeeps ==
  ASSUME SamplerInv, NEW pn \in 0..MaxPacket, OnPacketSentAckOnly(pn)
  PROVE  SamplerInv'
<1> USE DEF SamplerInv, OnPacketSentAckOnly
<1>0. /\ lastSentPacket \in Int /\ lastSentPacket' = lastSentPacket + 1 /\ lastSentPacket' \in Nat
      /\ lastSentPacket' <= MaxPacket /\ entries \in Seq(Slots) /\ firstPacket \in Int
  BY DEF SamplerTypeOK, Invalid
<1>1. SamplerTypeOK'
  <2>1. outstanding \subseteq 0..lastSentPacket'
    BY <1>0 DEF SamplerTypeOK
  <2>2. largestAcked <= lastSentPacket'
    BY <1>0 DEF SamplerTypeOK, Invalid
  <2> QED
    BY <1>0, <2>1, <2>2 DEF SamplerTypeOK
<1>2. QueueInv'
  BY <1>0 DEF QueueInv
<1>3. PointsInv'
  BY DEF PointsInv
<1> QED
  BY <1>1, <1>2, <1>3

-----------------------------------------------------------------------------
(* BandwidthSampler: acknowledgements *)

\* What the loop over the acknowledged packets carries: its points are behind
\* what it has counted, and so was every A0 point it chose.
Carried(s) ==
    /\ DOMAIN s = {"acked", "points", "phase", "last", "cand", "rate", "forward"}
    /\ s.acked \in Nat /\ totals.acked <= s.acked
    /\ s.points \in Points(s.acked) \X Points(s.acked) /\ s.cand \in Seq(Points(s.acked))
    /\ s.phase \in Phase /\ s.last \in Stamp /\ s.forward = TRUE

\* chooseA0Point takes one of the candidates, and keeps some.
LEMMA ChooseA0Type ==
  ASSUME NEW S, NEW cand \in Seq(S), cand # <<>>, NEW acked
  PROVE  ChooseA0(cand, acked).a0 \in S /\ ChooseA0(cand, acked).rest \in Seq(S)
<1> DEFINE n == Len(cand)
           ahead == {i \in 2..n : cand[i].acked > acked}
           i == IF n = 1 THEN 1 ELSE IF ahead = {} THEN n ELSE Min(ahead) - 1
           dropped == IF ahead = {} THEN n \div 2 ELSE i - 1
<1>1. n \in Nat /\ n >= 1
  OBVIOUS
<1>2. i \in 1..n
  <2>1. ahead # {} => Min(ahead) \in 2..n
    <3>1. ahead \subseteq Nat
      OBVIOUS
    <3> QED
      BY <3>1, MinOfNats
  <2> HIDE DEF ahead
  <2> QED
    BY <1>1, <2>1
<1>3. dropped \in 0..n
  <2> HIDE DEF ahead
  <2>1. n \div 2 \in 0..n
    BY <1>1
  <2>2. i - 1 \in 0..n
    BY <1>1, <1>2
  <2> HIDE DEF i, n
  <2> QED
    BY <2>1, <2>2
<1> HIDE DEF ahead, i, dropped
<1>4. cand[i] \in S /\ SubSeq(cand, dropped + 1, n) \in Seq(S)
  <2>1. dropped + 1 \in Nat
    BY <1>3
  <2> QED
    BY <1>1, <1>2, <1>3, <2>1
<1>5. ChooseA0(cand, acked) = [a0 |-> cand[i], rest |-> SubSeq(cand, dropped + 1, n)]
  BY DEF ChooseA0, ahead, i, dropped
<1> QED
  BY <1>4, <1>5

\* onPacketAcknowledged
LEMMA AcknowledgedCarries ==
  ASSUME SamplerInv, NEW s, Carried(s), NEW pn \in Nat
  PROVE  Carried(Acknowledged(s, pn))
<1>0. CASE GetEntry(pn) = <<>>
  BY <1>0 DEF Acknowledged
<1>1. CASE GetEntry(pn) # <<>>
  <2>1. PICK e \in Sent : e = GetEntry(pn)[1] /\ e.acked <= totals.acked
    <3>1. /\ firstPacket \in Int /\ pn - firstPacket + 1 \in DOMAIN entries
          /\ GetEntry(pn) = entries[pn - firstPacket + 1]
      BY <1>1 DEF GetEntry, SamplerInv, SamplerTypeOK, Invalid
    <3>2. GetEntry(pn) \in Slots
      BY <3>1 DEF SamplerInv, SamplerTypeOK
    <3>3. PICK e \in Sent : GetEntry(pn) = <<e>>
      BY <1>1, <3>2 DEF Slots
    <3>4. e = GetEntry(pn)[1]
      BY <3>3
    <3>5. \A i \in DOMAIN entries : entries[i] # <<>> => entries[i][1].acked <= totals.acked
      BY DEF SamplerInv, QueueInv
    <3>6. e.acked <= totals.acked
      BY <1>1, <3>1, <3>4, <3>5, Zenon
    <3> QED
      BY <3>4, <3>6
  <2>2. PICK a \in Nat : a = s.acked + 1
    BY DEF Carried
  <2>3. PICK points : points = PointsAfter(s.points, clockNow, a) /\ points \in Points(a) \X Points(a)
    <3>1. s.acked <= a /\ s.acked \in Nat /\ clockNow \in Nat
      BY <2>2 DEF Carried, SamplerInv, SamplerTypeOK
    <3>2. s.points \in Points(s.acked) \X Points(s.acked) /\ Points(s.acked) \subseteq Points(a)
      BY <2>2, <3>1, PointsGrow DEF Carried
    <3>3. s.points \in Points(a) \X Points(a)
      BY <3>2
    <3> QED
      BY <3>1, <3>3, PointsAfterType
  <2>4. PICK phase \in Phase : phase = IF s.phase.limited /\ (s.phase.end = Invalid \/ pn > s.phase.end)
                                      THEN [s.phase EXCEPT !.limited = FALSE] ELSE s.phase
    BY DEF Carried, Phase
  <2>5. PICK last \in Stamp : last = [sentTime |-> e.sentTime, ackTime |-> clockNow, totalSent |-> e.sent]
    BY DEF Stamp, Sent, SamplerInv, SamplerTypeOK
  <2>6. PICK chosen : /\ chosen = IF s.cand = <<>>
                                  THEN [a0 |-> [time |-> e.at.ackTime, acked |-> e.acked], rest |-> s.cand]
                                  ELSE ChooseA0(s.cand, e.acked)
    OBVIOUS
  <2>7. chosen.a0.acked < a /\ chosen.rest \in Seq(Points(s.acked))
    <3>1. CASE s.cand = <<>>
      <4>1. chosen.a0.acked = e.acked /\ chosen.rest = s.cand
        BY <2>6, <3>1
      <4>2. e.acked \in Nat /\ e.acked <= s.acked /\ s.acked \in Nat
        <5>1. e.acked \in Nat /\ totals.acked \in Nat /\ s.acked \in Nat /\ totals.acked <= s.acked
          BY DEF Sent, SamplerInv, SamplerTypeOK, Carried
        <5> QED
          BY <2>1, <5>1
      <4> QED
        BY <2>2, <4>1, <4>2 DEF Carried
    <3>2. CASE s.cand # <<>>
      <4>1. chosen = ChooseA0(s.cand, e.acked)
        BY <2>6, <3>2
      <4>2. s.cand \in Seq(Points(s.acked)) /\ s.acked \in Nat
        BY DEF Carried
      <4>3. chosen.a0 \in Points(s.acked) /\ chosen.rest \in Seq(Points(s.acked))
        BY <3>2, <4>1, <4>2, ChooseA0Type
      <4> QED
        BY <2>2, <4>2, <4>3 DEF Points
    <3> QED
      BY <3>1, <3>2
  <2> DEFINE seen == [s EXCEPT !.acked = a, !.points = points, !.phase = phase, !.last = last]
  <2>8. /\ s.cand \in Seq(Points(a)) /\ chosen.rest \in Seq(Points(a)) /\ totals.acked <= a /\ s.forward = TRUE
    <3>1. s.acked \in Nat /\ totals.acked \in Nat /\ totals.acked <= s.acked /\ s.forward = TRUE
          /\ s.cand \in Seq(Points(s.acked))
      BY DEF Carried, SamplerInv, SamplerTypeOK
    <3>2. Seq(Points(s.acked)) \subseteq Seq(Points(a)) /\ totals.acked <= a
      BY <2>2, <3>1, PointsGrow
    <3> QED
      BY <2>7, <3>1, <3>2
  <2>9. PICK rate : Acknowledged(s, pn) \in
           {seen, [seen EXCEPT !.cand = chosen.rest],
            [seen EXCEPT !.cand = chosen.rest, !.rate = rate, !.forward = @ /\ chosen.a0.acked < a]}
    BY <1>1, <2>1, <2>2, <2>3, <2>4, <2>5, <2>6 DEF Acknowledged
  <2>10. /\ DOMAIN seen = {"acked", "points", "phase", "last", "cand", "rate", "forward"}
         /\ seen.acked = a /\ seen.points = points /\ seen.phase = phase /\ seen.last = last
         /\ seen.cand = s.cand /\ seen.forward = TRUE
    BY DEF Carried
  <2> HIDE DEF seen
  <2>11. Carried(seen)
    BY <2>2, <2>3, <2>8, <2>10 DEF Carried
  <2>12. Carried([seen EXCEPT !.cand = chosen.rest])
    <3>1. PICK r : r = [seen EXCEPT !.cand = chosen.rest]
      OBVIOUS
    <3>2. /\ DOMAIN r = DOMAIN seen /\ r.acked = a /\ r.points = points /\ r.phase = phase /\ r.last = last
          /\ r.cand = chosen.rest /\ r.forward = TRUE
      BY <2>10, <3>1
    <3>3. Carried(r)
      BY <2>2, <2>3, <2>8, <2>10, <3>2 DEF Carried
    <3> QED
      BY <3>1, <3>3, Zenon
  <2>13. Carried([seen EXCEPT !.cand = chosen.rest, !.rate = rate, !.forward = @ /\ chosen.a0.acked < a])
    <3>1. PICK r : r = [seen EXCEPT !.cand = chosen.rest, !.rate = rate, !.forward = @ /\ chosen.a0.acked < a]
      OBVIOUS
    <3>2. /\ DOMAIN r = DOMAIN seen /\ r.acked = a /\ r.points = points /\ r.phase = phase /\ r.last = last
          /\ r.cand = chosen.rest /\ r.forward = TRUE
      BY <2>7, <2>10, <3>1
    <3>3. Carried(r)
      BY <2>2, <2>3, <2>8, <2>10, <3>2 DEF Carried
    <3> QED
      BY <3>1, <3>3, Zenon
  <2> QED
    BY <2>9, <2>11, <2>12, <2>13, Zenon
<1> QED
  BY <1>0, <1>1

\* The loop over the packets up to m.
InTurn(g, s0, acked, m) ==
    g = [p \in Invalid..m |->
           IF p = Invalid THEN s0 ELSE IF p \in acked THEN Acknowledged(g[p - 1], p) ELSE g[p - 1]]

LEMMA TurnsExist ==
  ASSUME NEW s0, NEW acked, NEW m \in Nat
  PROVE  \E g : InTurn(g, s0, acked, m)
<1> DEFINE One(x, p) == IF p \in acked THEN Acknowledged(x, p) ELSE x
           Holds(g, k) == g = [p \in Invalid..k |-> IF p = Invalid THEN s0 ELSE One(g[p - 1], p)]
           T == {k \in Nat : ~ \E g : Holds(g, k - 1)}
<1>0. (\E g : Holds(g, m)) => \E g : InTurn(g, s0, acked, m)
  BY DEF InTurn
<1> HIDE DEF One
<1> SUFFICES ASSUME ~ \E g : Holds(g, m) PROVE FALSE
  BY <1>0
<1>1. T \subseteq Nat /\ m + 1 \in T
  BY m + 1 - 1 = m
<1>2. PICK k \in T : \A y \in T : k <= y
  BY <1>1, LeastNat
<1>3. k \in Nat /\ ~ \E g : Holds(g, k - 1)
  BY <1>2
<1>4. CASE k = 0
  <2> DEFINE g == [p \in Invalid..Invalid |-> s0]
  <2>1. g = [p \in Invalid..Invalid |-> IF p = Invalid THEN s0 ELSE One(g[p - 1], p)]
    BY DEF Invalid
  <2>2. k - 1 = Invalid
    BY <1>4 DEF Invalid
  <2> QED
    BY <1>3, <2>1, <2>2
<1>5. CASE k # 0
  <2>1. PICK j \in Nat : j = k - 1 /\ j < k
    BY <1>3, <1>5
  <2>2. PICK g : Holds(g, j - 1)
    <3>1. ~(k <= j)
      BY <1>3, <2>1
    <3>2. j \notin T
      BY <1>2, <3>1
    <3> QED
      BY <3>2
  <2> DEFINE h == [p \in Invalid..j |-> IF p = j THEN One(g[j - 1], j) ELSE g[p]]
  <2>3. ASSUME NEW p \in Invalid..j PROVE h[p] = IF p = Invalid THEN s0 ELSE One(h[p - 1], p)
    <3>1. CASE p = j
      <4>1. j \in Invalid..j /\ j - 1 \in Invalid..j /\ j - 1 # j /\ j # Invalid
        BY DEF Invalid
      <4>2. h[j] = One(g[j - 1], j) /\ h[j - 1] = g[j - 1]
        BY <4>1
      <4> QED
        BY <3>1, <4>1, <4>2
    <3>2. CASE p # j
      <4>1. p \in Invalid..(j - 1) /\ h[p] = g[p] /\ (p # Invalid => h[p - 1] = g[p - 1])
        BY <3>2 DEF Invalid
      <4>2. g[p] = IF p = Invalid THEN s0 ELSE One(g[p - 1], p)
        BY <2>2, <4>1
      <4> QED
        BY <4>1, <4>2
    <3> QED
      BY <3>1, <3>2
  <2>4. Holds(h, j)
    BY <2>3, Zenon
  <2> QED
    BY <1>3, <2>1, <2>4
<1> QED
  BY <1>4, <1>5

LEMMA AcknowledgedAllCarries ==
  ASSUME SamplerInv, NEW s0, Carried(s0), NEW acked
  PROVE  Carried(AcknowledgedAll(s0, acked))
<1> DEFINE g == CHOOSE upTo : upTo =
                  [p \in Invalid..MaxPacket |->
                     IF p = Invalid THEN s0 ELSE IF p \in acked THEN Acknowledged(upTo[p - 1], p) ELSE upTo[p - 1]]
<1>1. AcknowledgedAll(s0, acked) = g[MaxPacket]
  BY DEF AcknowledgedAll
<1>2. \E upTo : upTo =
         [p \in Invalid..MaxPacket |->
            IF p = Invalid THEN s0 ELSE IF p \in acked THEN Acknowledged(upTo[p - 1], p) ELSE upTo[p - 1]]
  <2>1. MaxPacket \in Nat
    BY SamplerAssumption
  <2>2. \E upTo : InTurn(upTo, s0, acked, MaxPacket)
    BY <2>1, TurnsExist
  <2> QED
    BY <2>2, Zenon DEF InTurn
<1>3. g = [p \in Invalid..MaxPacket |->
             IF p = Invalid THEN s0 ELSE IF p \in acked THEN Acknowledged(g[p - 1], p) ELSE g[p - 1]]
  BY <1>2
<1> HIDE DEF g
<1>4. \A p \in Invalid..MaxPacket :
         g[p] = IF p = Invalid THEN s0 ELSE IF p \in acked THEN Acknowledged(g[p - 1], p) ELSE g[p - 1]
  BY <1>3
<1> DEFINE P == {i \in 0..(MaxPacket + 1) : Carried(g[i - 1])}
<1>5. 0 \in P
  BY <1>4, SamplerAssumption DEF Invalid
<1>6. ASSUME NEW i \in 1..(MaxPacket + 1), i - 1 \in P PROVE i \in P
  <2>1. PICK p \in Nat : p = i - 1
    BY SamplerAssumption
  <2>2. p \in Invalid..MaxPacket /\ p # Invalid /\ i - 1 - 1 = p - 1
    BY <2>1, SamplerAssumption DEF Invalid
  <2>3. Carried(g[p - 1])
    BY <1>6, <2>2
  <2>4. g[p] = Acknowledged(g[p - 1], p) \/ g[p] = g[p - 1]
    BY <1>4, <2>2
  <2>5. Carried(g[p])
    BY <2>3, <2>4, AcknowledgedCarries
  <2>6. i \in 0..(MaxPacket + 1)
    BY SamplerAssumption
  <2> QED
    BY <2>1, <2>5, <2>6
<1>7. PICK k \in Nat : k = MaxPacket + 1
  BY SamplerAssumption
<1>8. k \in P
  <2> HIDE DEF P
  <2>1. \A i \in 1..k : i - 1 \in P => i \in P
    BY <1>6, <1>7
  <2>2. k \in 0..k
    OBVIOUS
  <2> QED
    BY <1>5, <2>1, <2>2, Upwards
<1>9. Carried(g[k - 1]) /\ k - 1 = MaxPacket
  BY <1>7, <1>8, SamplerAssumption
<1> QED
  BY <1>1, <1>9, Zenon

-----------------------------------------------------------------------------
(* BandwidthSampler: RemoveObsoletePackets *)

\* Packets from pn on stay in their slots.
LEMMA RemoveKeeps ==
  ASSUME SamplerInv, NEW pn \in Int, NEW open, open \subseteq outstanding, \A p \in open : p >= pn,
         RemoveUpTo(pn)
  PROVE  /\ entries' \in Seq(Slots) /\ firstPacket' \in Nat \cup {Invalid}
         /\ entries' = <<>> => firstPacket' = Invalid
         /\ entries' # <<>> => /\ firstPacket' # Invalid /\ entries'[1] # <<>>
                               /\ firstPacket' + Len(entries') - 1 <= lastSentPacket
         /\ \A i \in DOMAIN entries' :
               entries'[i] # <<>> => entries'[i][1].pn = firstPacket' + i - 1 /\ entries'[i][1].acked <= totals.acked
         /\ \A p \in open :
               /\ firstPacket' # Invalid /\ firstPacket' <= p /\ p - firstPacket' + 1 <= Len(entries')
               /\ entries'[p - firstPacket' + 1] # <<>>
<1> DEFINE below == IF firstPacket = Invalid THEN 0 ELSE Max({0, Min({pn - firstPacket, Len(entries)})})
           present == {i \in (below + 1)..Len(entries) : entries[i] # <<>>}
           gone == IF present = {} THEN Len(entries) ELSE Min(present) - 1
<1>0. entries' = SubSeq(entries, gone + 1, Len(entries))
      /\ firstPacket' = IF gone = Len(entries) THEN Invalid ELSE firstPacket + gone
  BY DEF RemoveUpTo
<1>1. PICK n \in Nat : n = Len(entries) /\ entries \in Seq(Slots)
  BY DEF SamplerInv, SamplerTypeOK
<1>2. CASE entries = <<>>
  <2>1. n = 0 /\ open = {} /\ present = {}
    <3>1. n = 0
      BY <1>1, <1>2
    <3>2. open = {}
      <4> SUFFICES ASSUME NEW p \in open PROVE FALSE
        OBVIOUS
      <4>1. firstPacket # Invalid
        BY DEF SamplerInv, QueueInv
      <4> QED
        BY <1>2, <4>1 DEF SamplerInv, QueueInv
    <3>3. present = {}
      <4> SUFFICES ASSUME NEW i \in present PROVE FALSE
        OBVIOUS
      <4>1. below \in Nat
        <5>1. firstPacket = Invalid
          BY <1>2 DEF SamplerInv, QueueInv
        <5> QED
          BY <5>1
      <4> HIDE DEF below
      <4> QED
        BY <1>1, <3>1, <4>1
    <3> QED
      BY <3>1, <3>2, <3>3
  <2>2. gone = 0 /\ firstPacket' = Invalid
    BY <1>0, <1>1, <2>1
  <2>3. entries' = <<>>
    BY <1>0, <1>1, <1>2, <2>1, <2>2
  <2> QED
    BY <1>1, <1>2, <2>1, <2>2, <2>3
<1>3. CASE entries # <<>>
  <2>0. PICK f \in Nat : /\ f = firstPacket /\ f # Invalid
    BY <1>3 DEF SamplerInv, SamplerTypeOK, QueueInv, Invalid
  <2>1. below \in 0..n /\ (below = 0 \/ below <= pn - f)
    <3>1. below = Max({0, Min({pn - f, n})})
      BY <1>1, <2>0
    <3>2. Min({pn - f, n}) = IF pn - f <= n THEN pn - f ELSE n
      BY Min2
    <3>3. PICK m \in Int : m = Min({pn - f, n}) /\ m <= n /\ m <= pn - f
      BY <3>2
    <3>4. below = IF 0 >= m THEN 0 ELSE m
      <4>1. Max({0, m}) = IF 0 >= m THEN 0 ELSE m
        BY Max2
      <4>2. below = Max({0, m})
        BY <3>1, <3>3, Zenon
      <4> QED
        BY <4>1, <4>2, Zenon
    <3> HIDE DEF below
    <3> QED
      BY <3>3, <3>4
  <2> HIDE DEF below
  <2>2. present \subseteq 1..n /\ (present # {} => Min(present) \in present /\ \A y \in present : Min(present) <= y)
    <3>1. present \subseteq Nat /\ present \subseteq 1..n
      BY <1>1, <2>1
    <3> HIDE DEF present
    <3> QED
      BY <3>1, MinOfNats
  <2>3. gone \in 0..n /\ (gone = n <=> present = {}) /\ (present # {} => gone = Min(present) - 1)
    <3>1. gone = IF present = {} THEN n ELSE Min(present) - 1
      BY <1>1
    <3>2. present # {} => Min(present) \in 1..n
      BY <2>2
    <3> HIDE DEF present, gone
    <3> QED
      BY <3>1, <3>2
  <2>4. PICK g \in 0..n : g = gone
    BY <2>3
  <2>5. /\ entries' \in Seq(Slots) /\ Len(entries') = n - g
        /\ \A i \in 1..(n - g) : entries'[i] = entries[i + g]
    <3> HIDE DEF gone, present
    <3>1. entries' = SubSeq(entries, g + 1, n)
      BY <1>0, <1>1, <2>4
    <3>2. g + 1 \in 1..(n + 1) /\ g + 1 <= n + 1
      OBVIOUS
    <3>3. SubSeq(entries, g + 1, n) \in Seq(Slots) /\ Len(SubSeq(entries, g + 1, n)) = n - g
      BY <1>1, <3>2
    <3>4. ASSUME NEW i \in 1..(n - g) PROVE SubSeq(entries, g + 1, n)[i] = entries[i + g]
      <4>1. SubSeq(entries, g + 1, n)[i] = entries[(g + 1) + i - 1] /\ (g + 1) + i - 1 = i + g
        BY <1>1, <3>2
      <4> QED
        BY <4>1
    <3> QED
      BY <3>1, <3>3, <3>4
  <2>6. firstPacket' = IF g = n THEN Invalid ELSE f + g
    BY <1>0, <1>1, <2>0, <2>4
  <2>7. \A i \in 1..n : entries[i] # <<>> => entries[i][1].pn = f + i - 1 /\ entries[i][1].acked <= totals.acked
    BY <1>1, <2>0 DEF SamplerInv, QueueInv
  <2>8. f + n - 1 <= lastSentPacket
    BY <1>1, <1>3, <2>0 DEF SamplerInv, QueueInv
  <2>9. ASSUME NEW p \in open
        PROVE  /\ p \in Nat /\ p - f + 1 \in 1..n /\ entries[p - f + 1] # <<>> /\ g < n /\ g < p - f + 1
    <3>1. p \in Nat /\ f <= p /\ p - f + 1 <= n /\ entries[p - f + 1] # <<>> /\ p >= pn
      BY <1>1, <2>0 DEF SamplerInv, SamplerTypeOK, QueueInv
    <3>2. PICK i \in 1..n : i = p - f + 1
      BY <2>0, <3>1
    <3>3. below < i
      BY <2>0, <2>1, <3>1, <3>2
    <3>4. i \in present
      BY <1>1, <2>1, <3>1, <3>2, <3>3
    <3>5. gone < n /\ gone < i
      <4> HIDE DEF present, gone
      <4>1. present # {} /\ Min(present) <= i /\ Min(present) \in 1..n
        BY <2>2, <3>4
      <4> QED
        BY <2>3, <3>2, <4>1
    <3> QED
      BY <2>4, <3>1, <3>2, <3>5
  <2>10. CASE g = n
    <3>1. open = {} /\ Len(entries') = 0 /\ entries' = <<>> /\ DOMAIN entries' = {}
      BY <2>5, <2>9, <2>10
    <3> QED
      BY <2>5, <2>6, <2>10, <3>1
  <2>11. CASE g # n
    <3>1. g + 1 \in present
      <4>1. present # {}
        BY <2>3, <2>4, <2>11
      <4> HIDE DEF present
      <4>2. g = Min(present) - 1 /\ Min(present) \in 1..n
        BY <2>2, <2>4, <4>1
      <4> QED
        BY <2>2, <4>1, <4>2
    <3>2. n - g >= 1 /\ entries'[1] # <<>> /\ entries' # <<>>
      <4>1. n - g >= 1 /\ 1 \in 1..(n - g) /\ 1 + g = g + 1
        BY <2>11
      <4>2. entries[g + 1] # <<>>
        BY <3>1
      <4> QED
        BY <2>5, <4>1, <4>2
    <3>3. firstPacket' = f + g /\ firstPacket' \in Nat /\ firstPacket' # Invalid
      BY <2>6, <2>11 DEF Invalid
    <3>4. f + g + (n - g) - 1 <= lastSentPacket
      BY <2>8
    <3>5. ASSUME NEW i \in DOMAIN entries', entries'[i] # <<>>
          PROVE  entries'[i][1].pn = f + g + i - 1 /\ entries'[i][1].acked <= totals.acked
      <4>1. i \in 1..(n - g) /\ entries'[i] = entries[i + g] /\ i + g \in 1..n
        BY <2>5
      <4>2. entries[i + g][1].pn = f + (i + g) - 1 /\ entries[i + g][1].acked <= totals.acked
        BY <2>7, <3>5, <4>1
      <4>3. f + (i + g) - 1 = f + g + i - 1
        BY <4>1
      <4> QED
        BY <4>1, <4>2, <4>3
    <3>6. ASSUME NEW p \in open
          PROVE  f + g <= p /\ p - (f + g) + 1 <= n - g /\ entries'[p - (f + g) + 1] # <<>>
      <4>1. PICK i \in 1..(n - g) : i = p - (f + g) + 1 /\ i + g = p - f + 1 /\ f + g <= p
        BY <2>9
      <4>2. entries'[i] = entries[i + g]
        BY <2>5
      <4>3. entries[i + g] # <<>> /\ i <= n - g
        BY <2>9, <4>1
      <4> QED
        BY <4>1, <4>2, <4>3, Zenon
    <3> QED
      BY <2>5, <3>2, <3>3, <3>4, <3>5, <3>6
  <2> QED
    BY <2>10, <2>11
<1> QED
  BY <1>2, <1>3

-----------------------------------------------------------------------------
(* BandwidthSampler: OnCongestionEventEx *)

\* QUIC gives up the packets that RemoveObsoletePackets forgets.
LEMMA OpenIsUnacked ==
  ASSUME SamplerInv, NEW acked, acked \subseteq outstanding, NEW lost \in LossesOf(acked), acked \cup lost # {}
  PROVE  /\ LeastUnacked(acked, lost) \in Int
         /\ \A p \in outstanding \ (acked \cup lost) : p >= LeastUnacked(acked, lost)
         /\ lost \subseteq outstanding
         /\ Max(acked \cup {largestAcked}) \in Nat \cup {Invalid} /\ Max(acked \cup {largestAcked}) <= lastSentPacket
<1> DEFINE top == Max(acked \cup {largestAcked})
           open == outstanding \ acked
<1>0. /\ lastSentPacket \in Int /\ outstanding \subseteq Int /\ \A p \in outstanding : p <= lastSentPacket /\ p \in Nat
      /\ largestAcked \in Int /\ largestAcked <= lastSentPacket /\ largestAcked \in Nat \cup {Invalid}
  BY DEF SamplerInv, SamplerTypeOK, Invalid
<1>1. /\ lost \subseteq open /\ {p \in open : p <= top - PacketThreshold} \subseteq lost
      /\ \A p \in lost, q \in open : q < p => q \in lost
  BY DEF LossesOf
<1>2. top \in acked \cup {largestAcked} /\ \A y \in acked \cup {largestAcked} : y <= top
  <2>1. acked \cup {largestAcked} \subseteq Int /\ \A y \in acked \cup {largestAcked} : y <= lastSentPacket
    BY <1>0
  <2> QED
    BY <1>0, <2>1, MaxOfBounded
<1> HIDE DEF top
<1>3. top \in Int /\ top \in Nat \cup {Invalid} /\ top <= lastSentPacket
  BY <1>0, <1>2
<1>4. CASE acked # {}
  <2>1. Max(acked) \in acked
    <3>1. acked \subseteq Int /\ \A y \in acked : y <= lastSentPacket
      BY <1>0
    <3> QED
      BY <1>0, <1>4, <3>1, MaxOfBounded
  <2>2. LeastUnacked(acked, lost) = Max(acked) - 2 /\ Max(acked) \in Int /\ Max(acked) <= top
    BY <1>0, <1>2, <1>4, <2>1 DEF LeastUnacked
  <2>3. ASSUME NEW p \in outstanding \ (acked \cup lost) PROVE p >= Max(acked) - 2
    <3>1. p \in open /\ p \in Int /\ ~(p <= top - PacketThreshold)
      BY <1>0, <1>1
    <3>2. PacketThreshold \in 0..3
      BY SamplerAssumption
    <3> QED
      BY <1>3, <2>2, <3>1, <3>2
  <2> QED
    BY <1>1, <1>3, <2>2, <2>3 DEF top
<1>5. CASE acked = {}
  <2>1. Max(lost) \in lost
    <3>1. lost \subseteq Int /\ lost # {} /\ \A y \in lost : y <= lastSentPacket
      BY <1>0, <1>1, <1>5
    <3> QED
      BY <1>0, <3>1, MaxOfBounded
  <2>2. LeastUnacked(acked, lost) = Max(lost) + 1 /\ Max(lost) \in Int
    BY <1>0, <1>1, <1>5, <2>1 DEF LeastUnacked
  <2>3. ASSUME NEW p \in outstanding \ (acked \cup lost) PROVE p >= Max(lost) + 1
    <3>1. p \in open /\ p \in Int /\ p \notin lost
      BY <1>0
    <3>2. ~(p < Max(lost)) /\ p # Max(lost)
      BY <1>1, <2>1, <3>1
    <3> QED
      BY <2>2, <3>1, <3>2
  <2> QED
    BY <1>1, <1>3, <2>2, <2>3 DEF top
<1> QED
  BY <1>4, <1>5

\* onAckEventEnd adds a point of the event to the candidates, or none.
LEMMA EventEndKeeps ==
  ASSUME NEW s, Carried(s), NEW round, NEW best, EventEnd(s, round, best)
  PROVE  a0Candidates' \in Seq(Points(s.acked))
<1>1. LessRecent(s.points) \in Points(s.acked) /\ s.cand \in Seq(Points(s.acked))
  BY DEF LessRecent, Carried
<1>2. a0Candidates' = s.cand \/ a0Candidates' = Append(s.cand, LessRecent(s.points))
  BY DEF EventEnd
<1> QED
  BY <1>1, <1>2

LEMMA CongestionEventKeeps ==
  ASSUME SamplerInv, NEW acked, acked \subseteq outstanding, NEW lost \in LossesOf(acked),
         CongestionEvent(acked, lost)
  PROVE  SamplerInv'
<1> DEFINE phase0 == IF Cardinality(outstanding) < TargetPackets THEN [limited |-> TRUE, end |-> lastSentPacket]
                     ELSE appPhase
           s0 == [acked |-> totals.acked, points |-> ackPoints, phase |-> phase0, last |-> lastAckedAt,
                  cand |-> a0Candidates, rate |-> 0, forward |-> slopesForward]
<1>0. SamplerTypeOK /\ QueueInv /\ PointsInv
  BY DEF SamplerInv
<1>1. Carried(s0)
  <2>1. phase0 \in Phase
    BY <1>0 DEF SamplerTypeOK, Phase, Invalid
  <2> HIDE DEF phase0
  <2>2. totals.acked \in Nat /\ lastAckedAt \in Stamp
    BY <1>0 DEF SamplerTypeOK
  <2> QED
    BY <1>0, <2>1, <2>2 DEF PointsInv, Carried
<1>2. PICK s : s = AcknowledgedAll(s0, acked) /\ Carried(s)
  BY <1>0, <1>1, AcknowledgedAllCarries
<1>3. /\ acked \cup lost # {}
      /\ totals' = [totals EXCEPT !.acked = s.acked, !.lost = @ + Cardinality(lost)]
      /\ lastAckedAt' = s.last /\ ackPoints' = s.points /\ appPhase' = s.phase
      /\ RemoveUpTo(LeastUnacked(acked, lost))
      /\ outstanding' = outstanding \ (acked \cup lost)
      /\ largestAcked' = Max(acked \cup {largestAcked})
      /\ slopesForward' = s.forward /\ UNCHANGED <<lastSentPacket, clockNow>>
  BY <1>2 DEF CongestionEvent
<1>4. a0Candidates' = s.cand \/ \E round, best : EventEnd(s, round, best)
  BY <1>2 DEF CongestionEvent
<1>5. /\ LeastUnacked(acked, lost) \in Int
      /\ \A p \in outstanding \ (acked \cup lost) : p >= LeastUnacked(acked, lost)
      /\ lost \subseteq outstanding
      /\ largestAcked' \in Nat \cup {Invalid} /\ largestAcked' <= lastSentPacket
  BY <1>3, OpenIsUnacked
<1>6. Cardinality(lost) \in Nat
  <2>1. lastSentPacket \in Int /\ lost \subseteq 0..lastSentPacket
    BY <1>0, <1>5 DEF SamplerTypeOK, Invalid
  <2>2. IsFiniteSet(0..lastSentPacket)
    BY <2>1, FS_Interval
  <2> QED
    BY <2>1, <2>2, FS_Subset, FS_CardinalityType
<1>7. totals' \in [sent : Nat, acked : Nat, lost : Nat] /\ totals'.acked = s.acked /\ totals.acked <= s.acked
      /\ s.acked \in Nat /\ totals.acked \in Nat
  <2>1. s.acked \in Nat /\ totals.acked <= s.acked
    BY <1>2 DEF Carried
  <2>2. totals \in [sent : Nat, acked : Nat, lost : Nat] /\ totals.lost + Cardinality(lost) \in Nat
    BY <1>0, <1>6 DEF SamplerTypeOK
  <2>3. totals' = [totals EXCEPT !.acked = s.acked, !.lost = totals.lost + Cardinality(lost)]
    BY <1>3
  <2> QED
    BY <2>1, <2>2, <2>3
<1>8. PICK open : open = outstanding \ (acked \cup lost) /\ open \subseteq outstanding /\ open = outstanding'
  BY <1>3
<1>9. /\ entries' \in Seq(Slots) /\ firstPacket' \in Nat \cup {Invalid}
      /\ entries' = <<>> => firstPacket' = Invalid
      /\ entries' # <<>> => /\ firstPacket' # Invalid /\ entries'[1] # <<>>
                            /\ firstPacket' + Len(entries') - 1 <= lastSentPacket
      /\ \A i \in DOMAIN entries' :
            entries'[i] # <<>> => entries'[i][1].pn = firstPacket' + i - 1 /\ entries'[i][1].acked <= totals.acked
      /\ \A p \in open :
            /\ firstPacket' # Invalid /\ firstPacket' <= p /\ p - firstPacket' + 1 <= Len(entries')
            /\ entries'[p - firstPacket' + 1] # <<>>
  <2>1. PICK pn \in Int : pn = LeastUnacked(acked, lost)
    BY <1>5
  <2>2. RemoveUpTo(pn) /\ \A p \in open : p >= pn
    BY <1>3, <1>5, <1>8, <2>1
  <2> QED
    BY <1>8, <2>2, RemoveKeeps
<1>10. SamplerTypeOK'
  <2>1. lastAckedAt' \in Stamp /\ appPhase' \in Phase
    BY <1>2, <1>3 DEF Carried
  <2>2. outstanding' \subseteq 0..lastSentPacket
    BY <1>0, <1>3 DEF SamplerTypeOK
  <2> QED
    BY <1>0, <1>3, <1>5, <1>7, <1>9, <2>1, <2>2 DEF SamplerTypeOK
<1>11. QueueInv'
  <2>1. ASSUME NEW i \in DOMAIN entries', entries'[i] # <<>>
        PROVE  entries'[i][1].acked <= totals'.acked
    <3>1. entries'[i] \in Slots
      BY <1>9
    <3>2. PICK e \in Sent : entries'[i] = <<e>>
      BY <2>1, <3>1 DEF Slots
    <3>3. entries'[i][1] = e /\ e.acked \in Nat
      BY <3>2 DEF Sent
    <3>4. entries'[i][1].acked <= totals.acked /\ entries'[i][1].acked \in Nat
      BY <1>9, <2>1, <3>3
    <3> QED
      BY <1>7, <3>4
  <2> QED
    BY <1>3, <1>8, <1>9, <2>1 DEF QueueInv
<1>12. PointsInv'
  <2>1. a0Candidates' \in Seq(Points(s.acked))
    BY <1>2, <1>4, EventEndKeeps DEF Carried
  <2> QED
    BY <1>2, <1>3, <1>7, <2>1 DEF PointsInv, Carried
<1> QED
  BY <1>10, <1>11, <1>12 DEF SamplerInv

LEMMA SamplerStep == SamplerInv /\ [NextSampler]_samplerVars => SamplerInv'
<1> SUFFICES ASSUME SamplerInv, [NextSampler]_samplerVars PROVE SamplerInv'
  OBVIOUS
<1>1. ASSUME NEW pn \in 0..MaxPacket, OnPacketSent(pn) PROVE SamplerInv'
  BY <1>1, PacketSentKeeps
<1>2. ASSUME NEW pn \in 0..MaxPacket, OnPacketSentAckOnly(pn) PROVE SamplerInv'
  BY <1>2, AckOnlyKeeps
<1>3. ASSUME NEW acked \in SUBSET outstanding, NEW lost \in LossesOf(acked), CongestionEvent(acked, lost)
      PROVE  SamplerInv'
  BY <1>3, CongestionEventKeeps
<1>4. ASSUME SamplerTick PROVE SamplerInv'
  <2>1. clockNow' \in Nat
    BY <1>4 DEF SamplerTick, SamplerInv, SamplerTypeOK
  <2> QED
    BY <1>4, <2>1 DEF SamplerTick, SamplerInv, SamplerTypeOK, QueueInv, PointsInv
<1>5. CASE UNCHANGED samplerVars
  BY <1>5 DEF samplerVars, SamplerInv, SamplerTypeOK, QueueInv, PointsInv
<1> QED
  BY <1>1, <1>2, <1>3, <1>4, <1>5 DEF NextSampler

\* bandwidth_sampler.go, packet_number_indexed_queue.go: for any number of
\* packets, gaps and orders of acknowledgement, every outstanding packet is in
\* the slot of its own number, and every rate is taken from a point A0 behind it.
THEOREM SamplerSamplesAtSend == SpecSampler => []SampledAtSend
  BY InitSamplerInv, SamplerStep, SamplerInvSuffices, PTL DEF SpecSampler
=============================================================================
