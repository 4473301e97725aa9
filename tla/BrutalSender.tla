---------------------------- MODULE BrutalSender ----------------------------
(***************************************************************************)
(* The fixed-rate sender of core/internal/congestion/brutal/brutal.go and  *)
(* the token bucket that paces it (common/pacer.go).  A ring of one slot   *)
(* per second counts acknowledged and lost packets; the rate is raised by  *)
(* the share that is lost, down to minAckRate.  Shares are in tenths.  The *)
(* pacer counts bytes per unit of time, OneSecond of which make a second.  *)
(***************************************************************************)
EXTENDS Integers, FiniteSetsExt

CONSTANTS
    SlotCount,        \* pktInfoSlotCount
    MinSampleCount,   \* minSampleCount
    Bps,              \* the configured rate, bytes per second
    OneSecond,        \* units of time in a second
    MinPacingDelay,   \* congestion.MinPacingDelay, in units
    BurstPackets, BurstDelays,   \* maxBurstPackets, maxBurstPacingDelayMultiplier
    BrutalSizes,      \* datagram sizes of the path
    BrutalAcks,       \* packets acknowledged (lost) by one event
    MaxPerSecond,     \* bound on the packets counted in a second
    MaxUnits          \* bound on the clock

\* The sender is used only with a rate that is not 0.
ASSUME BrutalAssumption ==
    /\ SlotCount \in Nat \ {0} /\ MinSampleCount \in Nat \ {0}
    /\ Bps \in Nat \ {0} /\ OneSecond \in Nat \ {0} /\ MinPacingDelay \in Nat
    /\ BurstPackets \in Nat \ {0} /\ BurstDelays \in Nat
    /\ BrutalSizes \subseteq Nat \ {0} /\ BrutalSizes # {}
    /\ BrutalAcks \subseteq Nat /\ MaxUnits \in Nat \ {0}

MinAckRate == 8       \* minAckRate

VARIABLES
    slots,            \* pktInfoSlots
    ackRate,
    lossCompensation,
    brutalSize,       \* maxDatagramSize
    budgetAtLastSent, lastSentTime,   \* the pacer; 0 is the zero time
    brutalNow,
    lastEvent,        \* history: the second of the last event
    counted           \* history: acknowledged and lost in every second

brutalVars == <<slots, ackRate, lossCompensation, brutalSize, budgetAtLastSent, lastSentTime,
                brutalNow, lastEvent, counted>>

Initial == Min(BrutalSizes)
NoCount == [ack |-> 0, loss |-> 0]
Timestamp == brutalNow \div OneSecond

InitBrutal ==
    /\ slots = [i \in 0..(SlotCount - 1) |-> [time |-> 0, ack |-> 0, loss |-> 0]]
    /\ ackRate = 10 /\ lossCompensation \in BOOLEAN
    /\ brutalSize = Initial
    /\ budgetAtLastSent = BurstPackets * Initial /\ lastSentTime = 0
    /\ brutalNow = 1 /\ lastEvent = 0
    /\ counted = [t \in 0..(MaxUnits \div OneSecond) |-> NoCount]

-----------------------------------------------------------------------------
(* brutal.go *)

\* OnCongestionEventEx: the slot of the second counts, or starts anew.
Counted(a, l) ==
    LET i == Timestamp % SlotCount
        old == IF slots[i].time = Timestamp THEN slots[i] ELSE [time |-> Timestamp, ack |-> 0, loss |-> 0]
    IN [slots EXCEPT ![i] = [old EXCEPT !.ack = @ + a, !.loss = @ + l]]

\* Mutation: slots that are too old count too.
InWindowAlways(slot) == TRUE

\* The slots that updateAckRate counts.
InWindow(slot) == slot.time >= Timestamp - SlotCount

\* The sum of f[0] to f[n - 1].
SumTo(f, n) ==
    LET sum[i \in 0..n] == IF i = 0 THEN 0 ELSE sum[i - 1] + f[i - 1]
    IN sum[n]

\* The share acknowledged of a and l packets, if they are enough.
Share(a, l) ==
    IF ~lossCompensation \/ a + l < MinSampleCount THEN 10
    ELSE Max({MinAckRate, (10 * a) \div (a + l)})

\* updateAckRate
RateOf(ring) ==
    Share(SumTo([i \in 0..(SlotCount - 1) |-> IF InWindow(ring[i]) THEN ring[i].ack ELSE 0], SlotCount),
          SumTo([i \in 0..(SlotCount - 1) |-> IF InWindow(ring[i]) THEN ring[i].loss ELSE 0], SlotCount))

\* OnCongestionEventEx
BrutalOnCongestionEventEx(a, l) ==
    /\ slots' = Counted(a, l)
    /\ ackRate' = RateOf(Counted(a, l))
    /\ lastEvent' = Timestamp
    /\ counted' = [counted EXCEPT ![Timestamp] = [ack |-> @.ack + a, loss |-> @.loss + l]]
    /\ UNCHANGED <<lossCompensation, brutalSize, budgetAtLastSent, lastSentTime, brutalNow>>

-----------------------------------------------------------------------------
(* pacer.go *)

\* getBandwidth of NewBrutalSender, bytes per second.
Bandwidth == (Bps * 10) \div ackRate

MaxBurstSize == Max({(BurstDelays * MinPacingDelay * Bandwidth) \div OneSecond, BurstPackets * brutalSize})

Budget(now) ==
    IF lastSentTime = 0 THEN MaxBurstSize
    ELSE Min({MaxBurstSize, budgetAtLastSent + (Bandwidth * (now - lastSentTime)) \div OneSecond})

\* The time in which the missing bytes accrue, rounded up.
Delay(missing) == (OneSecond * missing + Bandwidth - 1) \div Bandwidth

\* TimeUntilSend: 0 is "now".
TimeUntilSend ==
    IF budgetAtLastSent >= brutalSize THEN 0
    ELSE lastSentTime + Max({MinPacingDelay, Delay(brutalSize - budgetAtLastSent)})

\* OnPacketSent calls SentPacket of the pacer.
BrutalOnPacketSent(size) ==
    /\ budgetAtLastSent' = Max({0, Budget(brutalNow) - size})
    /\ lastSentTime' = brutalNow
    /\ UNCHANGED <<slots, ackRate, lossCompensation, brutalSize, brutalNow, lastEvent, counted>>

\* SetMaxDatagramSize
BrutalSetMaxDatagramSize(s) ==
    /\ s > brutalSize
    /\ brutalSize' = s
    /\ UNCHANGED <<slots, ackRate, lossCompensation, budgetAtLastSent, lastSentTime, brutalNow,
                   lastEvent, counted>>

BrutalTick ==
    /\ brutalNow < MaxUnits
    /\ brutalNow' = brutalNow + 1
    /\ UNCHANGED <<slots, ackRate, lossCompensation, brutalSize, budgetAtLastSent, lastSentTime,
                   lastEvent, counted>>

NextBrutal ==
    \/ \E a, l \in BrutalAcks :
          /\ counted[Timestamp].ack + counted[Timestamp].loss + a + l <= MaxPerSecond
          /\ BrutalOnCongestionEventEx(a, l)
    \/ \E s \in BrutalSizes : BrutalSetMaxDatagramSize(s) \/ (s <= brutalSize /\ BrutalOnPacketSent(s))
    \/ BrutalTick

SpecBrutal == InitBrutal /\ [][NextBrutal]_brutalVars

-----------------------------------------------------------------------------
(* Properties *)

\* The rate is computed from exactly the packets of the last SlotCount seconds,
\* though the ring never clears a slot of a second in which nothing happened.
CountedIn(t) == IF t \in DOMAIN counted THEN counted[t] ELSE NoCount
RateOfRecentSeconds ==
    ackRate = Share(SumTo([k \in 0..(SlotCount - 1) |-> CountedIn(lastEvent - k).ack], SlotCount),
                    SumTo([k \in 0..(SlotCount - 1) |-> CountedIn(lastEvent - k).loss], SlotCount))

\* At the time that TimeUntilSend names there is budget for a datagram, with
\* whatever bandwidth and datagram size the sender has meanwhile: otherwise the
\* send loop of quic-go would wake up and wait for a time that is past.
WakesWithBudget ==
    IF TimeUntilSend = 0 THEN Budget(brutalNow) >= brutalSize
    ELSE Budget(TimeUntilSend) >= brutalSize

\* The rate follows the losses of the recent seconds only, and a sender the pacer puts to sleep
\* is woken when it may send (brutal.go, pacer.go).
BrutalPaces == RateOfRecentSeconds /\ WakesWithBudget
=============================================================================
