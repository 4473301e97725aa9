--------------------------- MODULE WindowedFilter ---------------------------
(***************************************************************************)
(* The windowed maximum of core/internal/congestion/bbr/windowed_filter.go *)
(* (Kathleen Nichols' algorithm).  BBR keeps its bandwidth estimate in one *)
(* filter and the ack height of its sampler in another, both over round    *)
(* trips.  The three estimates are the best, second and third best sample  *)
(* with the time each was taken.                                           *)
(***************************************************************************)
EXTENDS Naturals, Sequences

CONSTANTS
    Samples,       \* the values that are measured
    WindowLength,  \* windowLength
    MaxTime        \* bound on the time (round trips)

ASSUME SamplesAssumption == Samples \subseteq Nat
ASSUME WindowAssumption == WindowLength \in Nat

VARIABLES
    estimates,     \* the three entries
    filterTime,    \* the time of the last update
    lastSample     \* history: the last sample

filterVars == <<estimates, filterTime, lastSample>>

NoEntry == [sample |-> 0, time |-> 0]
Entry(s, t) == [sample |-> s, time |-> t]

\* The estimates after Clear, and of a new filter.
Cleared == <<NoEntry, NoEntry, NoEntry>>

InitFilter ==
    /\ estimates = Cleared
    /\ filterTime = 0 /\ lastSample = 0

-----------------------------------------------------------------------------
\* Reset.  An entry has a sample and a time, and whatever its user adds.
Reset(new) == <<new, new, new>>

\* A sample as good as the second or the third best replaces them.
Ranked(e, new) ==
    IF new.sample >= e[2].sample THEN <<e[1], new, new>>
    ELSE IF new.sample >= e[3].sample THEN <<e[1], e[2], new>>
    ELSE e

\* Mutation: the other estimates move up once, however old they are.
ExpiredOnce(e, new) == <<e[2], e[3], new>>

\* The best estimate is older than the window: the others move up, once more
\* if the second was that old too.
Expired(e, new) ==
    LET p == <<e[2], e[3], new>>
    IN IF new.time - p[1].time > WindowLength THEN <<p[2], p[3], p[3]>> ELSE p

\* Nothing better in a quarter (half) of the window: the second (third) best is
\* taken from the newest sample.
Renewed(e, new) ==
    IF e[2].sample = e[1].sample /\ new.time - e[2].time > WindowLength \div 4 THEN <<e[1], new, new>>
    ELSE IF e[3].sample = e[2].sample /\ new.time - e[3].time > WindowLength \div 2 THEN <<e[1], e[2], new>>
    ELSE e

\* Update.
Updated(e, new) ==
    LET r == Ranked(e, new)
    IN IF e[1].sample = 0 \/ new.sample >= e[1].sample \/ new.time - e[3].time > WindowLength THEN Reset(new)
       ELSE IF new.time - r[1].time > WindowLength THEN Expired(r, new)
       ELSE Renewed(r, new)

GetBest(e) == e[1].sample

-----------------------------------------------------------------------------
\* A sample of the present round trip or of a later one.
Update(s, t) ==
    /\ t >= filterTime
    /\ estimates' = Updated(estimates, Entry(s, t))
    /\ filterTime' = t /\ lastSample' = s

\* ResetMaxAckHeightTracker, when the bandwidth grew in STARTUP.
ResetFilter(t) ==
    /\ t >= filterTime
    /\ estimates' = Reset(Entry(0, t))
    /\ filterTime' = t /\ lastSample' = 0

NextFilter == \E t \in 0..MaxTime : ResetFilter(t) \/ \E s \in Samples : Update(s, t)

SpecFilter == InitFilter /\ [][NextFilter]_filterVars

-----------------------------------------------------------------------------
(* Properties *)

\* After any sequence of updates the estimates are ordered by value and by
\* time, the best is no worse than the newest sample and was taken within the
\* window, so a measurement that the path no longer supports cannot govern the
\* sending rate for longer than the window.
FilterFresh ==
    /\ \A i \in 1..2 : /\ estimates[i].sample >= estimates[i + 1].sample
                       /\ estimates[i].time <= estimates[i + 1].time
    /\ GetBest(estimates) >= lastSample
    /\ estimates[3].time <= filterTime
    /\ GetBest(estimates) # 0 => filterTime - estimates[1].time <= WindowLength
=============================================================================
