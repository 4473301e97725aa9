-------------------------- MODULE ClientUDPProofs --------------------------
(***************************************************************************)
(* The client's session manager never sends on a closed channel, for any   *)
(* number of sessions and any width of the session ID, wrapped or not: the *)
(* invariant is inductive with the types once it also says that a session  *)
(* gets its ID before anything else happens to it.  As long as nextID has  *)
(* not wrapped (fewer sessions than IDs), every open session stays in the  *)
(* map and receives its own answers only; the induction counts the         *)
(* sessions opened and follows each answer from the network to its reader. *)
(***************************************************************************)
EXTENDS ClientUDP, FiniteSets, FiniteSetTheorems, TLAPS

\* A session that NewUDP has not returned is not closed.
FreshInv == \A c \in Conns : ~Created(c) => ~connClosed[c]

IInv == TypeOK /\ FreshInv /\ MappedIsOpen

LEMMA IDsAreNat == IDs \subseteq Nat /\ NoID \notin IDs /\ 1 \in IDs
  BY IDModAssumption DEF IDs, NoID

\* nextID wraps within its width.
LEMMA NextIDType == \A i \in IDs : (i + 1) % IDMod \in IDs
  BY IDModAssumption DEF IDs

\* newUDPSessionManager's state satisfies the invariant.
LEMMA InitIInv == Init => IInv
<1> SUFFICES ASSUME Init PROVE IInv
  OBVIOUS
<1> USE DEF Init
<1>1. quic \in BOOLEAN /\ closed \in BOOLEAN /\ connClosed \in [Conns -> BOOLEAN]
  OBVIOUS
<1>2. /\ id \in [Conns -> IDs \cup {NoID}] /\ m \in [IDs -> Conns \cup {NoConn}]
      /\ got \in [Conns -> SUBSET Answers] /\ reader \in [Conns -> {"idle", "wait", "eof"}]
  OBVIOUS
<1>3. ch \in [Conns -> Seq(Answers)] /\ \A c \in Conns : Len(ch[c]) <= ChanSize
  <2>1. <<>> \in Seq(Answers) /\ Len(<<>>) <= ChanSize
    BY BoundsAssumption
  <2>2. ch = [c \in Conns |-> <<>>]
    OBVIOUS
  <2> HIDE DEF Init
  <2> QED
    BY <2>1, <2>2
<1>4. TypeOK
  BY <1>1, <1>2, <1>3, IDsAreNat, BoundsAssumption DEF TypeOK
<1>5. FreshInv /\ MappedIsOpen
  BY DEF FreshInv, MappedIsOpen, Created
<1> QED
  BY <1>4, <1>5 DEF IInv

\* Every step keeps the types.
LEMMA TypeStep == TypeOK /\ [Next]_vars => TypeOK'
<1> SUFFICES ASSUME TypeOK, [Next]_vars PROVE TypeOK'
  OBVIOUS
<1> USE DEF TypeOK, envVars, mgrVars
<1>1. ASSUME NEW c \in Conns, NewUDP(c) PROVE TypeOK'
  BY NextIDType, <1>1 DEF NewUDP
<1>2. ASSUME NEW c \in Conns, CloseFunc(c) PROVE TypeOK'
  BY <1>2 DEF CloseFunc, Close, Created
<1>3. ASSUME NEW c \in Conns, ReceiveCall(c) PROVE TypeOK'
  BY <1>3 DEF ReceiveCall
<1>4. ASSUME NEW c \in Conns, ReceiveMsg(c) PROVE TypeOK'
  <2>1. ch[c] \in Seq(Answers) /\ ch[c] # <<>> /\ Len(ch[c]) <= ChanSize
    BY <1>4 DEF ReceiveMsg
  <2>2. Tail(ch[c]) \in Seq(Answers) /\ Len(Tail(ch[c])) <= ChanSize /\ Head(ch[c]) \in Answers
    BY <2>1, BoundsAssumption
  <2>3. ch' \in [Conns -> Seq(Answers)] /\ \A d \in Conns : Len(ch'[d]) <= ChanSize
    BY <1>4, <2>2 DEF ReceiveMsg
  <2>4. got' \in [Conns -> SUBSET Answers]
    BY <1>4, <2>2 DEF ReceiveMsg
  <2> QED
    BY <1>4, <2>3, <2>4 DEF ReceiveMsg
<1>5. ASSUME NEW c \in Conns, ReceiveEOF(c) PROVE TypeOK'
  BY <1>5 DEF ReceiveEOF
<1>6. ASSUME NEW c \in Conns, Answer(c) PROVE TypeOK'
  <2>1. [sid |-> id[c], for |-> c] \in Answers
    BY <1>6 DEF Answer, Answers, Created
  <2>2. answered' \in 0..MaxAnswers
    BY BoundsAssumption, <1>6 DEF Answer
  <2> QED
    BY <2>1, <2>2, <1>6 DEF Answer
<1>7. ASSUME NEW a \in net, ReceiveMessage(a) PROVE TypeOK'
  BY <1>7 DEF ReceiveMessage
<1>8. ASSUME NEW a \in msg, Feed(a) PROVE TypeOK'
  <2> DEFINE c == m[a.sid]
  <2>1. CASE c # NoConn /\ Len(ch[c]) < ChanSize
    <3>1. a \in Answers /\ a.sid \in IDs /\ c \in Conns /\ ch[c] \in Seq(Answers)
      BY <2>1 DEF Answers
    <3>2. Append(ch[c], a) \in Seq(Answers) /\ Len(Append(ch[c], a)) <= ChanSize
      BY <2>1, <3>1, BoundsAssumption
    <3>3. ch' = [ch EXCEPT ![c] = Append(ch[c], a)]
      BY <1>8, <2>1 DEF Feed
    <3> HIDE DEF c
    <3>4. ch' \in [Conns -> Seq(Answers)] /\ \A d \in Conns : Len(ch'[d]) <= ChanSize
      BY <3>1, <3>2, <3>3
    <3> QED
      BY <1>8, <3>4 DEF Feed
  <2>2. CASE ~(c # NoConn /\ Len(ch[c]) < ChanSize)
    BY <1>8, <2>2 DEF Feed
  <2> QED
    BY <2>1, <2>2
<1>9. CASE ReceiveError
  BY <1>9 DEF ReceiveError
<1>10. CASE CloseCleanup
  BY <1>10 DEF CloseCleanup
<1>11. CASE QuicClose
  BY <1>11 DEF QuicClose
<1>12. CASE UNCHANGED vars
  BY <1>12 DEF vars
<1>13. CASE Finished
  BY <1>13 DEF Finished, vars
<1> QED
  BY <1>1, <1>2, <1>3, <1>4, <1>5, <1>6, <1>7, <1>8, <1>9, <1>10, <1>11, <1>12, <1>13 DEF Next

\* Every step keeps the sessions of the map open.
LEMMA MapStep == IInv /\ [Next]_vars => FreshInv' /\ MappedIsOpen'
<1> SUFFICES ASSUME IInv, [Next]_vars PROVE FreshInv' /\ MappedIsOpen'
  OBVIOUS
<1> USE NoConnAssumption, IDsAreNat DEF IInv, TypeOK, FreshInv, MappedIsOpen, Created, envVars, mgrVars
<1>1. ASSUME NEW c \in Conns, NewUDP(c) PROVE FreshInv' /\ MappedIsOpen'
  BY <1>1 DEF NewUDP
<1>2. ASSUME NEW c \in Conns, CloseFunc(c) PROVE FreshInv' /\ MappedIsOpen'
  <2>1. CASE connClosed[c]
    BY <1>2, <2>1 DEF CloseFunc, Close
  <2>2. CASE ~connClosed[c]
    <3>1. /\ id[c] \in IDs /\ id' = id
          /\ connClosed' = [connClosed EXCEPT ![c] = TRUE]
          /\ m' = [m EXCEPT ![id[c]] = NoConn]
      BY <1>2, <2>2 DEF CloseFunc, Close
    <3>2. FreshInv'
      BY <1>2, <3>1 DEF CloseFunc
    <3>3. ASSUME NEW i \in IDs, m'[i] # NoConn PROVE ~connClosed'[m'[i]] /\ id'[m'[i]] = i
      <4>1. i # id[c] /\ m'[i] = m[i]
        BY <3>1, <3>3
      <4>2. m[i] \in Conns /\ m[i] # c
        BY <3>3, <4>1
      <4> QED
        BY <3>1, <3>3, <4>1, <4>2
    <3> QED
      BY <3>2, <3>3
  <2> QED
    BY <2>1, <2>2
<1>3. ASSUME NEW c \in Conns, ReceiveCall(c) PROVE FreshInv' /\ MappedIsOpen'
  BY <1>3 DEF ReceiveCall
<1>4. ASSUME NEW c \in Conns, ReceiveMsg(c) PROVE FreshInv' /\ MappedIsOpen'
  BY <1>4 DEF ReceiveMsg
<1>5. ASSUME NEW c \in Conns, ReceiveEOF(c) PROVE FreshInv' /\ MappedIsOpen'
  BY <1>5 DEF ReceiveEOF
<1>6. ASSUME NEW c \in Conns, Answer(c) PROVE FreshInv' /\ MappedIsOpen'
  BY <1>6 DEF Answer
<1>7. ASSUME NEW a \in net, ReceiveMessage(a) PROVE FreshInv' /\ MappedIsOpen'
  BY <1>7 DEF ReceiveMessage
<1>8. ASSUME NEW a \in msg, Feed(a) PROVE FreshInv' /\ MappedIsOpen'
  BY <1>8 DEF Feed
<1>9. CASE ReceiveError
  BY <1>9 DEF ReceiveError
<1>10. CASE CloseCleanup
  <2>1. /\ connClosed' = [c \in Conns |-> connClosed[c] \/ \E i \in IDs : m[i] = c]
        /\ m' = [i \in IDs |-> NoConn] /\ id' = id
    BY <1>10 DEF CloseCleanup
  <2>2. MappedIsOpen'
    BY <2>1 DEF MappedIsOpen
  <2>3. ASSUME NEW c \in Conns, ~Created(c)' PROVE ~connClosed'[c]
    <3>1. ~Created(c) /\ ~connClosed[c]
      BY <2>1, <2>3 DEF Created
    <3>2. \A i \in IDs : m[i] # c
      BY <3>1, NoConnAssumption, IDsAreNat, ZenonT(40) DEF Created
    <3> QED
      BY <2>1, <3>1, <3>2
  <2> QED
    BY <2>2, <2>3
<1>11. CASE QuicClose
  BY <1>11 DEF QuicClose
<1>12. CASE UNCHANGED vars
  BY <1>12 DEF vars
<1>13. CASE Finished
  BY <1>13 DEF Finished, vars
<1> QED
  BY <1>1, <1>2, <1>3, <1>4, <1>5, <1>6, <1>7, <1>8, <1>9, <1>10, <1>11, <1>12, <1>13 DEF Next

\* The manager's state keeps its types, the channels their capacity.
THEOREM TypeCorrect == Spec => []TypeOK
<1>1. IInv /\ [Next]_vars => IInv'
  BY TypeStep, MapStep DEF IInv
<1>2. IInv => TypeOK
  BY DEF IInv
<1> QED
  BY <1>1, <1>2, InitIInv, PTL DEF Spec

\* feed never sends on a closed channel, whatever the width of the ID.
THEOREM MappedIsOpenThm == Spec => []MappedIsOpen
<1>1. IInv /\ [Next]_vars => IInv'
  BY TypeStep, MapStep DEF IInv
<1>2. IInv => MappedIsOpen
  BY DEF IInv
<1> QED
  BY <1>1, <1>2, InitIInv, PTL DEF Spec
-----------------------------------------------------------------------------
(* While fewer sessions are opened than there are IDs *)

OpenedConns == {c \in Conns : Created(c)}

\* IDs are handed out in order, so no two sessions have the same, and every answer that is
\* under way or buffered carries the ID of the session it is meant for.
OwnID(a) == Created(a.for) /\ a.sid = id[a.for]
IDInv ==
    /\ Cardinality(OpenedConns) + 1 < IDMod => nextID = Cardinality(OpenedConns) + 1
    /\ \A c \in OpenedConns : id[c] \in 1..Cardinality(OpenedConns)
    /\ \A c, d \in OpenedConns : id[c] = id[d] => c = d
AnswerInv ==
    /\ \A a \in net \cup msg : OwnID(a)
    /\ \A c \in Conns : \A i \in 1..Len(ch[c]) : OwnID(ch[c][i]) /\ ch[c][i].for = c
RunInv == run = "done" => closed

ReachInv == IInv /\ IDInv /\ AnswerInv /\ RunInv /\ SessionsReachable

LEMMA InitReach ==
  ASSUME Init
  PROVE  ReachInv
<1>1. IInv
  BY InitIInv
<1>2. OpenedConns = {} /\ Cardinality(OpenedConns) = 0
  <2>1. OpenedConns = {}
    BY DEF Init, OpenedConns, Created
  <2> QED
    BY <2>1, FS_EmptySet
<1>3. IDInv
  BY <1>2 DEF Init, IDInv
<1>4. AnswerInv /\ RunInv /\ SessionsReachable
  BY DEF Init, AnswerInv, RunInv, SessionsReachable, NoneOrphaned, OwnAnswersOnly, Created
<1> QED
  BY <1>1, <1>3, <1>4 DEF ReachInv

\* A step that opens and closes no session.
LEMMA ReachQuiet ==
  ASSUME ReachInv, IInv', AnswerInv', RunInv', OwnAnswersOnly',
         UNCHANGED <<id, nextID, m, connClosed>>, run' = "done" => run = "done"
  PROVE  ReachInv'
<1>1. IDInv'
  <2>1. OpenedConns' = OpenedConns
    BY DEF OpenedConns, Created
  <2> QED
    BY <2>1 DEF ReachInv, IDInv
<1>2. NoneOrphaned'
  BY DEF ReachInv, SessionsReachable, NoneOrphaned, Created
<1> QED
  BY <1>1, <1>2 DEF ReachInv, SessionsReachable

\* NewUDP gives an ID that no session has had.
LEMMA NewUDPReaches ==
  ASSUME IsFiniteSet(Conns), Cardinality(Conns) < IDMod, ReachInv, IInv', NEW c \in Conns, NewUDP(c)
  PROVE  ReachInv'
<1> DEFINE n == Cardinality(OpenedConns)
<1>0. IInv /\ TypeOK /\ FreshInv /\ IDInv /\ AnswerInv /\ RunInv /\ NoneOrphaned /\ OwnAnswersOnly
  BY DEF ReachInv, IInv, SessionsReachable
<1>1. /\ ~closed /\ c \notin OpenedConns /\ id' = [id EXCEPT ![c] = nextID] /\ m' = [m EXCEPT ![nextID] = c]
      /\ nextID' = (nextID + 1) % IDMod
      /\ UNCHANGED <<net, msg, run, closed, connClosed, ch, got>>
  BY DEF NewUDP, OpenedConns, envVars
<1>2. IsFiniteSet(OpenedConns) /\ n \in Nat
  BY FS_Subset, FS_CardinalityType DEF OpenedConns
<1>3. n + 1 < IDMod
  <2>1. OpenedConns \cup {c} \in SUBSET Conns
    BY DEF OpenedConns
  <2>2. Cardinality(OpenedConns \cup {c}) = n + 1
    BY <1>1, <1>2, FS_AddElement
  <2>3. Cardinality(OpenedConns \cup {c}) <= Cardinality(Conns) /\ Cardinality(Conns) \in Nat
    BY <2>1, FS_Subset, FS_CardinalityType
  <2> QED
    BY <1>2, <2>2, <2>3, IDModAssumption
<1>4. nextID = n + 1 /\ nextID \in IDs /\ nextID # NoID
  BY <1>0, <1>3, IDsAreNat DEF IDInv, TypeOK
<1>5. OpenedConns' = OpenedConns \cup {c} /\ Cardinality(OpenedConns') = n + 1
  <2>1. OpenedConns' = OpenedConns \cup {c}
    BY <1>0, <1>1, <1>4 DEF OpenedConns, Created, TypeOK
  <2> QED
    BY <1>1, <1>2, <2>1, FS_AddElement
<1> HIDE DEF n
<1>6. \A d \in OpenedConns : d \in Conns /\ id'[d] = id[d] /\ id[d] \in 1..n
  BY <1>0, <1>1 DEF IDInv, OpenedConns, TypeOK, n
<1>7. id'[c] = n + 1
  BY <1>0, <1>1, <1>4 DEF TypeOK
<1>8. IDInv'
  <2>1. (n + 1) + 1 < IDMod => nextID' = (n + 1) + 1
    BY <1>1, <1>2, <1>4, IDModAssumption
  <2>2. \A d \in OpenedConns' : id'[d] \in 1..(n + 1)
    BY <1>2, <1>5, <1>6, <1>7
  <2>3. \A d, e \in OpenedConns' : id'[d] = id'[e] => d = e
    <3>1. \A d, e \in OpenedConns : id[d] = id[e] => d = e
      BY <1>0 DEF IDInv
    <3> QED
      BY <1>2, <1>5, <1>6, <1>7, <3>1
  <2> QED
    BY <1>5, <2>1, <2>2, <2>3 DEF IDInv
<1>9. \A a \in Answers : OwnID(a) => OwnID(a)'
  BY <1>0, <1>1, <1>4 DEF OwnID, Created, Answers, TypeOK, OpenedConns
<1>10. AnswerInv'
  <2>1. net \subseteq Answers /\ msg \subseteq Answers
    BY <1>0 DEF TypeOK
  <2>2. \A d \in Conns : ch[d] \in Seq(Answers)
    BY <1>0 DEF TypeOK
  <2>3. \A d \in Conns : \A i \in 1..Len(ch[d]) : ch[d][i] \in Answers
    BY <2>2
  <2> QED
    BY <1>0, <1>1, <1>9, <2>1, <2>3 DEF AnswerInv
<1>11. NoneOrphaned'
  <2>1. ASSUME NEW d \in Conns, Created(d)', ~connClosed'[d] PROVE m'[id'[d]] = d
    <3>1. CASE d = c
      BY <1>0, <1>1, <1>4, <1>7, <3>1 DEF TypeOK
    <3>2. CASE d # c
      <4>1. d \in OpenedConns
        BY <1>5, <2>1, <3>2 DEF OpenedConns
      <4>2. m[id[d]] = d /\ id[d] \in IDs /\ id[d] # nextID
        BY <1>0, <1>1, <1>2, <1>4, <1>6, <2>1, <4>1 DEF NoneOrphaned, OpenedConns, Created, TypeOK
      <4> QED
        BY <1>0, <1>1, <1>6, <4>1, <4>2 DEF TypeOK
    <3> QED
      BY <3>1, <3>2
  <2>2. run' # "done"
    BY <1>0, <1>1 DEF RunInv
  <2> QED
    BY <2>1, <2>2 DEF NoneOrphaned
<1>12. RunInv' /\ OwnAnswersOnly'
  BY <1>0, <1>1 DEF RunInv, OwnAnswersOnly
<1> QED
  BY <1>8, <1>10, <1>11, <1>12 DEF ReachInv, SessionsReachable

LEMMA ReachStep ==
  ASSUME IsFiniteSet(Conns), Cardinality(Conns) < IDMod, ReachInv, [Next]_vars
  PROVE  ReachInv'
<1>0. IInv /\ TypeOK /\ MappedIsOpen /\ FreshInv /\ IDInv /\ AnswerInv /\ RunInv /\ NoneOrphaned /\ OwnAnswersOnly
  BY DEF ReachInv, IInv, SessionsReachable
<1>a. IInv'
  BY <1>0, TypeStep, MapStep DEF IInv
<1>b. /\ net \subseteq Answers /\ msg \subseteq Answers
      /\ \A d \in Conns : ch[d] \in Seq(Answers) /\ \A i \in 1..Len(ch[d]) : ch[d][i] \in Answers
  BY <1>0 DEF TypeOK
<1>c. ASSUME UNCHANGED <<id, net, msg, ch>> PROVE AnswerInv'
  BY <1>0, <1>c DEF AnswerInv, OwnID, Created
<1>d. ASSUME UNCHANGED id PROVE \A a : OwnID(a)' <=> OwnID(a)
  BY <1>d DEF OwnID, Created
<1>1. ASSUME NEW c \in Conns, NewUDP(c) PROVE ReachInv'
  BY <1>1, <1>a, NewUDPReaches
<1>2. ASSUME NEW c \in Conns, CloseFunc(c) PROVE ReachInv'
  <2>0. Created(c) /\ UNCHANGED <<net, msg, run, nextID, closed, id, ch, got>>
    BY <1>2 DEF CloseFunc, envVars
  <2>1. CASE connClosed[c]
    <3>1. UNCHANGED <<connClosed, m>>
      BY <1>2, <2>1 DEF CloseFunc, Close
    <3> QED
      BY <1>0, <1>a, <1>c, <2>0, <3>1, ReachQuiet DEF RunInv, OwnAnswersOnly
  <2>2. CASE ~connClosed[c]
    <3>1. connClosed' = [connClosed EXCEPT ![c] = TRUE] /\ m' = [m EXCEPT ![id[c]] = NoConn]
      BY <1>2, <2>2 DEF CloseFunc, Close
    <3>2. OpenedConns' = OpenedConns
      BY <2>0 DEF OpenedConns, Created
    <3>3. IDInv'
      BY <1>0, <2>0, <3>2 DEF IDInv
    <3>4. NoneOrphaned'
      <4>1. ASSUME NEW d \in Conns, Created(d)', ~connClosed'[d] PROVE m'[id'[d]] = d
        <5>1. d # c /\ Created(d) /\ ~connClosed[d]
          BY <1>0, <2>0, <3>1, <4>1 DEF TypeOK, Created
        <5>2. id[d] # id[c] /\ id[d] \in IDs
          BY <1>0, <2>0, <5>1 DEF IDInv, OpenedConns, Created, TypeOK
        <5> QED
          BY <1>0, <2>0, <3>1, <5>1, <5>2 DEF NoneOrphaned, TypeOK
      <4>2. run' = "done" => \A d \in Conns : Created(d)' => connClosed'[d]
        BY <1>0, <2>0, <3>1 DEF NoneOrphaned, Created, TypeOK
      <4> QED
        BY <4>1, <4>2 DEF NoneOrphaned
    <3> QED
      BY <1>0, <1>a, <1>c, <2>0, <3>3, <3>4 DEF ReachInv, SessionsReachable, RunInv, OwnAnswersOnly
  <2> QED
    BY <2>1, <2>2
<1>3. ASSUME NEW c \in Conns, ReceiveCall(c) \/ ReceiveEOF(c) PROVE ReachInv'
  BY <1>0, <1>3, <1>a, <1>c, ReachQuiet DEF ReceiveCall, ReceiveEOF, envVars, mgrVars, RunInv, OwnAnswersOnly
<1>4. ASSUME NEW c \in Conns, ReceiveMsg(c) PROVE ReachInv'
  <2>1. /\ ch[c] # <<>> /\ ch' = [ch EXCEPT ![c] = Tail(ch[c])] /\ got' = [got EXCEPT ![c] = got[c] \cup {Head(ch[c])}]
        /\ UNCHANGED <<net, msg, run, m, nextID, closed, id, connClosed>>
    BY <1>4 DEF ReceiveMsg, envVars, mgrVars
  <2>2. ch[c] \in Seq(Answers) /\ 1 \in 1..Len(ch[c]) /\ Head(ch[c]) = ch[c][1] /\ Len(Tail(ch[c])) = Len(ch[c]) - 1
    BY <1>b, <2>1
  <2>3. \A i \in 1..Len(Tail(ch[c])) : i + 1 \in 1..Len(ch[c]) /\ Tail(ch[c])[i] = ch[c][i + 1]
    BY <2>2
  <2>4. Head(ch[c]).for = c
    BY <1>0, <2>2 DEF AnswerInv
  <2>5. OwnAnswersOnly'
    BY <1>0, <2>1, <2>4 DEF OwnAnswersOnly, TypeOK
  <2>6. \A d \in Conns : ch'[d] = IF d = c THEN Tail(ch[c]) ELSE ch[d]
    BY <1>0, <2>1 DEF TypeOK
  <2>7. \A d \in Conns : \A i \in 1..Len(ch'[d]) : OwnID(ch'[d][i]) /\ ch'[d][i].for = d
    <3> SUFFICES ASSUME NEW d \in Conns, NEW i \in 1..Len(ch'[d])
                 PROVE  OwnID(ch'[d][i]) /\ ch'[d][i].for = d
      OBVIOUS
    <3>1. CASE d = c
      <4>1. i + 1 \in 1..Len(ch[c]) /\ ch'[d][i] = ch[c][i + 1]
        BY <2>3, <2>6, <3>1
      <4> QED
        BY <1>0, <3>1, <4>1 DEF AnswerInv
    <3>2. CASE d # c
      BY <1>0, <2>6, <3>2 DEF AnswerInv
    <3> QED
      BY <3>1, <3>2
  <2>8. AnswerInv'
    BY <1>0, <1>d, <2>1, <2>7 DEF AnswerInv
  <2> QED
    BY <1>0, <1>a, <2>1, <2>5, <2>8, ReachQuiet DEF RunInv
<1>5. ASSUME NEW c \in Conns, Answer(c) PROVE ReachInv'
  <2>1. /\ Created(c) /\ net' = net \cup {[sid |-> id[c], for |-> c]}
        /\ UNCHANGED <<msg, run, m, nextID, closed, id, connClosed, ch, got>>
    BY <1>5 DEF Answer, mgrVars
  <2>2. OwnID([sid |-> id[c], for |-> c])
    BY <2>1 DEF OwnID
  <2>3. AnswerInv'
    BY <1>0, <1>d, <2>1, <2>2 DEF AnswerInv
  <2> QED
    BY <1>0, <1>a, <2>1, <2>3, ReachQuiet DEF RunInv, OwnAnswersOnly
<1>6. ASSUME NEW a \in net, ReceiveMessage(a) PROVE ReachInv'
  <2>1. /\ net' = net \ {a} /\ msg' = {a} /\ run' = "feed"
        /\ UNCHANGED <<m, nextID, closed, id, connClosed, ch, got>>
    BY <1>6 DEF ReceiveMessage, mgrVars
  <2>2. AnswerInv'
    BY <1>0, <1>d, <2>1 DEF AnswerInv
  <2> QED
    BY <1>0, <1>a, <2>1, <2>2, ReachQuiet DEF RunInv, OwnAnswersOnly
<1>7. ASSUME NEW a \in msg, Feed(a) PROVE ReachInv'
  <2> DEFINE c == m[a.sid]
  <2>1. /\ run' = "receive" /\ msg' = {} /\ UNCHANGED <<net, m, nextID, closed, id, connClosed, got>>
        /\ ch' = (IF c # NoConn /\ Len(ch[c]) < ChanSize THEN [ch EXCEPT ![c] = Append(ch[c], a)] ELSE ch)
    BY <1>7 DEF Feed, envVars, mgrVars
  <2>2. \A d \in Conns : \A i \in 1..Len(ch'[d]) : OwnID(ch'[d][i]) /\ ch'[d][i].for = d
    <3>1. CASE c # NoConn /\ Len(ch[c]) < ChanSize
      <4>1. a \in Answers /\ a.sid \in IDs /\ a.for \in Conns
        BY <1>b DEF Answers
      <4>2. c \in Conns /\ id[c] = a.sid
        BY <1>0, <3>1, <4>1 DEF TypeOK, MappedIsOpen
      <4>3. OwnID(a)
        BY <1>0 DEF AnswerInv
      <4>4. a.for = c
        <5>1. c \in OpenedConns /\ a.for \in OpenedConns
          BY <4>1, <4>2, <4>3, IDsAreNat DEF OpenedConns, Created, OwnID
        <5> QED
          BY <1>0, <4>2, <4>3, <5>1 DEF IDInv, OwnID
      <4> HIDE DEF c
      <4>5. ch[c] \in Seq(Answers) /\ Len(ch[c]) \in Nat
        BY <1>b, <4>2
      <4>6. \A d \in Conns : ch'[d] = IF d = c THEN Append(ch[c], a) ELSE ch[d]
        BY <1>0, <2>1, <3>1, <4>2 DEF TypeOK
      <4>7. \A i \in 1..Len(Append(ch[c], a)) : Append(ch[c], a)[i] = IF i = Len(ch[c]) + 1 THEN a ELSE ch[c][i]
        BY <4>1, <4>5
      <4>8. Len(Append(ch[c], a)) = Len(ch[c]) + 1
        BY <4>5
      <4>9. ASSUME NEW d \in Conns, NEW i \in 1..Len(ch'[d])
            PROVE  OwnID(ch'[d][i]) /\ ch'[d][i].for = d
        <5>1. CASE d # c
          BY <1>0, <4>6, <5>1 DEF AnswerInv
        <5>2. CASE d = c /\ i = Len(ch[c]) + 1
          <6>1. ch'[d] = Append(ch[c], a)
            BY <4>6, <5>2
          <6>2. i \in 1..Len(Append(ch[c], a))
            BY <6>1
          <6> QED
            BY <4>3, <4>4, <4>7, <5>2, <6>1, <6>2
        <5>3. CASE d = c /\ i # Len(ch[c]) + 1
          <6>1. i \in 1..Len(ch[c])
            <7>1. ch'[d] = Append(ch[c], a)
              BY <4>6, <5>3
            <7>2. i \in 1..Len(Append(ch[c], a))
              BY <7>1
            <7> QED
              BY <4>5, <4>8, <5>3, <7>2
          <6>2. ch'[d][i] = ch[c][i]
            <7>1. ch'[d] = Append(ch[c], a)
              BY <4>6, <5>3
            <7>2. i \in 1..Len(Append(ch[c], a))
              BY <7>1
            <7> QED
              BY <4>7, <5>3, <7>1, <7>2
          <6> QED
            BY <1>0, <5>3, <6>1, <6>2 DEF AnswerInv
        <5> QED
          BY <5>1, <5>2, <5>3
      <4> QED
        BY <4>9
    <3>2. CASE ~(c # NoConn /\ Len(ch[c]) < ChanSize)
      BY <1>0, <2>1, <3>2 DEF AnswerInv
    <3> QED
      BY <3>1, <3>2
  <2>3. AnswerInv'
    BY <1>0, <1>d, <2>1, <2>2 DEF AnswerInv
  <2> QED
    BY <1>0, <1>a, <2>1, <2>3, ReachQuiet DEF RunInv, OwnAnswersOnly
<1>8. CASE ReceiveError \/ QuicClose
  BY <1>0, <1>8, <1>a, <1>c, ReachQuiet DEF ReceiveError, QuicClose, envVars, mgrVars, RunInv, OwnAnswersOnly
<1>9. CASE CloseCleanup
  <2>1. /\ connClosed' = [c \in Conns |-> connClosed[c] \/ \E i \in IDs : m[i] = c]
        /\ closed' = TRUE /\ UNCHANGED <<net, msg, nextID, id, ch, got>>
    BY <1>9 DEF CloseCleanup, envVars
  <2>2. \A c \in Conns : Created(c) => connClosed'[c]
    <3> SUFFICES ASSUME NEW c \in Conns, Created(c), ~connClosed[c] PROVE connClosed'[c]
      BY <2>1
    <3>1. id[c] \in IDs /\ m[id[c]] = c
      BY <1>0 DEF TypeOK, Created, NoneOrphaned
    <3> QED
      BY <2>1, <3>1
  <2>3. NoneOrphaned'
    BY <2>1, <2>2 DEF NoneOrphaned, Created
  <2>4. OpenedConns' = OpenedConns
    BY <2>1 DEF OpenedConns, Created
  <2>5. IDInv'
    BY <1>0, <2>1, <2>4 DEF IDInv
  <2> QED
    BY <1>0, <1>a, <1>c, <2>1, <2>3, <2>5 DEF ReachInv, SessionsReachable, RunInv, OwnAnswersOnly
<1>10. CASE UNCHANGED vars
  BY <1>0, <1>10, <1>a, <1>c, ReachQuiet DEF vars, envVars, mgrVars, RunInv, OwnAnswersOnly
<1>11. CASE Finished
  BY <1>10, <1>11 DEF Finished
<1> QED
  BY <1>1, <1>2, <1>3, <1>4, <1>5, <1>6, <1>7, <1>8, <1>9, <1>10, <1>11 DEF Next

\* As long as fewer sessions are opened than SessionID has values, a session that is not
\* closed is in the map where closeCleanup finds it, and Receive returns only answers that
\* were meant for its session (udp.go: NewUDP, feed, closeCleanup).
THEOREM SessionsAreReachable ==
  ASSUME IsFiniteSet(Conns), Cardinality(Conns) < IDMod
  PROVE  Spec => []SessionsReachable
<1>1. Init => ReachInv
  BY InitReach
<1>2. ReachInv /\ [Next]_vars => ReachInv'
  BY ReachStep
<1>3. ReachInv => SessionsReachable
  BY DEF ReachInv
<1> QED
  BY <1>1, <1>2, <1>3, PTL DEF Spec
=============================================================================
