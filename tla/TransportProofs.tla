-------------------------- MODULE TransportProofs --------------------------
(***************************************************************************)
(* What is proved of the components between the QUIC connection and the    *)
(* network: the TCP relay, port hopping, hole punching, the realm runtime, *)
(* the packets of gecko and the fragments of UDP messages, each for every  *)
(* value of its constants.  The components share no variable, so each has  *)
(* an inductive invariant and theorems of its own.                         *)
(***************************************************************************)
EXTENDS StreamCopy, UDPHop, RealmPunch, RealmRuntime, Gecko, UDPFragmentation,
        SequenceTheorems, FiniteSetTheorems, WellFoundedInduction, TLAPS

-----------------------------------------------------------------------------
(* StreamCopy: the invariant *)

BeforeDial == {"request", "hook", "dial"}
BeforeCopy == BeforeDial \cup {"putback"}

\* A goroutine that is done has put its one result into errChan.
CopierDone(s, d) == IF copier[s][d] = "done" THEN 1 ELSE 0
ResultsInv ==
    \A s \in Streams :
       /\ Len(errChan[s]) = CopierDone(s, "up") + CopierDone(s, "down")
       /\ pc[s] \in BeforeCopy => \A d \in Dirs : copier[s][d] = "none"

\* What the logger has accepted, or the hook put back, and the relay has not
\* written is the chunk at hand, or the one whose write failed.
Failed(s) == \E i \in 1..Len(errChan[s]) : errChan[s][i] = "error"
Due(s, d) == logged[s][d] + Unasked(s, d)
CopierOK(s, d) ==
    /\ copier[s][d] \in {"none", "read", "check"} => Due(s, d) = written[s][d]
    /\ copier[s][d] = "check" => logged[s][d] < MaxChunks
    /\ copier[s][d] = "write" => Due(s, d) = written[s][d] + 1
    /\ copier[s][d] = "done" =>
          Due(s, d) = written[s][d] \/ (Failed(s) /\ Due(s, d) = written[s][d] + 1)
CopierInv == \A s \in Streams, d \in Dirs : CopierOK(s, d)

\* Where handleTCPRequest is tells what it has closed, logged and untraced.
RequestInv ==
    \A s \in Streams :
       /\ pc[s] \in BeforeDial => end[s].target = "none"
       /\ pc[s] \in BeforeCopy \cup {"copy"} => tcpErrors[s] = 0
       /\ pc[s] \in {"return", "done"} => end[s].stream = "closed" /\ end[s].target # "open"
       /\ ~traced[s] => pc[s] = "done" /\ state[s] = "closed"

\* The hook's bytes are held until they are written, before the copies start.
HookInv ==
    \A s \in Streams :
       /\ pc[s] = "hook" => hooked[s]
       /\ pc[s] \in {"request", "hook"} => putback[s] = "none"
       /\ pc[s] = "dial" => putback[s] \in {"none", "held"}
       /\ pc[s] = "putback" => putback[s] = "held"
       /\ pc[s] \in {"copy", "cleanup"} => putback[s] # "held"
       /\ putback[s] # "none" => hooked[s]
       /\ pc[s] \in BeforeCopy \/ putback[s] = "held" =>
             \A d \in Dirs : copier[s][d] = "none" /\ written[s][d] = 0

\* The types without the bound on errChan, which ResultsInv gives.
ChannelTypes == errChan \in [Streams -> Seq(Results)]

CopyInv == CopyTypeOK /\ ChannelTypes /\ ResultsInv /\ CopierInv /\ RequestInv /\ HookInv

-----------------------------------------------------------------------------
(* StreamCopy: the proof *)

\* An update of one direction of one stream leaves every other alone.
LEMMA UpdateOneDir ==
  ASSUME NEW T, NEW f \in [Streams -> [Dirs -> T]], NEW s \in Streams, NEW d \in Dirs, NEW v \in T
  PROVE  /\ [f EXCEPT ![s][d] = v] \in [Streams -> [Dirs -> T]]
         /\ \A t \in Streams, e \in Dirs :
               [f EXCEPT ![s][d] = v][t][e] = IF t = s /\ e = d THEN v ELSE f[t][e]
  OBVIOUS

\* What an early return does to the ends.
LEMMA AbortEnds ==
  ASSUME CopyTypeOK, NEW s \in Streams, Abort(s)
  PROVE  /\ end' \in [Streams -> [stream : {"open", "closed"}, target : {"none", "open", "closed"}]]
         /\ end'[s].stream = "closed" /\ end'[s].target = end[s].target
         /\ \A t \in Streams : t # s => end'[t] = end[t]
         /\ pc' = [pc EXCEPT ![s] = "return"]
<1> DEFINE Ends == [stream : {"open", "closed"}, target : {"none", "open", "closed"}]
<1>1. end \in [Streams -> Ends] /\ end[s] \in Ends
  BY DEF CopyTypeOK
<1>2. [end[s] EXCEPT !.stream = "closed"] \in Ends
  BY <1>1
<1>3. end' = [end EXCEPT ![s] = [end[s] EXCEPT !.stream = "closed"]]
  BY DEF Abort
<1>4. end' \in [Streams -> Ends]
  BY <1>1, <1>2, <1>3
<1>5. end'[s].stream = "closed" /\ end'[s].target = end[s].target
  BY <1>1, <1>3
<1>6. \A t \in Streams : t # s => end'[t] = end[t]
  BY <1>1, <1>3
<1> QED
  BY <1>4, <1>5, <1>6 DEF Abort

\* A step of one copy goroutine: nothing else of the relay's books moves.
Elsewhere(s, d) ==
    /\ pc' = pc /\ putback' = putback
    /\ \A t \in Streams : t # s => errChan'[t] = errChan[t]
    /\ \A t \in Streams, e \in Dirs :
          t # s \/ e # d => /\ copier'[t][e] = copier[t][e]
                            /\ logged'[t][e] = logged[t][e] /\ written'[t][e] = written[t][e]

\* errChan only grows while copy goroutines run.
Grows(s) ==
    /\ Len(errChan'[s]) >= Len(errChan[s])
    /\ \A i \in 1..Len(errChan[s]) : errChan'[s][i] = errChan[s][i]

\* It is then enough to look at that goroutine.
LEMMA OneCopierSuffices ==
  ASSUME CopyInv, NEW s \in Streams, NEW d \in Dirs, Elsewhere(s, d), Grows(s),
         errChan'[s] \in Seq(Results), pc[s] \notin BeforeCopy,
         Len(errChan'[s]) = Len(errChan[s]) + CopierDone(s, d)' - CopierDone(s, d),
         CopierOK(s, d)'
  PROVE  ResultsInv' /\ CopierInv'
<1>1. ResultsInv'
  <2> SUFFICES ASSUME NEW t \in Streams
               PROVE  /\ Len(errChan'[t]) = CopierDone(t, "up")' + CopierDone(t, "down")'
                      /\ pc'[t] \in BeforeCopy => \A e \in Dirs : copier'[t][e] = "none"
    BY DEF ResultsInv
  <2>1. CASE t # s
    BY <2>1 DEF Elsewhere, CopyInv, ResultsInv, CopierDone, Dirs
  <2>2. CASE t = s
    <3>1. \A e \in Dirs : e # d => CopierDone(s, e)' = CopierDone(s, e)
      BY DEF Elsewhere, CopierDone
    <3>2. Len(errChan[s]) = CopierDone(s, "up") + CopierDone(s, "down")
      BY DEF CopyInv, ResultsInv
    <3>3. \A e \in Dirs : CopierDone(s, e) \in Nat /\ CopierDone(s, e)' \in Nat
      BY DEF CopierDone
    <3>4. Len(errChan'[s]) = CopierDone(s, "up")' + CopierDone(s, "down")'
      BY <3>1, <3>2, <3>3 DEF Dirs
    <3> QED
      BY <2>2, <3>4 DEF Elsewhere
  <2> QED
    BY <2>1, <2>2
<1>2. CopierInv'
  <2> SUFFICES ASSUME NEW t \in Streams, NEW e \in Dirs PROVE CopierOK(t, e)'
    BY DEF CopierInv
  <2>1. Failed(t) => Failed(t)'
    <3>1. CASE t = s
      <4> SUFFICES ASSUME NEW i \in 1..Len(errChan[s]), errChan[s][i] = "error" PROVE Failed(s)'
        BY <3>1 DEF Failed
      <4>1. i \in 1..Len(errChan'[s]) /\ errChan'[s][i] = "error"
        BY DEF Grows, CopyInv, ChannelTypes
      <4> QED
        BY <4>1 DEF Failed
    <3>2. CASE t # s
      BY <3>2 DEF Elsewhere, Failed
    <3> QED
      BY <3>1, <3>2
  <2>2. CASE t # s \/ e # d
    BY <2>1, <2>2 DEF Elsewhere, CopyInv, CopierInv, CopierOK, Due, Unasked
  <2> QED
    BY <2>2
<1> QED
  BY <1>1, <1>2

\* The state of a copy goroutine before and after one of its own steps.
LEMMA CopierMoves ==
  ASSUME CopyInv, NEW s \in Streams, NEW d \in Dirs,
         \/ CopyRead(s, d) \/ CopyReadEnd(s, d) \/ CopyCheck(s, d)
         \/ CopyWrite(s, d) \/ CopyWriteError(s, d)
  PROVE  CopyTypeOK' /\ ChannelTypes' /\ ResultsInv' /\ CopierInv'
<1> USE DEF CopyInv
<1>0. /\ copier[s][d] \in {"read", "check", "write"} /\ pc[s] \notin BeforeCopy
      /\ CopierOK(s, d) /\ CopierDone(s, d) = 0
      /\ errChan[s] \in Seq(Results) /\ Len(errChan[s]) \in Nat
      /\ logged[s][d] \in 0..MaxChunks /\ written[s][d] \in Nat /\ Unasked(s, d) \in 0..1
  <2>1. copier[s][d] \in {"read", "check", "write"}
    BY DEF CopyRead, CopyReadEnd, CopyCheck, CopyWrite, CopyWriteError
  <2>2. pc[s] \notin BeforeCopy /\ CopierDone(s, d) = 0
    BY <2>1 DEF ResultsInv, CopierDone
  <2>3. CopierOK(s, d)
    BY DEF CopierInv
  <2>4. errChan[s] \in Seq(Results) /\ Len(errChan[s]) \in Nat
    BY DEF ChannelTypes
  <2>5. logged[s][d] \in 0..MaxChunks /\ written[s][d] \in Nat
    BY DEF CopyTypeOK
  <2>6. Unasked(s, d) \in 0..1
    BY DEF Unasked
  <2> QED
    BY <2>1, <2>2, <2>3, <2>4, <2>5, <2>6
<1>a. ASSUME NEW r \in Results, CopyEnds(s, d, r)
      PROVE  /\ copier' \in [Streams -> [Dirs -> {"none", "read", "check", "write", "done"}]]
             /\ ChannelTypes' /\ Grows(s) /\ copier'[s][d] = "done"
             /\ errChan'[s] \in Seq(Results) /\ Len(errChan'[s]) = Len(errChan[s]) + 1
             /\ \A t \in Streams : t # s => errChan'[t] = errChan[t]
             /\ errChan'[s][Len(errChan'[s])] = r
             /\ \A t \in Streams, e \in Dirs : t # s \/ e # d => copier'[t][e] = copier[t][e]
  <2>1. errChan' = [errChan EXCEPT ![s] = Append(errChan[s], r)]
    BY <1>a DEF CopyEnds
  <2>2. /\ Append(errChan[s], r) \in Seq(Results)
        /\ Len(Append(errChan[s], r)) = Len(errChan[s]) + 1
        /\ \A i \in 1..Len(errChan[s]) : Append(errChan[s], r)[i] = errChan[s][i]
        /\ Append(errChan[s], r)[Len(errChan[s]) + 1] = r
    BY <1>0
  <2>3. errChan'[s] = Append(errChan[s], r) /\ \A t \in Streams : t # s => errChan'[t] = errChan[t]
    BY <2>1 DEF ChannelTypes
  <2>4. ChannelTypes'
    BY <2>1, <2>2 DEF ChannelTypes
  <2>5. Grows(s)
    BY <1>0, <2>2, <2>3 DEF Grows
  <2>6. /\ copier' \in [Streams -> [Dirs -> {"none", "read", "check", "write", "done"}]]
        /\ \A t \in Streams, e \in Dirs :
              copier'[t][e] = IF t = s /\ e = d THEN "done" ELSE copier[t][e]
    <3>1. copier' = [copier EXCEPT ![s][d] = "done"]
      BY <1>a DEF CopyEnds
    <3> QED
      BY <3>1, UpdateOneDir DEF CopyTypeOK
  <2> QED
    BY <2>2, <2>3, <2>4, <2>5, <2>6
<1>b. ASSUME copier' \in [Streams -> [Dirs -> {"none", "read", "check", "write", "done"}]],
             ChannelTypes', ResultsInv', logged' \in [Streams -> [Dirs -> 0..MaxChunks]],
             written' \in [Streams -> [Dirs -> Nat]], asked' \in SUBSET Streams,
             UNCHANGED <<connOpen, pc, hooked, putback, state, traced, end, result, tcpErrors>>
      PROVE  CopyTypeOK'
  <2>1. \A t \in Streams : errChan'[t] \in Seq(Results) /\ Len(errChan'[t]) <= 2
    <3>1. \A t \in Streams, e \in Dirs : CopierDone(t, e)' \in 0..1
      BY DEF CopierDone
    <3>2. \A t \in Streams : Len(errChan'[t]) = CopierDone(t, "up")' + CopierDone(t, "down")'
      BY <1>b DEF ResultsInv
    <3>3. \A t \in Streams : errChan'[t] \in Seq(Results)
      BY <1>b DEF ChannelTypes
    <3> QED
      BY <3>1, <3>2, <3>3 DEF Dirs
  <2> QED
    BY <1>b, <2>1 DEF CopyTypeOK
<1>1. CASE CopyRead(s, d)
  <2>1. /\ copier' \in [Streams -> [Dirs -> {"none", "read", "check", "write", "done"}]]
        /\ \A t \in Streams, e \in Dirs :
              copier'[t][e] = IF t = s /\ e = d THEN "check" ELSE copier[t][e]
    <3>1. copier' = [copier EXCEPT ![s][d] = "check"]
      BY <1>1 DEF CopyRead
    <3> QED
      BY <3>1, UpdateOneDir DEF CopyTypeOK
  <2>2. UNCHANGED <<connOpen, pc, hooked, putback, state, traced, end, errChan, result, logged,
                    written, asked, tcpErrors>>
    BY <1>1 DEF CopyRead
  <2>3. Elsewhere(s, d) /\ Grows(s)
    BY <1>0, <2>1, <2>2 DEF Elsewhere, Grows
  <2>4. CopierDone(s, d)' = 0 /\ CopierOK(s, d)'
    BY <1>0, <1>1, <2>1, <2>2 DEF CopierDone, CopierOK, Due, Unasked, CopyRead
  <2>5. ResultsInv' /\ CopierInv'
    BY <1>0, <2>2, <2>3, <2>4, OneCopierSuffices
  <2> QED
    BY <1>b, <2>1, <2>2, <2>5 DEF CopyTypeOK, ChannelTypes
<1>2. CASE CopyReadEnd(s, d)
  <2>1. PICK r \in Results : CopyEnds(s, d, r)
    BY <1>2 DEF CopyReadEnd, Results
  <2>2. UNCHANGED <<connOpen, pc, hooked, putback, state, traced, end, result, logged, written,
                    asked, tcpErrors>>
    BY <1>2 DEF CopyReadEnd
  <2>3. Elsewhere(s, d)
    BY <1>a, <2>1, <2>2 DEF Elsewhere
  <2>4. CopierDone(s, d)' = 1 /\ CopierOK(s, d)'
    BY <1>0, <1>2, <1>a, <2>1, <2>2 DEF CopierDone, CopierOK, Due, Unasked, CopyReadEnd
  <2>5. ResultsInv' /\ CopierInv'
    BY <1>0, <1>a, <2>1, <2>3, <2>4, OneCopierSuffices
  <2> QED
    BY <1>a, <1>b, <2>1, <2>2, <2>5 DEF CopyTypeOK
<1>3. CASE CopyCheck(s, d)
  <2>1. UNCHANGED <<connOpen, pc, hooked, putback, state, traced, end, written, result, tcpErrors>>
    BY <1>3 DEF CopyCheck
  <2>2. copier[s][d] = "check" /\ Due(s, d) = written[s][d] /\ logged[s][d] < MaxChunks
    BY <1>0, <1>3 DEF CopyCheck, CopierOK
  <2>3. CASE /\ logged' = [logged EXCEPT ![s][d] = @ + 1]
             /\ copier' = [copier EXCEPT ![s][d] = "write"]
             /\ UNCHANGED <<errChan, asked>>
    <3>1. /\ copier' \in [Streams -> [Dirs -> {"none", "read", "check", "write", "done"}]]
          /\ \A t \in Streams, e \in Dirs :
                copier'[t][e] = IF t = s /\ e = d THEN "write" ELSE copier[t][e]
      BY <2>3, UpdateOneDir DEF CopyTypeOK
    <3>2. /\ logged' \in [Streams -> [Dirs -> 0..MaxChunks]]
          /\ \A t \in Streams, e \in Dirs :
                logged'[t][e] = IF t = s /\ e = d THEN logged[s][d] + 1 ELSE logged[t][e]
      <4>1. logged' = [logged EXCEPT ![s][d] = logged[s][d] + 1]
        BY <2>3
      <4>2. logged[s][d] + 1 \in 0..MaxChunks
        BY <1>0, <2>2, MaxChunksAssumption
      <4> QED
        BY <4>1, <4>2, UpdateOneDir DEF CopyTypeOK
    <3>3. Elsewhere(s, d) /\ Grows(s)
      BY <1>0, <2>1, <2>3, <3>1, <3>2 DEF Elsewhere, Grows
    <3>4. CopierDone(s, d)' = 0 /\ CopierOK(s, d)'
      BY <1>0, <2>1, <2>2, <3>1, <3>2 DEF CopierDone, CopierOK, Due, Unasked
    <3>5. ResultsInv' /\ CopierInv'
      BY <1>0, <2>3, <3>3, <3>4, OneCopierSuffices
    <3> QED
      BY <1>b, <2>1, <2>3, <3>1, <3>2, <3>5 DEF CopyTypeOK, ChannelTypes
  <2>4. ASSUME NEW r \in Results, CopyEnds(s, d, r), logged' = logged, asked' \in SUBSET Streams
        PROVE  CopyTypeOK' /\ ChannelTypes' /\ ResultsInv' /\ CopierInv'
    <3>1. Elsewhere(s, d)
      BY <1>a, <2>1, <2>4 DEF Elsewhere
    <3>2. CopierDone(s, d)' = 1 /\ CopierOK(s, d)'
      BY <1>0, <1>a, <2>1, <2>2, <2>4 DEF CopierDone, CopierOK, Due, Unasked
    <3>3. ResultsInv' /\ CopierInv'
      BY <1>0, <1>a, <2>4, <3>1, <3>2, OneCopierSuffices
    <3> QED
      BY <1>a, <1>b, <2>1, <2>4, <3>3 DEF CopyTypeOK
  <2>5. "rejected" \in Results /\ "disconnect" \in Results /\ asked \in SUBSET Streams
    BY DEF Results, CopyTypeOK
  <2> QED
    BY <1>3, <2>3, <2>4, <2>5 DEF CopyCheck
<1>4. CASE CopyWrite(s, d)
  <2>1. UNCHANGED <<connOpen, pc, hooked, putback, state, traced, end, errChan, result, logged,
                    asked, tcpErrors>>
    BY <1>4 DEF CopyWrite
  <2>2. /\ copier' \in [Streams -> [Dirs -> {"none", "read", "check", "write", "done"}]]
        /\ \A t \in Streams, e \in Dirs :
              copier'[t][e] = IF t = s /\ e = d THEN "read" ELSE copier[t][e]
    <3>1. copier' = [copier EXCEPT ![s][d] = "read"]
      BY <1>4 DEF CopyWrite
    <3> QED
      BY <3>1, UpdateOneDir DEF CopyTypeOK
  <2>3. /\ written' \in [Streams -> [Dirs -> Nat]]
        /\ \A t \in Streams, e \in Dirs :
              written'[t][e] = IF t = s /\ e = d THEN written[s][d] + 1 ELSE written[t][e]
    <3>1. written' = [written EXCEPT ![s][d] = written[s][d] + 1]
      BY <1>4 DEF CopyWrite
    <3>2. written[s][d] + 1 \in Nat
      BY <1>0
    <3> QED
      BY <3>1, <3>2, UpdateOneDir DEF CopyTypeOK
  <2>4. Elsewhere(s, d) /\ Grows(s)
    BY <1>0, <2>1, <2>2, <2>3 DEF Elsewhere, Grows
  <2>5. CopierDone(s, d)' = 0 /\ CopierOK(s, d)'
    BY <1>0, <1>4, <2>1, <2>2, <2>3 DEF CopierDone, CopierOK, Due, Unasked, CopyWrite
  <2>6. ResultsInv' /\ CopierInv'
    BY <1>0, <2>1, <2>4, <2>5, OneCopierSuffices
  <2> QED
    BY <1>b, <2>1, <2>2, <2>3, <2>6 DEF CopyTypeOK, ChannelTypes
<1>5. CASE CopyWriteError(s, d)
  <2>1. CopyEnds(s, d, "error") /\ "error" \in Results
    BY <1>5 DEF CopyWriteError, Results
  <2>2. UNCHANGED <<connOpen, pc, hooked, putback, state, traced, end, result, logged, written,
                    asked, tcpErrors>>
    BY <1>5 DEF CopyWriteError
  <2>3. Elsewhere(s, d)
    BY <1>a, <2>1, <2>2 DEF Elsewhere
  <2>4. Failed(s)'
    <3>1. Len(errChan'[s]) \in 1..Len(errChan'[s]) /\ errChan'[s][Len(errChan'[s])] = "error"
      BY <1>0, <1>a, <2>1
    <3> QED
      BY <3>1 DEF Failed
  <2>5. CopierDone(s, d)' = 1 /\ CopierOK(s, d)'
    BY <1>0, <1>5, <1>a, <2>1, <2>2, <2>4 DEF CopierDone, CopierOK, Due, Unasked, CopyWriteError
  <2>6. ResultsInv' /\ CopierInv'
    BY <1>0, <1>a, <2>1, <2>3, <2>5, OneCopierSuffices
  <2> QED
    BY <1>a, <1>b, <2>1, <2>2, <2>6 DEF CopyTypeOK
<1> QED
  BY <1>1, <1>2, <1>3, <1>4, <1>5

\* A step that leaves the copy goroutines alone and starts no request anew.
LEMMA CopiersUntouched ==
  ASSUME CopyInv, UNCHANGED copyVars,
         \A s \in Streams : pc'[s] \in BeforeCopy => pc[s] \in BeforeCopy,
         \A s \in Streams : putback'[s] = "written" <=> putback[s] = "written"
  PROVE  ChannelTypes' /\ ResultsInv' /\ CopierInv'
  BY DEF CopyInv, copyVars, ChannelTypes, ResultsInv, CopierInv, CopierDone, CopierOK, Failed,
         Due, Unasked

\* Both copies start with what was written being what is due.
LEMMA CopiesStart ==
  ASSUME CopyInv, NEW s \in Streams, StartCopies(s), pc[s] \in BeforeCopy,
         UNCHANGED <<errChan, logged>>,
         \A t \in Streams, e \in Dirs :
            t # s => Unasked(t, e)' = Unasked(t, e) /\ written'[t][e] = written[t][e],
         \A e \in Dirs : Due(s, e)' = written'[s][e]
  PROVE  ChannelTypes' /\ ResultsInv' /\ CopierInv'
<1> USE DEF CopyInv
<1>1. /\ \A t \in Streams : t # s => copier'[t] = copier[t] /\ pc'[t] = pc[t]
      /\ pc'[s] = "copy" /\ \A d \in Dirs : copier[s][d] = "none" /\ copier'[s][d] = "read"
  BY DEF CopyTypeOK, ResultsInv, StartCopies
<1>2. ResultsInv'
  <2> SUFFICES ASSUME NEW t \in Streams
               PROVE  /\ Len(errChan'[t]) = CopierDone(t, "up")' + CopierDone(t, "down")'
                      /\ pc'[t] \in BeforeCopy => \A d \in Dirs : copier'[t][d] = "none"
    BY DEF ResultsInv
  <2>1. CASE t = s
    BY <1>1, <2>1 DEF ResultsInv, CopierDone, Dirs, BeforeCopy, BeforeDial
  <2>2. CASE t # s
    BY <1>1, <2>2 DEF ResultsInv, CopierDone, Dirs
  <2> QED
    BY <2>1, <2>2
<1>3. CopierInv'
  <2> SUFFICES ASSUME NEW t \in Streams, NEW e \in Dirs PROVE CopierOK(t, e)'
    BY DEF CopierInv
  <2>1. CASE t = s
    BY <1>1, <2>1 DEF CopierOK
  <2>2. CASE t # s
    BY <1>1, <2>2 DEF CopierInv, CopierOK, Failed, Due
  <2> QED
    BY <2>1, <2>2
<1> QED
  BY <1>2, <1>3 DEF ChannelTypes

\* Every other step of handleTCPRequest, and the end of the connection.
LEMMA RequestMoves ==
  ASSUME CopyInv, NEW s \in Streams,
         \/ ReadRequest(s) \/ RunHook(s) \/ Dial(s) \/ PutBack(s)
         \/ CopyReturn(s) \/ Cleanup(s) \/ HandlerReturn(s)
  PROVE  CopyInv'
<1> USE DEF CopyInv
<1>1. CASE ReadRequest(s)
  <2>1. UNCHANGED <<connOpen, putback, traced, copyVars, result, tcpErrors>> /\ pc[s] = "request"
    BY <1>1 DEF ReadRequest
  <2>2. CASE Abort(s) /\ UNCHANGED <<hooked, state>>
    <3>1. CopyTypeOK'
      BY <2>1, <2>2, AbortEnds DEF CopyTypeOK, copyVars
    <3>2. RequestInv'
      BY <2>1, <2>2, AbortEnds DEF CopyTypeOK, RequestInv, BeforeCopy, BeforeDial
    <3>3. \A t \in Streams : pc'[t] \in BeforeCopy => pc[t] \in BeforeCopy
      BY <2>1, <2>2, AbortEnds DEF CopyTypeOK, BeforeCopy, BeforeDial
    <3>4. HookInv'
      BY <2>1, <2>2, AbortEnds DEF HookInv, CopyTypeOK, copyVars, BeforeCopy, BeforeDial
    <3> QED
      BY <2>1, <2>2, <3>1, <3>2, <3>3, <3>4, CopiersUntouched DEF HookInv
  <2>3. ASSUME NEW h \in BOOLEAN,
               hooked' = [hooked EXCEPT ![s] = h],
               state' = [state EXCEPT ![s] = IF h THEN "hooking" ELSE "connecting"],
               pc' = [pc EXCEPT ![s] = IF h THEN "hook" ELSE "dial"],
               UNCHANGED end
        PROVE  CopyInv'
    <3>1. CopyTypeOK'
      BY <2>1, <2>3 DEF CopyTypeOK, copyVars
    <3>2. RequestInv'
      BY <2>1, <2>3 DEF CopyTypeOK, RequestInv, BeforeCopy, BeforeDial
    <3>3. \A t \in Streams : pc'[t] \in BeforeCopy => pc[t] \in BeforeCopy
      BY <2>1, <2>3 DEF CopyTypeOK, BeforeCopy, BeforeDial
    <3>4. HookInv'
      BY <2>1, <2>3 DEF HookInv, CopyTypeOK, copyVars, BeforeCopy, BeforeDial
    <3> QED
      BY <2>1, <2>3, <3>1, <3>2, <3>3, <3>4, CopiersUntouched DEF HookInv
  <2> QED
    BY <1>1, <2>2, <2>3 DEF ReadRequest
<1>2. CASE RunHook(s)
  <2>1. UNCHANGED <<connOpen, hooked, traced, copyVars, result, tcpErrors>> /\ pc[s] = "hook"
    BY <1>2 DEF RunHook
  <2>2. CASE Abort(s) /\ UNCHANGED <<state, putback>>
    <3>1. CopyTypeOK'
      BY <2>1, <2>2, AbortEnds DEF CopyTypeOK, copyVars
    <3>2. RequestInv'
      BY <2>1, <2>2, AbortEnds DEF CopyTypeOK, RequestInv, BeforeCopy, BeforeDial
    <3>3. \A t \in Streams : pc'[t] \in BeforeCopy => pc[t] \in BeforeCopy
      BY <2>1, <2>2, AbortEnds DEF CopyTypeOK, BeforeCopy, BeforeDial
    <3>4. HookInv'
      BY <2>1, <2>2, AbortEnds DEF HookInv, CopyTypeOK, copyVars, BeforeCopy, BeforeDial
    <3> QED
      BY <2>1, <2>2, <3>1, <3>2, <3>3, <3>4, CopiersUntouched DEF HookInv
  <2>3. CASE /\ state' = [state EXCEPT ![s] = "connecting"]
             /\ pc' = [pc EXCEPT ![s] = "dial"]
             /\ \E b \in {"none", "held"} : putback' = [putback EXCEPT ![s] = b]
             /\ UNCHANGED end
    <3>1. CopyTypeOK'
      BY <2>1, <2>3 DEF CopyTypeOK, copyVars
    <3>2. RequestInv'
      BY <2>1, <2>3 DEF CopyTypeOK, RequestInv, BeforeCopy, BeforeDial
    <3>3. \A t \in Streams : pc'[t] \in BeforeCopy => pc[t] \in BeforeCopy
      BY <2>1, <2>3 DEF CopyTypeOK, BeforeCopy, BeforeDial
    <3>4. HookInv'
      BY <2>1, <2>3 DEF HookInv, CopyTypeOK, copyVars, BeforeCopy, BeforeDial
    <3>5. \A t \in Streams : putback'[t] = "written" <=> putback[t] = "written"
      BY <2>1, <2>3 DEF HookInv, CopyTypeOK
    <3> QED
      BY <2>1, <2>3, <3>1, <3>2, <3>3, <3>4, <3>5, CopiersUntouched
  <2> QED
    BY <1>2, <2>2, <2>3 DEF RunHook
<1>3. CASE Dial(s)
  <2>1. UNCHANGED <<connOpen, hooked, putback, traced, errChan, logged, written, asked, result>> /\ pc[s] = "dial"
    BY <1>3 DEF Dial
  <2>2. CASE /\ Abort(s) /\ tcpErrors' = [tcpErrors EXCEPT ![s] = @ + 1]
             /\ UNCHANGED <<state, copier>>
    <3>1. tcpErrors' \in [Streams -> 0..1] /\ \A t \in Streams : t # s => tcpErrors'[t] = tcpErrors[t]
      <4>1. tcpErrors[s] = 0
        BY <2>1 DEF RequestInv, BeforeCopy, BeforeDial
      <4> QED
        BY <2>2, <4>1 DEF CopyTypeOK
    <3>2. CopyTypeOK'
      BY <2>1, <2>2, <3>1, AbortEnds, ZenonT(40) DEF CopyTypeOK
    <3>3. RequestInv'
      BY <2>1, <2>2, <3>1, AbortEnds DEF CopyTypeOK, RequestInv, BeforeCopy, BeforeDial
    <3>4. \A t \in Streams : pc'[t] \in BeforeCopy => pc[t] \in BeforeCopy
      BY <2>1, <2>2, AbortEnds DEF CopyTypeOK, BeforeCopy, BeforeDial
    <3>5. HookInv'
      BY <2>1, <2>2, AbortEnds DEF HookInv, CopyTypeOK, BeforeCopy, BeforeDial
    <3> QED
      BY <2>1, <2>2, <3>2, <3>3, <3>4, <3>5, CopiersUntouched DEF copyVars
  <2>3. CASE /\ end' = [end EXCEPT ![s].target = "open"]
             /\ state' = [state EXCEPT ![s] = "established"]
             /\ IF putback[s] = "held"
                  THEN pc' = [pc EXCEPT ![s] = "putback"] /\ UNCHANGED copier
                  ELSE StartCopies(s)
             /\ UNCHANGED tcpErrors
    <3> DEFINE Ends == [stream : {"open", "closed"}, target : {"none", "open", "closed"}]
    <3>1. end' \in [Streams -> Ends] /\ \A t \in Streams : t # s => end'[t] = end[t]
      <4>1. end \in [Streams -> Ends] /\ end[s] \in Ends
        BY DEF CopyTypeOK
      <4>2. [end[s] EXCEPT !.target = "open"] \in Ends
        BY <4>1
      <4>3. end' = [end EXCEPT ![s] = [end[s] EXCEPT !.target = "open"]]
        BY <2>3
      <4> QED
        BY <4>1, <4>2, <4>3
    <3>2. CASE putback[s] = "held" /\ pc' = [pc EXCEPT ![s] = "putback"] /\ UNCHANGED copier
      <4>1. CopyTypeOK'
        BY <2>1, <2>3, <3>1, <3>2 DEF CopyTypeOK
      <4>2. RequestInv'
        BY <2>1, <2>3, <3>1, <3>2 DEF CopyTypeOK, RequestInv, BeforeCopy, BeforeDial
      <4>3. HookInv'
        BY <2>1, <3>2 DEF CopyTypeOK, HookInv, BeforeCopy, BeforeDial
      <4>4. \A t \in Streams : pc'[t] \in BeforeCopy => pc[t] \in BeforeCopy
        BY <2>1, <3>2 DEF CopyTypeOK, BeforeCopy, BeforeDial
      <4> QED
        BY <2>1, <3>2, <4>1, <4>2, <4>3, <4>4, CopiersUntouched DEF copyVars
    <3>3. CASE putback[s] # "held" /\ StartCopies(s)
      <4>1. CopyTypeOK' /\ RequestInv'
        <5>1. copier' \in [Streams -> [Dirs -> {"none", "read", "check", "write", "done"}]]
          BY <3>3 DEF CopyTypeOK, StartCopies
        <5>2. CopyTypeOK'
          BY <2>1, <2>3, <3>1, <3>3, <5>1 DEF CopyTypeOK, StartCopies
        <5> QED
          BY <2>1, <2>3, <3>1, <3>3, <5>2 DEF CopyTypeOK, RequestInv, BeforeCopy, BeforeDial, StartCopies
      <4>2. HookInv'
        BY <2>1, <3>3 DEF CopyTypeOK, HookInv, BeforeCopy, BeforeDial, StartCopies
      <4>3. /\ \A t \in Streams, e \in Dirs : t # s => Unasked(t, e)' = Unasked(t, e) /\ written'[t][e] = written[t][e]
            /\ \A e \in Dirs : Due(s, e)' = written'[s][e]
        BY <2>1 DEF Unasked, Due, CopierInv, CopierOK, HookInv, BeforeCopy, BeforeDial
      <4> QED
        BY <2>1, <3>3, <4>1, <4>2, <4>3, CopiesStart DEF BeforeCopy, BeforeDial
    <3> QED
      BY <2>3, <3>2, <3>3
  <2> QED
    BY <1>3, <2>2, <2>3 DEF Dial
<1>4. CASE CopyReturn(s)
  <2>1. CopyTypeOK' /\ RequestInv'
    BY <1>4 DEF CopyReturn, CopyTypeOK, ChannelTypes, RequestInv, BeforeCopy, BeforeDial, copyVars
  <2>2. UNCHANGED <<copyVars, putback>> /\ \A t \in Streams : pc'[t] \in BeforeCopy => pc[t] \in BeforeCopy
    BY <1>4 DEF CopyReturn, CopyTypeOK, BeforeCopy, BeforeDial
  <2>3. HookInv'
    BY <1>4 DEF CopyReturn, HookInv, CopyTypeOK, BeforeCopy, BeforeDial, copyVars
  <2> QED
    BY <2>1, <2>2, <2>3, CopiersUntouched
<1>5. CASE Cleanup(s)
  <2>1. CopyTypeOK' /\ RequestInv'
    BY <1>5 DEF Cleanup, CopyTypeOK, RequestInv, BeforeCopy, BeforeDial, copyVars
  <2>2. UNCHANGED <<copyVars, putback>> /\ \A t \in Streams : pc'[t] \in BeforeCopy => pc[t] \in BeforeCopy
    BY <1>5 DEF Cleanup, CopyTypeOK, BeforeCopy, BeforeDial
  <2>3. HookInv'
    BY <1>5 DEF Cleanup, HookInv, CopyTypeOK, BeforeCopy, BeforeDial, copyVars
  <2> QED
    BY <2>1, <2>2, <2>3, CopiersUntouched
<1>6. CASE HandlerReturn(s)
  <2>1. CopyTypeOK' /\ RequestInv'
    BY <1>6 DEF HandlerReturn, CopyTypeOK, RequestInv, BeforeCopy, BeforeDial, copyVars
  <2>2. UNCHANGED <<copyVars, putback>> /\ \A t \in Streams : pc'[t] \in BeforeCopy => pc[t] \in BeforeCopy
    BY <1>6 DEF HandlerReturn, CopyTypeOK, BeforeCopy, BeforeDial
  <2>3. HookInv'
    BY <1>6 DEF HandlerReturn, HookInv, CopyTypeOK, BeforeCopy, BeforeDial, copyVars
  <2> QED
    BY <2>1, <2>2, <2>3, CopiersUntouched
<1>7. CASE PutBack(s)
  <2>1. /\ UNCHANGED <<connOpen, hooked, state, traced, end, errChan, logged, asked, result, tcpErrors>>
        /\ StartCopies(s) /\ pc[s] = "putback" /\ putback[s] = "held"
        /\ \A d \in Dirs : written[s][d] = 0 /\ logged[s][d] = 0
    <3>1. /\ UNCHANGED <<connOpen, hooked, state, traced, end, errChan, logged, asked, result, tcpErrors>>
          /\ StartCopies(s) /\ pc[s] = "putback"
      BY <1>7 DEF PutBack
    <3>2. putback[s] = "held" /\ \A d \in Dirs : copier[s][d] = "none" /\ written[s][d] = 0
      BY <3>1 DEF HookInv
    <3>3. \A d \in Dirs : logged[s][d] \in Nat /\ Unasked(s, d) = 0 /\ Due(s, d) = 0
      BY <3>2, MaxChunksAssumption DEF CopyTypeOK, CopierInv, CopierOK, Unasked
    <3> QED
      BY <3>1, <3>2, <3>3 DEF Due
  <2>2. /\ written' \in [Streams -> [Dirs -> Nat]]
        /\ putback' \in [Streams -> {"none", "held", "written", "failed"}]
        /\ putback'[s] \in {"written", "failed"}
        /\ \A e \in Dirs : written'[s][e] = Unasked(s, e)'
        /\ \A t \in Streams : t # s => putback'[t] = putback[t] /\ \A e \in Dirs : written'[t][e] = written[t][e]
    <3>1. CASE /\ putback' = [putback EXCEPT ![s] = "written"]
               /\ written' = [written EXCEPT ![s]["up"] = @ + 1]
      <4>0. "up" \in Dirs /\ written[s]["up"] + 1 = 1
        BY <2>1 DEF Dirs
      <4>1. written' = [written EXCEPT ![s]["up"] = 1]
        BY <3>1, <4>0
      <4>2. /\ written' \in [Streams -> [Dirs -> Nat]]
            /\ \A t \in Streams, e \in Dirs : written'[t][e] = IF t = s /\ e = "up" THEN 1 ELSE written[t][e]
        BY <4>0, <4>1, UpdateOneDir DEF CopyTypeOK
      <4>3. putback' \in [Streams -> {"none", "held", "written", "failed"}] /\ putback'[s] = "written"
        BY <3>1 DEF CopyTypeOK
      <4>4. \A t \in Streams : t # s => putback'[t] = putback[t]
        BY <3>1 DEF CopyTypeOK
      <4> QED
        BY <2>1, <4>2, <4>3, <4>4 DEF Unasked
    <3>2. CASE putback' = [putback EXCEPT ![s] = "failed"] /\ UNCHANGED written
      BY <2>1, <3>2 DEF CopyTypeOK, Unasked
    <3> QED
      BY <1>7, <3>1, <3>2 DEF PutBack
  <2>3. CopyTypeOK' /\ RequestInv'
    <3>1. copier' \in [Streams -> [Dirs -> {"none", "read", "check", "write", "done"}]]
      BY <2>1 DEF CopyTypeOK, StartCopies
    <3>2. CopyTypeOK'
      BY <2>1, <2>2, <3>1 DEF CopyTypeOK, StartCopies
    <3> QED
      BY <2>1, <3>2 DEF CopyTypeOK, RequestInv, BeforeCopy, BeforeDial, StartCopies
  <2>4. HookInv'
    BY <2>1, <2>2 DEF CopyTypeOK, HookInv, BeforeCopy, BeforeDial, StartCopies
  <2>5. /\ \A t \in Streams, e \in Dirs : t # s => Unasked(t, e)' = Unasked(t, e) /\ written'[t][e] = written[t][e]
        /\ \A e \in Dirs : Due(s, e)' = written'[s][e]
    <3>1. \A e \in Dirs : logged'[s][e] = 0 /\ Unasked(s, e)' \in Nat
      BY <2>1 DEF Unasked
    <3> QED
      BY <2>2, <3>1 DEF Unasked, Due
  <2> QED
    BY <2>1, <2>3, <2>4, <2>5, CopiesStart DEF BeforeCopy
<1> QED
  BY <1>1, <1>2, <1>3, <1>4, <1>5, <1>6, <1>7

\* Every step of the relay keeps the invariant.
LEMMA CopyStep == CopyInv /\ [NextCopy]_streamVars => CopyInv'
<1> SUFFICES ASSUME CopyInv, [NextCopy]_streamVars PROVE CopyInv'
  OBVIOUS
<1>1. ASSUME NEW s \in Streams, NEW d \in Dirs,
             \/ CopyRead(s, d) \/ CopyReadEnd(s, d) \/ CopyCheck(s, d)
             \/ CopyWrite(s, d) \/ CopyWriteError(s, d)
      PROVE  CopyInv'
  <2>1. UNCHANGED <<pc, hooked, putback, end, tcpErrors, traced, state>>
    BY <1>1 DEF CopyRead, CopyReadEnd, CopyCheck, CopyWrite, CopyWriteError
  <2>2. RequestInv'
    BY <2>1 DEF CopyInv, RequestInv
  <2>3. CopyTypeOK' /\ ChannelTypes' /\ ResultsInv' /\ CopierInv'
    BY <1>1, CopierMoves
  <2>4. HookInv'
    <3>1. copier[s][d] # "none" /\ putback[s] # "held" /\ pc[s] \notin BeforeCopy
      BY <1>1 DEF CopyRead, CopyReadEnd, CopyCheck, CopyWrite, CopyWriteError, CopyInv, HookInv
    <3>2. \A t \in Streams : t # s => copier'[t] = copier[t] /\ written'[t] = written[t]
      BY <1>1 DEF CopyRead, CopyReadEnd, CopyCheck, CopyWrite, CopyWriteError, CopyEnds, CopyInv, CopyTypeOK
    <3> QED
      BY <2>1, <3>1, <3>2 DEF CopyInv, HookInv
  <2> QED
    BY <2>2, <2>3, <2>4 DEF CopyInv
<1>2. CASE ConnectionClose
  <2>1. CopyTypeOK' /\ RequestInv' /\ HookInv' /\ UNCHANGED <<pc, putback, copyVars>>
    <3>1. UNCHANGED <<pc, hooked, putback, state, traced, end, copyVars, result, tcpErrors>>
      BY <1>2 DEF ConnectionClose
    <3>2. CopyTypeOK'
      BY <1>2, <3>1 DEF ConnectionClose, CopyInv, CopyTypeOK, copyVars
    <3> QED
      BY <3>1, <3>2 DEF CopyInv, RequestInv, HookInv, copyVars
  <2> QED
    BY <2>1, CopiersUntouched DEF CopyInv
<1>3. CASE UNCHANGED streamVars
  <2>1. CopyTypeOK' /\ RequestInv' /\ HookInv' /\ UNCHANGED <<pc, putback, copyVars>>
    BY <1>3 DEF CopyInv, CopyTypeOK, RequestInv, HookInv, copyVars, streamVars
  <2> QED
    BY <2>1, CopiersUntouched DEF CopyInv
<1> QED
  BY <1>1, <1>2, <1>3, RequestMoves DEF NextCopy, CopyFinished

\* A connection without streams satisfies it.
LEMMA InitCopyInv == InitCopy => CopyInv
<1> SUFFICES ASSUME InitCopy PROVE CopyInv
  OBVIOUS
<1> USE DEF InitCopy, PerDir
<1>1. connOpen \in BOOLEAN /\ hooked \in [Streams -> BOOLEAN] /\ traced \in [Streams -> BOOLEAN]
  BY Zenon
<1>2. errChan \in [Streams -> Seq(Results)] /\ \A s \in Streams : Len(errChan[s]) = 0
  OBVIOUS
<1>3. CopyTypeOK
  BY <1>1, <1>2, MaxChunksAssumption DEF CopyTypeOK
<1>4. ResultsInv /\ CopierInv
  BY <1>2 DEF ResultsInv, CopierInv, CopierDone, CopierOK, Due, Unasked, Dirs
<1>5. RequestInv
  <2>1. /\ traced = [s \in Streams |-> TRUE] /\ pc = [s \in Streams |-> "request"]
        /\ end = [s \in Streams |-> [stream |-> "open", target |-> "none"]]
        /\ tcpErrors = [s \in Streams |-> 0]
    OBVIOUS
  <2> HIDE DEF InitCopy
  <2>2. \A s \in Streams : traced[s] = TRUE
    BY <2>1, Zenon
  <2>3. \A s \in Streams : pc[s] = "request" /\ end[s].target = "none" /\ tcpErrors[s] = 0
    BY <2>1
  <2> QED
    BY <2>2, <2>3 DEF RequestInv, BeforeCopy, BeforeDial
<1>6. HookInv
  BY DEF HookInv
<1> QED
  BY <1>2, <1>3, <1>4, <1>5, <1>6 DEF CopyInv, ChannelTypes

\* For any number of streams and chunks: the relay forwards only what the traffic
\* logger accepted and, before it, what a hook had put back; errChan's two slots
\* suffice, and a handler that returned leaves neither end open nor a stream
\* untraced in another state than closed.
THEOREM RelayIsSafe == SpecCopy => []RelaySafe
<1>1. CopyInv => RefusedIsNotForwarded
  <2> SUFFICES ASSUME CopyInv, NEW s \in Streams
               PROVE  /\ putback[s] # "none" => hooked[s]
                      /\ \A d \in Dirs :
                            /\ putback[s] = "held" => copier[s][d] = "none" /\ written[s][d] = 0
                            /\ written[s][d] <= Due(s, d)
                            /\ Due(s, d) > written[s][d] =>
                                  \/ copier[s][d] = "write"
                                  \/ copier[s][d] = "done" /\ Failed(s)
    BY DEF RefusedIsNotForwarded, Failed, Due
  <2>1. putback[s] # "none" => hooked[s]
    BY DEF CopyInv, HookInv
  <2>2. ASSUME NEW d \in Dirs
        PROVE  /\ putback[s] = "held" => copier[s][d] = "none" /\ written[s][d] = 0
               /\ written[s][d] <= Due(s, d)
               /\ Due(s, d) > written[s][d] =>
                     \/ copier[s][d] = "write"
                     \/ copier[s][d] = "done" /\ Failed(s)
    <3>1. /\ copier[s][d] \in {"none", "read", "check", "write", "done"}
          /\ logged[s][d] \in Nat /\ written[s][d] \in Nat /\ CopierOK(s, d)
      BY MaxChunksAssumption DEF CopyInv, CopyTypeOK, CopierInv
    <3>2. Due(s, d) \in Nat
      BY <3>1 DEF Due, Unasked
    <3> QED
      BY <3>1, <3>2 DEF CopierOK, CopyInv, HookInv
  <2> QED
    BY <2>1, <2>2
<1>2. CopyInv => RelaySafe
  BY <1>1 DEF CopyInv, RequestInv, NothingLeftOpen, RelaySafe
<1> QED
  BY <1>2, InitCopyInv, CopyStep, PTL DEF SpecCopy

-----------------------------------------------------------------------------
(* UDPHop: the invariant *)

HopTypeOK ==
    /\ hopSocket \in [Sockets -> {"none", "open", "closed"}]
    /\ currentConn \in Sockets /\ prevConn \in 0..MaxHops
    /\ socketDeadline \in [Sockets -> [read : {Zero, 1}, write : {Zero, 1}]]
    /\ readDeadline \in {Zero, 1} /\ writeDeadline \in {Zero, 1}
    /\ recvLoop \in [Sockets -> {"none", "read", "send", "done"}]
    /\ deaf \in SUBSET Sockets
    /\ hopClosed \in BOOLEAN

\* Sockets are opened in order, so the next one is neither of the two in use.
SocketOrder ==
    /\ prevConn < currentConn
    /\ \A s \in Sockets : hopSocket[s] = "none" <=> s > currentConn

HopInv == HopTypeOK /\ SocketOrder /\ HopSockets

-----------------------------------------------------------------------------
(* UDPHop: the proof *)

\* Every step of hopLoop, of the receive loops and of the callers keeps it.
LEMMA HopStep == HopInv /\ [NextHop]_hopVars => HopInv'
<1> SUFFICES ASSUME HopInv, [NextHop]_hopVars PROVE HopInv'
  OBVIOUS
<1> USE MaxHopsAssumption DEF HopInv, HopTypeOK, SocketOrder, HopSockets, OpenSockets, Sockets, Zero
<1>1. CASE Hop
  <2>1. PICK n \in Sockets :
          /\ hopSocket[n] = "none"
          /\ hopSocket' = [Shut(prevConn, hopSocket) EXCEPT ![n] = "open"]
          /\ prevConn' = currentConn /\ currentConn' = n
          /\ socketDeadline' = [socketDeadline EXCEPT ![n] = Inherited]
          /\ recvLoop' = [recvLoop EXCEPT ![n] = "read"]
          /\ \A k \in Sockets : k < n => hopSocket[k] # "none"
    BY <1>1 DEF Hop
  <2>2. UNCHANGED <<readDeadline, writeDeadline, deaf, hopClosed>> /\ ~hopClosed
    BY <1>1 DEF Hop
  <2>3. HopTypeOK' /\ SocketOrder'
    BY <2>1, <2>2 DEF Shut, Inherited
  <2>4. OpenSockets' = {prevConn', currentConn'} \ {0}
    BY <2>1, <2>2 DEF Shut
  <2>5. n \notin deaf
    BY <2>1
  <2>6. \A s \in deaf : hopSocket'[s] # "none" /\ recvLoop'[s] = "done"
    BY <2>1, <2>5 DEF Shut
  <2>7. \A s \in OpenSockets' : \/ s = n \/ s \in OpenSockets
    BY <2>1, <2>2, <2>4
  <2>8. \A s \in OpenSockets' : /\ s \in deaf \/ recvLoop'[s] \in {"read", "send"}
                                /\ socketDeadline'[s] = [read |-> readDeadline, write |-> writeDeadline]
    BY <2>1, <2>2, <2>7 DEF Inherited
  <2> QED
    BY <2>2, <2>3, <2>4, <2>6, <2>8
<1>2. CASE CloseHop
  <2>1. /\ hopSocket' \in [Sockets -> {"none", "open", "closed"}]
        /\ \A s \in Sockets : hopSocket'[s] = IF s = prevConn \/ s = currentConn THEN "closed" ELSE hopSocket[s]
    <3>1. CASE prevConn = 0
      BY <1>2, <3>1 DEF CloseHop, Shut
    <3>2. CASE prevConn # 0
      BY <1>2, <3>2 DEF CloseHop, Shut
    <3> QED
      BY <3>1, <3>2
  <2>2. hopClosed' = TRUE /\ ~hopClosed
    BY <1>2 DEF CloseHop
  <2>3. UNCHANGED <<prevConn, currentConn, readDeadline, writeDeadline, socketDeadline, recvLoop, deaf>>
    BY <1>2 DEF CloseHop
  <2>4. HopTypeOK' /\ SocketOrder'
    BY <2>1, <2>2, <2>3
  <2>5. OpenSockets' = {}
    BY <2>1, <2>2
  <2>6. \A s \in deaf : hopSocket'[s] # "none" /\ recvLoop'[s] = "done"
    BY <2>1, <2>3
  <2> QED
    BY <2>2, <2>3, <2>4, <2>5, <2>6
<1>3. CASE ReadFromCall
  BY <1>3 DEF ReadFromCall
<1>4. CASE ReadFromReturn
  BY <1>4 DEF ReadFromReturn
<1>5. ASSUME NEW r \in {Zero, 1}, NEW w \in {Zero, 1}, SetDeadlines(r, w) PROVE HopInv'
  BY <1>5 DEF SetDeadlines
<1>6. ASSUME NEW s \in Sockets, RecvPacket(s) PROVE HopInv'
  BY <1>6 DEF RecvPacket
<1>7. ASSUME NEW s \in Sockets, RecvTimeout(s) PROVE HopInv'
  BY <1>7 DEF RecvTimeout
<1>8. ASSUME NEW s \in Sockets, RecvSendError(s) PROVE HopInv'
  BY <1>8 DEF RecvSendError
<1>9. ASSUME NEW s \in Sockets, RecvExit(s) PROVE HopInv'
  BY <1>9 DEF RecvExit
<1>10. ASSUME NEW s \in Sockets, RecvFails(s) PROVE HopInv'
  BY <1>10 DEF RecvFails
<1>11. CASE UNCHANGED hopVars
  BY <1>11 DEF hopVars
<1> QED
    BY <1>1, <1>2, <1>3, <1>4, <1>5, <1>6, <1>7, <1>8, <1>9, <1>10, <1>11 DEF NextHop

\* NewUDPHopPacketConn's state satisfies it.
LEMMA InitHopInv == InitHop => HopInv
<1> SUFFICES ASSUME InitHop PROVE HopInv
  OBVIOUS
<1>1. hopClosed \in BOOLEAN /\ hopClosed = FALSE
  BY DEF InitHop
<1>2. HopTypeOK
  BY <1>1, MaxHopsAssumption DEF InitHop, HopTypeOK, Sockets, NoDeadline, Zero
<1>3. SocketOrder
  BY MaxHopsAssumption DEF InitHop, SocketOrder, Sockets
<1>4. OpenSockets = {1} /\ prevConn = 0 /\ currentConn = 1
  BY MaxHopsAssumption DEF InitHop, OpenSockets, Sockets
<1>5. \A s \in OpenSockets : /\ s \in deaf \/ recvLoop[s] \in {"read", "send"}
                             /\ socketDeadline[s] = [read |-> readDeadline, write |-> writeDeadline]
  BY <1>4, MaxHopsAssumption DEF InitHop, Sockets, NoDeadline, Zero
<1>6. deaf = {}
  BY DEF InitHop
<1> QED
  BY <1>1, <1>2, <1>3, <1>4, <1>5, <1>6 DEF HopInv, HopSockets

\* For any number of hops: the open sockets are the current and the previous one,
\* both have the deadlines set last and are read unless a read of theirs has failed,
\* and Close leaves none.
THEOREM HopSocketsAreSound == SpecHop => []HopSockets
<1>1. HopInv => HopSockets
  BY DEF HopInv
<1> QED
  BY <1>1, InitHopInv, HopStep, PTL DEF SpecHop

-----------------------------------------------------------------------------
(* RealmPunch: the invariant *)

PunchTypeOK ==
    /\ connAttempts \in SUBSET Attempts
    /\ channel \in [Attempts -> RespondCalls \cup {NoCall}]
    /\ respond \in [RespondCalls -> {"start", "add", "wait", "remove", "delete", "done", "refused"}]
    /\ inbox \in [RespondCalls -> Seq(Attempts)]
    /\ punchEvents \in Seq(Attempts)

\* The channel of an attempt belongs to the one call that is between addAttempt
\* and the end of removeAttempt.
ChannelInv ==
    /\ \A c \in RespondCalls : Active(c) => channel[AttemptOf[c]] = c
    /\ \A a \in Attempts :
          channel[a] # NoCall => AttemptOf[channel[a]] = a /\ Active(channel[a])

\* The connection knows an attempt while its call waits or starts to clean up.
AttemptInv ==
    \A a \in Attempts :
       a \in connAttempts <=> channel[a] # NoCall /\ respond[channel[a]] \in {"wait", "remove"}

PunchInv == PunchTypeOK /\ ChannelInv /\ AttemptInv /\ RegisteredWhileWaiting

-----------------------------------------------------------------------------
(* RealmPunch: the proof *)

\* Every step keeps it.
LEMMA PunchStep == PunchInv /\ [NextPunch]_punchVars => PunchInv'
<1> SUFFICES ASSUME PunchInv, [NextPunch]_punchVars PROVE PunchInv'
  OBVIOUS
<1> USE AttemptOfAssumption, NoCallAssumption DEF PunchInv, PunchTypeOK, ChannelInv, AttemptInv, RegisteredWhileWaiting, Active
<1>1. ASSUME NEW c \in RespondCalls, AddAttempt(c) PROVE PunchInv'
  <2> DEFINE a == AttemptOf[c]
  <2>1. a \in Attempts /\ respond[c] = "start"
        /\ UNCHANGED <<connAttempts, inbox, punchEvents, punches, passed>>
    BY <1>1 DEF AddAttempt
  <2>2. CASE channel[a] = NoCall
    <3>1. channel' = [channel EXCEPT ![a] = c] /\ respond' = [respond EXCEPT ![c] = "add"]
      BY <1>1, <2>2 DEF AddAttempt, At
    <3>2. PunchTypeOK'
      BY <2>1, <3>1
    <3>3. ChannelInv' /\ AttemptInv'
      BY <2>1, <2>2, <3>1
    <3>4. RegisteredWhileWaiting'
      BY <2>1, <2>2, <3>1
    <3> QED
      BY <3>2, <3>3, <3>4
  <2>3. CASE channel[a] # NoCall
    <3>1. UNCHANGED channel /\ respond' = [respond EXCEPT ![c] = "refused"]
      BY <1>1, <2>3 DEF AddAttempt, At
    <3> QED
      BY <2>1, <3>1
  <2> QED
    BY <2>2, <2>3
<1>2. ASSUME NEW c \in RespondCalls, AddPunchAttempt(c) PROVE PunchInv'
  <2> DEFINE a == AttemptOf[c]
  <2>1. /\ a \in Attempts
        /\ respond[c] = "add" /\ respond' = [respond EXCEPT ![c] = "wait"]
        /\ connAttempts' = connAttempts \cup {a}
        /\ UNCHANGED <<channel, inbox, punchEvents, passed>>
    BY <1>2 DEF AddPunchAttempt, At
  <2>2. PunchTypeOK'
    BY <2>1
  <2>3. ChannelInv'
    BY <2>1
  <2>4. AttemptInv'
    BY <2>1
  <2>5. RegisteredWhileWaiting'
    BY <2>1
  <2> QED
    BY <2>2, <2>3, <2>4, <2>5
<1>3. ASSUME NEW c \in RespondCalls, RespondReturns(c) PROVE PunchInv'
  <2> DEFINE a == AttemptOf[c]
  <2>1. /\ a \in Attempts
        /\ respond[c] = "wait" /\ respond' = [respond EXCEPT ![c] = "remove"]
        /\ inbox' = [inbox EXCEPT ![c] = <<>>]
        /\ UNCHANGED <<connAttempts, channel, punchEvents, passed>>
    BY <1>3 DEF RespondReturns, At
  <2>2. PunchTypeOK'
    BY <2>1
  <2>3. ChannelInv'
    BY <2>1
  <2>4. AttemptInv'
    BY <2>1
  <2>5. RegisteredWhileWaiting'
    BY <2>1
  <2> QED
    BY <2>2, <2>3, <2>4, <2>5
<1>4. ASSUME NEW c \in RespondCalls, RemoveFromConn(c) PROVE PunchInv'
  <2> DEFINE a == AttemptOf[c]
  <2>1. /\ a \in Attempts
        /\ respond[c] = "remove" /\ respond' = [respond EXCEPT ![c] = "delete"]
        /\ connAttempts' = connAttempts \ {a}
        /\ UNCHANGED <<channel, inbox, punchEvents, passed>>
    BY <1>4 DEF RemoveFromConn, At
  <2>2. PunchTypeOK'
    BY <2>1
  <2>3. ChannelInv'
    BY <2>1
  <2>4. AttemptInv'
    BY <2>1
  <2>5. RegisteredWhileWaiting'
    BY <2>1
  <2> QED
    BY <2>2, <2>3, <2>4, <2>5
<1>5. ASSUME NEW c \in RespondCalls, RemoveFromMap(c) PROVE PunchInv'
  <2> DEFINE a == AttemptOf[c]
  <2>1. /\ a \in Attempts
        /\ respond[c] = "delete" /\ respond' = [respond EXCEPT ![c] = "done"]
        /\ channel' = [channel EXCEPT ![a] = NoCall]
        /\ UNCHANGED <<connAttempts, inbox, punchEvents, passed>>
    BY <1>5 DEF RemoveFromMap, At
  <2>2. PunchTypeOK'
    BY <2>1
  <2>3. ChannelInv'
    BY <2>1
  <2>4. AttemptInv'
    BY <2>1
  <2>5. RegisteredWhileWaiting'
    BY <2>1
  <2> QED
    BY <2>2, <2>3, <2>4, <2>5
<1>6. ASSUME NEW a \in Attempts, PunchArrives(a) PROVE PunchInv'
  <2>1. UNCHANGED <<connAttempts, channel, respond, inbox>>
    BY <1>6 DEF PunchArrives
  <2>2. punchEvents' \in Seq(Attempts)
    <3>1. punchEvents' = punchEvents \/ punchEvents' = Append(punchEvents, a)
      BY <1>6 DEF PunchArrives
    <3>2. Append(punchEvents, a) \in Seq(Attempts)
      OBVIOUS
    <3> QED
      BY <3>1, <3>2, ZenonT(40)
  <2>3. passed' = {}
    BY <1>6 DEF PunchArrives, Waiting
  <2> QED
    BY <2>1, <2>2, <2>3
<1>7. CASE Dispatch
  BY <1>7 DEF Dispatch
<1>8. CASE UNCHANGED punchVars
  BY <1>8 DEF punchVars
<1> QED
    BY <1>1, <1>2, <1>3, <1>4, <1>5, <1>6, <1>7, <1>8 DEF NextPunch, RemoveAttempt

\* Two empty tables satisfy it.
LEMMA InitPunchInv == InitPunch => PunchInv
  BY AttemptOfAssumption, NoCallAssumption
  DEF InitPunch, PunchInv, PunchTypeOK, ChannelInv, AttemptInv, RegisteredWhileWaiting, Active

\* For any number of attempts, of overlapping Respond calls and of packets: a call
\* that waits is registered in both tables and gets its own events only, and no
\* table keeps an attempt nobody runs for.
THEOREM PunchIsRegistered == SpecPunch => []RegisteredWhileWaiting
<1>1. PunchInv => RegisteredWhileWaiting
  BY DEF PunchInv
<1> QED
  BY <1>1, InitPunchInv, PunchStep, PTL DEF SpecPunch

-----------------------------------------------------------------------------
(* RealmRuntime: the invariant *)

\* What the NAT may show: the address at the start and those of NATChange.
KnownAddrs == RealmAddrs \cup {1}

RealmTypeOK ==
    /\ runLoop \in {"session", "refresh", "register", "backoff", "registered", "stopped"}
    /\ runSess \in SessionIDs /\ current \in SessionIDs
    /\ sessCtx \in SUBSET SessionIDs
    /\ heartbeat \in [SessionIDs -> {"none", "wait", "post", "done"}]
    /\ external \in KnownAddrs /\ addrs \in KnownAddrs
    /\ lastPublished \in [SessionIDs -> KnownAddrs \cup {NoAddr}]
    /\ request \in [SessionIDs -> KnownAddrs \cup {NoRequest}]

\* The context of a session dies with its turn in run, and the loops of a
\* session start when run has registered it, not before.
SessionInv ==
    /\ sessCtx \subseteq {runSess}
    /\ runLoop # "session" => sessCtx = {}
    /\ runLoop = "session" => current = runSess
    /\ \A s \in SessionIDs : s > runSess => heartbeat[s] = "none"
    /\ runLoop = "registered" => heartbeat[runSess] = "none"

\* A request under way carries what the server does not have yet.
PublishInv ==
    \A s \in SessionIDs :
       registered = s /\ s \notin lostUpdate =>
          /\ heartbeat[s] = "wait" => published = lastPublished[s]
          /\ heartbeat[s] = "post" =>
                lastPublished[s] = IF request[s] # NoRequest THEN request[s] ELSE published

RealmInv == RealmTypeOK /\ SessionInv /\ PublishInv

-----------------------------------------------------------------------------
(* RealmRuntime: the proof *)

\* Every step keeps it.
LEMMA RealmStep == RealmInv /\ [NextRealm]_realmVars => RealmInv'
<1> SUFFICES ASSUME RealmInv, [NextRealm]_realmVars PROVE RealmInv'
  OBVIOUS
<1> USE SessionsAssumption, AddrsAssumption DEF RealmInv, RealmTypeOK, SessionInv, PublishInv, KnownAddrs, SessionIDs, NoSession,
        NoAddr, NoRequest, sessVars, server
<1>1. CASE SessionEnds
  BY <1>1 DEF SessionEnds
<1>2. CASE RefreshBeforeRegister
  BY <1>2 DEF RefreshBeforeRegister, Discovered
<1>3. CASE Register
  BY <1>3 DEF Register
<1>4. CASE Backoff
  BY <1>4 DEF Backoff
<1>5. CASE SetSession
  <2>1. /\ runLoop = "registered" /\ current' = runSess
        /\ UNCHANGED <<ctxDone, runSess, external, addrs, request, responder, portMap, closing, server>>
    BY <1>5 DEF SetSession
  <2>2. \A s \in SessionIDs : s # runSess /\ s \notin lostUpdate' => s \notin lostUpdate
    BY <1>5 DEF SetSession
  <2>3. CASE ctxDone
    <3>1. runLoop' = "stopped" /\ UNCHANGED <<sessCtx, heartbeat, lastPublished, events>>
      BY <1>5, <2>3 DEF SetSession
    <3> QED
      BY <2>1, <2>2, <3>1
  <2>4. CASE ~ctxDone
    <3>1. /\ runLoop' = "session" /\ sessCtx' = sessCtx \cup {runSess}
          /\ heartbeat' = [heartbeat EXCEPT ![runSess] = "wait"]
          /\ lastPublished' = [lastPublished EXCEPT ![runSess] = addrs]
      BY <1>5, <2>4 DEF SetSession
    <3>2. RealmTypeOK' /\ SessionInv'
      BY <2>1, <3>1
    <3>3. registered = runSess /\ runSess \notin lostUpdate' => published = addrs
      BY <1>5 DEF SetSession
    <3>4. PublishInv'
      BY <2>1, <2>2, <3>1, <3>3
    <3> QED
      BY <3>2, <3>4
  <2> QED
    BY <2>3, <2>4
<1>6. CASE CloseCancel
  BY <1>6 DEF CloseCancel
<1>7. CASE Deregister
  BY <1>7 DEF Deregister
<1>8. CASE SessionExpires
  BY <1>8 DEF SessionExpires
<1>9. ASSUME NEW a \in RealmAddrs, NATChange(a) PROVE RealmInv'
  BY <1>9 DEF NATChange
<1>10. ASSUME NEW s \in SessionIDs, HeartbeatReply(s) PROVE RealmInv'
  <2>1. /\ heartbeat[s] = "post"
        /\ UNCHANGED <<ctxDone, runLoop, runSess, current, external, addrs, sessCtx, lastPublished,
                       events, responder, portMap, closing>>
        /\ request' = [request EXCEPT ![s] = NoRequest]
        /\ heartbeat' \in {[heartbeat EXCEPT ![s] = "wait"], [heartbeat EXCEPT ![s] = "done"]}
    BY <1>10 DEF HeartbeatReply, Posted
  <2>2. RealmTypeOK' /\ SessionInv'
    BY <2>1
  <2>3. CASE Delivered(s) /\ UNCHANGED lostUpdate
    BY <2>1, <2>3 DEF Delivered
  <2>4. CASE /\ registered # s /\ heartbeat' = [heartbeat EXCEPT ![s] = "done"]
             /\ UNCHANGED <<server, lostUpdate>>
    BY <2>1, <2>4
  <2>5. CASE /\ Delivered(s) \/ UNCHANGED server
             /\ lostUpdate' = IF request[s] # NoRequest THEN lostUpdate \cup {s} ELSE lostUpdate
    BY <2>1, <2>5 DEF Delivered
  <2> QED
    BY <1>10, <2>3, <2>4, <2>5 DEF HeartbeatReply, Posted
<1>11. ASSUME NEW s \in SessionIDs, EventsConnect(s) PROVE RealmInv'
  BY <1>11, ZenonT(40) DEF EventsConnect, EventsGo
<1>12. ASSUME NEW s \in SessionIDs, EventsDropped(s) PROVE RealmInv'
  BY <1>12 DEF EventsDropped, EventsGo
<1>13. ASSUME NEW s \in SessionIDs, HeartbeatStop(s) PROVE RealmInv'
  BY <1>13 DEF HeartbeatStop
<1>14. ASSUME NEW s \in SessionIDs, HeartbeatTick(s) PROVE RealmInv'
  BY <1>14 DEF HeartbeatTick
<1>15. ASSUME NEW s \in SessionIDs, NEW r \in Responders, EventsPunch(s, r) PROVE RealmInv'
  BY <1>15 DEF EventsPunch, EventsGo
<1>16. ASSUME NEW r \in Responders, ConnectAddrs(r) PROVE RealmInv'
  BY <1>16 DEF ConnectAddrs, RespondGo, Discovered
<1>17. ASSUME NEW r \in Responders, RespondPost(r) PROVE RealmInv'
  BY <1>17 DEF RespondPost, RespondGo
<1>18. ASSUME NEW r \in Responders, RespondInvalid(r) PROVE RealmInv'
  BY <1>18 DEF RespondInvalid, RespondGo
<1>19. ASSUME NEW r \in Responders, RespondPunched(r) PROVE RealmInv'
  BY <1>19 DEF RespondPunched, RespondGo
<1>20. CASE PortMapTick \/ PortMapStop
  BY <1>20 DEF PortMapTick, PortMapStop, PortMapGo
<1>21. CASE PortMapRenewed
  BY <1>21 DEF PortMapRenewed, PortMapGo, Discovered
<1>22. CASE UNCHANGED realmVars
  BY <1>22 DEF realmVars
<1> QED
  BY <1>1, <1>2, <1>3, <1>4, <1>5, <1>6, <1>7, <1>8, <1>9, <1>10, <1>11, <1>12, <1>13, <1>14, <1>15,
     <1>16, <1>17, <1>18, <1>19, <1>20, <1>21, <1>22 DEF NextRealm, RunStep, LoopStep, RespondStep

\* startRealmServerRuntime's state satisfies it.
LEMMA InitRealmInv == InitRealm => RealmInv
  BY SessionsAssumption, AddrsAssumption
  DEF InitRealm, RealmInv, RealmTypeOK, SessionInv, PublishInv, KnownAddrs, SessionIDs, NoSession,
      NoAddr, NoRequest, Started

\* For any number of sessions, addresses and responders: only the session run is
\* working with is alive, and the address the rendezvous server has is the one
\* the heartbeat loop takes for published, unless an update got lost.
THEOREM RealmHasOneSession == SpecRealm => []OneLiveSession
<1>1. RealmInv => OneLiveSession
  BY DEF RealmInv, RealmTypeOK, SessionInv, PublishInv, OneLiveSession, Running
<1> QED
  BY <1>1, InitRealmInv, RealmStep, PTL DEF SpecRealm


-----------------------------------------------------------------------------
(* Sequences that are cut and put together *)

\* Every non-empty set of natural numbers has a least element.
LEMMA LeastNumber ==
  ASSUME NEW T, T \subseteq Nat, T # {}
  PROVE  \E x \in T : \A y \in T : x <= y
<1> DEFINE R == {ss \in Nat \X Nat : ss[1] < ss[2]}
<1>1. IsWellFoundedOn(R, Nat)
  BY NatLessThanWellFounded DEF OpToRel
<1> HIDE DEF R
<1>2. PICK x \in T : \A y \in T : ~(<<y, x>> \in R)
  BY <1>1, WFMin
<1>3. ASSUME NEW y \in T PROVE x <= y
  <2>1. x \in Nat /\ y \in Nat /\ ~(<<y, x>> \in R)
    BY <1>2
  <2>2. y < x => <<y, x>> \in R
    BY <2>1 DEF R
  <2> QED
    BY <2>1, <2>2
<1> QED
  BY <1>3

\* g puts the first i elements of s one after the other.
PrefixSums(g, s, m) == g = [i \in 1..m |-> IF i = 1 THEN s[i] ELSE g[i-1] \o s[i]]

LEMMA PrefixSumsExist ==
  ASSUME NEW s, NEW n \in Nat \ {0}
  PROVE  \E g : PrefixSums(g, s, n)
<1> SUFFICES ASSUME ~ \E g : PrefixSums(g, s, n) PROVE FALSE
  OBVIOUS
<1> DEFINE T == {m \in Nat \ {0} : ~ \E g : PrefixSums(g, s, m)}
<1>1. T \subseteq Nat /\ T # {}
  OBVIOUS
<1> HIDE DEF T
<1>2. PICK m \in T : \A y \in T : m <= y
  BY <1>1, LeastNumber
<1>3. m \in Nat \ {0} /\ ~ \E g : PrefixSums(g, s, m)
  BY <1>2 DEF T
<1>4. CASE m = 1
  <2> DEFINE g == [i \in 1..1 |-> s[i]]
  <2>1. g = [i \in 1..1 |-> IF i = 1 THEN s[i] ELSE g[i-1] \o s[i]]
    OBVIOUS
  <2> QED
    BY <1>3, <1>4, <2>1 DEF PrefixSums
<1>5. CASE m # 1
  <2>1. m - 1 \in Nat \ {0} /\ ~(m <= m - 1)
    BY <1>3, <1>5
  <2>2. PICK g : PrefixSums(g, s, m - 1)
    BY <1>2, <2>1 DEF T
  <2> DEFINE h == [i \in 1..m |-> IF i = m THEN g[m-1] \o s[m] ELSE g[i]]
  <2>3. ASSUME NEW i \in 1..m PROVE h[i] = IF i = 1 THEN s[i] ELSE h[i-1] \o s[i]
    <3>1. CASE i = m
      <4>1. m \in 1..m /\ m - 1 \in 1..m /\ m - 1 # m
        BY <1>3, <1>5
      <4>2. h[m] = g[m-1] \o s[m] /\ h[m-1] = g[m-1]
        BY <4>1
      <4> QED
        BY <1>5, <3>1, <4>2
    <3>2. CASE i # m
      <4>1. i \in 1..(m-1) /\ h[i] = g[i] /\ (i # 1 => h[i-1] = g[i-1])
        BY <1>3, <3>2
      <4>2. g[i] = IF i = 1 THEN s[i] ELSE g[i-1] \o s[i]
        BY <2>2, <4>1 DEF PrefixSums
      <4> QED
        BY <4>1, <4>2
    <3> QED
      BY <3>1, <3>2
  <2>4. PrefixSums(h, s, m)
    BY <2>3, Zenon DEF PrefixSums
  <2> QED
    BY <1>3, <2>4
<1> QED
  BY <1>4, <1>5

\* What FlattenSeq is: the last of the prefixes.
LEMMA FlattenIsLastPrefix ==
  ASSUME NEW s, Len(s) \in Nat \ {0}
  PROVE  \E g : PrefixSums(g, s, Len(s)) /\ FlattenSeq(s) = g[Len(s)]
<1> DEFINE f == CHOOSE g : g = [i \in 1..Len(s) |-> IF i = 1 THEN s[i] ELSE g[i-1] \o s[i]]
<1>1. FlattenSeq(s) = f[Len(s)]
  BY DEF FlattenSeq
<1>2. \E g : g = [i \in 1..Len(s) |-> IF i = 1 THEN s[i] ELSE g[i-1] \o s[i]]
  BY PrefixSumsExist DEF PrefixSums
<1>3. f = [i \in 1..Len(s) |-> IF i = 1 THEN s[i] ELSE f[i-1] \o s[i]]
  BY <1>2
<1> HIDE DEF f
<1> QED
  BY <1>1, <1>3 DEF PrefixSums

\* The same, prefix by prefix.
Steps(g, s, n) == g[1] = s[1] /\ \A i \in 2..n : g[i] = g[i-1] \o s[i]

LEMMA FlattenSteps ==
  ASSUME NEW s, NEW n \in Nat \ {0}, Len(s) = n
  PROVE  \E g : Steps(g, s, n) /\ FlattenSeq(s) = g[n]
<1>1. PICK g : PrefixSums(g, s, n) /\ FlattenSeq(s) = g[n]
  BY FlattenIsLastPrefix
<1>2. 1 \in 1..n /\ \A i \in 2..n : i \in 1..n /\ i # 1
  OBVIOUS
<1>3. \A i \in 1..n : g[i] = IF i = 1 THEN s[i] ELSE g[i-1] \o s[i]
  BY <1>1 DEF PrefixSums
<1>4. Steps(g, s, n)
  BY <1>2, <1>3, Zenon DEF Steps
<1> QED
  BY <1>1, <1>4

\* A set that contains 1 and with each number the next one contains all of 1..n.
LEMMA UpTo ==
  ASSUME NEW n \in Nat \ {0}, NEW P, 1 \in P, \A i \in 2..n : i - 1 \in P => i \in P
  PROVE  n \in P /\ 1..n \subseteq P
<1>0. n \in 1..n
  OBVIOUS
<1> SUFFICES ASSUME NEW j \in 1..n, j \notin P PROVE FALSE
  BY <1>0
<1> DEFINE T == {i \in 1..n : i \notin P}
<1>1. T \subseteq Nat /\ T # {}
  OBVIOUS
<1>2. PICK i \in T : \A y \in T : i <= y
  BY <1>1, LeastNumber
<1>3. i \in 1..n /\ i # 1
  BY <1>2
<1>4. i \in 2..n /\ i - 1 \in 1..n /\ ~(i <= i - 1)
  BY <1>3
<1>5. i - 1 \in P
  BY <1>2, <1>4
<1> QED
  BY <1>2, <1>4, <1>5

\* Slices that follow one another put together are the whole.
LEMMA FlattenSlices ==
  ASSUME NEW S, NEW data \in Seq(S), NEW n \in Nat \ {0}, NEW c \in [0..n -> 0..Len(data)],
         c[0] = 0, c[n] = Len(data), \A i \in 1..n : c[i-1] <= c[i],
         NEW s, Len(s) = n, \A i \in 1..n : s[i] = SubSeq(data, c[i-1] + 1, c[i])
  PROVE  FlattenSeq(s) = data
<1>1. PICK g : Steps(g, s, n) /\ FlattenSeq(s) = g[n]
  BY FlattenSteps
<1> DEFINE P == {i \in 1..n : g[i] = SubSeq(data, 1, c[i])}
<1>2. 1 \in P
  <2>0. 1 \in 1..n /\ 1 - 1 = 0 /\ 0 + 1 = 1
    OBVIOUS
  <2>1. g[1] = s[1]
    BY <1>1 DEF Steps
  <2>2. s[1] = SubSeq(data, 1, c[1])
    BY <2>0
  <2> QED
    BY <2>0, <2>1, <2>2
<1>3. ASSUME NEW i \in 2..n, i - 1 \in P PROVE i \in P
  <2>0. i \in 1..n
    OBVIOUS
  <2>1. i \in 1..n /\ g[i] = g[i-1] \o s[i]
    BY <1>1, <2>0 DEF Steps
  <2>2. g[i-1] = SubSeq(data, 1, c[i-1]) /\ s[i] = SubSeq(data, c[i-1] + 1, c[i])
    BY <1>3, <2>1
  <2>3. c[i-1] \in 0..Len(data) /\ c[i] \in c[i-1]..Len(data) /\ Len(data) \in Nat
    <3>1. i - 1 \in 0..n /\ i \in 0..n /\ c[i-1] <= c[i]
      BY <2>1
    <3>2. Len(data) \in Nat
      OBVIOUS
    <3> QED
      BY <3>1, <3>2
  <2>4. SubSeq(data, 1, c[i-1]) \o SubSeq(data, c[i-1] + 1, c[i]) = SubSeq(data, 1, c[i])
    <3>1. 1 \in 1..(Len(data) + 1) /\ c[i-1] \in (1-1)..Len(data)
      BY <2>3
    <3> QED
      BY <2>3, <3>1, ConcatAdjacentSubSeq
  <2> QED
    BY <2>1, <2>2, <2>4
<1> HIDE DEF P
<1>4. n \in P
  BY <1>2, <1>3, UpTo
<1>5. g[n] = SubSeq(data, 1, Len(data))
  BY <1>4 DEF P
<1> QED
  BY <1>1, <1>5, SubSeqFull

\* d in place j.
Put(s, j, d) == [s EXCEPT ![j] = d]

\* Of the sequences x and y over S, y is longer by the length of d.
Longer(x, y, d, S) == x \in Seq(S) /\ y \in Seq(S) /\ Len(y) = Len(x) + Len(d)

\* Filling one empty place adds its length.
LEMMA FlattenFills ==
  ASSUME NEW S, NEW n \in Nat \ {0}, NEW s \in [1..n -> Seq(S)], NEW j \in 1..n, NEW d \in Seq(S), s[j] = <<>>
  PROVE  Longer(FlattenSeq(s), FlattenSeq(Put(s, j, d)), d, S)
<1> DEFINE t == Put(s, j, d)
<1>0. t \in [1..n -> Seq(S)] /\ t[j] = d /\ \A i \in 1..n : i # j => t[i] = s[i]
  BY DEF Put
<1>1. Len(s) = n /\ Len(t) = n
  BY DEF Put
<1> HIDE DEF t
<1>2. PICK g : Steps(g, s, n) /\ FlattenSeq(s) = g[n]
  BY <1>1, FlattenSteps
<1>3. PICK h : Steps(h, t, n) /\ FlattenSeq(t) = h[n]
  BY <1>1, FlattenSteps
<1> DEFINE Q(i) == /\ g[i] \in Seq(S) /\ h[i] \in Seq(S)
                   /\ j <= i => Len(h[i]) = Len(g[i]) + Len(d)
                   /\ i < j => Len(h[i]) = Len(g[i])
           P == {i \in 1..n : Q(i)}
<1>4. Len(d) \in Nat /\ Len(<<>>) = 0
  OBVIOUS
<1>5. 1 \in P
  <2>0. 1 \in 1..n
    OBVIOUS
  <2>1. g[1] = s[1] /\ h[1] = t[1] /\ 1 \in 1..n
    BY <1>2, <1>3, <2>0 DEF Steps
  <2>2. CASE j = 1
    <3>1. g[1] = <<>> /\ h[1] = d /\ g[1] \in Seq(S)
      BY <1>0, <2>1, <2>2
    <3>2. Len(h[1]) = Len(d) /\ Len(g[1]) = 0
      BY <1>4, <3>1
    <3>3. Q(1)
      BY <1>4, <2>2, <3>1, <3>2
    <3> QED
      BY <2>1, <3>3, Zenon
  <2>3. CASE j # 1
    <3>1. g[1] = h[1] /\ g[1] \in Seq(S) /\ ~(j <= 1)
      BY <1>0, <2>1, <2>3
    <3>2. Len(g[1]) \in Nat
      BY <3>1
    <3> QED
      BY <2>1, <3>1, <3>2
  <2> QED
    BY <2>2, <2>3
<1>6. ASSUME NEW i \in 2..n, i - 1 \in P PROVE i \in P
  <2>0. i \in 1..n
    OBVIOUS
  <2>1. i \in 1..n /\ g[i] = g[i-1] \o s[i] /\ h[i] = h[i-1] \o t[i]
    BY <1>2, <1>3, <2>0 DEF Steps
  <2>2. /\ g[i-1] \in Seq(S) /\ h[i-1] \in Seq(S) /\ s[i] \in Seq(S) /\ t[i] \in Seq(S)
        /\ j <= i - 1 => Len(h[i-1]) = Len(g[i-1]) + Len(d)
        /\ i - 1 < j => Len(h[i-1]) = Len(g[i-1])
    <3>1. s[i] \in Seq(S) /\ t[i] \in Seq(S)
      BY <1>0, <2>1
    <3>2. Q(i - 1)
      <4> HIDE DEF Q
      <4> QED
        BY <1>6
    <3> QED
      BY <3>1, <3>2, Zenon
  <2>3. /\ g[i] \in Seq(S) /\ Len(g[i]) = Len(g[i-1]) + Len(s[i])
        /\ h[i] \in Seq(S) /\ Len(h[i]) = Len(h[i-1]) + Len(t[i])
    <3>1. ASSUME NEW x \in Seq(S), NEW y \in Seq(S) PROVE x \o y \in Seq(S) /\ Len(x \o y) = Len(x) + Len(y)
      BY ConcatProperties
    <3>2. /\ g[i-1] \o s[i] \in Seq(S) /\ Len(g[i-1] \o s[i]) = Len(g[i-1]) + Len(s[i])
          /\ h[i-1] \o t[i] \in Seq(S) /\ Len(h[i-1] \o t[i]) = Len(h[i-1]) + Len(t[i])
      BY <2>2, <3>1, Zenon
    <3> QED
      BY <2>1, <3>2, Zenon
  <2>4. Len(g[i-1]) \in Nat /\ Len(s[i]) \in Nat /\ Len(t[i]) \in Nat
    BY <2>2, LenProperties
  <2> DEFINE gl == Len(g[i-1])
             hl == Len(h[i-1])
             sl == Len(s[i])
             tl == Len(t[i])
             dl == Len(d)
  <2>5. CASE i = j
    <3>1. Len(s[i]) = 0 /\ Len(t[i]) = Len(d)
      BY <1>0, <1>4, <2>5
    <3>2. i - 1 < j /\ ~(i < j) /\ j <= i
      BY <2>5
    <3>3. hl = gl /\ sl = 0 /\ tl = dl
      BY <2>2, <3>1, <3>2, Zenon
    <3>4. hl + tl = (gl + sl) + dl
      <4>1. gl \in Nat /\ dl \in Nat
        BY <1>4, <2>4
      <4> HIDE DEF gl, hl, sl, tl, dl
      <4> QED
        BY <3>3, <4>1
    <3>5. Len(h[i]) = Len(g[i]) + Len(d)
      BY <2>3, <3>4, Zenon
    <3> QED
      BY <2>1, <2>3, <3>2, <3>5, Zenon
  <2>6. CASE i # j
    <3>1. t[i] = s[i]
      BY <1>0, <2>1, <2>6
    <3>2. (j <= i <=> j <= i - 1) /\ (i < j <=> i - 1 < j)
      BY <2>6
    <3>3. tl = sl /\ (j <= i => hl = gl + dl) /\ (i < j => hl = gl)
      BY <2>2, <3>1, <3>2, Zenon
    <3>4. (j <= i => hl + tl = (gl + sl) + dl) /\ (i < j => hl + tl = gl + sl)
      <4>1. gl \in Nat /\ sl \in Nat /\ dl \in Nat
        BY <1>4, <2>4
      <4> HIDE DEF gl, hl, sl, tl, dl
      <4> QED
        BY <3>3, <4>1
    <3>5. /\ j <= i => Len(h[i]) = Len(g[i]) + Len(d)
          /\ i < j => Len(h[i]) = Len(g[i])
      BY <2>3, <3>4, Zenon
    <3> QED
      BY <2>1, <2>3, <3>5, Zenon
  <2> QED
    BY <2>5, <2>6
<1> HIDE DEF P
<1>7. n \in P
  BY <1>5, <1>6, UpTo
<1>8. g[n] \in Seq(S) /\ h[n] \in Seq(S) /\ Len(h[n]) = Len(g[n]) + Len(d)
  <2>1. j <= n
    OBVIOUS
  <2>2. Q(n)
    <3> HIDE DEF Q
    <3> QED
      BY <1>7 DEF P
  <2> QED
    BY <2>1, <2>2, Zenon
<1> QED
  BY <1>2, <1>3, <1>8 DEF t, Longer

\* Nothing put together is nothing.
LEMMA FlattenNothing ==
  ASSUME NEW n \in Nat \ {0}, NEW s \in [1..n -> {<<>>}]
  PROVE  FlattenSeq(s) = <<>>
<1>0. Len(s) = n /\ \A i \in 1..n : s[i] = <<>>
  OBVIOUS
<1>1. PICK g : Steps(g, s, n) /\ FlattenSeq(s) = g[n]
  BY <1>0, FlattenSteps
<1> DEFINE P == {i \in 1..n : g[i] = <<>>}
<1>2. 1 \in P
  BY <1>0, <1>1 DEF Steps
<1>3. ASSUME NEW i \in 2..n, i - 1 \in P PROVE i \in P
  <2>1. i \in 1..n /\ g[i-1] = <<>> /\ s[i] = <<>>
    BY <1>0, <1>3
  <2>2. <<>> \o <<>> = <<>>
    OBVIOUS
  <2>3. g[i] = g[i-1] \o s[i]
    BY <1>1 DEF Steps
  <2> QED
    BY <2>1, <2>2, <2>3, Zenon
<1> HIDE DEF P
<1>4. n \in P
  BY <1>2, <1>3, UpTo
<1> QED
  BY <1>1, <1>4 DEF P

LEMMA FlattenEmpty == FlattenSeq(<<>>) = <<>> /\ Len(FlattenSeq(<<>>)) = 0
  BY DEF FlattenSeq

-----------------------------------------------------------------------------
(* Gecko: the books of the reassembly table *)

EntriesOf(a) == {k \in Keys : k[1] = a}

\* The table is finite and every datagram under way comes from a peer.
TableInv ==
    /\ TableCounts
    /\ IsFiniteSet(Keys)
    /\ perSource \in [Peers -> Nat]
    /\ \A f \in gkNet : f.from \in Peers

\* Entries leave: the counts follow.
LEMMA DroppedCounts ==
  ASSUME TableInv, NEW S \in SUBSET Keys
  PROVE  /\ IsFiniteSet(Keys \ S)
         /\ Cardinality(Keys \ S) = Cardinality(Keys) - Cardinality(S)
         /\ CountsWithout(S) \in [Peers -> Nat]
         /\ \A a \in Peers : CountsWithout(S)[a] = Cardinality(EntriesOf(a) \ S) /\ CountsWithout(S)[a] <= perSource[a]
<1>0. IsFiniteSet(Keys) /\ IsFiniteSet(S) /\ perSource \in [Peers -> Nat]
  BY FS_Subset DEF TableInv
<1>1. IsFiniteSet(Keys \ S) /\ Cardinality(Keys \ S) = Cardinality(Keys) - Cardinality(S)
  <2>1. Keys \cap S = S
    OBVIOUS
  <2> QED
    BY <1>0, <2>1, FS_Difference
<1>2. ASSUME NEW a \in Peers
      PROVE  /\ CountsWithout(S)[a] = Cardinality(EntriesOf(a) \ S)
             /\ CountsWithout(S)[a] \in Nat /\ CountsWithout(S)[a] <= perSource[a]
  <2> DEFINE E == EntriesOf(a)
             G == {k \in S \cap Keys : k[1] = a}
  <2>1. IsFiniteSet(E) /\ E \cap S = G /\ G \subseteq E
    BY <1>0, FS_Subset DEF EntriesOf
  <2>2. IsFiniteSet(G) /\ Cardinality(E) \in Nat /\ Cardinality(G) \in Nat
    BY <2>1, FS_Subset, FS_CardinalityType
  <2>3. IsFiniteSet(E \ S) /\ Cardinality(E \ S) = Cardinality(E) - Cardinality(G)
    BY <2>1, FS_Difference
  <2>4. Cardinality(E \ S) \in Nat
    BY <2>3, FS_CardinalityType
  <2>5. perSource[a] = Cardinality(E)
    BY DEF TableInv, TableCounts, EntriesOf
  <2>6. CountsWithout(S)[a] = perSource[a] - Cardinality(G)
    BY DEF CountsWithout
  <2> HIDE DEF E, G
  <2>7. CountsWithout(S)[a] = Cardinality(E \ S) /\ CountsWithout(S)[a] \in Nat /\ CountsWithout(S)[a] <= perSource[a]
    BY <2>2, <2>3, <2>4, <2>5, <2>6
  <2> QED
    BY <2>7 DEF E
<1>3. CountsWithout(S) \in [Peers -> Nat]
  BY <1>2 DEF CountsWithout
<1> QED
  BY <1>1, <1>2, <1>3

\* The table without the entries of S is in order.
LEMMA DropKeeps ==
  ASSUME TableInv, NEW S \in SUBSET Keys, reassembly' = Dropped(S), perSource' = CountsWithout(S),
         gkNet' \subseteq gkNet
  PROVE  TableInv'
<1>1. Keys' = Keys \ S
  BY DEF Keys, Dropped
<1>2. \A a \in Peers : EntriesOf(a)' = EntriesOf(a) \ S
  BY <1>1 DEF EntriesOf
<1>3. IsFiniteSet(Keys') /\ Cardinality(Keys') <= MaxReassembly
  <2>1. Cardinality(S) \in Nat /\ Cardinality(Keys) \in Nat /\ Cardinality(Keys) <= MaxReassembly
    BY FS_Subset, FS_CardinalityType DEF TableInv, TableCounts
  <2>2. IsFiniteSet(Keys \ S) /\ Cardinality(Keys \ S) = Cardinality(Keys) - Cardinality(S)
    BY DroppedCounts
  <2> QED
    BY <1>1, <2>1, <2>2, CapsAssumption
<1>4. perSource' \in [Peers -> Nat]
  BY DroppedCounts
<1>5. ASSUME NEW a \in Peers PROVE perSource'[a] = Cardinality(EntriesOf(a)') /\ perSource'[a] <= MaxPerSource
  <2>1. perSource'[a] = Cardinality(EntriesOf(a) \ S) /\ perSource'[a] <= perSource[a]
    BY DroppedCounts
  <2>2. perSource[a] \in Nat /\ perSource'[a] \in Nat /\ perSource[a] <= MaxPerSource
    BY <1>4 DEF TableInv, TableCounts
  <2> QED
    BY <1>2, <2>1, <2>2, CapsAssumption
<1>6. \A f \in gkNet' : f.from \in Peers
  BY DEF TableInv
<1> QED
  BY <1>3, <1>4, <1>5, <1>6 DEF TableInv, TableCounts, EntriesOf

\* A new entry, for which others may have gone.
LEMMA NewEntryKeeps ==
  ASSUME TableInv, NEW f \in gkNet, AcceptFirst(f, <<f.from, f.msgID>>), <<f.from, f.msgID>> \notin Keys,
         gkNet' \subseteq gkNet
  PROVE  TableInv'
<1> DEFINE k == <<f.from, f.msgID>>
<1>0. f.from \in Peers /\ k[1] = f.from /\ \A g \in gkNet' : g.from \in Peers
  BY DEF TableInv
<1>1. CASE perSource[f.from] >= MaxPerSource
  <2>1. UNCHANGED <<reassembly, perSource>>
    BY <1>1 DEF AcceptFirst
  <2> QED
    BY <1>0, <2>1 DEF TableInv, TableCounts, Keys
<1>2. CASE ~(perSource[f.from] >= MaxPerSource)
  <2>1. PICK S \in Evictions :
          /\ DOMAIN reassembly' = (Keys \ S) \cup {k}
          /\ perSource' = [CountsWithout(S) EXCEPT ![f.from] = @ + 1]
    BY <1>2 DEF AcceptFirst, Dropped
  <2>2. S \in SUBSET Keys
    BY <2>1 DEF Evictions, Oldest
  <2>3. Cardinality(Keys \ S) < MaxReassembly
    <3>1. Cardinality(Keys \ S) = Cardinality(Keys) - Cardinality(S) /\ Cardinality(Keys) \in Nat /\ Cardinality(Keys) <= MaxReassembly
      BY <2>2, DroppedCounts, FS_CardinalityType DEF TableInv, TableCounts
    <3>2. CASE Cardinality(Keys) < MaxReassembly /\ S = {}
      BY <3>1, <3>2, CapsAssumption, FS_EmptySet
    <3>3. CASE \E x \in Oldest : S = {x}
      <4>1. Cardinality(S) = 1
        BY <3>3, FS_Singleton
      <4> QED
        BY <3>1, <4>1, CapsAssumption
    <3> QED
      BY <2>1, <3>2, <3>3 DEF Evictions
  <2>4. Keys' = (Keys \ S) \cup {k} /\ k \notin Keys \ S
    BY <2>1 DEF Keys
  <2>5. IsFiniteSet(Keys \ S)
    BY <2>2, DroppedCounts
  <2>6. IsFiniteSet(Keys') /\ Cardinality(Keys') = Cardinality(Keys \ S) + 1
    BY <2>4, <2>5, FS_AddElement
  <2>7. Cardinality(Keys') <= MaxReassembly
    <3>1. Cardinality(Keys \ S) \in Nat
      BY <2>5, FS_CardinalityType
    <3> QED
      BY <2>3, <2>6, <3>1, CapsAssumption
  <2>8. ASSUME NEW a \in Peers PROVE perSource'[a] = Cardinality(EntriesOf(a)') /\ perSource'[a] <= MaxPerSource
    <3>1. /\ CountsWithout(S) \in [Peers -> Nat] /\ CountsWithout(S)[a] = Cardinality(EntriesOf(a) \ S)
          /\ CountsWithout(S)[a] <= perSource[a]
      BY <2>2, DroppedCounts
    <3>2. perSource[a] \in Nat /\ perSource[a] <= MaxPerSource
      BY DEF TableInv, TableCounts
    <3>3. CASE a # f.from
      <4>1. perSource'[a] = CountsWithout(S)[a]
        BY <2>1, <3>1, <3>3
      <4>2. EntriesOf(a)' = EntriesOf(a) \ S
        BY <1>0, <2>4, <3>3 DEF EntriesOf
      <4> QED
        BY <3>1, <3>2, <4>1, <4>2, CapsAssumption
    <3>4. CASE a = f.from
      <4>1. perSource'[a] = CountsWithout(S)[a] + 1
        BY <1>0, <2>1, <3>1, <3>4
      <4>2. EntriesOf(a)' = (EntriesOf(a) \ S) \cup {k} /\ k \notin EntriesOf(a) \ S
        BY <1>0, <2>4, <3>4 DEF EntriesOf
      <4>3. IsFiniteSet(EntriesOf(a) \ S)
        BY <2>5, FS_Subset DEF EntriesOf
      <4>4. Cardinality(EntriesOf(a)') = Cardinality(EntriesOf(a) \ S) + 1
        BY <4>2, <4>3, FS_AddElement
      <4>5. perSource[a] < MaxPerSource
        BY <1>2, <3>2, <3>4, CapsAssumption
      <4> QED
        BY <3>1, <3>2, <4>1, <4>4, <4>5, CapsAssumption
    <3> QED
      BY <3>3, <3>4
  <2>9. perSource' \in [Peers -> Nat]
    <3>1. CountsWithout(S) \in [Peers -> Nat]
      BY <2>2, DroppedCounts
    <3> QED
      BY <1>0, <2>1, <3>1
  <2> QED
    BY <1>0, <2>6, <2>7, <2>8, <2>9 DEF TableInv, TableCounts, EntriesOf
<1> QED
  BY <1>1, <1>2

\* The empty table.
LEMMA InitTable == InitGecko => TableInv
<1> SUFFICES ASSUME InitGecko PROVE TableInv
  OBVIOUS
<1>1. Keys = {}
  BY DEF InitGecko, Keys
<1>2. Cardinality(Keys) = 0 /\ IsFiniteSet(Keys) /\ \A a \in Peers : {k \in Keys : k[1] = a} = {}
  BY <1>1, FS_EmptySet
<1> QED
  <2>1. perSource \in [Peers -> Nat] /\ \A a \in Peers : perSource[a] = 0
    BY DEF InitGecko
  <2>2. \A a \in Peers : Cardinality({k \in Keys : k[1] = a}) = 0
    BY <1>2, FS_EmptySet
  <2> QED
    BY <1>2, <2>1, <2>2, CapsAssumption DEF InitGecko, TableInv, TableCounts

\* Every step keeps the books.
LEMMA TableStep == TableInv /\ [NextGecko]_gkVars => TableInv'
<1> SUFFICES ASSUME TableInv, [NextGecko]_gkVars PROVE TableInv'
  OBVIOUS
<1>1. ASSUME UNCHANGED <<reassembly, perSource>>, \A g \in gkNet' : g.from \in Peers PROVE TableInv'
  BY <1>1 DEF TableInv, TableCounts, Keys
<1>2. ASSUME NEW a \in Peers, NEW len \in PacketLens, NEW n \in ChunkCounts, WriteFragmented(a, len, n) PROVE TableInv'
  <2>1. \A g \in gkNet' : g.from \in Peers
    BY <1>2 DEF WriteFragmented, TableInv
  <2> QED
    BY <1>1, <1>2, <2>1 DEF WriteFragmented
<1>3. ASSUME NEW f \in gkNet, AcceptChunk(f) PROVE TableInv'
  <2> DEFINE k == <<f.from, f.msgID>>
  <2>0. gkNet' \subseteq gkNet /\ \A g \in gkNet' : g.from \in Peers
    BY <1>3 DEF AcceptChunk, TableInv
  <2>1. CASE k \notin Keys /\ AcceptFirst(f, k)
    BY <2>0, <2>1, NewEntryKeeps
  <2>2. CASE k \in Keys /\ AcceptNext(f, k)
    <3>1. CASE UNCHANGED <<reassembly, perSource>>
      BY <1>1, <2>0, <3>1
    <3>2. CASE reassembly' = Dropped({k}) /\ perSource' = CountsWithout({k})
      <4>1. {k} \in SUBSET Keys
        BY <2>2
      <4> QED
        BY <2>0, <3>2, <4>1, DropKeeps
    <3>3. ASSUME NEW e, reassembly' = [reassembly EXCEPT ![k] = e], UNCHANGED perSource PROVE TableInv'
      <4>1. Keys' = Keys
        BY <3>3 DEF Keys
      <4> QED
        BY <2>0, <3>3, <4>1 DEF TableInv, TableCounts
    <3> QED
      BY <2>2, <3>1, <3>2, <3>3 DEF AcceptNext
  <2> QED
    BY <1>3, <2>1, <2>2 DEF AcceptChunk
<1>4. CASE GCTick
  <2> DEFINE expired == {k \in Keys : gkNow + 1 - reassembly[k].made > 2}
  <2>1. reassembly' = Dropped(expired) /\ perSource' = CountsWithout(expired) /\ UNCHANGED gkNet
    BY <1>4 DEF GCTick
  <2>2. expired \in SUBSET Keys
    OBVIOUS
  <2> HIDE DEF expired
  <2> QED
    BY <2>1, <2>2, DropKeeps
<1>5. CASE UNCHANGED gkVars
  BY <1>1, <1>5 DEF gkVars, TableInv
<1> QED
  BY <1>2, <1>3, <1>4, <1>5 DEF NextGecko

-----------------------------------------------------------------------------
(* Gecko: packets *)

\* Packet k of source a goes out under this message ID.
SentAs(k, a, id) == k \in DOMAIN gkSent /\ gkSent[k].from = a /\ MsgID(k, a) = id

ChunkOf(k, i, n) == Chunk(PacketData(k, gkSent[k].len), i, n)

\* A datagram under way carries a chunk of a packet that was sent.
FrameInv ==
    \A f \in gkNet :
       /\ f.total \in Nat \ {0} /\ f.idx \in 0..(f.total - 1)
       /\ \E k \in DOMAIN gkSent : SentAs(k, f.from, f.msgID) /\ f.chunk = ChunkOf(k, f.idx, f.total)

\* An entry collects chunks of one packet, unless its message ID was used again.
EntryInv ==
    \A key \in Keys :
       LET e == reassembly[key]
       IN /\ e.total \in Nat \ {0} /\ DOMAIN e.chunks = 1..e.total
          /\ NoWrap => \E k \in DOMAIN gkSent :
                          /\ SentAs(k, key[1], key[2])
                          /\ \A i \in 1..e.total : e.chunks[i] \in {NoChunk, ChunkOf(k, i - 1, e.total)}

SentOK == gkSent \in Seq([from : Peers, len : Nat])

PacketInv == SentOK /\ FrameInv /\ EntryInv /\ WholePackets

LEMMA QuotientFits ==
  ASSUME NEW a \in Nat, NEW b \in Nat \ {0}
  PROVE  a \div b \in Nat /\ b * (a \div b) <= a
  OBVIOUS

\* The chunks of a packet, in order, are the packet.
LEMMA ChunksJoin ==
  ASSUME NEW k, NEW len \in Nat, NEW n \in Nat \ {0}, NEW s, DOMAIN s = 1..n, Len(s) = n,
         \A i \in 1..n : s[i] = Chunk(PacketData(k, len), i - 1, n)
  PROVE  Joined(s) = PacketData(k, len)
<1> DEFINE data == PacketData(k, len)
           part == len \div n
           S == {k} \X (1..len)
           c == [i \in 0..n |-> IF i < n THEN i * part ELSE len]
<1>1. data \in Seq(S) /\ Len(data) = len
  BY DEF PacketData
<1>2. part \in Nat /\ n * part <= len
  BY QuotientFits
<1>3. ASSUME NEW i \in 1..n PROVE s[i] = SubSeq(data, (i - 1) * part + 1, IF i < n THEN i * part ELSE len)
  <2>1. s[i] = SubSeq(data, (i - 1) * part + 1, IF i - 1 < n - 1 THEN (i - 1 + 1) * part ELSE len)
    BY <1>1 DEF Chunk
  <2>2. (i - 1 < n - 1 <=> i < n) /\ i - 1 + 1 = i
    OBVIOUS
  <2> HIDE DEF part, data
  <2> QED
    BY <2>1, <2>2
<1> HIDE DEF data, part, S
<1>4. \A i \in 0..n : i * part \in Nat /\ i * part <= n * part
  BY <1>2
<1>5. \A i \in 1..n : (i - 1) * part <= i * part
  BY <1>2
<1>6. 0 * part = 0
  BY <1>2
<1>7. c \in [0..n -> 0..len] /\ c[0] = 0 /\ c[n] = len
  <2>1. ASSUME NEW i \in 0..n PROVE (IF i < n THEN i * part ELSE len) \in 0..len
    <3>1. i * part \in Nat /\ i * part <= len /\ len \in 0..len
      BY <1>2, <1>4
    <3> QED
      BY <3>1
  <2> QED
    BY <1>6, <2>1
<1>8. ASSUME NEW i \in 1..n PROVE c[i-1] <= c[i] /\ s[i] = SubSeq(data, c[i-1] + 1, c[i])
  <2>1. c[i-1] = (i - 1) * part /\ c[i] = IF i < n THEN i * part ELSE len
    OBVIOUS
  <2>2. (i - 1) * part <= i * part /\ (i - 1) * part <= len
    BY <1>2, <1>4, <1>5
  <2> QED
    BY <1>3, <2>1, <2>2
<1> HIDE DEF c
<1>9. FlattenSeq(s) = data
  <2>1. c \in [0..n -> 0..Len(data)] /\ c[0] = 0 /\ c[n] = Len(data)
    BY <1>1, <1>7
  <2> QED
    <3>1. (\A i \in 1..n : c[i-1] <= c[i]) /\ \A i \in 1..n : s[i] = SubSeq(data, c[i-1] + 1, c[i])
      BY <1>8
    <3> QED
      BY <1>1, <2>1, <3>1, FlattenSlices, ZenonT(60)
<1> QED
  BY <1>9 DEF Joined, data

\* Unless the message ID has wrapped, it tells the packets of a source apart.
LEMMA OnePacketPerID ==
  ASSUME SentOK, NoWrap, NEW a \in Peers, NEW id, NEW k, NEW j, SentAs(k, a, id), SentAs(j, a, id)
  PROVE  k = j
<1> DEFINE Before(x) == {i \in 1..(x - 1) : gkSent[i].from = a}
           All == {i \in DOMAIN gkSent : gkSent[i].from = a}
<1>1. DOMAIN gkSent = 1..Len(gkSent) /\ Len(gkSent) \in Nat /\ k \in 1..Len(gkSent) /\ j \in 1..Len(gkSent)
  BY DEF SentOK, SentAs
<1>2. IsFiniteSet(All) /\ Cardinality(All) <= IDSpace /\ IDSpace \in Nat \ {0}
  <2>1. IsFiniteSet(1..Len(gkSent)) /\ All \in SUBSET (1..Len(gkSent))
    BY <1>1, FS_Interval
  <2>2. IsFiniteSet(All)
    BY <2>1, FS_Subset
  <2>3. Cardinality(All) <= IDSpace
    BY DEF NoWrap
  <2> QED
    BY <2>2, <2>3, FramesAssumption
<1>3. ASSUME NEW x \in All
      PROVE  IsFiniteSet(Before(x)) /\ Cardinality(Before(x)) \in Nat /\ 1 + Cardinality(Before(x)) <= IDSpace
  <2>1. Before(x) \in SUBSET All /\ x \notin Before(x) /\ Before(x) \cup {x} \in SUBSET All
    BY <1>1
  <2>2. IsFiniteSet(Before(x)) /\ Cardinality(Before(x)) \in Nat
    BY <1>2, <2>1, FS_Subset, FS_CardinalityType
  <2>3. Cardinality(Before(x) \cup {x}) = Cardinality(Before(x)) + 1
    BY <2>1, <2>2, FS_AddElement
  <2>4. Cardinality(Before(x) \cup {x}) <= Cardinality(All) /\ Cardinality(All) \in Nat
    BY <1>2, <2>1, FS_Subset, FS_CardinalityType
  <2> HIDE DEF Before, All
  <2> QED
    BY <1>2, <2>2, <2>3, <2>4
<1>4. ASSUME NEW x \in All, NEW y \in All, x < y PROVE Cardinality(Before(x)) < Cardinality(Before(y))
  <2>1. x \notin Before(x) /\ Before(x) \cup {x} \in SUBSET Before(y)
    BY <1>1, <1>4
  <2>2. Cardinality(Before(x) \cup {x}) = Cardinality(Before(x)) + 1
    BY <1>3, <2>1, FS_AddElement
  <2>3. Cardinality(Before(x) \cup {x}) <= Cardinality(Before(y))
    BY <1>3, <2>1, FS_Subset
  <2>4. Cardinality(Before(x)) \in Nat /\ Cardinality(Before(y)) \in Nat
    BY <1>3
  <2> HIDE DEF Before
  <2> QED
    BY <2>2, <2>3, <2>4
<1>5. ASSUME NEW x \in Nat, NEW y \in Nat, x < y, 1 + y <= IDSpace PROVE (1 + x) % IDSpace # (1 + y) % IDSpace
  <2>1. (1 + x) % IDSpace = 1 + x
    BY <1>2, <1>5
  <2>2. CASE 1 + y = IDSpace
    <3>1. (1 + y) % IDSpace = 0
      BY <1>2, <2>2
    <3> QED
      BY <2>1, <3>1
  <2>3. CASE 1 + y # IDSpace
    <3>1. (1 + y) % IDSpace = 1 + y
      BY <1>2, <1>5, <2>3
    <3> QED
      BY <1>5, <2>1, <3>1
  <2> QED
    BY <2>2, <2>3
<1>6. k \in All /\ j \in All
  BY DEF SentAs
<1>7. (1 + Cardinality(Before(k))) % IDSpace = (1 + Cardinality(Before(j))) % IDSpace
  BY DEF SentAs, MsgID
<1> HIDE DEF Before, All
<1>8. k \in Int /\ j \in Int
  BY <1>1
<1>9. ~(k < j) /\ ~(j < k)
  BY <1>3, <1>4, <1>5, <1>6, <1>7
<1> QED
  BY <1>8, <1>9

\* What a packet that is sent leaves as it was.
LEMMA SentStays ==
  ASSUME SentOK, NEW a \in Peers, NEW len \in PacketLens, NEW n \in ChunkCounts, WriteFragmented(a, len, n)
  PROVE  /\ SentOK' /\ DOMAIN gkSent \subseteq DOMAIN gkSent'
         /\ NoWrap' => NoWrap
         /\ \A k \in DOMAIN gkSent : gkSent'[k] = gkSent[k]
         /\ \A k, b, id : SentAs(k, b, id) => SentAs(k, b, id)'
         /\ \A k \in DOMAIN gkSent : \A i, m : ChunkOf(k, i, m)' = ChunkOf(k, i, m)
<1> DEFINE L == Len(gkSent)
           r == [from |-> a, len |-> len]
<1>0. gkSent' = Append(gkSent, r) /\ L \in Nat /\ DOMAIN gkSent = 1..L /\ r \in [from : Peers, len : Nat]
  BY FramesAssumption DEF WriteFragmented, SentOK
<1>1. SentOK' /\ DOMAIN gkSent' = 1..(L + 1) /\ \A k \in 1..L : gkSent'[k] = gkSent[k]
  BY <1>0 DEF SentOK
<1>2. DOMAIN gkSent \subseteq DOMAIN gkSent' /\ \A k \in DOMAIN gkSent : gkSent'[k] = gkSent[k]
  BY <1>0, <1>1
<1>3. ASSUME NEW k, NEW b, NEW id, SentAs(k, b, id) PROVE SentAs(k, b, id)'
  <2>1. k \in 1..L /\ k \in DOMAIN gkSent' /\ gkSent'[k].from = b
    BY <1>0, <1>2, <1>3 DEF SentAs
  <2>2. {i \in 1..(k - 1) : gkSent'[i].from = b} = {i \in 1..(k - 1) : gkSent[i].from = b}
    BY <1>0, <1>1, <2>1
  <2>3. MsgID(k, b)' = MsgID(k, b)
    BY <2>2 DEF MsgID
  <2> QED
    BY <1>3, <2>1, <2>3 DEF SentAs
<1>4. ASSUME NoWrap' PROVE NoWrap
  <2> SUFFICES ASSUME NEW b \in Peers PROVE Cardinality({k \in DOMAIN gkSent : gkSent[k].from = b}) <= IDSpace
    BY DEF NoWrap
  <2> DEFINE X == {k \in DOMAIN gkSent : gkSent[k].from = b}
             Y == {k \in DOMAIN gkSent' : gkSent'[k].from = b}
  <2>1. X \in SUBSET Y
    BY <1>2
  <2>2. IsFiniteSet(1..(L + 1)) /\ Y \in SUBSET (1..(L + 1))
    BY <1>0, <1>1, FS_Interval
  <2>3. IsFiniteSet(Y)
    BY <2>2, FS_Subset
  <2>4. IsFiniteSet(X) /\ Cardinality(X) <= Cardinality(Y)
    BY <2>1, <2>3, FS_Subset
  <2>5. Cardinality(X) \in Nat /\ Cardinality(Y) \in Nat
    BY <2>3, <2>4, FS_CardinalityType
  <2>6. Cardinality(Y) <= IDSpace
    BY <1>4 DEF NoWrap
  <2> HIDE DEF X, Y
  <2>7. Cardinality(X) <= IDSpace
    BY <2>4, <2>5, <2>6, FramesAssumption
  <2> QED
    BY <2>7 DEF X
<1>5. \A k \in DOMAIN gkSent : \A i, m : ChunkOf(k, i, m)' = ChunkOf(k, i, m)
  BY <1>2 DEF ChunkOf
<1> QED
  BY <1>1, <1>2, <1>3, <1>4, <1>5

\* Sending a packet keeps the invariant.
LEMMA WriteKeepsPackets ==
  ASSUME PacketInv, NEW a \in Peers, NEW len \in PacketLens, NEW n \in ChunkCounts, WriteFragmented(a, len, n)
  PROVE  PacketInv'
<1>k. PICK K : K = Len(gkSent) + 1
  OBVIOUS
<1>0. SentOK /\ FrameInv /\ EntryInv /\ WholePackets /\ n \in Nat \ {0} /\ len \in Nat
  BY FramesAssumption DEF PacketInv
<1>1. /\ SentOK' /\ DOMAIN gkSent \subseteq DOMAIN gkSent' /\ (NoWrap' => NoWrap)
      /\ \A k \in DOMAIN gkSent : gkSent'[k] = gkSent[k]
      /\ \A k, b, id : SentAs(k, b, id) => SentAs(k, b, id)'
      /\ \A k \in DOMAIN gkSent : \A i, m : ChunkOf(k, i, m)' = ChunkOf(k, i, m)
  BY <1>0, SentStays
<1>2. /\ UNCHANGED <<reassembly, gkOut>>
      /\ gkNet' = gkNet \cup {[from |-> a, msgID |-> MsgID(K, a), idx |-> i, total |-> n,
                               chunk |-> Chunk(PacketData(K, len), i, n)] : i \in 0..(n - 1)}
  BY <1>k DEF WriteFragmented
<1>3. K \in DOMAIN gkSent' /\ gkSent'[K] = [from |-> a, len |-> len] /\ MsgID(K, a)' = MsgID(K, a)
  <2>1. gkSent' = Append(gkSent, [from |-> a, len |-> len]) /\ Len(gkSent) \in Nat
    BY <1>0 DEF WriteFragmented, SentOK
  <2>2. K \in DOMAIN gkSent' /\ gkSent'[K] = [from |-> a, len |-> len] /\ \A i \in 1..(K - 1) : gkSent'[i] = gkSent[i]
    BY <1>0, <1>k, <2>1 DEF SentOK
  <2>3. {i \in 1..(K - 1) : gkSent'[i].from = a} = {i \in 1..(K - 1) : gkSent[i].from = a}
    BY <2>2
  <2> QED
    BY <2>2, <2>3 DEF MsgID
<1>4. FrameInv'
  <2> SUFFICES ASSUME NEW f \in gkNet'
               PROVE  /\ f.total \in Nat \ {0} /\ f.idx \in 0..(f.total - 1)
                      /\ \E k \in DOMAIN gkSent' : SentAs(k, f.from, f.msgID)' /\ f.chunk = ChunkOf(k, f.idx, f.total)'
    BY DEF FrameInv
  <2>1. CASE f \in gkNet
    <3>1. /\ f.total \in Nat \ {0} /\ f.idx \in 0..(f.total - 1)
          /\ \E k \in DOMAIN gkSent : SentAs(k, f.from, f.msgID) /\ f.chunk = ChunkOf(k, f.idx, f.total)
      BY <1>0, <2>1 DEF FrameInv
    <3> QED
      BY <1>1, <3>1, Zenon
  <2>2. ASSUME NEW i \in 0..(n - 1), f = [from |-> a, msgID |-> MsgID(K, a), idx |-> i, total |-> n,
                                          chunk |-> Chunk(PacketData(K, len), i, n)]
        PROVE  /\ f.total \in Nat \ {0} /\ f.idx \in 0..(f.total - 1)
               /\ SentAs(K, f.from, f.msgID)' /\ f.chunk = ChunkOf(K, f.idx, f.total)'
    <3>1. f.total = n /\ f.idx = i /\ f.from = a /\ f.msgID = MsgID(K, a) /\ f.chunk = Chunk(PacketData(K, len), i, n)
      BY <2>2
    <3>3. SentAs(K, f.from, f.msgID)'
      BY <1>3, <3>1 DEF SentAs
    <3>4. ChunkOf(K, f.idx, f.total)' = Chunk(PacketData(K, len), i, n)
      BY <1>3, <3>1 DEF ChunkOf
    <3> QED
      BY <1>0, <3>1, <3>3, <3>4
  <2> QED
    BY <1>2, <1>3, <2>1, <2>2
<1>5. EntryInv'
  <2>1. Keys' = Keys
    BY <1>2 DEF Keys
  <2> SUFFICES ASSUME NEW key \in Keys
               PROVE  LET e == reassembly[key]
                      IN /\ e.total \in Nat \ {0} /\ DOMAIN e.chunks = 1..e.total
                         /\ NoWrap' => \E k \in DOMAIN gkSent' :
                              /\ SentAs(k, key[1], key[2])'
                              /\ \A i \in 1..e.total : e.chunks[i] \in {NoChunk, ChunkOf(k, i - 1, e.total)'}
    BY <1>2, <2>1 DEF EntryInv
  <2> DEFINE e == reassembly[key]
  <2>2. e.total \in Nat \ {0} /\ DOMAIN e.chunks = 1..e.total
    BY <1>0 DEF EntryInv
  <2>3. ASSUME NoWrap'
        PROVE  \E k \in DOMAIN gkSent' : /\ SentAs(k, key[1], key[2])'
                                         /\ \A i \in 1..e.total : e.chunks[i] \in {NoChunk, ChunkOf(k, i - 1, e.total)'}
    <3>1. PICK k \in DOMAIN gkSent : /\ SentAs(k, key[1], key[2])
                                     /\ \A i \in 1..e.total : e.chunks[i] \in {NoChunk, ChunkOf(k, i - 1, e.total)}
      BY <1>0, <1>1, <2>3 DEF EntryInv
    <3>2. k \in DOMAIN gkSent' /\ SentAs(k, key[1], key[2])' /\ \A i, m : ChunkOf(k, i, m)' = ChunkOf(k, i, m)
      BY <1>1, <3>1
    <3>3. \A i \in 1..e.total : e.chunks[i] \in {NoChunk, ChunkOf(k, i - 1, e.total)'}
      <4>1. gkSent'[k] = gkSent[k] /\ UNCHANGED reassembly
        BY <1>1, <1>2, <3>1
      <4> QED
        BY <3>1, <4>1 DEF ChunkOf
    <3> QED
      BY <3>2, <3>3
  <2> QED
    BY <2>2, <2>3
<1>6. WholePackets'
  BY <1>0, <1>1, <1>2 DEF WholePackets
<1> QED
  BY <1>1, <1>4, <1>5, <1>6 DEF PacketInv

\* Entries may always leave.
LEMMA DropKeepsPackets ==
  ASSUME PacketInv, NEW S, reassembly' = Dropped(S), gkNet' \subseteq gkNet, UNCHANGED <<gkSent, gkOut>>
  PROVE  PacketInv'
<1>1. Keys' = Keys \ S /\ \A k \in Keys' : reassembly'[k] = reassembly[k]
  BY DEF Keys, Dropped
<1>2. (NoWrap' <=> NoWrap) /\ (\A k, b, id : SentAs(k, b, id)' = SentAs(k, b, id)) /\ \A k, i, m : ChunkOf(k, i, m)' = ChunkOf(k, i, m)
  BY DEF NoWrap, SentAs, MsgID, ChunkOf
<1>3. SentOK' /\ FrameInv' /\ WholePackets'
  BY <1>2 DEF PacketInv, SentOK, FrameInv, WholePackets
<1>4. EntryInv'
  BY <1>1, <1>2 DEF PacketInv, EntryInv
<1> QED
  BY <1>3, <1>4 DEF PacketInv

\* A chunk that begins an entry.
LEMMA FirstKeepsPackets ==
  ASSUME PacketInv, NEW f \in gkNet, AcceptFirst(f, <<f.from, f.msgID>>), <<f.from, f.msgID>> \notin Keys,
         gkNet' \subseteq gkNet, UNCHANGED <<gkSent, gkOut>>
  PROVE  PacketInv'
<1> DEFINE key == <<f.from, f.msgID>>
           n == f.total
           entry == [total |-> n, made |-> gkNow,
                     chunks |-> [i \in 1..n |-> IF i = f.idx + 1 THEN f.chunk ELSE NoChunk]]
<1>1. PICK S : \/ UNCHANGED reassembly
               \/ reassembly' = [j \in DOMAIN Dropped(S) \cup {key} |-> IF j = key THEN entry ELSE Dropped(S)[j]]
  BY DEF AcceptFirst
<1>2. /\ SentOK' /\ FrameInv' /\ WholePackets'
      /\ (NoWrap' <=> NoWrap) /\ (\A k, b, id : SentAs(k, b, id)' = SentAs(k, b, id))
      /\ \A k, i, m : ChunkOf(k, i, m)' = ChunkOf(k, i, m)
  <2>1. (NoWrap' <=> NoWrap) /\ (\A k, b, id : SentAs(k, b, id)' = SentAs(k, b, id)) /\ \A k, i, m : ChunkOf(k, i, m)' = ChunkOf(k, i, m)
    BY DEF NoWrap, SentAs, MsgID, ChunkOf
  <2> QED
    BY <2>1 DEF PacketInv, SentOK, FrameInv, WholePackets
<1>3. CASE UNCHANGED reassembly
  <2>1. EntryInv'
    BY <1>2, <1>3 DEF PacketInv, EntryInv, Keys
  <2> QED
    BY <1>2, <2>1 DEF PacketInv
<1>4. CASE reassembly' = [j \in DOMAIN Dropped(S) \cup {key} |-> IF j = key THEN entry ELSE Dropped(S)[j]]
  <2>1. Keys' = (Keys \ S) \cup {key} /\ reassembly'[key] = entry /\ \A j \in Keys \ S : j # key => reassembly'[j] = reassembly[j]
    BY <1>4 DEF Keys, Dropped
  <2>2. PICK k \in DOMAIN gkSent : SentAs(k, f.from, f.msgID) /\ f.chunk = ChunkOf(k, f.idx, n)
    BY DEF PacketInv, FrameInv
  <2>3. n \in Nat \ {0} /\ f.idx \in 0..(n - 1)
    BY DEF PacketInv, FrameInv
  <2>4. \A i \in 1..n : entry.chunks[i] \in {NoChunk, ChunkOf(k, i - 1, n)}
    <3>1. \A i \in 1..n : i = f.idx + 1 => i - 1 = f.idx
      BY <2>3
    <3> QED
      BY <2>2, <3>1
  <2>5. DOMAIN entry.chunks = 1..n /\ entry.total = n
    OBVIOUS
  <2> HIDE DEF entry
  <2>6. EntryInv'
    <3> SUFFICES ASSUME NEW j \in Keys'
                 PROVE  LET e == reassembly'[j]
                        IN /\ e.total \in Nat \ {0} /\ DOMAIN e.chunks = 1..e.total
                           /\ NoWrap => \E x \in DOMAIN gkSent :
                                /\ SentAs(x, j[1], j[2])
                                /\ \A i \in 1..e.total : e.chunks[i] \in {NoChunk, Chunk(PacketData(x, gkSent[x].len), i - 1, e.total)}
      BY <1>2 DEF EntryInv, ChunkOf
    <3>1. CASE j = key
      <4>1. j[1] = f.from /\ j[2] = f.msgID
        BY <3>1
      <4> QED
        BY <2>1, <2>2, <2>3, <2>4, <2>5, <3>1, <4>1 DEF ChunkOf
    <3>2. CASE j # key
      BY <2>1, <3>2 DEF PacketInv, EntryInv, ChunkOf
    <3> QED
      BY <3>1, <3>2
  <2> QED
    BY <1>2, <2>6 DEF PacketInv
<1> QED
  BY <1>1, <1>3, <1>4

\* A chunk that joins an entry, and may complete it.
LEMMA NextKeepsPackets ==
  ASSUME PacketInv, NEW f \in gkNet, AcceptNext(f, <<f.from, f.msgID>>), <<f.from, f.msgID>> \in Keys,
         f.from \in Peers, gkNet' \subseteq gkNet, UNCHANGED gkSent
  PROVE  PacketInv'
<1> DEFINE key == <<f.from, f.msgID>>
           n == f.total
           e == reassembly[key]
           filled == [e EXCEPT !.chunks[f.idx + 1] = f.chunk]
<1>1. SentOK /\ FrameInv /\ EntryInv /\ WholePackets /\ key[1] = f.from /\ key[2] = f.msgID
  BY DEF PacketInv
<1>2. /\ SentOK' /\ FrameInv'
      /\ (NoWrap' <=> NoWrap) /\ (\A k, b, id : SentAs(k, b, id)' = SentAs(k, b, id))
      /\ \A k, i, m : ChunkOf(k, i, m)' = ChunkOf(k, i, m)
  <2>1. (NoWrap' <=> NoWrap) /\ (\A k, b, id : SentAs(k, b, id)' = SentAs(k, b, id)) /\ \A k, i, m : ChunkOf(k, i, m)' = ChunkOf(k, i, m)
    BY DEF NoWrap, SentAs, MsgID, ChunkOf
  <2> QED
    BY <1>1, <2>1 DEF SentOK, FrameInv
<1>3. n \in Nat \ {0} /\ f.idx \in 0..(n - 1) /\ f.idx + 1 \in 1..n
  BY <1>1 DEF FrameInv
<1>4. CASE UNCHANGED <<reassembly, gkOut>>
  <2>1. EntryInv' /\ WholePackets'
    BY <1>1, <1>2, <1>4 DEF EntryInv, Keys, WholePackets
  <2> QED
    BY <1>2, <2>1 DEF PacketInv
<1>5. CASE e.total = n /\ e.chunks[f.idx + 1] = NoChunk /\ ~UNCHANGED <<reassembly, gkOut>>
  <2>1. e.total \in Nat \ {0} /\ DOMAIN e.chunks = 1..n
    BY <1>1, <1>5 DEF EntryInv
  <2>2. /\ filled.total = e.total /\ DOMAIN filled.chunks = 1..n
        /\ \A i \in 1..n : filled.chunks[i] = IF i = f.idx + 1 THEN f.chunk ELSE e.chunks[i]
    BY <1>3, <2>1
  <2> HIDE DEF filled
  <2>3. ASSUME NoWrap
        PROVE  \E k \in DOMAIN gkSent : /\ SentAs(k, f.from, f.msgID)
                                        /\ \A i \in 1..n : filled.chunks[i] \in {NoChunk, ChunkOf(k, i - 1, n)}
    <3>1. PICK k \in DOMAIN gkSent : SentAs(k, f.from, f.msgID) /\ f.chunk = ChunkOf(k, f.idx, n)
      BY <1>1 DEF FrameInv
    <3>2. PICK j \in DOMAIN gkSent : /\ SentAs(j, key[1], key[2])
                                     /\ \A i \in 1..e.total : e.chunks[i] \in {NoChunk, ChunkOf(j, i - 1, e.total)}
      BY <1>1, <2>3 DEF EntryInv
    <3>3. j = k
      BY <1>1, <2>3, <3>1, <3>2, OnePacketPerID
    <3>4. \A i \in 1..n : filled.chunks[i] \in {NoChunk, ChunkOf(k, i - 1, n)}
      <4>1. \A i \in 1..n : i = f.idx + 1 => i - 1 = f.idx
        BY <1>3
      <4> QED
        BY <1>5, <2>2, <3>1, <3>2, <3>3, <4>1
    <3> QED
      BY <3>1, <3>4
  <2>4. CASE AllChunks(filled)
    <3>1. reassembly' = Dropped({key}) /\ gkOut' = gkOut \cup {[from |-> f.from, data |-> Joined(filled.chunks)]}
      BY <1>5, <2>4 DEF AcceptNext, filled
    <3>2. ASSUME NoWrap
          PROVE  \E k \in DOMAIN gkSent : f.from = gkSent[k].from /\ Joined(filled.chunks) = PacketData(k, gkSent[k].len)
      <4>1. PICK k \in DOMAIN gkSent : /\ SentAs(k, f.from, f.msgID)
                                       /\ \A i \in 1..n : filled.chunks[i] \in {NoChunk, ChunkOf(k, i - 1, n)}
        BY <2>3, <3>2
      <4>2. \A i \in 1..n : filled.chunks[i] = Chunk(PacketData(k, gkSent[k].len), i - 1, n)
        BY <2>2, <2>4, <4>1 DEF AllChunks, ChunkOf
      <4>3. gkSent[k].len \in Nat /\ f.from = gkSent[k].from
        <5>1. gkSent[k] \in [from : Peers, len : Nat]
          BY <1>1, ElementOfSeq, LenProperties, Zenon DEF SentOK
        <5> QED
          BY <4>1, <5>1 DEF SentAs
      <4>4. Len(filled.chunks) = n
        BY <1>3, <2>2
      <4> QED
        <5>1. PICK len \in Nat : len = gkSent[k].len
          BY <4>3
        <5>2. DOMAIN filled.chunks = 1..n /\ n \in Nat \ {0}
          BY <1>3, <2>2
        <5>3. \A i \in 1..n : filled.chunks[i] = Chunk(PacketData(k, len), i - 1, n)
          BY <4>2, <5>1
        <5> HIDE DEF n, filled
        <5>4. Joined(filled.chunks) = PacketData(k, len)
          BY <4>4, <5>2, <5>3, ChunksJoin, ZenonT(60)
        <5> QED
          BY <4>3, <5>1, <5>4
    <3>3. WholePackets'
      <4> SUFFICES ASSUME NoWrap, NEW o \in gkOut'
                   PROVE  \E k \in DOMAIN gkSent : o.from = gkSent[k].from /\ o.data = PacketData(k, gkSent[k].len)
        BY <1>2 DEF WholePackets
      <4>1. CASE o \in gkOut
        BY <1>1, <4>1 DEF WholePackets
      <4>2. CASE o = [from |-> f.from, data |-> Joined(filled.chunks)]
        <5>1. o.from = f.from /\ o.data = Joined(filled.chunks)
          BY <4>2
        <5> QED
          BY <3>2, <5>1
      <4> QED
        BY <3>1, <4>1, <4>2
    <3>4. EntryInv'
      <4>1. Keys' = Keys \ {key} /\ \A k \in Keys' : reassembly'[k] = reassembly[k]
        BY <3>1 DEF Keys, Dropped
      <4> QED
        BY <1>1, <1>2, <4>1 DEF EntryInv
    <3> QED
      BY <1>2, <3>3, <3>4 DEF PacketInv
  <2>5. CASE ~AllChunks(filled)
    <3>1. reassembly' = [reassembly EXCEPT ![key] = filled] /\ UNCHANGED gkOut
      BY <1>5, <2>5 DEF AcceptNext, filled
    <3>2. WholePackets'
      BY <1>1, <1>2, <3>1 DEF WholePackets
    <3>3. EntryInv'
      <4>1. Keys' = Keys /\ reassembly'[key] = filled /\ \A j \in Keys : j # key => reassembly'[j] = reassembly[j]
        BY <3>1 DEF Keys
      <4> SUFFICES ASSUME NEW j \in Keys
                   PROVE  LET d == reassembly'[j]
                          IN /\ d.total \in Nat \ {0} /\ DOMAIN d.chunks = 1..d.total
                             /\ NoWrap => \E x \in DOMAIN gkSent :
                                  /\ SentAs(x, j[1], j[2])
                                  /\ \A i \in 1..d.total : d.chunks[i] \in {NoChunk, Chunk(PacketData(x, gkSent[x].len), i - 1, d.total)}
        BY <1>2, <4>1 DEF EntryInv, ChunkOf
      <4>2. CASE j = key
        BY <1>1, <1>3, <1>5, <2>2, <2>3, <4>1, <4>2 DEF ChunkOf
      <4>3. CASE j # key
        BY <1>1, <4>1, <4>3 DEF EntryInv, ChunkOf
      <4> QED
        BY <4>2, <4>3
    <3> QED
      BY <1>2, <3>2, <3>3 DEF PacketInv
  <2> QED
    BY <2>4, <2>5
<1> QED
  BY <1>4, <1>5 DEF AcceptNext

\* No datagram, no entry, no packet.
LEMMA InitPackets == InitGecko => PacketInv
  BY DEF InitGecko, PacketInv, SentOK, FrameInv, EntryInv, WholePackets, Keys

\* Every step keeps the packets apart.
LEMMA PacketStep == TableInv /\ PacketInv /\ [NextGecko]_gkVars => PacketInv'
<1> SUFFICES ASSUME TableInv, PacketInv, [NextGecko]_gkVars PROVE PacketInv'
  OBVIOUS
<1>1. ASSUME NEW a \in Peers, NEW len \in PacketLens, NEW n \in ChunkCounts, WriteFragmented(a, len, n) PROVE PacketInv'
  BY <1>1, WriteKeepsPackets
<1>2. ASSUME NEW f \in gkNet, AcceptChunk(f) PROVE PacketInv'
  <2> DEFINE k == <<f.from, f.msgID>>
  <2>1. gkNet' \subseteq gkNet /\ UNCHANGED gkSent /\ f.from \in Peers
    BY <1>2 DEF AcceptChunk, TableInv
  <2>2. CASE k \notin Keys /\ AcceptFirst(f, k) /\ UNCHANGED gkOut
    BY <2>1, <2>2, FirstKeepsPackets
  <2>3. CASE k \in Keys /\ AcceptNext(f, k)
    BY <2>1, <2>3, NextKeepsPackets
  <2> QED
    BY <1>2, <2>2, <2>3 DEF AcceptChunk
<1>3. CASE GCTick
  BY <1>3, DropKeepsPackets DEF GCTick
<1>4. CASE UNCHANGED gkVars
  <2>1. (NoWrap' <=> NoWrap) /\ (\A k, b, id : SentAs(k, b, id)' = SentAs(k, b, id)) /\ \A k, i, m : ChunkOf(k, i, m)' = ChunkOf(k, i, m)
    BY <1>4 DEF gkVars, NoWrap, SentAs, MsgID, ChunkOf
  <2>2. SentOK' /\ FrameInv' /\ WholePackets' /\ EntryInv'
    BY <1>4, <2>1 DEF gkVars, PacketInv, SentOK, FrameInv, WholePackets, EntryInv, Keys
  <2> QED
    BY <2>2 DEF PacketInv
<1> QED
  BY <1>1, <1>2, <1>3, <1>4 DEF NextGecko

\* For any packets, chunk counts, loss, duplication, reordering, eviction and expiry: the
\* reassembly table keeps its caps and its counts per source, and as long as the 8-bit message
\* ID of a source has not wrapped, what ReadFrom returns is a packet that was sent, whole and
\* from its own source (gecko.go, writeFragmented, acceptChunk, evictOldestLocked, gcExpired).
THEOREM GeckoReassembles == SpecGecko => []GeckoReassembly
<1>1. TableInv /\ PacketInv => GeckoReassembly
  BY DEF TableInv, PacketInv, GeckoReassembly
<1> QED
  BY <1>1, InitTable, InitPackets, TableStep, PacketStep, PTL DEF SpecGecko

-----------------------------------------------------------------------------
(* UDPFragmentation *)

\* The number of slices is the length rounded up.
LEMMA CountCovers ==
  ASSUME NEW len \in Nat, NEW max \in Nat \ {0}, len > max
  PROVE  /\ Slices(len, max) \in Nat /\ Slices(len, max) > 1
         /\ len <= Slices(len, max) * max
         /\ \A i \in 0..(Slices(len, max) - 1) : i * max < len
<1> DEFINE n == Slices(len, max)
<1>1. n \in Nat /\ n * max <= len + max - 1 /\ len + max - 1 < (n + 1) * max
  BY DEF Slices
<1> HIDE DEF n
<1>2. (n + 1) * max = n * max + max
  BY <1>1
<1>3. len <= n * max
  <2> DEFINE x == n * max
  <2>1. x \in Int /\ len + max - 1 < x + max
    BY <1>1, <1>2
  <2> HIDE DEF x
  <2>2. len <= x
    BY <2>1
  <2> QED
    BY <2>2 DEF x
<1>4. n # 0 /\ n # 1
  BY <1>1, <1>3
<1>5. ASSUME NEW i \in 0..(n - 1) PROVE i * max < len
  <2>1. i \in Nat /\ i + 1 <= n
    BY <1>1
  <2>2. i * max \in Nat /\ (i + 1) * max <= n * max /\ (i + 1) * max = i * max + max
    BY <1>1, <2>1
  <2> DEFINE x == i * max
             y == n * max
  <2>3. x + max <= y /\ y <= len + max - 1 /\ x \in Int /\ y \in Int
    BY <1>1, <2>2
  <2> HIDE DEF x, y
  <2>4. x < len
    BY <2>3
  <2> QED
    BY <2>4 DEF x
<1> QED
  BY <1>1, <1>3, <1>4, <1>5 DEF n

\* The conversion to uint8 keeps a count that fits and makes any other smaller.
LEMMA CountFits ==
  ASSUME NEW len, NEW max, Slices(len, max) \in Nat
  PROVE  /\ FragCount(len, max) \in Nat /\ FragCount(len, max) <= Slices(len, max)
         /\ Slices(len, max) < CountSpace => FragCount(len, max) = Slices(len, max)
<1> DEFINE n == Slices(len, max)
<1>1. n \in Nat /\ CountSpace \in Nat \ {0}
  BY SizesAssumption
<1> HIDE DEF n
<1>2. n % CountSpace \in Nat
  BY <1>1
<1>3. n % CountSpace <= n
  <2>1. CASE n < CountSpace
    BY <1>1, <2>1
  <2>2. CASE ~(n < CountSpace)
    <3>1. n % CountSpace < CountSpace
      BY <1>1
    <3> QED
      BY <1>1, <1>2, <2>2, <3>1
  <2> QED
    BY <2>1, <2>2
<1>4. n < CountSpace => n % CountSpace = n
  BY <1>1
<1> QED
  BY <1>2, <1>3, <1>4 DEF FragCount, n

\* The fragments of a message, in order, are the message.
LEMMA FragmentsJoin ==
  ASSUME NEW k, NEW len \in Nat, NEW max \in Nat \ {0}, len > max, NEW s, Len(s) = Slices(len, max),
         \A i \in 1..Slices(len, max) : s[i] = FragData(Data(k, len), i - 1, max)
  PROVE  Assemble(s) = Data(k, len)
<1> DEFINE data == Data(k, len)
           n == Slices(len, max)
           S == {k} \X (1..len)
           c == [i \in 0..n |-> IF i * max > len THEN len ELSE i * max]
<1>1. data \in Seq(S) /\ Len(data) = len
  BY DEF Data
<1>2. n \in Nat \ {0} /\ len <= n * max
  BY CountCovers
<1>3. ASSUME NEW i \in 1..n PROVE s[i] = SubSeq(data, (i - 1) * max + 1, IF i * max > len THEN len ELSE i * max)
  <2>1. i - 1 + 1 = i
    OBVIOUS
  <2> QED
    BY <1>1, <2>1, Zenon DEF FragData
<1> HIDE DEF data, n, S
<1>4. \A i \in 0..n : i * max \in Nat
  BY <1>2
<1>5. \A i \in 1..n : (i - 1) * max <= i * max /\ (i - 1) \in 0..n /\ i \in 0..n
  BY <1>2
<1>6. 0 * max = 0 /\ 0 \in 0..n /\ n \in 0..n
  BY <1>2
<1>7. c \in [0..n -> 0..len] /\ c[0] = 0 /\ c[n] = len
  <2>1. ASSUME NEW i \in 0..n PROVE (IF i * max > len THEN len ELSE i * max) \in 0..len
    BY <1>4
  <2>2. c[0] = 0
    BY <1>6
  <2>3. c[n] = len
    <3> DEFINE x == n * max
    <3>1. x \in Nat /\ len <= x
      BY <1>2, <1>4, <1>6
    <3> HIDE DEF x
    <3>2. (IF x > len THEN len ELSE x) = len
      BY <3>1
    <3> QED
      BY <1>6, <3>2 DEF x
  <2> QED
    BY <2>1, <2>2, <2>3
<1>8. ASSUME NEW i \in 1..n PROVE c[i-1] <= c[i] /\ s[i] = SubSeq(data, c[i-1] + 1, c[i])
  <2> DEFINE x == (i - 1) * max
             y == i * max
  <2>1. x \in Nat /\ y \in Nat /\ x <= y /\ x <= len
    <3>1. n = Slices(len, max) /\ i - 1 \in 0..(n - 1)
      BY <1>2 DEF n
    <3>2. x < len
      BY <3>1, CountCovers, Zenon
    <3> QED
      BY <1>4, <1>5, <3>2
  <2>2. c[i-1] = (IF x > len THEN len ELSE x) /\ c[i] = IF y > len THEN len ELSE y
    BY <1>5
  <2>3. s[i] = SubSeq(data, x + 1, IF y > len THEN len ELSE y)
    BY <1>3
  <2> HIDE DEF x, y, c
  <2>4. c[i-1] = x
    BY <2>1, <2>2
  <2>5. c[i-1] <= c[i]
    BY <2>1, <2>2
  <2> QED
    BY <2>2, <2>3, <2>4, <2>5
<1> HIDE DEF c
<1>9. (\A i \in 1..n : c[i-1] <= c[i]) /\ \A i \in 1..n : s[i] = SubSeq(data, c[i-1] + 1, c[i])
  BY <1>8
<1>10. c \in [0..n -> 0..Len(data)] /\ c[0] = 0 /\ c[n] = Len(data) /\ Len(s) = n
  BY <1>1, <1>7 DEF n
<1>11. FlattenSeq(s) = data
  BY <1>1, <1>2, <1>9, <1>10, FlattenSlices, ZenonT(60)
<1> QED
  BY <1>11 DEF Assemble, data

Bytes == Nat \X Nat
Wire == [msg : Nat, pktID : PacketIDs \cup {0}, fragID : Nat, fragCount : Nat \ {0}, data : Seq(Bytes) \ {<<>>}]

\* Every datagram under way or received.
Arrivals == datagrams \cup {fed[i] : i \in DOMAIN fed}

WireInv ==
    /\ sent \in Seq([pktID : PacketIDs \cup {0}, len : Lens])
    /\ fed \in Seq(Wire) /\ datagrams \subseteq Wire

\* The datagrams of one message are cut to one size, and it has PacketID 0 exactly if it fits;
\* no message has the number of the stray datagram.
CutInv ==
    /\ \A k \in DOMAIN sent : \E max \in Limits :
          /\ sent[k].pktID = 0 <=> sent[k].len <= max
          /\ \A f \in Arrivals : f.msg = k => f \in FragUDPMessage(k, sent[k].pktID, Whole(k), max)
    /\ \A f \in Arrivals : f.msg = 0 => f.fragID = 2 /\ f.fragCount = 2
    /\ \A f \in Arrivals : f.msg = 0 \/ f.msg \in DOMAIN sent

\* A datagram is received once.
OnceInv ==
    /\ \A i, j \in DOMAIN fed : fed[i] = fed[j] => i = j
    /\ \A i \in DOMAIN fed : fed[i] \notin datagrams
    /\ \A f \in datagrams : f.msg # 0

\* Slot i is the first fragment of the window with that FragID.
SlotOf(W, i) == IF i - 1 \in IDsIn(W) THEN fed[First(W, i - 1)].data ELSE Nothing

\* The Defragger holds what came in the window of the last fragment l.
Holds(l) ==
    /\ \A j \in Fragments(Len(fed)) : j <= l
    /\ pktID = fed[l].pktID
    /\ frags = [i \in 1..fed[l].fragCount |-> SlotOf(Window(l), i)]

AssemblyInv ==
    /\ pktID \in PacketIDs \cup {0}
    /\ Fragments(Len(fed)) = {} => pktID = 0 /\ frags = <<>>
    /\ Fragments(Len(fed)) # {} => \E l \in Fragments(Len(fed)) : Holds(l)
    /\ count = Cardinality({i \in DOMAIN frags : frags[i] # Nothing})
    /\ size = Len(Assemble(frags))
    /\ out \in Seq(Seq(Bytes)) /\ Len(out) = Len(fed) /\ DOMAIN out = DOMAIN fed

FragInv == WireInv /\ CutInv /\ OnceInv /\ AssemblyInv /\ MatchesReference /\ PanicsOnlyOnWrap

\* The first fragment of a window with a FragID that it has; there is only one.
FirstFact ==
  \A W \in SUBSET Nat :
     /\ \A id \in IDsIn(W) :
           /\ First(W, id) \in W /\ fed[First(W, id)].fragID = id
           /\ \A l \in W : fed[l].fragID = id => First(W, id) <= l
     /\ \A j \in W :
           (\A l \in W : fed[l].fragID = fed[j].fragID => j <= l) => First(W, fed[j].fragID) = j

LEMMA FirstOf == FirstFact
<1> SUFFICES ASSUME NEW W \in SUBSET Nat
             PROVE  /\ \A id \in IDsIn(W) :
                          /\ First(W, id) \in W /\ fed[First(W, id)].fragID = id
                          /\ \A l \in W : fed[l].fragID = id => First(W, id) <= l
                    /\ \A j \in W :
                          (\A l \in W : fed[l].fragID = fed[j].fragID => j <= l) => First(W, fed[j].fragID) = j
  BY DEF FirstFact
<1>1. ASSUME NEW id \in IDsIn(W)
      PROVE  /\ First(W, id) \in W /\ fed[First(W, id)].fragID = id
             /\ \A l \in W : fed[l].fragID = id => First(W, id) <= l
  <2> DEFINE T == {j \in W : fed[j].fragID = id}
  <2>1. T \subseteq Nat /\ T # {}
    BY DEF IDsIn
  <2>2. PICK x \in T : \A y \in T : x <= y
    BY <2>1, LeastNumber
  <2>3. \E j \in W : fed[j].fragID = id /\ \A l \in W : fed[l].fragID = id => j <= l
    BY <2>2
  <2> QED
    BY <2>3, Zenon DEF First
<1>2. ASSUME NEW j \in W, \A l \in W : fed[l].fragID = fed[j].fragID => j <= l
      PROVE  First(W, fed[j].fragID) = j
  <2>1. fed[j].fragID \in IDsIn(W)
    BY DEF IDsIn
  <2> DEFINE x == First(W, fed[j].fragID)
  <2>2. x \in W /\ x <= j /\ fed[x].fragID = fed[j].fragID
    BY <1>1, <2>1, Zenon
  <2>3. j <= x
    BY <1>2, <2>2
  <2> HIDE DEF x
  <2>4. x \in Nat /\ j \in Nat
    BY <2>2
  <2>5. x = j
    BY <2>2, <2>3, <2>4
  <2> QED
    BY <2>5 DEF x
<1> QED
  BY <1>1, <1>2

LEMMA FirstOfNext == FirstFact'
  BY FirstOf, PTL

\* A datagram m more in a window: what was first stays first.
LEMMA FirstInLonger ==
  ASSUME NEW m \in Nat, NEW W \in SUBSET (1..(m - 1)), \A j \in W : fed'[j] = fed[j]
  PROVE  /\ \A id \in IDsIn(W) : First(W \cup {m}, id)' = First(W, id) /\ First(W, id) \in W
         /\ \A id : id = fed'[m].fragID /\ id \notin IDsIn(W) => First(W \cup {m}, id)' = m
<1>1. PICK V : V = W \cup {m}
  OBVIOUS
<1>2. V \in SUBSET Nat /\ W \in SUBSET Nat /\ m \in V /\ W \subseteq V /\ m <= m /\ \A j \in W : j <= m
  BY <1>1
<1>3. ASSUME NEW id \in IDsIn(W) PROVE First(V, id)' = First(W, id) /\ First(W, id) \in W
  <2>1. PICK j : j = First(W, id)
    OBVIOUS
  <2>2. j \in W /\ fed[j].fragID = id /\ \A l \in W : fed[l].fragID = id => j <= l
    BY <1>2, <2>1, FirstOf DEF FirstFact
  <2>3. j \in V /\ fed'[j].fragID = id /\ \A l \in V : fed'[l].fragID = fed'[j].fragID => j <= l
    BY <1>1, <1>2, <2>2
  <2>4. First(V, id)' = j
    BY <1>2, <2>3, FirstOfNext DEF FirstFact
  <2> QED
    BY <2>1, <2>2, <2>4
<1>4. ASSUME NEW id, id = fed'[m].fragID, id \notin IDsIn(W) PROVE First(V, id)' = m
  <2>1. \A l \in W : fed'[l].fragID # id
    BY <1>4 DEF IDsIn
  <2>2. \A l \in V : fed'[l].fragID = fed'[m].fragID => m <= l
    BY <1>1, <1>2, <1>4, <2>1
  <2> QED
    BY <1>2, <1>4, <2>2, FirstOfNext DEF FirstFact
<1> QED
  BY <1>1, <1>3, <1>4

\* The datagrams of a message: itself, or its fragments.
LEMMA CutAs ==
  ASSUME NEW k, NEW id, NEW len \in Nat, NEW max \in Nat, NEW f \in FragUDPMessage(k, id, Data(k, len), max)
  PROVE  /\ f.msg = k /\ f.pktID = id
         /\ f = [msg |-> k, pktID |-> id, fragID |-> f.fragID, fragCount |-> f.fragCount, data |-> f.data]
         /\ len <= max => f.fragID = 0 /\ f.fragCount = 1 /\ f.data = Data(k, len)
         /\ len > max => /\ max # 0 /\ f.fragCount = Slices(len, max)
                         /\ f.fragID \in 0..(Slices(len, max) - 1)
                         /\ f.data = FragData(Data(k, len), f.fragID, max)
<1>1. Len(Data(k, len)) = len
  BY DEF Data
<1> DEFINE D(i, n, slice) == [msg |-> k, pktID |-> id, fragID |-> i, fragCount |-> n, data |-> slice]
<1>2. CASE len <= max
  <2>1. f = D(0, 1, Data(k, len))
    BY <1>1, <1>2 DEF FragUDPMessage
  <2> QED
    BY <1>2, <2>1
<1>3. CASE ~(len <= max)
  <2>1. max # 0 /\ ~FragPanics(len, max)
    BY <1>1, <1>3 DEF FragUDPMessage
  <2>2. PICK i \in 0..(FragCount(len, max) - 1) : f = D(i, FragCount(len, max), FragData(Data(k, len), i, max))
    BY <1>1, <1>3, <2>1 DEF FragUDPMessage
  <2>3. len > max
    BY <1>3
  <2>4. FragCount(len, max) = Slices(len, max)
    <3>1. Slices(len, max) \in Nat
      BY <2>1, <2>3, CountCovers
    <3> QED
      BY <2>1, <2>3, <3>1, CountFits DEF FragPanics
  <2> QED
    BY <1>3, <2>1, <2>2, <2>3, <2>4
<1> QED
  BY <1>2, <1>3

\* A datagram that arrived, other than the stray one, is cut from its message like all the
\* others of the message.
LEMMA CutOfMessage ==
  ASSUME WireInv, CutInv, NEW k \in DOMAIN sent
  PROVE  /\ sent[k].len \in Nat \ {0} /\ sent[k].pktID \in PacketIDs \cup {0}
         /\ \E max \in Nat :
              /\ sent[k].pktID = 0 <=> sent[k].len <= max
              /\ \A f \in Arrivals : f.msg = k => f \in FragUDPMessage(k, sent[k].pktID, Whole(k), max)
<1>1. sent[k] \in [pktID : PacketIDs \cup {0}, len : Lens]
  BY ElementOfSeq, LenProperties, Zenon DEF WireInv
<1>2. sent[k].len \in Nat \ {0} /\ sent[k].pktID \in PacketIDs \cup {0}
  BY <1>1, SizesAssumption
<1>3. Limits \subseteq Nat
  BY SizesAssumption
<1> QED
  BY <1>2, <1>3 DEF CutInv

\* The window of a fragment lies before it.
LEMMA WindowFacts ==
  ASSUME NEW i \in Nat
  PROVE  /\ Window(i) \subseteq 1..i /\ Window(i) \in SUBSET Nat
         /\ \A j \in Window(i) : Valid(fed[j]) /\ (i \in Fragments(i) => Key(j) = Key(i))
<1>1. \A j \in Window(i) : j \in Fragments(i) /\ j >= j
  BY DEF Window, Fragments
<1>2. Fragments(i) \subseteq 1..i
  BY DEF Fragments
<1> QED
  BY <1>1, <1>2 DEF Window, Fragments

\* With unrepeated PacketIDs, what Feed should return is the whole message of its datagram.
LEMMA DeliversWhole ==
  ASSUME WireInv, CutInv, UniqueIDs, NEW i \in DOMAIN fed, Expected(i) # Nothing
  PROVE  /\ fed[i].msg \in DOMAIN sent /\ Expected(i) = Whole(fed[i].msg)
         /\ fed[i].fragCount > 1 =>
               \E W \in SUBSET (1..i) : /\ IDsIn(W) = 0..(fed[i].fragCount - 1)
                                        /\ \A j \in W : j \in DOMAIN fed /\ fed[j].msg = fed[i].msg
                                        /\ fed[i].fragID \in IDsIn(W)
<1>1. DOMAIN fed = 1..Len(fed) /\ Len(fed) \in Nat /\ i \in Nat
  BY LenProperties DEF WireInv
<1>2. \A j \in DOMAIN fed : fed[j] \in Wire /\ fed[j] \in Arrivals
  <2>1. \A j \in DOMAIN fed : fed[j] \in Wire
    BY ElementOfSeq, LenProperties, Zenon DEF WireInv
  <2> QED
    BY <2>1 DEF Arrivals
<1>3. \A j \in DOMAIN fed : fed[j].fragCount \in Nat \ {0} /\ fed[j].fragID \in Nat
  BY <1>2 DEF Wire
<1>4. CASE fed[i].fragCount <= 1
  <2>1. fed[i].fragCount = 1 /\ ~(fed[i].fragCount > 1)
    BY <1>3, <1>4
  <2> DEFINE k == fed[i].msg
  <2>2. k \in DOMAIN sent
    BY <1>2, <2>1 DEF CutInv
  <2>3. PICK max \in Nat : fed[i] \in FragUDPMessage(k, sent[k].pktID, Whole(k), max)
    BY <1>2, <2>2, CutOfMessage
  <2>4. sent[k].len \in Nat
    BY <2>2, CutOfMessage
  <2>5. sent[k].len <= max
    <3>1. SUFFICES ASSUME sent[k].len > max PROVE FALSE
      BY <2>4
    <3>2. max # 0 /\ fed[i].fragCount = Slices(sent[k].len, max)
      BY <2>3, <2>4, <3>1, CutAs DEF Whole
    <3> QED
      BY <2>1, <2>4, <3>1, <3>2, CountCovers
  <2>6. fed[i].data = Whole(k)
    BY <2>3, <2>4, <2>5, CutAs DEF Whole
  <2> QED
    BY <1>4, <2>1, <2>2, <2>6 DEF Expected
<1>5. CASE ~(fed[i].fragCount <= 1)
  <2> DEFINE k == fed[i].msg
             n == fed[i].fragCount
             W == Window(i)
  <2>1. Valid(fed[i]) /\ IDsIn(W) = 0..(n - 1) /\ Expected(i) = Assemble([m \in 1..n |-> fed[First(W, m - 1)].data])
    BY <1>5, Zenon DEF Expected
  <2>2. n \in Nat /\ n > 1 /\ fed[i].fragID \in 0..(n - 1) /\ i \in Fragments(i)
    BY <1>1, <1>3, <1>5, <2>1 DEF Valid, Fragments
  <2>3. W \subseteq 1..i /\ W \in SUBSET Nat /\ \A j \in W : Valid(fed[j]) /\ Key(j) = Key(i) /\ j \in DOMAIN fed
    BY <1>1, <2>2, WindowFacts
  <2>4. \A j \in DOMAIN fed : Valid(fed[j]) => fed[j].msg \in DOMAIN sent
    BY <1>2, <1>3 DEF CutInv, Valid
  <2>5. k \in DOMAIN sent
    BY <2>1, <2>4
  <2>6. ASSUME NEW j \in DOMAIN fed, Valid(fed[j])
        PROVE  sent[fed[j].msg].pktID = fed[j].pktID /\ fed[j].pktID # 0
    <3> DEFINE x == fed[j].msg
    <3>1. x \in DOMAIN sent /\ sent[x].len \in Nat
      BY <2>4, <2>6, CutOfMessage
    <3>2. PICK max \in Nat : /\ sent[x].pktID = 0 <=> sent[x].len <= max
                             /\ fed[j] \in FragUDPMessage(x, sent[x].pktID, Whole(x), max)
      BY <1>2, <3>1, CutOfMessage
    <3>3. sent[x].pktID = fed[j].pktID /\ (sent[x].len <= max => fed[j].fragCount = 1)
      BY <3>1, <3>2, CutAs DEF Whole
    <3>4. fed[j].fragCount # 1
      BY <1>3, <2>6 DEF Valid
    <3> QED
      BY <3>2, <3>3, <3>4
  <2>7. ASSUME NEW j \in W PROVE fed[j].msg = k
    <3>1. fed[j].pktID = fed[i].pktID /\ j \in DOMAIN fed /\ Valid(fed[j])
      BY <2>3 DEF Key
    <3> QED
      BY <2>1, <2>4, <2>6, <3>1 DEF UniqueIDs
  <2>8. PICK max \in Nat : \A f \in Arrivals : f.msg = k => f \in FragUDPMessage(k, sent[k].pktID, Whole(k), max)
    BY <2>5, CutOfMessage
  <2>9. sent[k].len \in Nat /\ fed[i] \in FragUDPMessage(k, sent[k].pktID, Whole(k), max)
    BY <1>2, <2>5, <2>8, CutOfMessage
  <2>10. sent[k].len > max /\ max # 0 /\ n = Slices(sent[k].len, max)
    <3>1. sent[k].len <= max => n = 1
      BY <2>9, CutAs DEF Whole
    <3>2. sent[k].len > max
      BY <2>2, <2>9, <3>1
    <3> QED
      BY <2>9, <3>2, CutAs DEF Whole
  <2> DEFINE s == [m \in 1..n |-> fed[First(W, m - 1)].data]
  <2>11. ASSUME NEW m \in 1..n PROVE s[m] = FragData(Data(k, sent[k].len), m - 1, max)
    <3> DEFINE j == First(W, m - 1)
    <3>1. m - 1 \in IDsIn(W)
      BY <2>1, <2>2
    <3>2. j \in W /\ fed[j].fragID = m - 1
      BY <2>3, <3>1, FirstOf DEF FirstFact
    <3> HIDE DEF j
    <3>3. fed[j] \in FragUDPMessage(k, sent[k].pktID, Data(k, sent[k].len), max)
      BY <1>2, <2>3, <2>7, <2>8, <3>2 DEF Whole
    <3>4. fed[j].data = FragData(Data(k, sent[k].len), m - 1, max)
      BY <2>9, <2>10, <3>2, <3>3, CutAs
    <3> QED
      BY <3>4 DEF j
  <2>12. Len(s) = n
    BY <2>2
  <2> HIDE DEF s
  <2>13. Assemble(s) = Whole(k)
    <3>1. PICK len : len = sent[k].len
      OBVIOUS
    <3>2. len \in Nat /\ max \in Nat \ {0} /\ len > max /\ Len(s) = Slices(len, max)
      BY <2>9, <2>10, <2>12, <3>1
    <3>3. \A m \in 1..Slices(len, max) : s[m] = FragData(Data(k, len), m - 1, max)
      BY <2>10, <2>11, <3>1
    <3> HIDE DEF k
    <3>4. Assemble(s) = Data(k, len)
      BY <3>2, <3>3, FragmentsJoin
    <3> QED
      BY <3>1, <3>4 DEF Whole
  <2>14. Expected(i) = Whole(k)
    BY <2>1, <2>13 DEF s
  <2> HIDE DEF k, n, W
  <2> QED
    BY <2>1, <2>2, <2>3, <2>5, <2>7, <2>14 DEF k, n
<1> QED
  BY <1>4, <1>5

\* Two datagrams of one message with one FragID are the same datagram.
LEMMA SameFragment ==
  ASSUME WireInv, CutInv, NEW f \in Arrivals, NEW g \in Arrivals, f.msg = g.msg, f.msg \in DOMAIN sent, f.fragID = g.fragID
  PROVE  f = g
<1> DEFINE k == f.msg
<1>1. PICK max \in Nat : /\ f \in FragUDPMessage(k, sent[k].pktID, Whole(k), max)
                         /\ g \in FragUDPMessage(k, sent[k].pktID, Whole(k), max)
  BY CutOfMessage
<1>2. sent[k].len \in Nat
  BY CutOfMessage
<1>3. f.fragCount = g.fragCount /\ f.data = g.data
  BY <1>1, <1>2, CutAs DEF Whole
<1>4. f = [msg |-> k, pktID |-> sent[k].pktID, fragID |-> f.fragID, fragCount |-> f.fragCount, data |-> f.data]
  BY <1>1, <1>2, CutAs DEF Whole
<1>5. g = [msg |-> k, pktID |-> sent[k].pktID, fragID |-> g.fragID, fragCount |-> g.fragCount, data |-> g.data]
  BY <1>1, <1>2, CutAs DEF Whole
<1> QED
  BY <1>3, <1>4, <1>5

\* The history and the network give whole messages, each once.
LEMMA WholeOnce == FragInv => WholeMessagesOnly
<1> SUFFICES ASSUME FragInv, UniqueIDs
             PROVE  /\ \A i \in DOMAIN out : out[i] # Nothing => \E k \in DOMAIN sent : out[i] = Whole(k)
                    /\ \A i, j \in DOMAIN out : out[i] # Nothing /\ out[i] = out[j] => i = j
  BY DEF WholeMessagesOnly
<1>1. DOMAIN out = DOMAIN fed /\ \A i \in DOMAIN fed : out[i] = Expected(i)
  BY DEF FragInv, AssemblyInv, MatchesReference
<1>2. WireInv /\ CutInv /\ OnceInv
  BY DEF FragInv
<1>3. \A i \in DOMAIN fed : fed[i] \in Arrivals
  BY DEF Arrivals
<1>4. \A i \in DOMAIN out : out[i] # Nothing => fed[i].msg \in DOMAIN sent /\ out[i] = Whole(fed[i].msg)
  BY <1>1, <1>2, DeliversWhole
<1>5. ASSUME NEW k \in DOMAIN sent, NEW l \in DOMAIN sent, Whole(k) = Whole(l) PROVE k = l
  <2>1. sent[k].len \in Nat \ {0} /\ sent[l].len \in Nat \ {0}
    BY <1>2, CutOfMessage
  <2>2. Whole(k)[1] = <<k, 1>> /\ Whole(l)[1] = <<l, 1>>
    BY <2>1 DEF Whole, Data
  <2> QED
    BY <1>5, <2>2
<1>6. DOMAIN fed = 1..Len(fed) /\ Len(fed) \in Nat
  BY <1>2, LenProperties DEF WireInv
<1>7. ASSUME NEW i \in DOMAIN fed, NEW j \in DOMAIN fed, out[i] # Nothing, out[i] = out[j], i <= j
      PROVE  i = j
  <2>1. fed[i].msg = fed[j].msg /\ fed[i].msg \in DOMAIN sent
    BY <1>1, <1>4, <1>5, <1>7
  <2> DEFINE k == fed[i].msg
  <2>2. PICK max \in Nat : /\ fed[i] \in FragUDPMessage(k, sent[k].pktID, Whole(k), max)
                           /\ fed[j] \in FragUDPMessage(k, sent[k].pktID, Whole(k), max)
    BY <1>2, <1>3, <2>1, CutOfMessage
  <2>3. sent[k].len \in Nat
    BY <1>2, <2>1, CutOfMessage
  <2>4. CASE sent[k].len <= max
    <3>1. fed[i].fragID = fed[j].fragID
      BY <2>2, <2>3, <2>4, CutAs DEF Whole
    <3>2. fed[i] = fed[j]
      BY <1>2, <1>3, <2>1, <3>1, SameFragment
    <3> QED
      BY <1>2, <3>2 DEF OnceInv
  <2>5. CASE ~(sent[k].len <= max)
    <3>1. sent[k].len > max
      BY <2>3, <2>5
    <3>2. max # 0 /\ fed[i].fragCount = fed[j].fragCount /\ fed[i].fragCount = Slices(sent[k].len, max)
          /\ fed[j].fragID \in 0..(Slices(sent[k].len, max) - 1)
      BY <2>2, <2>3, <3>1, CutAs DEF Whole
    <3>3. fed[i].fragCount > 1
      BY <2>3, <3>1, <3>2, CountCovers
    <3>4. PICK W \in SUBSET (1..i) : /\ IDsIn(W) = 0..(fed[i].fragCount - 1)
                                     /\ \A y \in W : y \in DOMAIN fed /\ fed[y].msg = fed[i].msg
      BY <1>1, <1>2, <1>7, <3>3, DeliversWhole
    <3>5. fed[j].fragID \in IDsIn(W)
      BY <3>2, <3>4
    <3>6. PICK y \in W : fed[y].fragID = fed[j].fragID
      BY <3>5 DEF IDsIn
    <3>7. fed[y] = fed[j]
      BY <1>2, <1>3, <2>1, <3>4, <3>6, SameFragment
    <3>8. y = j
      BY <1>2, <3>4, <3>7 DEF OnceInv
    <3> QED
      BY <1>6, <1>7, <3>4, <3>8
  <2> QED
    BY <2>4, <2>5
<1>8. ASSUME NEW i \in DOMAIN out, NEW j \in DOMAIN out, out[i] # Nothing /\ out[i] = out[j] PROVE i = j
  <2>1. i <= j \/ j <= i
    BY <1>1, <1>6
  <2> QED
    BY <1>1, <1>7, <1>8, <2>1
<1> QED
  BY <1>4, <1>8

\* What is true of the datagrams so far stays true of them.
LEMMA SameHistory ==
  ASSUME NEW n \in Nat, \A j \in 1..n : fed'[j] = fed[j] /\ fed[j].fragCount \in Nat
  PROVE  /\ \A W \in SUBSET (1..n) : /\ IDsIn(W)' = IDsIn(W)
                                     /\ \A id \in IDsIn(W) : First(W, id)' = First(W, id) /\ First(W, id) \in 1..n
         /\ \A i \in 1..n : Window(i)' = Window(i) /\ Expected(i)' = Expected(i)
<1>1. ASSUME NEW W \in SUBSET (1..n)
      PROVE  /\ IDsIn(W)' = IDsIn(W)
             /\ \A id \in IDsIn(W) : First(W, id)' = First(W, id) /\ First(W, id) \in 1..n
  <2>1. IDsIn(W)' = IDsIn(W)
    BY DEF IDsIn
  <2>2. ASSUME NEW id \in IDsIn(W) PROVE First(W, id)' = First(W, id) /\ First(W, id) \in 1..n
    <3>1. PICK j : j = First(W, id)
      OBVIOUS
    <3>2. W \in SUBSET Nat
      OBVIOUS
    <3>3. j \in W /\ fed[j].fragID = id /\ \A l \in W : fed[l].fragID = id => j <= l
      BY <3>1, <3>2, FirstOf DEF FirstFact
    <3>4. fed'[j].fragID = id /\ \A l \in W : fed'[l].fragID = fed'[j].fragID => j <= l
      BY <3>3
    <3>5. First(W, id)' = j
      <4>1. First(W, fed[j].fragID)' = j
        BY <3>2, <3>3, <3>4, FirstOfNext, Zenon DEF FirstFact
      <4> QED
        BY <3>4, <4>1
    <3> QED
      BY <3>1, <3>3, <3>5
  <2> QED
    BY <2>1, <2>2
<1>2. ASSUME NEW i \in 1..n PROVE Window(i)' = Window(i) /\ Window(i) \in SUBSET (1..n)
  <2>1. Fragments(i)' = Fragments(i) /\ Fragments(i) \in SUBSET (1..n)
    BY DEF Fragments
  <2>2. \A l \in Fragments(i) : Key(l)' = Key(l)
    BY <2>1 DEF Key
  <2>3. Key(i)' = Key(i)
    BY DEF Key
  <2> QED
    BY <2>1, <2>2, <2>3 DEF Window
<1>3. ASSUME NEW i \in 1..n PROVE Expected(i)' = Expected(i)
  <2>1. PICK W : W = Window(i)
    OBVIOUS
  <2>2. Window(i)' = W /\ W \in SUBSET (1..n) /\ W \ {i} \in SUBSET (1..n)
    BY <1>2, <2>1
  <2>3. IDsIn(W)' = IDsIn(W) /\ IDsIn(W \ {i})' = IDsIn(W \ {i})
    BY <1>1, <2>2
  <2>4. fed'[i] = fed[i]
    OBVIOUS
  <2>5. ASSUME IDsIn(W) = 0..(fed[i].fragCount - 1)
        PROVE  [m \in 1..fed[i].fragCount |-> fed[First(W, m - 1)].data] = [m \in 1..fed'[i].fragCount |-> fed'[First(W, m - 1)'].data]
    <3>1. ASSUME NEW m \in 1..fed[i].fragCount PROVE fed[First(W, m - 1)].data = fed'[First(W, m - 1)'].data
      <4>1. fed[i].fragCount \in Nat
        OBVIOUS
      <4>2. m - 1 \in IDsIn(W)
        BY <2>5, <4>1
      <4> QED
        BY <1>1, <2>2, <4>2
    <3> QED
      BY <2>4, <3>1
  <2> QED
    BY <2>1, <2>2, <2>3, <2>4, <2>5 DEF Expected
<1> QED
  BY <1>1, <1>2, <1>3

\* The bytes of a message go out as datagrams that can be parsed.
LEMMA CutIsWire ==
  ASSUME NEW k \in Nat, NEW id \in PacketIDs \cup {0}, NEW len \in Nat \ {0}, NEW max \in Nat
  PROVE  FragUDPMessage(k, id, Data(k, len), max) \subseteq Wire
<1> SUFFICES ASSUME NEW f \in FragUDPMessage(k, id, Data(k, len), max) PROVE f \in Wire
  OBVIOUS
<1>1. Data(k, len) \in Seq(Bytes) /\ Len(Data(k, len)) = len
  BY DEF Data, Bytes
<1>2. f = [msg |-> k, pktID |-> id, fragID |-> f.fragID, fragCount |-> f.fragCount, data |-> f.data]
  BY CutAs
<1>3. f.fragID \in Nat /\ f.fragCount \in Nat \ {0} /\ f.data \in Seq(Bytes) \ {<<>>}
  <2>1. CASE len <= max
    <3>1. f.fragID = 0 /\ f.fragCount = 1 /\ f.data = Data(k, len)
      BY <2>1, CutAs
    <3>2. Data(k, len) # <<>>
      BY <1>1
    <3> QED
      BY <1>1, <3>1, <3>2
  <2>2. CASE ~(len <= max)
    <3>1. len > max
      BY <2>2
    <3>2. max # 0 /\ f.fragCount = Slices(len, max) /\ f.fragID \in 0..(Slices(len, max) - 1)
          /\ f.data = FragData(Data(k, len), f.fragID, max)
      BY <3>1, CutAs
    <3> DEFINE a == f.fragID * max
               b == (f.fragID + 1) * max
    <3>3. f.fragID \in Nat /\ a < len /\ f.fragCount \in Nat /\ f.fragCount > 1
      BY <3>1, <3>2, CountCovers
    <3>4. a \in Nat /\ b \in Nat /\ b = a + max
      BY <3>3
    <3>5. f.data = SubSeq(Data(k, len), a + 1, IF b > len THEN len ELSE b)
      BY <1>1, <3>2 DEF FragData
    <3> HIDE DEF a, b
    <3>6. PICK c \in 1..len : f.data = SubSeq(Data(k, len), a + 1, c) /\ a + 1 <= c
      BY <3>2, <3>3, <3>4, <3>5
    <3>7. f.data \in Seq(Bytes) /\ Len(f.data) = c - a
      <4>1. a + 1 \in 1..(Len(Data(k, len)) + 1) /\ c \in (a + 1 - 1)..Len(Data(k, len))
        BY <1>1, <3>3, <3>4, <3>6
      <4>2. f.data \in Seq(Bytes) /\ Len(f.data) = c - (a + 1) + 1
        BY <1>1, <3>6, <4>1, SubSeqProperties
      <4> QED
        BY <3>4, <3>6, <4>2
    <3>8. Len(f.data) # 0
      BY <3>4, <3>6, <3>7
    <3> QED
      BY <3>2, <3>3, <3>7, <3>8
  <2> QED
    BY <2>1, <2>2
<1> QED
  BY <1>2, <1>3 DEF Wire

\* While nothing is fed, the Defragger and its history agree as before.
LEMMA NothingFed ==
  ASSUME AssemblyInv, MatchesReference, UNCHANGED <<defragger, fed, out>>
  PROVE  AssemblyInv' /\ MatchesReference'
<1>1. UNCHANGED <<pktID, frags, count, size, fed, out>>
  BY DEF defragger
<1>2. (\A i : Expected(i)' = Expected(i)) /\ (\A i : Fragments(i)' = Fragments(i)) /\ (\A l : Holds(l)' <=> Holds(l))
  <2>1. \A i : Fragments(i)' = Fragments(i) /\ Key(i)' = Key(i)
    BY <1>1 DEF Fragments, Key
  <2>2. \A i : Window(i)' = Window(i)
    BY <2>1 DEF Window
  <2>3. \A W : IDsIn(W)' = IDsIn(W)
    BY <1>1 DEF IDsIn
  <2>4. \A W, id : First(W, id)' = First(W, id)
    BY <1>1 DEF First
  <2>5. \A i : Expected(i)' = Expected(i)
    BY <1>1, <2>2, <2>3, <2>4 DEF Expected
  <2>6. \A W, i : SlotOf(W, i)' = SlotOf(W, i)
    BY <1>1, <2>3, <2>4 DEF SlotOf
  <2>7. \A l : Holds(l)' <=> Holds(l)
    BY <1>1, <2>1, <2>2, <2>6 DEF Holds
  <2> QED
    BY <2>1, <2>5, <2>7
<1>3. MatchesReference'
  BY <1>1, <1>2, Zenon DEF MatchesReference
<1>4. AssemblyInv'
  BY <1>1, <1>2, Zenon DEF AssemblyInv
<1> QED
  BY <1>3, <1>4

\* Sending leaves what was sent as it was.
LEMMA SendKeeps ==
  ASSUME FragInv, NEW len \in Lens, NEW max \in Limits, NEW id \in PacketIDs, Send(len, max, id)
  PROVE  FragInv'
<1>0. PICK k : k = Len(sent) + 1
  OBVIOUS
<1> DEFINE p == IF len <= max THEN 0 ELSE id
           new == FragUDPMessage(k, p, Data(k, len), max)
           Sent == [pktID : PacketIDs \cup {0}, len : Lens]
<1>1. len \in Nat \ {0} /\ max \in Nat /\ id # 0 /\ p \in PacketIDs \cup {0} /\ (p = 0 <=> len <= max)
  BY SizesAssumption
<1>2. sent' = Append(sent, [pktID |-> p, len |-> len]) /\ datagrams' = datagrams \cup new /\ UNCHANGED <<defragger, fed, out>>
  BY <1>0 DEF Send
<1>3. WireInv /\ CutInv /\ OnceInv
  BY DEF FragInv
<1>4. sent \in Seq(Sent) /\ DOMAIN sent = 1..Len(sent) /\ Len(sent) \in Nat /\ k \in Nat \ {0}
  BY <1>0, <1>3, LenProperties DEF WireInv
<1>5. /\ sent' \in Seq(Sent) /\ DOMAIN sent' = DOMAIN sent \cup {k} /\ k \notin DOMAIN sent
      /\ \A x \in DOMAIN sent : sent'[x] = sent[x]
      /\ sent'[k] = [pktID |-> p, len |-> len]
  BY <1>0, <1>1, <1>2, <1>4, AppendProperties
<1>6. new \subseteq Wire /\ \A f \in new : f.msg = k
  BY <1>1, <1>4, CutIsWire, CutAs
<1> HIDE DEF p, new
<1>7. WireInv'
  BY <1>2, <1>3, <1>5, <1>6 DEF WireInv
<1>8. Arrivals' = Arrivals \cup new /\ \A f \in Arrivals : f.msg # k
  <2>1. Arrivals' = Arrivals \cup new
    BY <1>2 DEF Arrivals
  <2>2. k # 0 /\ k \notin DOMAIN sent
    BY <1>4, <1>5
  <2> QED
    BY <1>3, <2>1, <2>2 DEF CutInv
<1>9. CutInv'
  <2>1. \A x \in DOMAIN sent : Whole(x)' = Whole(x)
    BY <1>5 DEF Whole
  <2>2. Whole(k)' = Data(k, len) /\ sent'[k].pktID = p /\ sent'[k].len = len
    BY <1>5 DEF Whole
  <2>3. ASSUME NEW x \in DOMAIN sent'
        PROVE  \E m \in Limits : /\ sent'[x].pktID = 0 <=> sent'[x].len <= m
                                 /\ \A f \in Arrivals' : f.msg = x => f \in FragUDPMessage(x, sent'[x].pktID, Whole(x)', m)
    <3>1. CASE x = k
      <4>1. \A f \in Arrivals' : f.msg = k => f \in FragUDPMessage(k, sent'[k].pktID, Whole(k)', max)
        BY <1>8, <2>2 DEF new
      <4> QED
        BY <1>1, <2>2, <3>1, <4>1
    <3>2. CASE x \in DOMAIN sent
      <4>1. PICK m \in Limits : /\ sent[x].pktID = 0 <=> sent[x].len <= m
                                /\ \A f \in Arrivals : f.msg = x => f \in FragUDPMessage(x, sent[x].pktID, Whole(x), m)
        BY <1>3, <3>2 DEF CutInv
      <4>2. \A f \in Arrivals' : f.msg = x => f \in Arrivals
        BY <1>5, <1>6, <1>8, <3>2
      <4> QED
        BY <1>5, <2>1, <3>2, <4>1, <4>2
    <3> QED
      BY <1>5, <3>1, <3>2
  <2>4. \A f \in Arrivals' : f.msg = 0 => f \in Arrivals
    BY <1>4, <1>6, <1>8
  <2>5. \A f \in Arrivals' : f.msg = 0 => f.fragID = 2 /\ f.fragCount = 2
    BY <1>3, <2>4 DEF CutInv
  <2>6. \A f \in Arrivals' : f.msg = 0 \/ f.msg \in DOMAIN sent'
    BY <1>3, <1>5, <1>6, <1>8 DEF CutInv
  <2>7. \A x \in DOMAIN sent' : \E m \in Limits :
           /\ sent'[x].pktID = 0 <=> sent'[x].len <= m
           /\ \A f \in Arrivals' : f.msg = x => f \in FragUDPMessage(x, sent'[x].pktID, Whole(x)', m)
    BY <2>3
  <2> QED
    BY <2>5, <2>6, <2>7, Zenon DEF CutInv
<1>10. OnceInv'
  <2>1. \A i \in DOMAIN fed : fed[i] \in Arrivals
    BY DEF Arrivals
  <2>2. \A i \in DOMAIN fed : fed[i] \notin new
    BY <1>6, <1>8, <2>1
  <2>3. k # 0
    BY <1>4
  <2> QED
    BY <1>2, <1>3, <1>6, <2>2, <2>3 DEF OnceInv
<1>11. AssemblyInv' /\ MatchesReference'
  BY <1>2, NothingFed DEF FragInv
<1>12. PanicsOnlyOnWrap'
  <2>1. CASE panicked' = {}
    BY <2>1 DEF PanicsOnlyOnWrap
  <2>2. CASE panicked' # {}
    <3>1. panicked' = {<<len, max>>} /\ FragPanics(len, max)
      BY <2>2 DEF Send
    <3>2. Slices(len, max) \in Nat /\ Slices(len, max) >= CountSpace
      <4>1. len \in Nat /\ max \in Nat \ {0} /\ len > max /\ Slices(len, max) > FragCount(len, max)
        BY <1>1, <3>1 DEF FragPanics
      <4>2. Slices(len, max) \in Nat
        BY <4>1, CountCovers
      <4> QED
        BY <4>1, <4>2, CountFits, SizesAssumption
    <3> QED
      BY <3>1, <3>2 DEF PanicsOnlyOnWrap
  <2> QED
    BY <2>1, <2>2
<1> QED
  BY <1>7, <1>9, <1>10, <1>11, <1>12 DEF FragInv

\* A datagram more in the history.
LEMMA OneMore ==
  ASSUME WireInv, NEW f \in Wire, fed' = Append(fed, f), NEW m, m = Len(fed) + 1
  PROVE  /\ Len(fed) \in Nat /\ m \in Nat \ {0} /\ Len(fed') = m /\ fed' \in Seq(Wire)
         /\ DOMAIN fed = 1..Len(fed) /\ DOMAIN fed' = 1..m /\ 1..m = (1..Len(fed)) \cup {m} /\ m \notin 1..Len(fed)
         /\ fed'[m] = f /\ \A j \in 1..Len(fed) : fed'[j] = fed[j] /\ fed[j] \in Wire
         /\ Fragments(m)' = Fragments(Len(fed)) \cup (IF Valid(f) THEN {m} ELSE {})
         /\ Fragments(Len(fed)) \subseteq 1..Len(fed)
<1>1. /\ Len(fed) \in Nat /\ m \in Nat \ {0} /\ Len(fed') = m /\ fed' \in Seq(Wire)
      /\ DOMAIN fed = 1..Len(fed) /\ DOMAIN fed' = 1..m
  BY LenProperties, AppendProperties DEF WireInv
<1>2. 1..m = (1..Len(fed)) \cup {m} /\ m \notin 1..Len(fed)
  BY <1>1
<1>3. fed'[m] = f /\ \A j \in 1..Len(fed) : fed'[j] = fed[j]
  BY <1>1, AppendProperties DEF WireInv
<1>4. \A j \in 1..Len(fed) : fed[j] \in Wire
  BY <1>1, ElementOfSeq DEF WireInv
<1>5. Fragments(m)' = Fragments(Len(fed)) \cup (IF Valid(f) THEN {m} ELSE {})
  BY <1>2, <1>3 DEF Fragments
<1> QED
  BY <1>1, <1>2, <1>3, <1>4, <1>5 DEF Fragments

\* The window of a fragment: the one of the fragment before it and itself if the two are of one
\* message, itself otherwise.
LEMMA NextWindow ==
  ASSUME WireInv, NEW f \in Wire, fed' = Append(fed, f), Valid(f), NEW m, m = Len(fed) + 1
  PROVE  /\ Fragments(Len(fed)) = {} => Window(m)' = {m}
         /\ \A l \in Fragments(Len(fed)) :
               (\A j \in Fragments(Len(fed)) : j <= l) =>
                  Window(m)' = IF fed[l].pktID = f.pktID /\ fed[l].fragCount = f.fragCount THEN Window(l) \cup {m} ELSE {m}
<1> DEFINE F == Fragments(Len(fed))
<1>1. /\ Len(fed) \in Nat /\ m \in Nat /\ m \notin 1..Len(fed) /\ m = Len(fed) + 1
      /\ Fragments(m)' = F \cup {m} /\ F \subseteq 1..Len(fed)
      /\ fed'[m] = f /\ \A j \in F : fed'[j] = fed[j]
  BY OneMore
<1>2. Key(m)' = <<f.pktID, f.fragCount>> /\ \A j \in F : Key(j)' = Key(j)
  BY <1>1 DEF Key
<1>3. \A j \in F : m >= j /\ ~(j >= m)
  BY <1>1
<1>4. Window(m)' = {j \in F \cup {m} : \A x \in F \cup {m} : x >= j => Key(x)' = Key(m)'}
  BY <1>1 DEF Window
<1>5. m \in Window(m)'
  BY <1>1, <1>3, <1>4
<1>6. ASSUME NEW j \in F PROVE j \in Window(m)' <=> \A x \in F : x >= j => Key(x) = <<f.pktID, f.fragCount>>
  <2>1. j \in Window(m)' <=> \A x \in F \cup {m} : x >= j => Key(x)' = Key(m)'
    BY <1>4
  <2> QED
    BY <1>2, <2>1
<1>7. Window(m)' \subseteq F \cup {m}
  BY <1>4
<1> HIDE DEF F
<1>8. ASSUME NEW l \in F, \A j \in F : j <= l
      PROVE  Window(m)' = IF fed[l].pktID = f.pktID /\ fed[l].fragCount = f.fragCount THEN Window(l) \cup {m} ELSE {m}
  <2>1. Fragments(l) = F /\ l \in Nat
    BY <1>1, <1>8 DEF Fragments, F
  <2>2. CASE fed[l].pktID = f.pktID /\ fed[l].fragCount = f.fragCount
    <3>1. Key(l) = <<f.pktID, f.fragCount>>
      BY <2>2 DEF Key
    <3>2. Window(l) = {j \in F : \A x \in F : x >= j => Key(x) = <<f.pktID, f.fragCount>>}
      BY <2>1, <3>1 DEF Window
    <3>3. \A j \in F : j \in Window(m)' <=> j \in Window(l)
      BY <1>6, <3>2
    <3> QED
      BY <1>5, <1>7, <2>2, <3>2, <3>3
  <2>3. CASE ~(fed[l].pktID = f.pktID /\ fed[l].fragCount = f.fragCount)
    <3>1. Key(l) # <<f.pktID, f.fragCount>>
      BY <2>3 DEF Key
    <3>2. \A j \in F : l >= j
      BY <1>1, <1>8 DEF F
    <3>3. \A j \in F : j \notin Window(m)'
      BY <1>6, <3>1, <3>2
    <3> QED
      BY <1>5, <1>7, <2>3, <3>3
  <2> QED
    BY <2>2, <2>3
<1> QED
  BY <1>5, <1>7, <1>8 DEF F

\* The slots of the message under assembly.
LEMMA HeldSlots ==
  ASSUME WireInv, NEW l \in Fragments(Len(fed)), Holds(l)
  PROVE  LET n == fed[l].fragCount
         IN /\ n \in Nat /\ n > 1 /\ Len(frags) = n /\ frags \in [1..n -> Seq(Bytes)]
            /\ l \in 1..Len(fed) /\ Window(l) \subseteq 1..l
            /\ \A i \in 1..n : frags[i] = Nothing <=> i - 1 \notin IDsIn(Window(l))
<1> DEFINE n == fed[l].fragCount
           W == Window(l)
<1>1. DOMAIN fed = 1..Len(fed) /\ Len(fed) \in Nat /\ l \in 1..Len(fed) /\ Valid(fed[l])
  BY LenProperties DEF WireInv, Fragments
<1>2. \A j \in 1..Len(fed) : fed[j] \in Wire
  BY <1>1, ElementOfSeq DEF WireInv
<1>3. n \in Nat /\ n > 1
  BY <1>1, <1>2 DEF Valid, Wire
<1>4. W \subseteq 1..l /\ W \in SUBSET Nat /\ W \subseteq 1..Len(fed)
  <2>1. W \subseteq 1..l /\ W \in SUBSET Nat
    BY <1>1, WindowFacts
  <2>2. 1..l \subseteq 1..Len(fed)
    BY <1>1
  <2> QED
    BY <2>1, <2>2
<1>5. frags = [i \in 1..n |-> SlotOf(W, i)]
  BY DEF Holds
<1> HIDE DEF W, n
<1>6. ASSUME NEW i \in 1..n
      PROVE  /\ SlotOf(W, i) \in Seq(Bytes)
             /\ SlotOf(W, i) = Nothing <=> i - 1 \notin IDsIn(W)
  <2>1. CASE i - 1 \in IDsIn(W)
    <3>1. First(W, i - 1) \in W
      BY <1>4, <2>1, FirstOf DEF FirstFact
    <3>2. First(W, i - 1) \in 1..Len(fed)
      BY <1>1, <1>4, <3>1
    <3>3. fed[First(W, i - 1)] \in Wire
      BY <1>2, <3>2
    <3>4. fed[First(W, i - 1)].data \in Seq(Bytes) \ {<<>>}
      BY <3>3 DEF Wire
    <3> QED
      BY <2>1, <3>4 DEF SlotOf, Nothing
  <2>2. CASE i - 1 \notin IDsIn(W)
    BY <2>2, EmptySeq DEF SlotOf, Nothing
  <2> QED
    BY <2>1, <2>2
<1>7. frags \in [1..n -> Seq(Bytes)] /\ \A i \in 1..n : frags[i] = Nothing <=> i - 1 \notin IDsIn(W)
  BY <1>5, <1>6
<1>8. Len(frags) = n
  BY <1>3, <1>5
<1> QED
  BY <1>1, <1>3, <1>4, <1>7, <1>8 DEF n, W

\* Nothing is assembled from no fragment: all slots but one are empty.
LEMMA OneSlot ==
  ASSUME NEW f \in Wire, Valid(f)
  PROVE  /\ Slots(f) \in [1..f.fragCount -> Seq(Bytes)] /\ f.fragID + 1 \in 1..f.fragCount
         /\ Cardinality({i \in DOMAIN Slots(f) : Slots(f)[i] # Nothing}) = 1
         /\ Len(Assemble(Slots(f))) = Len(f.data)
<1> DEFINE n == f.fragCount
           j == f.fragID + 1
           d == f.data
           s == [i \in 1..n |-> Nothing]
<1>1. n \in Nat \ {0} /\ n > 1 /\ j \in 1..n /\ d \in Seq(Bytes) /\ d # Nothing
  BY DEF Wire, Valid, Nothing
<1>2. Slots(f) = [i \in 1..n |-> IF i = j THEN d ELSE Nothing]
  BY DEF Slots
<1> HIDE DEF n, j, d
<1>3. Nothing \in Seq(Bytes) /\ Nothing = <<>> /\ Len(Nothing) = 0
  BY EmptySeq DEF Nothing
<1>4. s \in [1..n -> Seq(Bytes)] /\ s \in [1..n -> {<<>>}] /\ s[j] = <<>> /\ Slots(f) = Put(s, j, d)
  BY <1>1, <1>2, <1>3 DEF Put
<1>5. Slots(f) \in [1..n -> Seq(Bytes)]
  BY <1>1, <1>2, <1>3
<1>6. {i \in DOMAIN Slots(f) : Slots(f)[i] # Nothing} = {j}
  BY <1>1, <1>2
<1>7. Cardinality({i \in DOMAIN Slots(f) : Slots(f)[i] # Nothing}) = 1
  BY <1>6, FS_Singleton
<1> HIDE DEF s
<1>8. Longer(FlattenSeq(s), FlattenSeq(Slots(f)), d, Bytes)
  BY <1>1, <1>4, FlattenFills, Zenon
<1>9. FlattenSeq(s) = Nothing
  BY <1>1, <1>3, <1>4, FlattenNothing
<1>10. Len(Assemble(Slots(f))) = Len(d)
  <2>1. Len(d) \in Nat
    BY <1>1, LenProperties
  <2> QED
    BY <1>3, <1>8, <1>9, <2>1 DEF Assemble, Longer
<1> QED
  BY <1>1, <1>5, <1>7, <1>10 DEF n, j, d

\* What has to be shown of a fragment f fed as datagram m.
FeedsRight(f, m) ==
    /\ Holds(m)' /\ pktID' \in PacketIDs \cup {0}
    /\ count' = Cardinality({i \in DOMAIN frags' : frags'[i] # Nothing})
    /\ size' = Len(Assemble(frags'))
    /\ FeedReturns(f) = Expected(m)' /\ FeedReturns(f) \in Seq(Bytes)

\* The first fragment of another message.
LEMMA FeedNew ==
  ASSUME WireInv, AssemblyInv, NEW f \in Wire, FeedFragment(f), fed' = Append(fed, f), Valid(f), NewMessage(f),
         NEW m, m = Len(fed) + 1
  PROVE  FeedsRight(f, m)
<1>1. pktID' = f.pktID /\ frags' = Slots(f) /\ count' = 1 /\ size' = Len(f.data)
  BY DEF FeedFragment
<1>2. f.fragCount \in Nat /\ f.fragCount > 1 /\ f.fragID \in Nat /\ f.pktID \in PacketIDs \cup {0}
  BY DEF Wire, Valid
<1>3. Window(m)' = {m}
  <2>1. CASE Fragments(Len(fed)) = {}
    BY <2>1, NextWindow
  <2>2. CASE Fragments(Len(fed)) # {}
    <3>1. PICK l \in Fragments(Len(fed)) : Holds(l)
      BY <2>2 DEF AssemblyInv
    <3>2. pktID = fed[l].pktID /\ Len(frags) = fed[l].fragCount /\ \A j \in Fragments(Len(fed)) : j <= l
      BY <3>1, HeldSlots DEF Holds
    <3>3. ~(fed[l].pktID = f.pktID /\ fed[l].fragCount = f.fragCount)
      BY <3>2 DEF NewMessage
    <3> QED
      BY <3>1, <3>2, <3>3, NextWindow
  <2> QED
    BY <2>1, <2>2
<1>4. m \in Nat /\ Len(fed') = m /\ fed'[m] = f /\ Fragments(m)' \subseteq 1..m
  <2>1. m \in Nat /\ Len(fed') = m /\ fed'[m] = f
    BY OneMore
  <2> QED
    BY <2>1 DEF Fragments
<1>5. IDsIn({m})' = {f.fragID} /\ First({m}, f.fragID)' = m
  <2>1. IDsIn({m})' = {f.fragID}
    BY <1>4 DEF IDsIn
  <2>2. {m} \in SUBSET Nat
    BY <1>4
  <2>3. m \in {m} /\ \A l \in {m} : fed'[l].fragID = fed'[m].fragID => m <= l
    BY <1>4
  <2> QED
    BY <1>4, <2>1, <2>2, <2>3, FirstOfNext DEF FirstFact
<1>6. ASSUME NEW i \in 1..f.fragCount PROVE SlotOf({m}, i)' = Slots(f)[i]
  <2>1. i - 1 = f.fragID <=> i = f.fragID + 1
    BY <1>2
  <2>2. SlotOf({m}, i)' = IF i - 1 \in IDsIn({m})' THEN fed'[First({m}, i - 1)'].data ELSE Nothing
    BY DEF SlotOf
  <2> QED
    BY <1>4, <1>5, <2>1, <2>2 DEF Slots
<1>7. Holds(m)'
  <2>1. Slots(f) = [i \in 1..f.fragCount |-> SlotOf({m}, i)']
    BY <1>6 DEF Slots
  <2>2. \A j \in Fragments(m)' : j <= m
    BY <1>4
  <2> QED
    BY <1>1, <1>3, <1>4, <2>1, <2>2 DEF Holds
<1>8. FeedReturns(f) = Nothing
  BY <1>2 DEF FeedReturns, Fills
<1>9. Expected(m)' = Nothing
  <2>1. {f.fragID} # 0..(f.fragCount - 1)
    <3>1. 0 \in 0..(f.fragCount - 1) /\ 1 \in 0..(f.fragCount - 1) /\ 0 # 1
      BY <1>2
    <3> QED
      BY <3>1
  <2>2. ~(fed'[m].fragCount <= 1)
    BY <1>2, <1>4
  <2>3. IDsIn(Window(m))' # 0..(fed'[m].fragCount - 1)
    BY <1>3, <1>4, <1>5, <2>1
  <2> QED
    BY <2>2, <2>3, Zenon DEF Expected
<1>10. Nothing \in Seq(Bytes)
  BY EmptySeq DEF Nothing
<1> QED
  BY <1>1, <1>2, <1>7, <1>8, <1>9, <1>10, OneSlot DEF FeedsRight

\* Fragment f of the message under assembly, fed as datagram m: W is the window so far.
Continues(f, m, W) ==
    LET n == f.fragCount
    IN /\ n \in Nat /\ n > 1 /\ f.fragID + 1 \in 1..n
       /\ Len(frags) = n /\ frags \in [1..n -> Seq(Bytes)]
       /\ IDsIn(W) \subseteq 0..(n - 1) /\ \A i \in 1..n : frags[i] = Nothing <=> i - 1 \notin IDsIn(W)
       /\ m \notin W /\ Window(m)' = W \cup {m}
       /\ IDsIn(W)' = IDsIn(W) /\ IDsIn(W \cup {m})' = IDsIn(W) \cup {f.fragID}
       /\ \A i \in 1..n : i - 1 \in IDsIn(W) \cup {f.fragID} =>
             fed'[First(W \cup {m}, i - 1)'].data = IF frags[i] = Nothing THEN f.data ELSE frags[i]

LEMMA SameMessage ==
  ASSUME WireInv, AssemblyInv, NEW f \in Wire, fed' = Append(fed, f), Valid(f), ~NewMessage(f),
         NEW m, m = Len(fed) + 1
  PROVE  pktID = f.pktID /\ \E W : Continues(f, m, W)
<1>1. f.fragCount \in Nat /\ f.fragCount > 1 /\ f.fragID \in Nat /\ f.fragID + 1 \in 1..f.fragCount
  BY DEF Wire, Valid
<1>2. pktID = f.pktID /\ Len(frags) = f.fragCount
  BY DEF NewMessage
<1>3. Fragments(Len(fed)) # {}
  <2>1. SUFFICES ASSUME frags = <<>> PROVE FALSE
    BY DEF AssemblyInv
  <2> QED
    BY <1>1, <1>2, <2>1
<1>4. PICK l \in Fragments(Len(fed)) : Holds(l)
  BY <1>3 DEF AssemblyInv
<1>5. PICK W : W = Window(l)
  OBVIOUS
<1> DEFINE n == f.fragCount
<1>6. /\ fed[l].fragCount = n /\ frags \in [1..n -> Seq(Bytes)] /\ l \in 1..Len(fed) /\ W \subseteq 1..l
      /\ \A i \in 1..n : frags[i] = Nothing <=> i - 1 \notin IDsIn(W)
  BY <1>2, <1>4, <1>5, HeldSlots
<1>7. /\ Len(fed) \in Nat /\ m \in Nat /\ m \notin 1..Len(fed) /\ fed'[m] = f
      /\ \A j \in 1..Len(fed) : fed'[j] = fed[j] /\ fed[j] \in Wire
  BY OneMore
<1>8. W \in SUBSET (1..Len(fed)) /\ m \notin W /\ W \cup {m} \in SUBSET Nat /\ W \in SUBSET Nat
  <2>1. 1..l \subseteq 1..Len(fed) /\ 1..Len(fed) \subseteq Nat
    BY <1>6, <1>7
  <2> QED
    BY <1>6, <1>7, <2>1, Zenon
<1>9. Window(m)' = W \cup {m}
  <2>1. fed[l].pktID = f.pktID /\ fed[l].fragCount = f.fragCount /\ \A j \in Fragments(Len(fed)) : j <= l
    BY <1>2, <1>4, <1>6 DEF Holds
  <2> QED
    BY <1>4, <1>5, <2>1, NextWindow
<1>10. IDsIn(W)' = IDsIn(W)
  BY <1>7, <1>8 DEF IDsIn
<1>11. IDsIn(W \cup {m})' = IDsIn(W) \cup {f.fragID}
  BY <1>7, <1>8 DEF IDsIn
<1>12. IDsIn(W) \subseteq 0..(n - 1)
  <2>1. ASSUME NEW j \in W PROVE fed[j].fragID \in 0..(n - 1)
    <3>1. l \in Nat /\ l \in Fragments(l)
      BY <1>4, <1>6, <1>7 DEF Fragments
    <3>2. Valid(fed[j]) /\ Key(j) = Key(l)
      BY <1>5, <3>1, WindowFacts
    <3>3. fed[j].fragCount = n /\ fed[j].fragID < fed[j].fragCount
      BY <1>6, <3>2 DEF Key, Valid
    <3>4. fed[j].fragID \in Nat
      BY <1>7, <1>8 DEF Wire
    <3> QED
      BY <1>1, <3>3, <3>4
  <2> QED
    BY <2>1 DEF IDsIn
<1>13. ASSUME NEW i \in 1..n, i - 1 \in IDsIn(W) \cup {f.fragID}
       PROVE  fed'[First(W \cup {m}, i - 1)'].data = IF frags[i] = Nothing THEN f.data ELSE frags[i]
  <2>1. PICK id : id = i - 1
    OBVIOUS
  <2>2. m \in Nat /\ W \in SUBSET (1..(m - 1)) /\ \A x \in W : fed'[x] = fed[x]
    BY <1>7, <1>8
  <2>3. CASE id \in IDsIn(W)
    <3>1. First(W \cup {m}, id)' = First(W, id) /\ First(W, id) \in W
      BY <2>2, <2>3, FirstInLonger
    <3>2. frags[i] = fed[First(W, id)].data
      BY <1>4, <1>5, <1>6, <2>1, <2>3 DEF Holds, SlotOf
    <3>3. frags[i] # Nothing
      BY <1>6, <2>1, <2>3
    <3> QED
      BY <2>1, <2>2, <3>1, <3>2, <3>3
  <2>4. CASE id \notin IDsIn(W)
    <3>1. id = f.fragID /\ frags[i] = Nothing
      BY <1>6, <1>13, <2>1, <2>4
    <3>2. First(W \cup {m}, id)' = m
      BY <1>7, <2>2, <2>4, <3>1, FirstInLonger
    <3> QED
      BY <1>7, <2>1, <3>1, <3>2
  <2> QED
    BY <2>3, <2>4
<1>14. Continues(f, m, W)
  BY <1>1, <1>2, <1>6, <1>8, <1>9, <1>10, <1>11, <1>12, <1>13 DEF Continues
<1> QED
  BY <1>2, <1>14

\* A fragment that was missing.
LEMMA FeedMissing ==
  ASSUME WireInv, AssemblyInv, NEW f \in Wire, FeedFragment(f), fed' = Append(fed, f), Valid(f), Fills(f),
         NEW m, m = Len(fed) + 1
  PROVE  FeedsRight(f, m)
<1>1. ~NewMessage(f) /\ frags[f.fragID + 1] = Nothing
  BY DEF Fills
<1>2. frags' = Filled(f) /\ count' = count + 1 /\ size' = size + Len(f.data) /\ UNCHANGED pktID
  BY <1>1 DEF FeedFragment
<1>3. pktID = f.pktID
  BY <1>1, SameMessage
<1>4. PICK W : Continues(f, m, W)
  BY <1>1, SameMessage
<1> DEFINE n == f.fragCount
           j == f.fragID + 1
           d == f.data
<1>5. /\ n \in Nat \ {0} /\ n > 1 /\ j \in 1..n /\ f.fragID \in Nat /\ f.fragID = j - 1 /\ d \in Seq(Bytes) /\ d # Nothing
      /\ Len(frags) = n /\ frags \in [1..n -> Seq(Bytes)]
      /\ IDsIn(W) \subseteq 0..(n - 1) /\ f.fragID \notin IDsIn(W)
  <2>1. n \in Nat \ {0} /\ n > 1 /\ f.fragID \in Nat /\ d \in Seq(Bytes) /\ d # Nothing
    BY DEF Wire, Valid, Nothing
  <2>2. f.fragID = j - 1
    BY <2>1
  <2>3. j \in 1..n /\ Len(frags) = n /\ frags \in [1..n -> Seq(Bytes)]
        /\ IDsIn(W) \subseteq 0..(n - 1) /\ j - 1 \notin IDsIn(W)
    BY <1>1, <1>4 DEF Continues
  <2> QED
    BY <2>1, <2>2, <2>3
<1>6. fed'[m] = f /\ Len(fed') = m /\ m \in Nat /\ Fragments(m)' \subseteq 1..m
  <2>1. fed'[m] = f /\ Len(fed') = m /\ m \in Nat
    BY OneMore
  <2> QED
    BY <2>1 DEF Fragments
<1>7. /\ Filled(f) \in [1..n -> Seq(Bytes)] /\ Filled(f) = Put(frags, j, d)
      /\ \A i \in 1..n : Filled(f)[i] = IF i = j THEN d ELSE frags[i]
  BY <1>5 DEF Filled, Put
<1>8. Holds(m)'
  <2>1. ASSUME NEW i \in 1..n PROVE SlotOf(W \cup {m}, i)' = Filled(f)[i]
    <3>1. SlotOf(W \cup {m}, i)' = IF i - 1 \in IDsIn(W \cup {m})' THEN fed'[First(W \cup {m}, i - 1)'].data ELSE Nothing
      BY DEF SlotOf
    <3>2. CASE i - 1 \in IDsIn(W) \cup {f.fragID}
      <4>1. SlotOf(W \cup {m}, i)' = IF frags[i] = Nothing THEN d ELSE frags[i]
        BY <1>4, <3>1, <3>2 DEF Continues
      <4>2. frags[i] = Nothing <=> i = j
        <5>1. frags[i] = Nothing <=> i - 1 \notin IDsIn(W)
          BY <1>4 DEF Continues
        <5>2. i - 1 = j - 1 <=> i = j
          BY <1>5
        <5> QED
          BY <1>5, <3>2, <5>1, <5>2
      <4> QED
        BY <1>7, <4>1, <4>2
    <3>3. CASE i - 1 \notin IDsIn(W) \cup {f.fragID}
      <4>1. frags[i] = Nothing /\ i # j
        BY <1>4, <1>5, <3>3 DEF Continues
      <4>2. SlotOf(W \cup {m}, i)' = Nothing
        BY <1>4, <3>1, <3>3 DEF Continues
      <4> QED
        BY <1>7, <4>1, <4>2
    <3> QED
      BY <3>2, <3>3
  <2>2. Filled(f) = [i \in 1..n |-> SlotOf(W \cup {m}, i)']
    BY <1>7, <2>1
  <2>3. \A x \in Fragments(m)' : x <= m
    BY <1>6
  <2>4. Window(m)' = W \cup {m}
    BY <1>4 DEF Continues
  <2> QED
    BY <1>2, <1>3, <1>6, <2>2, <2>3, <2>4 DEF Holds
<1> DEFINE C == {i \in 1..n : frags[i] # Nothing}
<1>9. IsFiniteSet(C) /\ Cardinality(C) \in Nat /\ count = Cardinality(C) /\ j \notin C /\ C \subseteq 1..n
  <2>1. IsFiniteSet(1..n) /\ C \subseteq 1..n
    <3>1. 1 \in Int /\ n \in Int
      BY <1>5
    <3>2. IsFiniteSet(1..n)
      BY <3>1, FS_Interval
    <3> QED
      BY <3>2
  <2>2. IsFiniteSet(C)
    BY <2>1, FS_Subset
  <2>3. DOMAIN frags = 1..n
    BY <1>5
  <2>4. count = Cardinality(C)
    BY <2>3 DEF AssemblyInv
  <2> QED
    BY <1>1, <2>1, <2>2, <2>4, FS_CardinalityType
<1>10. count' = Cardinality({i \in DOMAIN frags' : frags'[i] # Nothing})
  <2>1. {i \in DOMAIN frags' : frags'[i] # Nothing} = C \cup {j}
    BY <1>2, <1>5, <1>7
  <2>2. Cardinality(C \cup {j}) = Cardinality(C) + 1
    BY <1>9, FS_AddElement
  <2> QED
    BY <1>2, <1>9, <2>1, <2>2
<1>11. size' = Len(Assemble(frags')) /\ Assemble(frags') \in Seq(Bytes)
  <2>1. frags[j] = <<>> /\ size = Len(Assemble(frags))
    BY <1>1 DEF AssemblyInv, Nothing
  <2>2. Assemble(Put(frags, j, d)) \in Seq(Bytes) /\ Len(Assemble(Put(frags, j, d))) = Len(Assemble(frags)) + Len(d)
    <3> HIDE DEF n, j, d
    <3> QED
      <4>1. Longer(FlattenSeq(frags), FlattenSeq(Put(frags, j, d)), d, Bytes)
        BY <1>5, <2>1, FlattenFills, Zenon
      <4> QED
        BY <4>1 DEF Assemble, Longer
  <2> QED
    BY <1>2, <1>7, <2>1, <2>2
<1>12. count + 1 = n <=> IDsIn(W) \cup {f.fragID} = 0..(n - 1)
  <2>1. Cardinality(C \cup {j}) = count + 1 /\ IsFiniteSet(1..n) /\ Cardinality(1..n) = n /\ C \cup {j} \subseteq 1..n
    <3> HIDE DEF n, j, C
    <3>1. Cardinality(C \cup {j}) = count + 1 /\ C \cup {j} \subseteq 1..n
      BY <1>5, <1>9, FS_AddElement
    <3>2. IsFiniteSet(1..n) /\ Cardinality(1..n) = n
      BY <1>5, FS_Interval
    <3> QED
      BY <3>1, <3>2
  <2>2. count + 1 = n <=> C \cup {j} = 1..n
    BY <2>1, FS_Subset
  <2>3. \A i \in 1..n : i \in C \cup {j} <=> i - 1 \in IDsIn(W) \cup {f.fragID}
    <3>1. \A i \in 1..n : i = j <=> i - 1 = f.fragID
      BY <1>5
    <3> QED
      BY <1>4, <3>1 DEF Continues
  <2>4. IDsIn(W) \cup {f.fragID} \subseteq 0..(n - 1)
    BY <1>5
  <2>5. C \cup {j} = 1..n <=> \A i \in 1..n : i - 1 \in IDsIn(W) \cup {f.fragID}
    BY <2>1, <2>3
  <2>6. (\A i \in 1..n : i - 1 \in IDsIn(W) \cup {f.fragID}) <=> 0..(n - 1) \subseteq IDsIn(W) \cup {f.fragID}
    <3>1. \A x \in 0..(n - 1) : x + 1 \in 1..n /\ (x + 1) - 1 = x
      BY <1>5
    <3>2. \A i \in 1..n : i - 1 \in 0..(n - 1)
      BY <1>5
    <3> QED
      BY <3>1, <3>2
  <2> QED
    BY <2>2, <2>4, <2>5, <2>6
<1>13. FeedReturns(f) = Expected(m)' /\ FeedReturns(f) \in Seq(Bytes)
  <2>1. ~(f.fragCount <= 1)
    BY <1>5
  <2>2. FeedReturns(f) = IF count + 1 = n THEN Copied(Filled(f), size + Len(d)) ELSE Nothing
    BY <1>5, <2>1 DEF FeedReturns
  <2>3. PICK V : V = W \cup {m}
    OBVIOUS
  <2>4. /\ Window(m)' = V /\ V \ {m} = W
        /\ IDsIn(V)' = IDsIn(W) \cup {f.fragID} /\ IDsIn(V \ {m})' = IDsIn(W)
    <3>1. V \ {m} = W /\ Window(m)' = V
      BY <1>4, <2>3 DEF Continues
    <3> QED
      BY <1>4, <2>3, <3>1 DEF Continues
  <2>5. IDsIn(W) # 0..(n - 1)
    BY <1>5
  <2>6. Expected(m)' = IF IDsIn(V)' = 0..(n - 1) /\ IDsIn(V \ {m})' # 0..(n - 1)
                         THEN Assemble([x \in 1..n |-> fed'[First(V, x - 1)'].data]) ELSE Nothing
    BY <1>6, <2>1, <2>4 DEF Expected
  <2>7. CASE count + 1 = n
    <3>1. \A x \in 1..n : fed'[First(V, x - 1)'].data = Filled(f)[x]
      <4>1. \A x \in 1..n : x - 1 \in IDsIn(W) \cup {f.fragID}
        BY <1>5, <1>12, <2>7
      <4>2. \A x \in 1..n : frags[x] = Nothing <=> x = j
        <5>1. \A x \in 1..n : x - 1 = f.fragID <=> x = j
          BY <1>5
        <5>2. \A x \in 1..n : frags[x] = Nothing <=> x - 1 \notin IDsIn(W)
          BY <1>4 DEF Continues
        <5> QED
          BY <1>1, <1>5, <4>1, <5>1, <5>2
      <4>3. \A x \in 1..n : fed'[First(V, x - 1)'].data = IF frags[x] = Nothing THEN d ELSE frags[x]
        BY <1>4, <2>3, <4>1 DEF Continues
      <4> QED
        BY <1>7, <4>2, <4>3
    <3>2. [x \in 1..n |-> fed'[First(V, x - 1)'].data] = Filled(f)
      BY <1>7, <3>1
    <3>3. Expected(m)' = Assemble(Filled(f))
      BY <1>12, <2>4, <2>5, <2>6, <2>7, <3>2
    <3> DEFINE a == Assemble(Filled(f))
    <3>4. a \in Seq(Bytes) /\ Len(a) = size + Len(d)
      BY <1>2, <1>11
    <3>5. Copied(Filled(f), size + Len(d)) = [i \in 1..Len(a) |-> IF i <= Len(a) THEN a[i] ELSE <<0, 0>>]
      BY <3>4 DEF Copied
    <3> HIDE DEF a
    <3>6. [i \in 1..Len(a) |-> IF i <= Len(a) THEN a[i] ELSE <<0, 0>>] = a
      <4>1. a = [i \in 1..Len(a) |-> a[i]] /\ Len(a) \in Nat
        BY <3>4, LenProperties
      <4>2. \A i \in 1..Len(a) : i <= Len(a)
        BY <4>1
      <4> QED
        BY <4>1, <4>2
    <3> QED
      BY <2>2, <2>7, <3>3, <3>4, <3>5, <3>6 DEF a
  <2>8. CASE count + 1 # n
    <3>1. FeedReturns(f) = Nothing /\ Expected(m)' = Nothing
      BY <1>12, <2>2, <2>4, <2>6, <2>8
    <3> QED
      BY <3>1, EmptySeq DEF Nothing
  <2> QED
    BY <2>7, <2>8
<1>14. pktID' \in PacketIDs \cup {0}
  BY <1>2 DEF AssemblyInv
<1> QED
  BY <1>8, <1>10, <1>11, <1>13, <1>14 DEF FeedsRight

\* A fragment that had already come, by another datagram.
LEMMA FeedAgain ==
  ASSUME WireInv, AssemblyInv, NEW f \in Wire, FeedFragment(f), fed' = Append(fed, f), Valid(f), ~NewMessage(f), ~Fills(f),
         NEW m, m = Len(fed) + 1
  PROVE  FeedsRight(f, m)
<1>1. UNCHANGED defragger /\ frags[f.fragID + 1] # Nothing
  BY DEF FeedFragment, Fills
<1>2. UNCHANGED <<pktID, frags, count, size>>
  BY <1>1 DEF defragger
<1>3. pktID = f.pktID
  BY SameMessage
<1>4. PICK W : Continues(f, m, W)
  BY SameMessage
<1> DEFINE n == f.fragCount
<1>5. n \in Nat /\ n > 1 /\ f.fragID \in IDsIn(W) /\ frags \in [1..n -> Seq(Bytes)]
  <2>1. f.fragID \in Nat /\ f.fragID = (f.fragID + 1) - 1
    BY DEF Wire
  <2>2. f.fragID + 1 \in 1..n /\ (f.fragID + 1) - 1 \in IDsIn(W)
    BY <1>1, <1>4 DEF Continues
  <2> QED
    BY <1>4, <2>1, <2>2 DEF Continues
<1>6. fed'[m] = f /\ Len(fed') = m /\ m \in Nat /\ Fragments(m)' \subseteq 1..m
  <2>1. fed'[m] = f /\ Len(fed') = m /\ m \in Nat
    BY OneMore
  <2> QED
    BY <2>1 DEF Fragments
<1>7. Holds(m)'
  <2>1. ASSUME NEW i \in 1..n PROVE SlotOf(W \cup {m}, i)' = frags[i]
    <3>1. SlotOf(W \cup {m}, i)' = IF i - 1 \in IDsIn(W \cup {m})' THEN fed'[First(W \cup {m}, i - 1)'].data ELSE Nothing
      BY DEF SlotOf
    <3>2. frags[i] = Nothing <=> i - 1 \notin IDsIn(W)
      BY <1>4 DEF Continues
    <3>3. IDsIn(W \cup {m})' = IDsIn(W)
      BY <1>4, <1>5 DEF Continues
    <3> QED
      BY <1>4, <3>1, <3>2, <3>3 DEF Continues
  <2>2. frags = [i \in 1..n |-> SlotOf(W \cup {m}, i)']
    BY <1>5, <2>1
  <2>3. \A x \in Fragments(m)' : x <= m
    BY <1>6
  <2>4. Window(m)' = W \cup {m}
    BY <1>4 DEF Continues
  <2> QED
    BY <1>2, <1>3, <1>6, <2>2, <2>3, <2>4 DEF Holds
<1>8. FeedReturns(f) = Nothing
  BY <1>5 DEF FeedReturns
<1>9. Expected(m)' = Nothing
  <2>1. ~(fed'[m].fragCount <= 1)
    BY <1>5, <1>6
  <2>2. PICK V : V = W \cup {m}
    OBVIOUS
  <2>3. Window(m)' = V /\ IDsIn(V)' = IDsIn(V \ {m})'
    <3>1. V \ {m} = W /\ Window(m)' = V
      BY <1>4, <2>2 DEF Continues
    <3>2. IDsIn(V)' = IDsIn(W) \cup {f.fragID} /\ IDsIn(V \ {m})' = IDsIn(W)
      BY <1>4, <2>2, <3>1 DEF Continues
    <3>3. IDsIn(W) \cup {f.fragID} = IDsIn(W)
      BY <1>5
    <3> QED
      BY <3>1, <3>2, <3>3
  <2> QED
    BY <2>1, <2>3, Zenon DEF Expected
<1>10. Nothing \in Seq(Bytes)
  BY EmptySeq DEF Nothing
<1> QED
  BY <1>2, <1>7, <1>8, <1>9, <1>10 DEF FeedsRight, AssemblyInv

\* A datagram that is no fragment, or no valid one, leaves the message under assembly alone.
LEMMA FeedOther ==
  ASSUME WireInv, AssemblyInv, NEW f \in Wire, FeedFragment(f), fed' = Append(fed, f), ~Valid(f),
         NEW m, m = Len(fed) + 1
  PROVE  /\ UNCHANGED defragger /\ Fragments(m)' = Fragments(Len(fed))
         /\ \A l \in Fragments(Len(fed)) : Holds(l) => Holds(l)'
         /\ FeedReturns(f) = Expected(m)' /\ FeedReturns(f) \in Seq(Bytes)
<1>1. UNCHANGED defragger
  BY DEF FeedFragment
<1>2. UNCHANGED <<pktID, frags, count, size>>
  BY <1>1 DEF defragger
<1>3. /\ Len(fed) \in Nat /\ m \in Nat /\ Len(fed') = m /\ fed'[m] = f
      /\ \A j \in 1..Len(fed) : fed'[j] = fed[j] /\ fed[j] \in Wire
      /\ Fragments(m)' = Fragments(Len(fed)) /\ Fragments(Len(fed)) \subseteq 1..Len(fed)
  BY OneMore
<1>4. \A j \in 1..Len(fed) : fed[j].fragCount \in Nat
  BY <1>3 DEF Wire
<1>5. ASSUME NEW l \in Fragments(Len(fed)), Holds(l) PROVE Holds(l)'
  <2>1. PICK W : W = Window(l)
    OBVIOUS
  <2>2. l \in 1..Len(fed) /\ W \subseteq 1..l
    BY <1>5, <2>1, HeldSlots
  <2>3. W \in SUBSET (1..Len(fed))
    BY <1>3, <2>2
  <2>4. Window(l)' = W /\ IDsIn(W)' = IDsIn(W) /\ \A id \in IDsIn(W) : First(W, id)' = First(W, id) /\ First(W, id) \in 1..Len(fed)
    BY <1>3, <1>4, <2>1, <2>2, <2>3, SameHistory
  <2>5. \A i : SlotOf(W, i)' = SlotOf(W, i)
    BY <1>3, <2>4 DEF SlotOf
  <2>6. frags = [i \in 1..fed[l].fragCount |-> SlotOf(W, i)] /\ pktID = fed[l].pktID /\ \A j \in Fragments(Len(fed)) : j <= l
    BY <1>5, <2>1 DEF Holds
  <2>7. frags' = [i \in 1..fed'[l].fragCount |-> SlotOf(W, i)'] /\ pktID' = fed'[l].pktID /\ \A j \in Fragments(m)' : j <= l
    BY <1>2, <1>3, <2>2, <2>5, <2>6
  <2> QED
    BY <1>3, <2>4, <2>7 DEF Holds
<1>6. FeedReturns(f) = IF f.fragCount <= 1 THEN f.data ELSE Nothing
  BY DEF FeedReturns
<1>7. Expected(m)' = IF f.fragCount <= 1 THEN f.data ELSE Nothing
  BY <1>3, Zenon DEF Expected
<1>8. f.data \in Seq(Bytes) /\ Nothing \in Seq(Bytes)
  BY EmptySeq DEF Wire, Nothing
<1> QED
  BY <1>1, <1>3, <1>5, <1>6, <1>7, <1>8

\* Whatever is fed, the Defragger and its history agree.
LEMMA FeedKeeps ==
  ASSUME WireInv, AssemblyInv, MatchesReference, NEW f \in Wire, FeedFragment(f),
         fed' = Append(fed, f), out' = Append(out, FeedReturns(f))
  PROVE  AssemblyInv' /\ MatchesReference'
<1>0. PICK m : m = Len(fed) + 1
  OBVIOUS
<1>1. /\ Len(fed) \in Nat /\ m \in Nat \ {0} /\ Len(fed') = m /\ DOMAIN fed = 1..Len(fed) /\ DOMAIN fed' = 1..m
      /\ 1..m = (1..Len(fed)) \cup {m} /\ \A j \in 1..Len(fed) : fed'[j] = fed[j] /\ fed[j] \in Wire
  BY <1>0, OneMore
<1>2. \A i \in 1..Len(fed) : Expected(i)' = Expected(i)
  <2>1. \A j \in 1..Len(fed) : fed[j].fragCount \in Nat
    BY <1>1 DEF Wire
  <2> QED
    BY <1>1, <2>1, SameHistory
<1>3. /\ FeedReturns(f) = Expected(m)' /\ FeedReturns(f) \in Seq(Bytes)
      /\ pktID' \in PacketIDs \cup {0}
      /\ Fragments(m)' = {} => pktID' = 0 /\ frags' = <<>>
      /\ Fragments(m)' # {} => \E l \in Fragments(m)' : Holds(l)'
      /\ count' = Cardinality({i \in DOMAIN frags' : frags'[i] # Nothing})
      /\ size' = Len(Assemble(frags'))
  <2>1. CASE Valid(f)
    <3>1. FeedsRight(f, m)
      <4>1. CASE NewMessage(f)
        BY <1>0, <2>1, <4>1, FeedNew
      <4>2. CASE ~NewMessage(f) /\ Fills(f)
        BY <1>0, <2>1, <4>2, FeedMissing
      <4>3. CASE ~NewMessage(f) /\ ~Fills(f)
        BY <1>0, <2>1, <4>3, FeedAgain
      <4> QED
        BY <4>1, <4>2, <4>3
    <3>2. m \in Fragments(m)'
      BY <1>0, <2>1, OneMore
    <3> QED
      BY <3>1, <3>2 DEF FeedsRight
  <2>2. CASE ~Valid(f)
    <3>1. /\ UNCHANGED defragger /\ Fragments(m)' = Fragments(Len(fed))
          /\ \A l \in Fragments(Len(fed)) : Holds(l) => Holds(l)'
          /\ FeedReturns(f) = Expected(m)' /\ FeedReturns(f) \in Seq(Bytes)
      BY <1>0, <2>2, FeedOther
    <3>2. UNCHANGED <<pktID, frags, count, size>>
      BY <3>1 DEF defragger
    <3> QED
      BY <3>1, <3>2 DEF AssemblyInv
  <2> QED
    BY <2>1, <2>2
<1>4. /\ out' \in Seq(Seq(Bytes)) /\ Len(out') = m /\ DOMAIN out' = 1..m
      /\ out'[m] = Expected(m)' /\ \A i \in 1..Len(fed) : out'[i] = out[i]
  <2>1. out \in Seq(Seq(Bytes)) /\ Len(out) = Len(fed)
    BY DEF AssemblyInv
  <2>2. /\ out' \in Seq(Seq(Bytes)) /\ Len(out') = Len(out) + 1
        /\ out'[Len(out) + 1] = FeedReturns(f) /\ \A i \in 1..Len(out) : out'[i] = out[i]
    BY <1>3, <2>1, AppendProperties
  <2>3. DOMAIN out' = 1..Len(out')
    BY <2>2, LenProperties
  <2> QED
    BY <1>0, <1>3, <2>1, <2>2, <2>3
<1>5. AssemblyInv'
  BY <1>1, <1>3, <1>4, Zenon DEF AssemblyInv
<1>6. MatchesReference'
  <2>1. \A i \in 1..Len(fed) : out'[i] = Expected(i)'
    BY <1>1, <1>2, <1>4 DEF MatchesReference
  <2>2. \A i \in 1..m : out'[i] = Expected(i)'
    BY <1>1, <1>4, <2>1
  <2> QED
    BY <1>1, <2>2 DEF MatchesReference
<1> QED
  BY <1>5, <1>6

\* A datagram of the network.
LEMMA ReceiveKeeps ==
  ASSUME FragInv, NEW f \in datagrams, Receive(f)
  PROVE  FragInv'
<1>1. WireInv /\ CutInv /\ OnceInv /\ f \in Wire
  BY DEF FragInv, WireInv
<1>2. datagrams' = datagrams \ {f} /\ fed' = Append(fed, f) /\ UNCHANGED sent
  BY DEF Receive
<1>3. PICK m : m = Len(fed) + 1
  OBVIOUS
<1>4. /\ DOMAIN fed' = DOMAIN fed \cup {m} /\ m \notin DOMAIN fed /\ fed' \in Seq(Wire)
      /\ fed'[m] = f /\ \A j \in DOMAIN fed : fed'[j] = fed[j]
  BY <1>1, <1>2, <1>3, OneMore
<1>5. WireInv'
  BY <1>1, <1>2, <1>4 DEF WireInv
<1>6. Arrivals' = Arrivals
  BY <1>2, <1>4 DEF Arrivals
<1>7. CutInv'
  BY <1>1, <1>2, <1>6 DEF CutInv, Whole
<1>8. OnceInv'
  BY <1>1, <1>2, <1>4 DEF OnceInv
<1>9. AssemblyInv' /\ MatchesReference'
  BY <1>1, FeedKeeps DEF FragInv, Receive
<1>10. PanicsOnlyOnWrap'
  BY DEF FragInv, Receive, PanicsOnlyOnWrap
<1> QED
  BY <1>5, <1>7, <1>8, <1>9, <1>10 DEF FragInv

\* The stray datagram.
LEMMA StrayKeeps ==
  ASSUME FragInv, NEW id \in PacketIDs, Stray(id)
  PROVE  FragInv'
<1> DEFINE f == [msg |-> 0, pktID |-> id, fragID |-> 2, fragCount |-> 2, data |-> <<<<0, 0>>>>]
<1>1. WireInv /\ CutInv /\ OnceInv
  BY DEF FragInv
<1>2. f \in Wire /\ f.msg = 0 /\ f.fragID = 2 /\ f.fragCount = 2
  <2>1. <<<<0, 0>>>> \in Seq(Bytes) /\ <<<<0, 0>>>> # <<>>
    BY DEF Bytes
  <2> QED
    BY <2>1 DEF Wire
<1>3. Receive(f) /\ \A i \in DOMAIN fed : fed[i].msg # 0
  BY DEF Stray
<1> HIDE DEF f
<1>4. f \notin datagrams /\ \A i \in DOMAIN fed : fed[i] # f
  BY <1>1, <1>2, <1>3 DEF OnceInv
<1>5. datagrams' = datagrams /\ fed' = Append(fed, f) /\ UNCHANGED sent
  BY <1>3, <1>4 DEF Receive
<1>6. PICK m : m = Len(fed) + 1
  OBVIOUS
<1>7. /\ DOMAIN fed' = DOMAIN fed \cup {m} /\ m \notin DOMAIN fed /\ fed' \in Seq(Wire)
      /\ fed'[m] = f /\ \A j \in DOMAIN fed : fed'[j] = fed[j]
  BY <1>1, <1>2, <1>5, <1>6, OneMore
<1>8. WireInv'
  BY <1>1, <1>5, <1>7 DEF WireInv
<1>9. Arrivals' = Arrivals \cup {f}
  BY <1>5, <1>7 DEF Arrivals
<1>10. CutInv'
  <2>1. 0 \notin DOMAIN sent
    BY <1>1, LenProperties DEF WireInv
  <2>2. \A x \in DOMAIN sent, g \in Arrivals' : g.msg = x => g \in Arrivals
    BY <1>2, <1>9, <2>1
  <2>3. \A x : Whole(x)' = Whole(x)
    BY <1>5 DEF Whole
  <2>4. \A x \in DOMAIN sent' : \E max \in Limits :
           /\ sent'[x].pktID = 0 <=> sent'[x].len <= max
           /\ \A g \in Arrivals' : g.msg = x => g \in FragUDPMessage(x, sent'[x].pktID, Whole(x)', max)
    BY <1>1, <1>5, <2>2, <2>3 DEF CutInv
  <2>5. \A g \in Arrivals' : /\ g.msg = 0 => g.fragID = 2 /\ g.fragCount = 2
                             /\ g.msg = 0 \/ g.msg \in DOMAIN sent'
    BY <1>1, <1>2, <1>5, <1>9 DEF CutInv
  <2> QED
    BY <2>4, <2>5, Zenon DEF CutInv
<1>11. OnceInv'
  BY <1>1, <1>2, <1>4, <1>5, <1>7 DEF OnceInv
<1>12. AssemblyInv' /\ MatchesReference'
  BY <1>1, <1>2, <1>3, FeedKeeps DEF FragInv, Receive
<1>13. PanicsOnlyOnWrap'
  BY <1>3 DEF FragInv, Receive, PanicsOnlyOnWrap
<1> QED
  BY <1>8, <1>10, <1>11, <1>12, <1>13 DEF FragInv

\* Nothing sent, nothing fed.
LEMMA InitFragments == InitFrag => FragInv
<1> SUFFICES ASSUME InitFrag PROVE FragInv
  OBVIOUS
<1>1. sent = <<>> /\ datagrams = {} /\ pktID = 0 /\ frags = <<>> /\ count = 0 /\ size = 0 /\ fed = <<>> /\ out = <<>>
  BY DEF InitFrag
<1>2. Arrivals = {} /\ DOMAIN fed = {} /\ DOMAIN sent = {} /\ DOMAIN out = {} /\ DOMAIN frags = {}
  BY <1>1 DEF Arrivals
<1>3. WireInv /\ CutInv /\ OnceInv /\ MatchesReference
  BY <1>1, <1>2 DEF WireInv, CutInv, OnceInv, MatchesReference
<1>4. Fragments(Len(fed)) = {}
  BY <1>1 DEF Fragments
<1>5. count = Cardinality({i \in DOMAIN frags : frags[i] # Nothing})
  <2>1. {i \in DOMAIN frags : frags[i] # Nothing} = {}
    BY <1>2
  <2> QED
    BY <1>1, <2>1, FS_EmptySet
<1>6. size = Len(Assemble(frags))
  BY <1>1, FlattenEmpty DEF Assemble
<1>7. PanicsOnlyOnWrap
  BY DEF InitFrag, PanicsOnlyOnWrap
<1> QED
  BY <1>1, <1>2, <1>3, <1>4, <1>5, <1>6, <1>7 DEF FragInv, AssemblyInv

\* For any lengths, limits and PacketIDs, and any loss, reordering and mixture of the datagrams:
\* Feed returns exactly what its history calls for, with its counters in step with its slots,
\* and as long as no PacketID is repeated that is each message whole and once (frag.go, Feed).
\* FragUDPMessage panics only for a message of at least 2^8 slices (frag.go, lines 18 and 29).
THEOREM Defragments == SpecFrag => []DefragsExactly
<1>1. FragInv /\ [NextFrag]_fragVars => FragInv'
  <2> SUFFICES ASSUME FragInv, [NextFrag]_fragVars PROVE FragInv'
    OBVIOUS
  <2>1. ASSUME NEW len \in Lens, NEW max \in Limits, NEW id \in PacketIDs, Send(len, max, id) PROVE FragInv'
    BY <2>1, SendKeeps
  <2>2. ASSUME NEW f \in datagrams, Receive(f) PROVE FragInv'
    BY <2>2, ReceiveKeeps
  <2>3. ASSUME NEW id \in PacketIDs, Stray(id) PROVE FragInv'
    BY <2>3, StrayKeeps
  <2>4. CASE UNCHANGED fragVars
    <3>1. UNCHANGED <<sent, datagrams, panicked, defragger, fed, out>>
      BY <2>4 DEF fragVars
    <3>2. AssemblyInv' /\ MatchesReference'
      BY <3>1, NothingFed DEF FragInv
    <3>3. WireInv' /\ CutInv' /\ OnceInv' /\ PanicsOnlyOnWrap'
      BY <3>1 DEF FragInv, WireInv, CutInv, OnceInv, Arrivals, Whole, PanicsOnlyOnWrap
    <3> QED
      BY <3>2, <3>3 DEF FragInv
  <2> QED
    BY <2>1, <2>2, <2>3, <2>4 DEF NextFrag, FragFinished
<1>2. FragInv => DefragsExactly
  <2> SUFFICES ASSUME FragInv PROVE FragTypeOK /\ MatchesReference /\ WholeMessagesOnly /\ PanicsOnlyOnWrap
    BY DEF DefragsExactly
  <2>1. FragTypeOK
    BY DEF FragTypeOK, FragInv, WireInv, AssemblyInv
  <2> QED
    BY <2>1, WholeOnce DEF FragInv
<1> QED
  BY <1>1, <1>2, InitFragments, PTL DEF SpecFrag
=============================================================================
