------------------------------ MODULE FastOpen ------------------------------
(***************************************************************************)
(* fastOpenConn of extras/outbounds/fastopen.go: the connection to the     *)
(* target is dialled by the first Write.  connLock is held for writing     *)
(* during the whole dial; everything else takes it for reading.  The       *)
(* server closes a connection from one goroutine, once the first of its    *)
(* two copies has ended, while the other may still be in Read or Write.    *)
(***************************************************************************)
EXTENDS Naturals

CONSTANTS
    Writers, Readers,   \* goroutines that call Write and Read
    MaxDeadlines        \* bound on the deadlines that are set

ASSUME MaxDeadlinesAssumption == MaxDeadlines \in Nat

Directions == {"read", "write"}
Unset == 0   \* a deadline is the number of the call that set it: all differ

VARIABLES
    target,      \* c.conn: "nil", "open" or "closed"
    ready,       \* readyChan is closed
    connLock,    \* held for writing
    writer,      \* control point of each Write
    fastReader,  \* control point of each Read
    fastCloser,  \* "no", or the result of Close
    preset,      \* deadline, readDeadline and writeDeadline of the struct
    connDeadline, \* the deadlines the connection itself has
    deadlineCalls,       \* how many deadlines were set
    askedFor,    \* history: the deadline asked for last, per direction
    overtaken    \* history: directions given a deadline of their own before the dial,
                 \* and then a general one, still before the dial

deadlines == <<preset, connDeadline, deadlineCalls, askedFor, overtaken>>
fastVars == <<target, ready, connLock, writer, fastReader, fastCloser, deadlines>>

\* Dial of the outbound returns at once.
InitFast ==
    /\ target = "nil" /\ ready = FALSE /\ connLock = FALSE
    /\ writer = [w \in Writers |-> "start"]
    /\ fastReader = [r \in Readers |-> "start"]
    /\ fastCloser = "no"
    /\ preset = [f \in Directions \cup {"both"} |-> Unset]
    /\ connDeadline = [d \in Directions |-> Unset]
    /\ deadlineCalls = 0 /\ askedFor = connDeadline /\ overtaken = {}

isClosedBeforeReady == ready /\ target = "nil"

-----------------------------------------------------------------------------

Goto(w, at) ==
    /\ writer' = [writer EXCEPT ![w] = at]
    /\ UNCHANGED <<fastReader, fastCloser, preset, deadlineCalls, askedFor, overtaken>>

\* Write, first under RLock: the connection is there, or was closed, or has to
\* be dialled.
WriteCheck(w) ==
    /\ ~connLock
    /\ \/ writer[w] = "start" /\ Goto(w, IF target # "nil" THEN "write" ELSE "check")
       \/ writer[w] = "check" /\ Goto(w, IF isClosedBeforeReady THEN "failed" ELSE "lock")
    /\ UNCHANGED <<target, ready, connLock, connDeadline>>

\* Mutation: the second look at readyChan is left out.
WriteLockUnchecked(w) ==
    /\ writer[w] = "lock" /\ ~connLock
    /\ Goto(w, IF target # "nil" THEN "write locked" ELSE "dial")
    /\ connLock' = TRUE
    /\ UNCHANGED <<target, ready, connDeadline>>

\* Then under Lock the same questions again; the lock is kept for the dial, and
\* for the write on a connection that another Write has established.
WriteLock(w) ==
    /\ writer[w] = "lock" /\ ~connLock
    /\ \/ isClosedBeforeReady /\ Goto(w, "failed") /\ UNCHANGED connLock
       \/ /\ ~isClosedBeforeReady
          /\ Goto(w, IF target # "nil" THEN "write locked" ELSE "dial")
          /\ connLock' = TRUE
    /\ UNCHANGED <<target, ready, connDeadline>>

\* What the new connection is given: the general deadline first, then those of
\* the directions, so that one of these stays in force even when it is older.
Applied == [d \in Directions |-> IF preset[d] # Unset THEN preset[d] ELSE preset["both"]]

\* The dial fails, or gives a connection that takes over the deadlines; either
\* way readyChan is closed and the lock released.
WriteDial(w) ==
    /\ writer[w] = "dial"
    /\ \/ Goto(w, "failed") /\ UNCHANGED <<target, connDeadline>>
       \/ Goto(w, "written") /\ target' = "open" /\ connDeadline' = Applied
    /\ ready' = TRUE /\ connLock' = FALSE

\* A Write on the established connection, outside the lock or holding it.
WriteThrough(w) ==
    /\ writer[w] \in {"write", "write locked"}
    /\ Goto(w, IF target = "open" THEN "written" ELSE "failed")
    /\ connLock' = (connLock /\ writer[w] = "write")
    /\ UNCHANGED <<target, ready, connDeadline>>

\* Read waits for readyChan unless the connection is there already.
ReadStart(r) ==
    /\ fastReader[r] = "start" /\ ~connLock
    /\ fastReader' = [fastReader EXCEPT ![r] = IF target # "nil" THEN "read" ELSE "wait"]
    /\ UNCHANGED <<target, ready, connLock, writer, fastCloser, deadlines>>

ReadReady(r) ==
    /\ fastReader[r] = "wait" /\ ready
    /\ fastReader' = [fastReader EXCEPT ![r] = IF target = "nil" THEN "failed" ELSE "read"]
    /\ UNCHANGED <<target, ready, connLock, writer, fastCloser, deadlines>>

\* The connection answers, or the read fails because it was closed.
ReadThrough(r) ==
    /\ fastReader[r] = "read"
    /\ fastReader' = [fastReader EXCEPT ![r] = IF target = "open" THEN "data" ELSE "failed"]
    /\ UNCHANGED <<target, ready, connLock, writer, fastCloser, deadlines>>

\* Close: net.ErrClosed, the close of the connection, or the end of the wait.
CloseConn ==
    /\ fastCloser = "no" /\ ~connLock
    /\ fastCloser' = IF isClosedBeforeReady THEN "ErrClosed" ELSE "nil"
    /\ target' = IF target = "open" THEN "closed" ELSE target
    /\ ready' = (ready \/ target = "nil")
    /\ UNCHANGED <<connLock, writer, fastReader, deadlines>>

\* The field that is set is kept for the dial, and the connection, when it is there, is
\* told at once; overtaken forgets a direction that is set anew.
SetField(field, dirs) ==
    /\ deadlineCalls < MaxDeadlines /\ ~connLock
    /\ deadlineCalls' = deadlineCalls + 1
    /\ preset' = [preset EXCEPT ![field] = deadlineCalls']
    /\ askedFor' = [d \in Directions |-> IF d \in dirs THEN deadlineCalls' ELSE askedFor[d]]
    /\ connDeadline' = [d \in Directions |-> IF d \in dirs /\ target # "nil" THEN deadlineCalls'
                                             ELSE connDeadline[d]]
    /\ UNCHANGED <<target, ready, connLock, writer, fastReader, fastCloser>>

SetDeadline ==
    /\ SetField("both", Directions)
    /\ overtaken' = IF target = "nil" THEN {d \in Directions : preset[d] # Unset} ELSE {}

SetReadDeadline == SetField("read", {"read"}) /\ overtaken' = overtaken \ {"read"}

SetWriteDeadline == SetField("write", {"write"}) /\ overtaken' = overtaken \ {"write"}

WriterStep(w) == WriteCheck(w) \/ WriteLock(w) \/ WriteDial(w) \/ WriteThrough(w)
ReaderStep(r) == ReadStart(r) \/ ReadReady(r)

NextFast ==
    \/ \E w \in Writers : WriterStep(w)
    \/ \E r \in Readers : ReaderStep(r) \/ ReadThrough(r)
    \/ CloseConn \/ SetDeadline \/ SetReadDeadline \/ SetWriteDeadline

SpecFast == InitFast /\ [][NextFast]_fastVars

\* A goroutine inside Write or Read goes on: a dial returns, a closed readyChan wakes it.
FastFairness ==
    /\ \A w \in Writers : WF_fastVars(WriterStep(w))
    /\ \A r \in Readers : WF_fastVars(ReaderStep(r))

-----------------------------------------------------------------------------
(* Properties *)

\* No connection is established behind the back of Close, also when Close
\* arrives during a dial.  In both directions the connection has the deadline
\* that was asked for last, whether before or after the dial, with one exception:
\* a general deadline set before the dial does not replace an older one of the
\* direction's own, which stays in force until one is set on the connection.
FastOpenSafe ==
    /\ fastCloser # "no" => target # "open"
    /\ target = "open" => \A d \in Directions :
          IF d \in overtaken THEN connDeadline[d] = preset[d] /\ connDeadline[d] \in 1..(askedFor[d] - 1)
          ELSE connDeadline[d] = askedFor[d]
    /\ \A r \in Readers : fastReader[r] = "read" => target # "nil"

\* A Read that waits for the connection is woken by the first Write, whether
\* its dial succeeds or fails, and by Close.
ReadersWake ==
    \A r \in Readers :
       (fastReader[r] = "wait" /\ (fastCloser # "no" \/ \E w \in Writers : writer[w] = "dial"))
          ~> fastReader[r] # "wait"
=============================================================================
