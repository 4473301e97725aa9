----------------------------- MODULE StreamCopy -----------------------------
(***************************************************************************)
(* The TCP streams of one authenticated connection: handleTCPRequest       *)
(* (core/server/server.go) and the two copy goroutines it starts for each  *)
(* stream (core/server/copy.go).  A chunk is read, shown to the traffic    *)
(* logger, which may block and answers accept, reject or disconnect, and   *)
(* only then written.  What a request hook read from the stream and put    *)
(* back is written to the target before, without asking the logger.  The   *)
(* handler acts on the first result it receives and closes both ends.      *)
(*                                                                         *)
(* The pooled buffers of copyBufferCheck and the byte counters of          *)
(* StreamStats carry no control and are left out; its State is kept.       *)
(***************************************************************************)
EXTENDS Naturals, Sequences

CONSTANTS
    Streams,    \* TCP request streams of the connection
    MaxChunks   \* bound on the chunks read per direction

ASSUME MaxChunksAssumption == MaxChunks \in Nat

Dirs == {"up", "down"}   \* up: stream to target, down: target to stream

VARIABLES
    connOpen,       \* the QUIC connection is open
    pc,         \* control point of handleTCPRequest per stream
    hooked,     \* the request hook took the stream
    putback,    \* the hook's bytes: "none", "held", "written", "failed"
    state,      \* StreamStats.State
    traced,     \* between TraceStream and UntraceStream
    end,        \* the two ends of a stream: [stream, target]
    copier,     \* state of each copy goroutine
    errChan,    \* results sent by the copy goroutines, in order
    result,     \* what handleTCPRequest received from errChan
    logged,     \* chunks the logger accepted, that is, billed
    written,    \* chunks forwarded
    asked,      \* streams on which the logger answered TrafficDisconnect
    tcpErrors   \* eventLogger.TCPError calls per stream

copyVars == <<copier, errChan, logged, written, asked>>
streamVars == <<connOpen, pc, hooked, putback, state, traced, end, copyVars, result, tcpErrors>>

PerDir(v) == [s \in Streams |-> [d \in Dirs |-> v]]

InitCopy ==
    /\ connOpen = TRUE
    /\ pc = [s \in Streams |-> "request"]
    /\ hooked = [s \in Streams |-> FALSE]
    /\ putback = [s \in Streams |-> "none"]
    /\ state = [s \in Streams |-> "initial"]
    /\ traced = [s \in Streams |-> TRUE]
    /\ end = [s \in Streams |-> [stream |-> "open", target |-> "none"]]
    /\ copier = PerDir("none")
    /\ errChan = [s \in Streams |-> <<>>]
    /\ result = [s \in Streams |-> "none"]
    /\ logged = PerDir(0) /\ written = PerDir(0)
    /\ asked = {}
    /\ tcpErrors = [s \in Streams |-> 0]

-----------------------------------------------------------------------------
(* handleTCPRequest up to the copy *)

\* Every early return closes the stream first; the deferred calls follow.
Abort(s) ==
    /\ end' = [end EXCEPT ![s].stream = "closed"]
    /\ pc' = [pc EXCEPT ![s] = "return"]

\* ReadTCPRequest, then the hook's Check: a hooked stream is answered at once.
ReadRequest(s) ==
    /\ pc[s] = "request"
    /\ \/ Abort(s) /\ UNCHANGED <<hooked, state>>
       \/ \E h \in BOOLEAN :
             /\ hooked' = [hooked EXCEPT ![s] = h]
             /\ state' = [state EXCEPT ![s] = IF h THEN "hooking" ELSE "connecting"]
             /\ pc' = [pc EXCEPT ![s] = IF h THEN "hook" ELSE "dial"]
             /\ UNCHANGED end
    /\ UNCHANGED <<connOpen, putback, traced, copyVars, result, tcpErrors>>

\* RequestHook.TCP reads from the stream; it may fail, and may return bytes to
\* put back.
RunHook(s) ==
    /\ pc[s] = "hook"
    /\ \/ Abort(s) /\ UNCHANGED <<state, putback>>
       \/ /\ state' = [state EXCEPT ![s] = "connecting"]
          /\ pc' = [pc EXCEPT ![s] = "dial"]
          /\ \E b \in {"none", "held"} : putback' = [putback EXCEPT ![s] = b]
          /\ UNCHANGED end
    /\ UNCHANGED <<connOpen, hooked, traced, copyVars, result, tcpErrors>>

\* copyTwoWayEx starts both copies.
StartCopies(s) ==
    /\ copier' = [copier EXCEPT ![s] = [d \in Dirs |-> "read"]]
    /\ pc' = [pc EXCEPT ![s] = "copy"]

\* The outbound dial; a failure is logged.  On success the response is written;
\* the hook's bytes, if there are any, come before the copies.
Dial(s) ==
    /\ pc[s] = "dial"
    /\ \/ /\ Abort(s)
          /\ tcpErrors' = [tcpErrors EXCEPT ![s] = @ + 1]
          /\ UNCHANGED <<state, copier>>
       \/ /\ end' = [end EXCEPT ![s].target = "open"]
          /\ state' = [state EXCEPT ![s] = "established"]
          /\ IF putback[s] = "held"
               THEN pc' = [pc EXCEPT ![s] = "putback"] /\ UNCHANGED copier
               ELSE StartCopies(s)
          /\ UNCHANGED tcpErrors
    /\ UNCHANGED <<connOpen, hooked, putback, traced, errChan, logged, written, asked, result>>

\* The hook's bytes are written to the target: the logger is neither asked nor
\* told, and an error is ignored.
PutBack(s) ==
    /\ pc[s] = "putback"
    /\ \/ /\ putback' = [putback EXCEPT ![s] = "written"]
          /\ written' = [written EXCEPT ![s]["up"] = @ + 1]
       \/ putback' = [putback EXCEPT ![s] = "failed"] /\ UNCHANGED written
    /\ StartCopies(s)
    /\ UNCHANGED <<connOpen, hooked, state, traced, end, errChan, logged, asked, result, tcpErrors>>

-----------------------------------------------------------------------------
(* copyBufferCheck *)

\* A read or a write fails on an end that is closed, and on a stream of a
\* closed connection.
StreamDead(s) == ~connOpen \/ end[s].stream = "closed"
SourceDead(s, d) == IF d = "up" THEN StreamDead(s) ELSE end[s].target = "closed"
SinkDead(s, d) == IF d = "up" THEN end[s].target = "closed" ELSE StreamDead(s)

\* A copy goroutine ends and sends its result.
CopyEnds(s, d, r) ==
    /\ copier' = [copier EXCEPT ![s][d] = "done"]
    /\ errChan' = [errChan EXCEPT ![s] = Append(@, r)]

\* Read returns a chunk.
CopyRead(s, d) ==
    /\ copier[s][d] = "read"
    /\ ~SourceDead(s, d) /\ logged[s][d] < MaxChunks
    /\ copier' = [copier EXCEPT ![s][d] = "check"]
    /\ UNCHANGED <<connOpen, pc, hooked, putback, state, traced, end, errChan, result, logged,
                   written, asked, tcpErrors>>

\* Read ends: io.EOF becomes nil, anything else is an error.
CopyReadEnd(s, d) ==
    /\ copier[s][d] = "read"
    /\ \E r \in {"nil", "error"} : CopyEnds(s, d, r)
    /\ UNCHANGED <<connOpen, pc, hooked, putback, state, traced, end, result, logged, written,
                   asked, tcpErrors>>

ForwardThenCheck(s, d) ==
    /\ copier[s][d] = "check"
    /\ written' = [written EXCEPT ![s][d] = @ + 1]
    /\ \/ /\ logged' = [logged EXCEPT ![s][d] = @ + 1]
          /\ copier' = [copier EXCEPT ![s][d] = "read"]
          /\ UNCHANGED <<errChan, asked>>
       \/ CopyEnds(s, d, "rejected") /\ UNCHANGED <<logged, asked>>
    /\ UNCHANGED <<connOpen, pc, hooked, putback, state, traced, end, result, tcpErrors>>

\* The traffic logger answers for the chunk, before it is written.
CopyCheck(s, d) ==
    /\ copier[s][d] = "check"
    /\ \/ /\ logged' = [logged EXCEPT ![s][d] = @ + 1]
          /\ copier' = [copier EXCEPT ![s][d] = "write"]
          /\ UNCHANGED <<errChan, asked>>
       \/ CopyEnds(s, d, "rejected") /\ UNCHANGED <<logged, asked>>
       \/ CopyEnds(s, d, "disconnect") /\ asked' = asked \cup {s} /\ UNCHANGED logged
    /\ UNCHANGED <<connOpen, pc, hooked, putback, state, traced, end, written, result, tcpErrors>>

\* Write forwards the chunk.
CopyWrite(s, d) ==
    /\ copier[s][d] = "write"
    /\ ~SinkDead(s, d)
    /\ written' = [written EXCEPT ![s][d] = @ + 1]
    /\ copier' = [copier EXCEPT ![s][d] = "read"]
    /\ UNCHANGED <<connOpen, pc, hooked, putback, state, traced, end, errChan, result, logged,
                   asked, tcpErrors>>

\* Write fails, as it must on a dead end.
CopyWriteError(s, d) ==
    /\ copier[s][d] = "write"
    /\ CopyEnds(s, d, "error")
    /\ UNCHANGED <<connOpen, pc, hooked, putback, state, traced, end, result, logged, written,
                   asked, tcpErrors>>

-----------------------------------------------------------------------------
(* handleTCPRequest after the copy *)

\* copyTwoWayEx returns the first result; TCPError is logged.
CopyReturn(s) ==
    /\ pc[s] = "copy"
    /\ errChan[s] # <<>>
    /\ result' = [result EXCEPT ![s] = Head(errChan[s])]
    /\ tcpErrors' = [tcpErrors EXCEPT ![s] = @ + 1]
    /\ pc' = [pc EXCEPT ![s] = "cleanup"]
    /\ UNCHANGED <<connOpen, hooked, putback, state, traced, end, copyVars>>

\* Both ends are closed, and the connection if the logger asked for it.
Cleanup(s) ==
    /\ pc[s] = "cleanup"
    /\ end' = [end EXCEPT ![s] = [stream |-> "closed", target |-> "closed"]]
    /\ connOpen' = (connOpen /\ result[s] # "disconnect")
    /\ pc' = [pc EXCEPT ![s] = "return"]
    /\ UNCHANGED <<hooked, putback, state, traced, copyVars, result, tcpErrors>>

\* The deferred calls: the final State, then UntraceStream.
HandlerReturn(s) ==
    /\ pc[s] = "return"
    /\ state' = [state EXCEPT ![s] = "closed"]
    /\ traced' = [traced EXCEPT ![s] = FALSE]
    /\ pc' = [pc EXCEPT ![s] = "done"]
    /\ UNCHANGED <<connOpen, hooked, putback, end, copyVars, result, tcpErrors>>

\* The peer, the tracker or Server.Close closes the connection.
ConnectionClose ==
    /\ connOpen /\ connOpen' = FALSE
    /\ UNCHANGED <<pc, hooked, putback, state, traced, end, copyVars, result, tcpErrors>>

StreamReturned(s) == pc[s] = "done" /\ \A d \in Dirs : copier[s][d] \in {"none", "done"}

\* Stuttering once every goroutine has returned.
CopyFinished == (\A s \in Streams : StreamReturned(s)) /\ UNCHANGED streamVars

NextCopy ==
    \/ \E s \in Streams :
          \/ ReadRequest(s) \/ RunHook(s) \/ Dial(s) \/ PutBack(s)
          \/ CopyReturn(s) \/ Cleanup(s) \/ HandlerReturn(s)
          \/ \E d \in Dirs : \/ CopyRead(s, d) \/ CopyReadEnd(s, d) \/ CopyCheck(s, d)
                             \/ CopyWrite(s, d) \/ CopyWriteError(s, d)
    \/ ConnectionClose
    \/ CopyFinished

SpecCopy == InitCopy /\ [][NextCopy]_streamVars

\* The handler's own steps happen, dials and hooks return (both have timeouts),
\* the logger answers (its wait is cancelled with the stream), and an operation
\* on a dead end fails.
HandlerFairness ==
    \A s \in Streams :
       /\ WF_streamVars(~connOpen /\ ReadRequest(s)) /\ WF_streamVars(RunHook(s)) /\ WF_streamVars(Dial(s))
       /\ WF_streamVars(CopyReturn(s)) /\ WF_streamVars(Cleanup(s)) /\ WF_streamVars(HandlerReturn(s))
       /\ \A d \in Dirs :
             /\ WF_streamVars(SourceDead(s, d) /\ CopyReadEnd(s, d))
             /\ WF_streamVars(CopyCheck(s, d))
             /\ WF_streamVars(SinkDead(s, d) /\ CopyWriteError(s, d))

\* Both peers drain what is written to them.  A target that never reads again
\* and never closes can block a write, and with it the handler, for ever.
DrainFairness ==
    \A s \in Streams :
       /\ WF_streamVars(PutBack(s))
       /\ \A d \in Dirs : WF_streamVars(CopyWrite(s, d) \/ CopyWriteError(s, d))

FairCopy == SpecCopy /\ HandlerFairness /\ DrainFairness

-----------------------------------------------------------------------------
(* Properties *)

Results == {"nil", "error", "rejected", "disconnect"}

\* Every variable has its type; errChan never needs more than its two slots,
\* so no copy goroutine blocks on it.
CopyTypeOK ==
    /\ connOpen \in BOOLEAN
    /\ pc \in [Streams -> {"request", "hook", "dial", "putback", "copy", "cleanup", "return", "done"}]
    /\ hooked \in [Streams -> BOOLEAN]
    /\ putback \in [Streams -> {"none", "held", "written", "failed"}]
    /\ state \in [Streams -> {"initial", "hooking", "connecting", "established", "closed"}]
    /\ traced \in [Streams -> BOOLEAN]
    /\ end \in [Streams -> [stream : {"open", "closed"}, target : {"none", "open", "closed"}]]
    /\ copier \in [Streams -> [Dirs -> {"none", "read", "check", "write", "done"}]]
    /\ \A s \in Streams : errChan[s] \in Seq(Results) /\ Len(errChan[s]) <= 2
    /\ result \in [Streams -> Results \cup {"none"}]
    /\ logged \in [Streams -> [Dirs -> 0..MaxChunks]]
    /\ written \in [Streams -> [Dirs -> Nat]]
    /\ asked \in SUBSET Streams
    /\ tcpErrors \in [Streams -> 0..1]

\* What was forwarded without the logger being asked: the hook's bytes.
Unasked(s, d) == IF d = "up" /\ putback[s] = "written" THEN 1 ELSE 0

\* A chunk the logger refused is never forwarded and never billed: what was
\* written is what was billed, but for the bytes a hook had put back, and for
\* one chunk whose write is under way or failed.  The bytes put back are those of a
\* hooked stream, and no chunk is read before they were handled: the
\* target sees the client's bytes in order.
RefusedIsNotForwarded ==
    \A s \in Streams :
       /\ putback[s] # "none" => hooked[s]
       /\ \A d \in Dirs :
             /\ putback[s] = "held" => copier[s][d] = "none" /\ written[s][d] = 0
             /\ written[s][d] <= logged[s][d] + Unasked(s, d)
             /\ logged[s][d] + Unasked(s, d) > written[s][d] =>
                   \/ copier[s][d] = "write"
                   \/ copier[s][d] = "done" /\ \E i \in 1..Len(errChan[s]) : errChan[s][i] = "error"

\* When handleTCPRequest returns, its target connection and its stream are
\* closed and the logger holds no reference to a stream in another state.
NothingLeftOpen ==
    \A s \in Streams :
       /\ pc[s] = "done" => end[s].stream = "closed" /\ end[s].target # "open"
       /\ ~traced[s] => state[s] = "closed"

\* The relay forwards only what the logger accepted and what a hook had put back,
\* and a handler that has returned leaves neither end of its stream open; errChan
\* never needs more than its two slots.
RelaySafe == CopyTypeOK /\ RefusedIsNotForwarded /\ NothingLeftOpen

\* When the connection closes, the handler and both copy goroutines of every
\* stream return (so that handleClient's join and Server.Close do), provided that
\* targets drain what is written; and after a handler returned, so do both of
\* its copy goroutines, although it waited for the result of one only.
HandlersReturn == \A s \in Streams : (~connOpen \/ pc[s] = "done") ~> StreamReturned(s)

-----------------------------------------------------------------------------
(* A statement of the repository that the code does not keep *)

\* config.go: TrafficDisconnect closes the whole QUIC connection, exactly like
\* a LogTraffic call returning false.
DisconnectHonoured ==
    \A s \in Streams : s \in asked ~> ~connOpen

=============================================================================
