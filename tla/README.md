# Hysteria: TLA+ models, their checks and their proofs

Hysteria is a proxy over QUIC. A client opens one QUIC connection to a server,
authenticates with an HTTP/3 request, and then relays TCP (one QUIC stream per
connection) and UDP (QUIC datagrams, one session ID per association). This fork
adds limits and accounting to the server: a cap on UDP sessions, a timeout for
authentication, a cap on bytes received before it, and a traffic logger that may
refuse a unit or ask for a disconnect (`YUE_FORK.md`). Around this core are
transports (port hopping, obfuscation, NAT traversal), congestion controllers,
outbounds with an ACL engine on the server, and local inbounds on the client.

The modules model these parts, the TLC configurations check them on small
instances, and the `*Proofs` modules prove every safety property that the passing
runs check for every number of sessions, connections and callers. The source
lines of every definition are in `PROJECT.json` under `map`; the hazards the
properties are aimed at, each at its line, under `hazards`.

## 1. Inventory

| Component | State | Operations | What is hard | What makes it correct |
|---|---|---|---|---|
| Server lifecycle (`core/server/server.go`, `serverImpl`) | `closing`, the registry `conns`, two wait groups, `closeOnce` | `Serve`, `Close`, `serveClient` | accept racing with shutdown, concurrent `Close` | no connection escapes the shutdown snapshot; the transport is released last; every returned `Close` is a barrier |
| Connection handler (`h3sHandler`, `preauth_yue.go`) | `authenticated`, `authExpired`, `untrack`, the pre-auth byte count | `ServeHTTP`, `ProxyStreamHijacker`, `expireIfUnauthenticated`, `finish`, the receive callbacks | a slow authenticator, the timer, a kick and a close at any moment | a connection is either expired or authenticated; proxying implies being online; nothing outlives the handler |
| TCP relay (`copy.go`, `handleTCPRequest`) | the two ends of a stream, two copy goroutines, the first result | read, check, write; cleanup | only one of two results is received, the other goroutine is not joined | what is forwarded was billed, but for the bytes a hook puts back; nothing is left open |
| Server UDP sessions (`core/server/udp.go`) | the session map, per session socket, `closed`, receive loop, the idle goroutine | `Run`, `feed`, `initConn`, `receiveLoop`, `idleCleanupLoop`, `CloseWithErr` | three kinds of goroutine close the same session, dials under a lock, restart of the idle goroutine | sockets, events, slots and goroutines are released exactly once; the cap holds |
| UDP accounting and statistics (`server.go`, `extras/trafficlogger`) | counters, kicks, online counts | receive, send whole or in fragments, kick, clear | a failed send repeated as fragments, a kick that any connection consumes | every byte that moved is charged once |
| UDP fragmentation (`core/internal/frag`) | one partially assembled message | `FragUDPMessage`, `Feed` | loss, reordering, interleaved messages, equal IDs, an 8-bit count | only whole messages come out; cutting panics only when the count wraps |
| Client UDP sessions (`core/client/udp.go`) | the map from ID to `udpConn`, `nextID`, channels | `NewUDP`, `feed`, `close`, `closeCleanup`, `Receive` | close against feed, late answers | no send on a closed channel; no orphaned session |
| Client and reconnection (`client.go`, `reconnect.go`, `app/cmd/client.go`) | the current client, `closed`, sockets and port mappings of attempts | `clientDo`, `reconnect`, `Close`, `Config` | late errors of old connections, a mutex held during attempts, attempts that fail half-way | a healthy connection stays current; nothing connects after `Close`; failed attempts leave nothing |
| BBR (`core/internal/congestion/bbr`) | mode, recovery, windows; the sampler's queue of sent packets; three-entry filters | packet sent, acknowledged, lost; datagram size | gaps of packet numbers, expiry, clamping | windows within limits, fresh estimates, samples of the right packet |
| Brutal and pacer (`brutal`, `common`) | five slots of seconds, a token budget | sent, congestion event, `TimeUntilSend` | seconds without events, rounding | the rate follows recent losses; a sleeping sender wakes with budget |
| Port hopping (`extras/transport/udphop`) | current and previous socket, receive queue, deadlines | hop, read, write, deadlines, close | hop against close and deadlines, a full queue | at most two sockets, each with the deadlines and served until a read fails; all closed at the end |
| Gecko (`extras/obfs`) | reassembly table with caps per source and in total, expiry | write in chunks, accept a chunk, collect | an 8-bit message ID, eviction | bounded table, whole packets |
| Realm (`app/cmd/server.go`, `extras/realm`) | session, published addresses, punch attempts, port mapping | register, heartbeat, events, respond, renew, `Close` | sessions replaced while their goroutines run, repeated attempts | one live session; waiting responders stay registered; everything stops |
| Outbounds and resolvers (`extras/outbounds`) | sockets of one request | resolve, dial, proxy handshakes | dual-stack race, partial failure | only what the caller got stays open |
| ACL (`extras/outbounds/acl`) | compiled rules, result cache | compile, match | indexes, searches and the cache | the first matching rule decides |
| Fast open (`fastopen.go`) | the connection dialled by the first write, three deadlines set before it | read, write, deadlines, close | everything during the dial, the order of the deadlines | no connection behind the back of `Close`; the deadline asked for last is in force, with one named exception; readers wake |
| Sniffer (`extras/sniff`) | the bytes taken from a stream | check, TCP, UDP | a stream that stops in the middle | every byte taken is given back |
| Multiplexer (`app/internal/proxymux`) | registry, sub-listeners, three kinds of goroutine | listen, accept, dispatch, close | shutdown against listen and dispatch | no listener is orphaned; the address is released |
| Local inbounds and UDP forwarding (`app/internal/...`) | per connection three resources and up to three goroutines; a table of UDP sessions | accept, authenticate, dial, relay, clean up | goroutines that end in any order, entries inserted late | every request is admitted by its own credentials; everything is closed; nobody stays blocked on a result |
| Certificate and database loaders (`app/internal/utils`) | a cache against two files; a file against a download | handshake, reload; download, load | files that change while they are read | a cache that counts as current is current; failed and broken downloads leave the last good file |
| Server and client commands, firewall, mimic (`app/cmd`, `app/internal/firewall`, `mimic`) | kernel rules, sockets, helper process | fill, start, signal, exit | one of many steps fails, or one that undoes another, the process is killed | roll-back |

How they interact. `Server.Close` closes connections and joins the connection
handlers; a handler joins its TCP streams and its UDP session manager, which
stop because the QUIC connection is closed; the traffic logger may close that
connection from any of them; on the other side the client's operations fail with
`ClosedError` and `clientDo` connects again. The models keep these interfaces:
`ServerLifecycle` assumes of a handler what `H3sHandler` shows (`HandlerEnds`),
and `H3sHandler` assumes of its workers what `StreamCopy` and
`UDPSessionManager` show (`ServerGoroutinesEnd`). `BBRSender` takes as inputs
what `BandwidthSampler` computes, which in turn uses the operators of
`WindowedFilter`; `ServerSetup` starts and closes the realm runtime of
`RealmRuntime`; `ClientApp` has the resources of the attempts that `Reconnect`
makes. `TrafficStats` composes the statistics API with the UDP path of the
server.

## 2. Modules

| Module | Models | State and actions |
|---|---|---|
| `UDPSessionTable` | abstract specification of a bounded session table | the phase of each session: unused, bound, open, closing, released |
| `UDPSessionManager`, `...Proofs` | `core/server/udp.go` and the UDP half of `server.go` | one control point for `Run`, one for the idle goroutine, one per receive loop; `CloseWithErr` is split where its locks are released: marking and shutting the socket, logging, removal from the map |
| `H3sHandler`, `...Proofs` | `handleClient`, `ServeHTTP`, `preauth_yue.go` | each auth request runs lock, authenticate, track, publish, log; the timer, the streams and the receive loop run beside it |
| `ServerLifecycle`, `...Proofs` | `serverImpl` | Serve loops, handlers and the body of `Close` step by step |
| `StreamCopy` | `handleTCPRequest`, `copy.go` | per stream the handler, with the write of the bytes a hook puts back, and two copy goroutines |
| `UDPFragmentation` | `frag.go`, `sendMessageAutoFrag`, `udpConn.Send` | a network of datagrams and the Defragger, with the history as the reference; the fragment count is taken modulo `CountSpace` (256 in the code), and a message whose slices do not fit is in `panicked` |
| `ClientUDP`, `...Proofs` | `core/client/udp.go` | callers and the `run` goroutine; each critical section is one step |
| `Reconnect`, `...Proofs` | `reconnect.go`, the errors of `client.go` | callers of `clientDo`, the mutex held during an attempt, which dials (with a timeout) and then waits for the server's answer (without one) |
| `UDPHop` | `udphop/conn.go` | the hop timer, one receive loop per socket, which also ends on an error of an open socket, the queue, deadlines |
| `Gecko` | `obfs/gecko.go` | writers, a network that loses, repeats and reorders, the table, ticks of `gcLoop` |
| `RealmRuntime` | `realmServerRuntime` | `run`, heartbeat and events loop per session, responders with their punch, the port-mapping loop, `Close`; the rendezvous server is a register that requests may or may not reach |
| `RealmPunch` | `server_punch.go`, `punch_conn.go` | calls of `Respond` over two tables with their own locks, and the packets that arrive |
| `WindowedFilter`, `BandwidthSampler`, `BBRSender` | `congestion/bbr` | pure updates as operators; one action per packet sent, congestion event, loss of a range |
| `BrutalSender` | `brutal.go`, `pacer.go` | time, events, sends, changes of datagram size |
| `ProxyMux` | `proxymux` | `acceptLoop`, `mainLoop` with its deferred function in three steps, `dispatch`, listeners |
| `FastOpen` | `fastopen.go` | writers, readers, one closer, the lock held for the dial; the three setters of deadlines, and the order in which the dial applies what they left |
| `TrafficStats` | `trafficlogger/http.go`, `udpIOImpl` | connections that receive and send, kicks, clearings |
| `Outbounds` | `ob_direct.go`, `ob_socks5.go`, `ob_http.go`, `dns_*.go` | one request: lookups, dials, handshake, the reaper of the losing dial |
| `ACLEngine` | `acl.go`, `acl/*.go` | compile a rule set, then answer requests through the cache; a name is a sequence of parts, some of them dots, an address is a number, a network the addresses that share a quotient |
| `Sniffer` | `sniff.go` | a stream that may stop after any byte; CRYPTO frames in any cut and order |
| `CertLoader`, `GeoLoader` | `app/internal/utils` | handshakes against renewals; downloads against stops of the program and errors of the file system; `FileLoaders` joins what the two promise |
| `LocalInbounds`, `UDPTunnel` | `app/internal/{socks5,http,forwarding,redirect,tproxy,tun}` | one record per connection: handler, resources, goroutines, `errChan`, the credentials of the request at hand and those of the requests served; the table of UDP forwarding, with the idle cleanup and the one of `Serve`'s end as two cleanups that may overlap |
| `ServerSetup`, `ClientApp` | `app/cmd`, `firewall`, `mimic` | the fillers in order with what they acquire, and the ways to exit; firewall commands and the functions that undo them are one step each, so the process can be killed between any two; a command that undoes may fail, which the code does not notice |
| `TransportProofs`, `CongestionProofs`, `AppProofs` | | the theorems about the components of `transport` and `app`, see section 4 |
| `MCTransport`, `MCApp`, `MCLive` | | compositions, see below |
| other `MC*` | | model values (and, for `udp_sessions`, symmetry) for TLC |

A critical section under a mutex that makes no blocking call is one action. A
section that does (the dial under `connLock`, `Authenticate` under `authMutex`,
`reconnect` under `rc.m`, the dial of fast open) is several, and the lock is
derived from the control point that holds it or is a variable.

`MCTransport`, `MCApp` and `MCLive` put components side by side that share no
variable. Interleaving them would multiply their states without adding a
behaviour of any of them, so each behaviour moves one component (`part`) and the
others stay at their initial states; every property speaks of one component (or,
where a name joins several, is their conjunction).

Definitions such as `NeverLocked`, `NoHandlers` or `HTTPDispatchOnce`, placed before the
definition they resemble, are that definition with a plausible mistake; they are
used to show that the properties can fail.

Abstractions: payloads are counted or tagged, not represented; logging text and
buffer pools are left out; time is a step that may happen (`BecomeIdle`,
`TimerFire`) or a small counter; a network operation may fail at any moment and
must fail on something closed. In `BBRSender` a bandwidth is the bytes of one
minimum round trip, so that it is its own bandwidth-delay product.

## 3. Runs

Bounds are the smallest at which the interesting races occur, plus one where
that was affordable.

| Run | Instance | Shows |
|---|---|---|
| `udp_sessions` | 2 IDs, 3 sessions, cap 1 | admission and ownership of sockets, order of events, the idle goroutine's hand-over, and that the manager implements `UDPSessionTable`. Cap 1 with two IDs makes admission fail; three sessions allow an ID to be reused while its predecessor is still closing |
| `h3s_handler` | 2 requests, 2 streams, limit 2, chunks of up to 2 | the time before authentication is contained, proxying is tracked, nothing is left behind, the handler ends. Two requests make the second find the state of the first; chunks of two meet the cap at its boundary |
| `server_lifecycle` | 3 connections, 2 Serve loops, 2 callers of `Close` | the snapshot, the order of release and the barrier; `Close` returns |
| `reconnect` | 2 callers, 2 connections, servers that may stay silent | a healthy connection stays current, nothing connects after `Close`; dead connections are replaced; a call returns unless a connected server is silent for ever towards it or towards the caller that holds the mutex |
| `transport` | per component: 1 stream with 2 chunks per direction; 2 messages of 3 or 4 bytes with limits 0 to 2 and a count of 4 values, so that it wraps; 2 client sessions; 2 hops with a queue of 1; 2 peers of gecko with tables small enough to evict; 2 realm sessions with 2 addresses and a port mapping (responders change the addresses in the same way and share nothing else; `live` has one); 3 calls of `Respond` for 2 attempts; filters, sampler, BBR (two rates, two datagram sizes, so that windows reach both limits) and Brutal over short histories | `RelaySafe`, `DefragsExactly`, `MappedIsOpen`, `SessionsReachable`, `HopSockets`, `GeckoReassembly`, `OneLiveSession`, `RegisteredWhileWaiting`, `FilterFresh`, `SampledAtSend`, `WindowWithinLimits`, `BrutalPaces` |
| `app` | per component: 2 muxes and 2 listeners; 2 writers, a reader and 3 deadlines of fast open; 2 connections of one user, 1 kick; one request in three address modes; rule sets of up to 2 rules over every kind of matcher, a cache of 2; streams of 8 bytes; 2 handshakes and 2 renewals; 3 runs of the program; 1 local connection of every kind with 2 senders; 2 forwarded sessions; 2 starts of the server; 2 attempts of the client | `NoOrphanListener`, `FastOpenSafe`, `BilledOnce`, `OnlyGivenStayOpen`, `FirstRuleWins`, `SniffingIsHarmless`, `ReloadsAreSafe`, `InboundServesItsClient`, `TunnelClosesSessions`, `SetupRollsBack`, `AttemptsLeaveNothing` |
| `live` | smaller instances of six of them (the realm runtime with a responder and a port mapping at once), and of the session manager with 1 ID and 2 sessions | `ServerGoroutinesEnd`, `ClientWaitsEnd`, `RealmStops`, `InboundsUnwind` |
| `udp_receive_loops` | cap 1, violation | a reclaimed session's receive loop may still be in a (paced) send, so more loops than the cap can run; `YUE_FORK.md` derives its 2 MiB bound from the cap |
| `stream_disconnect` | violation | a disconnect that is the second result is never received |
| `reconnect_nil` | violation | an error of one stream drops an open connection |
| `reconnect_release` | violation | a dropped client is never closed, so its socket leaks |
| `proxymux_release` | violation | a sub-listener created and closed after `mainLoop` took its copies is noticed by nobody, and the port stays bound |

The violations are listed with the lines they contradict under `findings`. The
one with most practical weight is `reconnect_release`: `clientDo` forgets the
client before `reconnect` could close it, so each reconnection leaves a UDP
socket and its reader behind.

Deadlock is checked where a module models a complete system with a stuttering
step for its end (`udp_sessions`, `h3s_handler`, `server_lifecycle`,
`reconnect`). In `transport`, `app` and `live` a component may use up its bound
on messages, hops, attempts or time and rest there, so deadlock is not an error;
that goroutines do not wait for each other for ever is what `live` states.

### Fairness

Weak fairness is given to steps that are a goroutine's own computation or a call
that the code or its library bounds: critical sections, dials and hooks (with
timeouts), operations on closed sockets, streams and connections, which fail.
Nothing is assumed of peers: no datagram, request, answer, stream or close ever
has to arrive. Two places of the client wait for the server without a timeout,
and there the properties name the wait instead of assuming it away: `ReconnectLive`
excepts behaviours in which a connected server is silent for ever (`TCP` reads the
response without a deadline, and the authentication request of `connect` has none
while `rc.m` is held; QUIC's keep-alive ends neither), and `InboundsUnwind`
excepts those in which a write to the tunnel waits for ever (`QStream.Close`
cancels reads and sends a FIN; it does not end a write that flow control holds
up). In the second case the handler still returns and closes everything once
another goroutine has reported. Strong fairness is used where a `select` with
several ready cases chooses at random (the `stopCh` branch of the idle loop, the
context of the realm's heartbeat and port-mapping loops), where `Accept` on a
closed listener still drains its queue, and for obtaining the mutex of the
reconnecting client, which Go's mutex grants to a waiter after 1 ms.
`StreamCopy` also assumes that a target drains what is written to it or closes:
the code has no write deadline, and without the assumption the handlers need not
return. Every call that the realm runtime makes of the rendezvous server, the
gateway and the puncher has a timeout or takes the context. In `MCLive` each component's fairness is assumed only of the behaviours
in which that component moves (for the others it would be vacuous or, worse,
unsatisfiable).

## 4. Proofs

All theorems hold for arbitrary sets, limits and bounds. What they assume of the
constants is stated as named `ASSUME`s in the modules that declare them: that
`NoEntry`, `NoID`, `NoConn`, `NoCall`, `NoAddr` and `NoClient` differ from real
values, that counters and limits are natural numbers (positive where the code's
are: the session cap, the pre-auth limit, the datagram sizes, fragment counts,
Brutal's rate), that the set of session IDs is finite, that the ID width is at
least one bit, that the fragment count has at least one value (`CountSpace`) and
that `errChan` of the local inbounds has its two slots (`ErrChanCap`). Three say more. `SamplerAssumption` takes the packet threshold of
quic-go's loss detection to be at most 3: `LeastUnacked` forgets every packet more
than two below the largest acknowledged, which loses an outstanding one with a
larger threshold. `NetList` in `ACLAssumption` says that no network listed for a
country holds another (see section 5), and no outbound is called "nil", which
stands for Go's nil. TLC evaluates the assumptions in the runs. The bounds that make TLC's instances finite (messages, hops,
attempts, ticks) are constants of the theorems too, so each theorem covers
behaviours of every length.

Hardly any of the properties is inductive as it stands (`FilterFresh` is). Each
proof therefore has an invariant `...Inv` in parts: the types, what each goroutine's
control point says about the state it shares, and the property. It is shown to
hold initially and to be kept by every action, one step per action.

* `UDPSessionManagerProofs`. The invariant
  `IInv` follows the locks: `MapInv` (an allocated session is mapped under its ID
  until `ExitFunc` has removed it, so the identity test there never fails),
  `CloseInv` (`closed`, the progress of `ExitFunc` and the number of Close events
  agree), `RunInv` (the session `Run` dials is allocated, has no socket and is not
  closed while `connLock` is held; after the final snapshot every session is
  closed or on the list), `EventInv`, `CapInv` and `IdleInv`. It yields the parts
  of `AdmissionSound` (`SocketsOwned`, `NoConnAfterExit`, `BilledIsAdmitted`) and
  of `EventsInOrder` (`ClosedExactlyOnce`, `NewBeforeClose`),
  `CleanupWatchesSessions` and, with the lemma that the IDs in use of the table
  are those mapped, `Spec => ImplementsTable`.
* `ServerLifecycleProofs`. `RegistryInv` ties the registry to the handlers,
  `AcceptInv` says that an open connection is registered or held by exactly one
  Serve loop, `ShutdownInv` what `Close` has established at each step; together
  they give `NoneSlipsPastSnapshot` and `ShutdownOrdered` (`TransportGoesLast`
  and `CloseIsBarrier`).
* `H3sHandlerProofs`. `MutexInv` says which request holds `authMutex`, `HolderInv`
  what that request may rely on until it returns, `TrackInv` and `OnlineInv` tie
  registration and reports to it, `ReceiveInv` the count of the entry to the bytes
  held, and `MainInv` says what `handleClient` has joined at each point. They give
  `PreAuthContained`, `TrackedWhileProxying` and `NothingLeftBehind`.
* `ClientUDPProofs`. With the fact that a session is not closed before it is
  created, `MappedIsOpen` is inductive, and does not need unique IDs.
  `SessionsReachable` does: it is proved for fewer sessions than IDs (2^32 in the
  code), by counting the sessions opened (`IDInv`) and following each answer from
  the network through `feed` and the channel (`AnswerInv`).
* `ReconnectProofs`. While a caller connects there is no current client, `Close`
  has not run and nobody else connects; from this follows `ReconnectSafe`
  (`HealthyIsCurrent` and `NoConnectAfterClose`).
* `TransportProofs`. `RelaySafe`: the results in `errChan` are those of the copiers
  that are done and `handleTCPRequest` has not taken (`ResultsInv`), what each
  copier has read, billed and written (`CopierInv`), what the request has closed
  and untraced (`RequestInv`), and that a hook's bytes are written at most once and
  before the copies (`HookInv`). `HopSockets`: sockets are numbered in the order of
  the hops. `RegisteredWhileWaiting`: the channel of an attempt has one owner until
  `removeAttempt` has finished (`ChannelInv`). `OneLiveSession`: a session's
  context dies with its turn in `run` (`SessionInv`), and a request under way
  carries what the server does not have yet (`PublishInv`). `GeckoReassembly`:
  the table's counts and caps (`TableInv`), and for the whole packets that every
  frame under way is a chunk of a packet that was sent and every entry holds chunks
  of one packet in their places (`FrameInv`, `EntryInv`); while a message ID has
  not wrapped, chunks with one ID are of one packet. `DefragsExactly` compares
  `Feed` with a reference that looks back over everything fed so far:
  `AssemblyInv` says that the Defragger holds what came in the window of the last
  fragment, and `count` and `size` are those of what it holds; `CutInv` and
  `OnceInv`, that the fragments of a message are cut to one size and none arrives
  twice, turn the reference's window into the message.
* `CongestionProofs`. `FilterFresh` is inductive, by cases on how far the estimates
  have expired. `WindowWithinLimits` needs that the limits stay whole numbers of
  the present datagram through resizes (`LimitsInv`), that the recovery window is
  within them once recovery has begun (`WindowsInv`), and which gains belong to
  which mode (`ModeInv`). `BrutalPaces`: each of the five slots holds the counts of
  the last second with events among those that share it (`RingInv`), so the slots
  read backwards from the present one are the last five seconds, and so are the sums;
  `PacerWakes` follows the rounding of `TimeUntilSend`. `SampledAtSend`: the queue
  has every outstanding packet under its own number whatever gaps and removals
  (`QueueInv`; `OpenIsUnacked` is where the threshold of 3 is needed), and no
  acknowledgement point is ahead of what was acknowledged (`PointsInv`).
* `AppProofs`. `FastOpenSafe` (`DialInv`: one holder of the lock, a dial only while
  nothing is known of the connection; `DeadlineInv`: which of the three fields holds
  the deadline asked for last in each direction); `ReloadsAreSafe` (`CertInv`: along
  a handshake, modification times are never newer than what was loaded after them;
  `GeoInv`: a download under way counts as tried);
  `TunnelClosesSessions` (`ClosingInv`: an open session has its goroutine, or a
  cleanup that has marked it and still has it in the map);
  `NoOrphanListener`; `InboundServesItsClient` (`ConnOK`, one predicate on the
  record of a connection); `AttemptsLeaveNothing` (`AttemptInv`: what an attempt
  has opened at each step); `OnlyGivenStayOpen` (`ResultsInv`, `FlowInv`,
  `OpenInv`: every result of a dial has one taker, every open socket an owner);
  `SniffingIsHarmless` (`SniffInv`: what was taken is in `pre`, in the tee's buffer
  or put back, in order; and for UDP, the sorted frames follow one another without
  a gap exactly if the bytes they cover are the whole hello and no two overlap,
  `AssemblesWhole`); `BilledOnce` (`WireInv`, `KickInv`: bytes moved and not yet
  billed belong to a connection, kicks are consumed once); `SetupRollsBack`
  (`AddedIsUndone`: what this process added has a function in `closerFuncs` that
  removes it, or that has failed to; `JumpsGoFirst`: a chain is removed after every rule that jumps to it,
  or iptables would refuse; `ChainFirst`: the kernel has no such rule without the
  chain, so a chain that could be created has none left by an earlier process);
  `FirstRuleWins` (`AclInv`: the cache has nothing but results of the present rules
  for the key of some request). Its lemmas are about the algorithms: the recursive
  wildcard match is the one over all splits of the name (`DeepMatchMeans`), the
  binary search over sorted networks finds an address exactly if some network has
  it (`SearchFinds`), the index of full and root domains answers like a scan
  (`IndexIsScan`), and a cache key determines the first rule.

Several of these arguments need an induction over data. It is done by a least
counterexample: the lemma `LeastNat` gives every non-empty set of numbers a
least element, and applied to the inputs on which a recursive function and its
meaning differ, it leaves one on which they agree one call further down. Sorted
lists, which the models choose, exist by the same lemma (`KeySort`).

Only model-checked: the liveness properties (`HandlerEnds`, `CloseReturns`,
`ReconnectLive`, `ServerGoroutinesEnd`, `ClientWaitsEnd`, `RealmStops`,
`InboundsUnwind`). Fairness and `ENABLED` are out of the prover's reach.

## 5. Observations

What the models show beside the findings; each is either allowed explicitly by
the property it touches or outside what a statement of the repository promises.

* `proxymux`: when the base listener fails while a dispatch goroutine waits for
  an `Accept`, `mainLoop` closes the channel it sends on (`muxPanic`).
* `fastopen.go`: two concurrent calls of `Close` before the first write would
  both close `readyChan`; the server closes once. A `SetDeadline` before the dial
  does not replace an earlier `SetReadDeadline` or `SetWriteDeadline`, which the
  dial applies after it.
* `ob_socks5.go`: when the UDP dial of an association fails, its control
  connection is not closed (`OnlyGivenStayOpen` leaves that path out).
* ACL: a port range that starts at 0 matches every port; the binary search of a
  country's networks may miss an address when networks overlap.
* `bandwidth_sampler.go`: `maxAckHeightTracker.Update` never sets the round of a
  new event; the last loop of `chooseA0Point` removes half of the points it
  passes.
* `geoloader.go`: an empty download passes the check and replaces a good file,
  although `shouldDownload` considers such a file broken; `LastGoodSurvives` names
  it. A `Stat` that fails for another reason than a missing file makes
  `shouldDownload` dereference nil (`panicked` in the model).
* `server.go`: the bytes a hook puts back are written to the target without the
  traffic logger being asked or told; `RefusedIsNotForwarded` counts them apart.
* `frag.go`: the count of slices is cut to eight bits; a message that needs 256
  slices or more makes `FragUDPMessage` index past its slots. That takes an
  address so long that it leaves a few bytes of a datagram for data.
* `udphop/conn.go`: after an error of `ReadFrom` that is no timeout the socket
  stays open and nobody reads it until it is hopped away.
* `firewall_linux.go`: the errors of the undo commands are discarded and `Close`
  returns nil; what such a command was to remove stays, and with it the chain.
* The client waits for the server without a timeout in `TCP` and while it
  authenticates, and a write to the tunnel is not ended by closing the stream
  (see Fairness).
* `http/server.go:206`: `httpClient` is created without synchronisation, so two
  connections may each create one; the later replaces the earlier.
* `forwarding/udp.go`: an entry inserted after its goroutine has ended stays in
  the table, and its source is not served again; the comment at lines 122-123
  relies on the goroutine to remove it.
* `app/cmd/server.go`: a fatal error after `fillConn` leaves redirect rules in
  the kernel, and with iptables the next start then fails at creating its chain.
  An address update of the realm is lost when its heartbeat fails or a responder
  refreshes at the same time, and `Close` during `register` leaves a session at
  the rendezvous server until it expires.
* `app/cmd/client.go`: the socket and mapping of a realm attempt are not released
  when `verifyAndFill` refuses the configuration, nor those of a client found
  dead; nothing waits for `realmPortMapLoop` at exit.
* After 2^32 sessions on one connection the client's `nextID` gives out an ID
  that may still be in use; `MappedIsOpen` is proved for that case too, the
  properties about answers are not true of it.
* PacketIDs are random 16-bit numbers: when two messages draw the same one and
  lose complementary fragments, `Feed` joins them, which is why the part of
  `DefragsExactly` about whole messages is stated for distinct ones. The same
  holds for gecko's message ID once it wraps.

## 6. Not modelled

* Encodings without state: the wire format, Salamander's XOR, URLs, sharing,
  configuration texts, the ACL's text parser. They are sequential functions with
  table tests; the models carry the decoded values.
* External protocols: STUN, NAT-PMP/UPnP, DNS messages, the HTTP of masquerade
  and authenticators, the SOCKS5 and HTTP bytes of proxies, TLS and QUIC. Their
  outcomes are choices of the environment.
* The pacing rate of BBR, on which no window depends.
* The address policy cache of a UDP session (`checkAddr`), which memoises a pure
  function.
* One-shot commands (speed test, ping, update, certificate and ECH tools) and
  generated code.
