--------------------------- MODULE LocalInbounds ---------------------------
(***************************************************************************)
(* The local inbounds of the client app: SOCKS5, HTTP, TCP forwarding,      *)
(* redirect, TProxy and TUN.  Each accepts a local connection (or a flow of *)
(* local datagrams), may ask for credentials, opens a stream or a UDP       *)
(* session through the Hysteria client and relays with goroutines that      *)
(* report to the handler through errChan.  The table of UDP forwarding is   *)
(* the module UDPTunnel.                                                    *)
(*                                                                          *)
(* A connection is one record: its handler (at), the credentials its        *)
(* request carries, its three resources (the local connection, the tunnel's *)
(* stream or session, the UDP socket of a SOCKS5 association), its          *)
(* goroutines and the results waiting in errChan.                           *)
(***************************************************************************)
EXTENDS Naturals, Sequences, FiniteSets

CONSTANTS Inbound,      \* local connections
          Senders,      \* sources of datagrams at a SOCKS5 UDP port
          ErrChanCap,   \* capacity of errChan: 2
          MaxOut        \* bound: chunks forwarded per connection

ASSUME SendersAssumption == "none" \notin Senders
ASSUME ErrChanAssumption == ErrChanCap \in Nat /\ ErrChanCap >= 2

VARIABLES inb

Kinds == {"socks5", "http", "forward", "redirect", "tproxy", "tun", "tunudp", "tproxyudp"}

\* What AuthFunc says of the user name and password of a request; none at all are bad.
Credentials == {"good", "bad"}

\* served is history: the credentials of the requests for which the tunnel was used.
Fresh == [kind |-> "none", at |-> "none", auth |-> FALSE, cred |-> "bad", served |-> {},
          local |-> "none", remote |-> "none", sock |-> "none",
          up |-> "none", down |-> "none", hold |-> "none", errs |-> 0,
          client |-> "none", senders |-> {}, early |-> 0, pending |-> 0, out |-> << >>]

InitInb == inb = [c \in Inbound |-> Fresh]

Set(c, rec) == inb' = [inb EXCEPT ![c] = rec]

\* The handler returns after its deferred closes.  A TUN connection is closed by the stack
\* that called the handler.
Closed(r) == IF r = "open" THEN "closed" ELSE r

Released(r) == [r EXCEPT !.at = "done", !.local = Closed(r.local), !.remote = Closed(r.remote),
                         !.sock = Closed(r.sock)]

----------------------------------------------------------------------------
(* Up to the request.                                                       *)

\* Serve and ListenAndServe of every inbound: one goroutine per connection.  The first data
\* of a flow starts TUN and TProxy UDP.
Accept(c) ==
    /\ inb[c].at = "none"
    /\ \E kind \in Kinds, auth \in BOOLEAN :
         /\ auth => kind \in {"socks5", "http"}
         /\ Set(c, [Fresh EXCEPT !.kind = kind, !.auth = auth,
                                 !.local = IF kind = "tproxyudp" THEN "none" ELSE "open",
                                 !.at = CASE kind = "socks5" -> "negotiate"
                                          [] kind = "http" -> "http"
                                          [] kind \in {"tunudp", "tproxyudp"} -> "udp"
                                          [] OTHER -> "tcp"])

\* AuthFunc is nil, or accepts.
Admits(c, cred) == inb[c].auth => cred = "good"

\* negotiate: a broken or unsupported offer, or wrong credentials, end the connection.
SocksNegotiate(c) ==
    /\ inb[c].at = "negotiate"
    /\ \/ Set(c, Released(inb[c]))
       \/ \E cred \in Credentials :
            Set(c, IF Admits(c, cred) THEN [inb[c] EXCEPT !.at = "request", !.cred = cred]
                                      ELSE Released(inb[c]))

\* dispatch: CONNECT, UDP ASSOCIATE, or an error reply.
SocksDispatch(c) ==
    /\ inb[c].at = "request"
    /\ \/ Set(c, Released(inb[c]))
       \/ \E cmd \in {"tcp", "udp"} : Set(c, [inb[c] EXCEPT !.at = cmd])

\* A request that was let in: a plain one, or CONNECT; what bufio.Reader holds beyond a
\* CONNECT request is kept for the relay in a cachedConn.
Dispatched(c, cred) ==
    \/ Set(c, [inb[c] EXCEPT !.at = "httpreq", !.cred = cred])
    \/ \E n \in {0, 1} : Set(c, [inb[c] EXCEPT !.at = "tcp", !.cred = cred,
                                               !.early = n, !.pending = n])

\* Mutation: a kept-alive connection is asked for its credentials only once.
HTTPDispatchOnce(c) ==
    /\ inb[c].at = "http"
    /\ \/ Set(c, Released(inb[c]))
       \/ \E cred \in Credentials :
            IF Admits(c, cred) \/ inb[c].served # {} THEN Dispatched(c, cred)
                                                     ELSE Set(c, Released(inb[c]))

\* dispatch: the connection ends, or carries a request whose credentials are checked (407
\* and the end of the connection when they are wrong), each request's anew.
HTTPDispatch(c) ==
    /\ inb[c].at = "http"
    /\ \/ Set(c, Released(inb[c]))
       \/ \E cred \in Credentials :
            IF Admits(c, cred) THEN Dispatched(c, cred) ELSE Set(c, Released(inb[c]))

\* The tunnel is used for the request at hand.
Uses(r) == [r EXCEPT !.served = @ \union {r.cred}]

\* handleRequest: a request without a host is refused.  Otherwise http.Client sends it over
\* an idle connection of its pool, or over one that DialContext opens with HyClient.TCP; the
\* pool, not this handler, closes these.  An error is answered with 502 and ends the
\* connection; after a response keep-alive returns to dispatch.
HTTPHandleRequest(c) ==
    /\ inb[c].at = "httpreq"
    /\ \/ Set(c, Released(inb[c]))
       \/ Set(c, Released(Uses(inb[c])))
       \/ Set(c, [Uses(inb[c]) EXCEPT !.at = "http"])

----------------------------------------------------------------------------
(* One handler per inbound: dial, then two copying goroutines.              *)

\* HyClient.TCP or UDP fails, or both directions start.
Relay(c) ==
    \/ Set(c, Released(Uses(inb[c])))
    \/ Set(c, [Uses(inb[c]) EXCEPT !.at = "relay", !.remote = "open", !.up = "run", !.down = "run"])

SocksHandleTCP(c) == inb[c].at = "tcp" /\ inb[c].kind = "socks5" /\ Relay(c)

HTTPHandleConnect(c) == inb[c].at = "tcp" /\ inb[c].kind = "http" /\ Relay(c)

ForwardHandle(c) == inb[c].at = "tcp" /\ inb[c].kind = "forward" /\ Relay(c)

\* getDstAddr may fail first.
RedirectHandle(c) ==
    /\ inb[c].at = "tcp" /\ inb[c].kind = "redirect"
    /\ Relay(c) \/ Set(c, Released(inb[c]))

TProxyHandle(c) == inb[c].at = "tcp" /\ inb[c].kind = "tproxy" /\ Relay(c)

TunNewConnection(c) == inb[c].at = "tcp" /\ inb[c].kind = "tun" /\ Relay(c)

TunNewPacketConnection(c) == inb[c].at = "udp" /\ inb[c].kind = "tunudp" /\ Relay(c)

\* newPair: the socket that speaks for the destination, the session, the first packet.
TProxyNewPair(c) ==
    /\ inb[c].at = "udp" /\ inb[c].kind = "tproxyudp"
    /\ \/ Set(c, Released(inb[c]))
       \/ Set(c, Released(Uses(inb[c])))
       \/ Set(c, [Uses(inb[c]) EXCEPT !.at = "relay", !.local = "open", !.remote = "open",
                                !.up = "run", !.down = "run"])

\* handleUDP: the UDP port, the session, then udpServer and the reader that holds the TCP
\* connection; the answering direction starts with the first datagram.
SocksHandleUDP(c) ==
    /\ inb[c].at = "udp" /\ inb[c].kind = "socks5"
    /\ \/ Set(c, Released(inb[c]))
       \/ Set(c, Released(Uses(inb[c])))
       \/ Set(c, [Uses(inb[c]) EXCEPT !.at = "relay", !.sock = "open", !.remote = "open",
                                !.up = "run", !.hold = "run"])

----------------------------------------------------------------------------
(* Relaying.                                                                *)

\* The local side is read (cachedConn.Read: what the dispatcher had buffered, then the
\* connection) and the chunk given to the tunnel, which may make the writer wait.
Forward(c) ==
    /\ inb[c].up = "run" /\ inb[c].sock = "none" /\ inb[c].local = "open" /\ inb[c].remote = "open"
    /\ Len(inb[c].out) < MaxOut
    /\ IF inb[c].pending > 0
       THEN Set(c, [inb[c] EXCEPT !.up = "write", !.out = Append(@, "early"), !.pending = @ - 1])
       ELSE Set(c, [inb[c] EXCEPT !.up = "write", !.out = Append(@, "later")])

\* udpServer: whoever sends the first good datagram is the client; others are ignored.
UDPServer(c) ==
    /\ inb[c].up = "run" /\ inb[c].sock = "open"
    /\ \E s \in Senders :
         /\ inb[c].client \in {"none", s}
         /\ Set(c, [inb[c] EXCEPT !.up = "write", !.client = s,
                                  !.down = IF inb[c].client = "none" THEN "run" ELSE @,
                                  !.senders = @ \union {s}])

\* Results through an unbuffered channel: the handler must be there to take them.
ReportUnbuffered(c, g) ==
    /\ inb[c].at = "relay"
    /\ inb[c].errs = 0
    /\ Set(c, [inb[c] EXCEPT ![g] = "ended", !.errs = @ + 1])

\* A goroutine ends when a side it uses is closed, or on its own at an end of stream, an
\* error or a read deadline; its result goes into errChan.
Report(c, g) ==
    /\ inb[c].errs < ErrChanCap
    /\ Set(c, [inb[c] EXCEPT ![g] = "ended", !.errs = @ + 1])

UpEnds(c) ==
    /\ inb[c].up = "run"
    /\ inb[c].sock # "open"     \* udpServer returns only when its socket is closed
    /\ Report(c, "up")

\* The tunnel takes the chunk, or the write fails; udpServer ignores the error of Send.
\* A write that waits for the peer's flow control is not ended by QStream.Close, which
\* cancels only reads and sends a FIN.
WriteReturns(c) ==
    /\ inb[c].up = "write"
    /\ \/ Set(c, [inb[c] EXCEPT !.up = "run"])
       \/ inb[c].sock = "none" /\ Report(c, "up")

HoldEnds(c) == inb[c].hold = "run" /\ Report(c, "hold")

\* The answering goroutine of a SOCKS5 association closes the socket instead of reporting.
DownEnds(c) ==
    /\ inb[c].down = "run"
    /\ IF inb[c].sock = "none"
       THEN Report(c, "down")
       ELSE Set(c, [inb[c] EXCEPT !.down = "ended", !.sock = Closed(@)])

\* closeErr = <-errChan, or ctx.Done() of TUN, and the deferred closes.
Finish(c) ==
    /\ inb[c].at = "relay"
    /\ \/ inb[c].errs > 0 /\ Set(c, [Released(inb[c]) EXCEPT !.errs = @ - 1])
       \/ inb[c].kind \in {"tun", "tunudp"} /\ Set(c, Released(inb[c]))

NextInb ==
    \E c \in Inbound :
        \/ Accept(c) \/ SocksNegotiate(c) \/ SocksDispatch(c)
        \/ HTTPDispatch(c) \/ HTTPHandleRequest(c)
        \/ SocksHandleTCP(c) \/ HTTPHandleConnect(c) \/ ForwardHandle(c) \/ RedirectHandle(c)
        \/ TProxyHandle(c) \/ TunNewConnection(c) \/ TunNewPacketConnection(c)
        \/ TProxyNewPair(c) \/ SocksHandleUDP(c)
        \/ Forward(c) \/ UDPServer(c) \/ UpEnds(c) \/ WriteReturns(c) \/ HoldEnds(c)
        \/ DownEnds(c) \/ Finish(c)

SpecInb == InitInb /\ [][NextInb]_inb

\* A goroutine that reads a closed resource gets the error and goes on, and so does a handler
\* with a result.  Nothing is assumed of a write to the tunnel.
Unwind(c) ==
    \/ inb[c].errs > 0 /\ Finish(c)
    \/ inb[c].local = "closed" /\ (HoldEnds(c) \/ UpEnds(c))
    \/ inb[c].sock = "closed" /\ UpEnds(c)
    \/ inb[c].remote = "closed" /\ DownEnds(c)

InboundFairness == \A c \in Inbound : WF_inb(Unwind(c))

----------------------------------------------------------------------------

Goroutines(r) == {r.up, r.down, r.hold}
Resources(r) == {r.local, r.remote, r.sock}

\* The goroutines that send a result to errChan: the answering one of an association does not.
Reporters(r) == {g \in {"up", "down", "hold"} : r[g] \in {"run", "write"} /\ (g = "down" => r.sock = "none")}

\* The tunnel is used only for requests with good credentials, on a kept-alive HTTP connection
\* for each of its requests; the bytes that arrived together with a CONNECT request are
\* forwarded first; a SOCKS5 association forwards for one client address only, the one it
\* answers.  errChan has room for every goroutine that will still report, so that none is left
\* blocked after the handler has taken the first result, and a handler that has returned has
\* left nothing open.
InboundServesItsClient ==
    \A c \in Inbound :
        /\ inb[c].auth => inb[c].served \subseteq {"good"}
        /\ inb[c].out # << >> => (inb[c].out[1] = "early" <=> inb[c].early = 1)
        /\ inb[c].senders \subseteq {inb[c].client}
        /\ inb[c].errs + Cardinality(Reporters(inb[c])) <= ErrChanCap
        /\ inb[c].at = "done" => "open" \notin Resources(inb[c])

\* When a goroutine has reported, the handler returns, everything it opened is closed and the
\* goroutines that only read end too, whatever the peer does.  When any goroutine of a relay
\* has ended all of this happens and no goroutine stays behind at all, unless a write to the
\* tunnel waits for the peer for ever.
InboundsUnwind ==
    \A c \in Inbound :
        /\ (inb[c].at = "relay" /\ inb[c].errs > 0)
               ~> /\ inb[c].at = "done" /\ "open" \notin Resources(inb[c])
                  /\ "run" \notin {inb[c].down, inb[c].hold}
        /\ \/ (inb[c].at = "relay" /\ "ended" \in Goroutines(inb[c]))
                 ~> /\ inb[c].at = "done" /\ "open" \notin Resources(inb[c])
                    /\ Goroutines(inb[c]) \subseteq {"none", "ended"}
           \/ <>[](inb[c].up = "write")
============================================================================
