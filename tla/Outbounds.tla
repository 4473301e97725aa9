----------------------------- MODULE Outbounds ------------------------------
(***************************************************************************)
(* One request through a resolver and an outbound of extras/outbounds: the *)
(* two lookups of dns_standard.go (and dns_https.go, without retries), the *)
(* direct outbound with its race of IPv4 and IPv6 (ob_direct.go), and the  *)
(* proxies of ob_socks5.go and ob_http.go.  DNS servers, targets and       *)
(* proxies are external: each answer is a choice.                          *)
(***************************************************************************)
EXTENDS Naturals, Sequences, FiniteSets

CONSTANTS
    ObModes,        \* DirectOutboundMode: "auto", "64", "46", "6", "4"
    Names,          \* host names that CNAME records lead to
    HostName,       \* the name of the request, one of Names
    RetryTimes,     \* standardResolverRetryTimes (1 for DNS over HTTPS)
    MaxCNAMEDepth   \* maxCNAMEDepth

Families == {"v4", "v6"}
ObSockets == Families \cup {"control", "assoc"}
\* control: the TCP connection to a proxy; assoc: the UDP socket of an association

VARIABLES
    dialReq,      \* what is asked: outbound, protocol, mode, whether addresses are bound
    obCall,       \* control point of the request
    lookups,      \* per family: the lookup goroutine
    resolveInfo,  \* families that have an address, and whether an error is set
    dials,        \* per family: "none", "dialing", "ended"
    results,      \* the channel of dualStackDialTCP
    reaper,       \* the goroutine that closes the loser: "none", "wait", "done"
    obSocket,     \* per socket: "none", "open", "closed"
    given,        \* the sockets that the caller holds
    hold          \* hold of a SOCKS5 association: "none", "run", "done"

obVars == <<dialReq, obCall, lookups, resolveInfo, dials, results, reaper, obSocket, given, hold>>

NoLookup == [state |-> "none", name |-> HostName, seen |-> {}, depth |-> 0, tries |-> 0]
NoDial == [ob |-> "direct", proto |-> "tcp", mode |-> "auto", bind |-> FALSE]

InitOb ==
    /\ dialReq = NoDial
    /\ obCall = "idle"
    /\ lookups = [f \in Families |-> NoLookup]
    /\ resolveInfo = [has |-> {}, err |-> FALSE]
    /\ dials = [f \in Families |-> "none"] /\ results = <<>> /\ reaper = "none"
    /\ obSocket = [s \in ObSockets |-> "none"] /\ given = {} /\ hold = "none"

-----------------------------------------------------------------------------
(* The resolver *)

\* TCP and UDP of a resolver: resolve starts the two lookups.  A host that is an
\* IP address needs none (tryParseIP).
Request(r) ==
    /\ obCall = "idle"
    /\ dialReq' = r
    /\ \/ /\ obCall' = "resolve"
          /\ lookups' = [f \in Families |-> [NoLookup EXCEPT !.state = "run"]]
          /\ UNCHANGED resolveInfo
       \/ /\ obCall' = "next"
          /\ \E f \in Families : resolveInfo' = [has |-> {f}, err |-> FALSE]
          /\ UNCHANGED lookups
    /\ UNCHANGED <<dials, results, reaper, obSocket, given, hold>>

Lookup(f, l) == lookups' = [lookups EXCEPT ![f] = l]

\* The lookup failed: it is tried again from the start, RetryTimes in all.
LookupFailed(l) ==
    IF l.tries + 1 < RetryTimes THEN [NoLookup EXCEPT !.state = "run", !.tries = l.tries + 1]
    ELSE [l EXCEPT !.state = "error"]

\* lookup4WithCNAMEDepth, lookup6WithCNAMEDepth: one Exchange, and its answer.
\* A name that was asked before, or a chain that is too long, is an error.
LookupStep(f) ==
    LET l == lookups[f]
        asked == [l EXCEPT !.seen = @ \cup {l.name}]
    IN /\ l.state = "run"
       /\ \/ Lookup(f, LookupFailed(l))
          \/ /\ l.depth <= MaxCNAMEDepth /\ l.name \notin l.seen
             /\ \/ Lookup(f, [asked EXCEPT !.state = "address"])
                \/ Lookup(f, [asked EXCEPT !.state = "empty"])
                \/ \E n \in Names : Lookup(f, [asked EXCEPT !.name = n, !.depth = @ + 1])
       /\ UNCHANGED <<dialReq, obCall, resolveInfo, dials, results, reaper, obSocket, given, hold>>

\* resolve ends when both lookups have; the outbound is called in any case.
Resolved ==
    /\ obCall = "resolve"
    /\ \A f \in Families : lookups[f].state \in {"address", "empty", "error"}
    /\ resolveInfo' = [has |-> {f \in Families : lookups[f].state = "address"},
                       err |-> \E f \in Families : lookups[f].state = "error"]
    /\ obCall' = "next"
    /\ UNCHANGED <<dialReq, lookups, dials, results, reaper, obSocket, given, hold>>

-----------------------------------------------------------------------------
(* The direct outbound *)

\* The family that a mode takes when it takes one; "none" is noAddressError.
Preferred(mode, has) ==
    LET first == IF mode \in {"64", "6"} THEN "v6" ELSE "v4"
        other == IF first = "v4" THEN "v6" ELSE "v4"
    IN IF first \in has THEN first
       ELSE IF mode \in {"4", "6"} THEN "none" ELSE other

\* TCP without an address (resolveError), or without one the mode accepts.
DirectRefused ==
    /\ obCall = "next" /\ dialReq.ob = "direct"
    /\ dialReq.proto = "tcp" \/ dialReq.bind
    /\ resolveInfo.has = {} \/ Preferred(dialReq.mode, resolveInfo.has) = "none"
    /\ obCall' = "failed"
    /\ UNCHANGED <<dialReq, lookups, resolveInfo, dials, results, reaper, obSocket, given, hold>>

\* TCP: one family, or both of them (dualStackDialTCP).
DirectTCP ==
    LET both == dialReq.mode = "auto" /\ resolveInfo.has = Families
        f == Preferred(dialReq.mode, resolveInfo.has)
    IN /\ obCall = "next" /\ dialReq.ob = "direct" /\ dialReq.proto = "tcp"
       /\ resolveInfo.has # {} /\ f # "none"
       /\ obCall' = IF both THEN "race" ELSE "single"
       /\ dials' = [g \in Families |-> IF both \/ g = f THEN "dialing" ELSE "none"]
       /\ UNCHANGED <<dialReq, lookups, resolveInfo, results, reaper, obSocket, given, hold>>

\* A dial ends and its goroutine sends the result.
DialEnds(f, ok) ==
    /\ dials[f] = "dialing"
    /\ dials' = [dials EXCEPT ![f] = "ended"]
    /\ obSocket' = IF ok THEN [obSocket EXCEPT ![f] = "open"] ELSE obSocket
    /\ results' = Append(results, [family |-> f, ok |-> ok])
    /\ UNCHANGED <<dialReq, obCall, lookups, resolveInfo, reaper, given, hold>>

Take(ok, f) == /\ obCall' = IF ok THEN "ok" ELSE "failed"
               /\ given' = IF ok THEN {f} ELSE {}

\* The call returns the first success and leaves the other result to the
\* reaper; after a failure it returns whatever the other result is.
FirstResult ==
    LET r == Head(results)
    IN /\ results # <<>> /\ obCall \in {"race", "single"}
       /\ results' = Tail(results)
       /\ IF obCall = "single" \/ r.ok THEN Take(r.ok, r.family)
                                       ELSE obCall' = "second" /\ UNCHANGED given
       /\ reaper' = IF obCall = "race" /\ r.ok THEN "wait" ELSE reaper
       /\ UNCHANGED <<dialReq, lookups, resolveInfo, dials, obSocket, hold>>

SecondResult ==
    /\ results # <<>> /\ obCall = "second"
    /\ results' = Tail(results)
    /\ Take(Head(results).ok, Head(results).family)
    /\ UNCHANGED <<dialReq, lookups, resolveInfo, dials, reaper, obSocket, hold>>

\* Mutation: the loser of the race is not closed.
CloseNone(f) == obSocket' = obSocket

CloseOne(f) == obSocket' = [obSocket EXCEPT ![f] = IF @ = "open" THEN "closed" ELSE @]

Reap ==
    /\ reaper = "wait" /\ results # <<>>
    /\ results' = Tail(results)
    /\ CloseOne(Head(results).family)
    /\ reaper' = "done"
    /\ UNCHANGED <<dialReq, obCall, lookups, resolveInfo, dials, given, hold>>

\* UDP: a socket of both families (bound to the device, or closed again), or one
\* of the family that the mode takes for this address, if one is bound.
DirectUDP ==
    /\ obCall = "next" /\ dialReq.ob = "direct" /\ dialReq.proto = "udp"
    /\ dialReq.bind => resolveInfo.has # {} /\ Preferred(dialReq.mode, resolveInfo.has) # "none"
    /\ LET used == IF dialReq.bind THEN {Preferred(dialReq.mode, resolveInfo.has)} ELSE Families
       IN \/ /\ obSocket' = [s \in ObSockets |-> IF s \in used THEN "open" ELSE obSocket[s]]
             /\ given' = used /\ obCall' = "ok"
          \/ /\ obCall' = "failed" /\ UNCHANGED <<given, obSocket>>
    /\ UNCHANGED <<dialReq, lookups, resolveInfo, dials, results, reaper, hold>>

\* WriteTo of such a socket: the family it sends to, or none (an error).
WriteFamily(has) ==
    IF given = Families THEN IF has = {} THEN "none" ELSE Preferred(dialReq.mode, has)
    ELSE IF \E f \in given : f \in has THEN CHOOSE f \in given : TRUE ELSE "none"

-----------------------------------------------------------------------------
(* The proxies *)

ProxyDial ==
    /\ obCall = "next" /\ dialReq.ob # "direct"
    /\ \/ /\ ~(dialReq.ob = "http" /\ dialReq.proto = "udp")
          /\ obSocket' = [obSocket EXCEPT !["control"] = "open"] /\ obCall' = "talk"
       \/ obCall' = "failed" /\ UNCHANGED obSocket
    /\ UNCHANGED <<dialReq, lookups, resolveInfo, dials, results, reaper, given, hold>>

\* Negotiation and request: any error, timeout or refusal closes the connection.
ProxyFails ==
    /\ obCall = "talk"
    /\ obCall' = "failed" /\ CloseOne("control")
    /\ UNCHANGED <<dialReq, lookups, resolveInfo, dials, results, reaper, given, hold>>

\* CONNECT is granted (data that came with the reply stays readable: cachedConn).
ProxyConnects ==
    /\ obCall = "talk" /\ dialReq.proto = "tcp"
    /\ obCall' = "ok" /\ given' = {"control"}
    /\ UNCHANGED <<dialReq, lookups, resolveInfo, dials, results, reaper, obSocket, hold>>

\* newSOCKS5UDPConn.  When its Dial fails nobody closes the control connection.
ProxyAssociates ==
    /\ obCall = "talk" /\ dialReq.proto = "udp"
    /\ \/ /\ obCall' = "ok" /\ given' = {"control", "assoc"} /\ hold' = "run"
          /\ obSocket' = [obSocket EXCEPT !["assoc"] = "open"]
       \/ obCall' = "abandoned" /\ UNCHANGED <<given, hold, obSocket>>
    /\ UNCHANGED <<dialReq, lookups, resolveInfo, dials, results, reaper>>

\* hold: the control connection ended, by the proxy or by Close.
ControlHoldEnds ==
    /\ hold = "run"
    /\ hold' = "done"
    /\ obSocket' = [obSocket EXCEPT !["control"] = "closed", !["assoc"] = "closed"]
    /\ UNCHANGED <<dialReq, obCall, lookups, resolveInfo, dials, results, reaper, given>>

\* The caller closes what it was given.
CallerCloses ==
    /\ obCall = "ok"
    /\ obCall' = "closed" /\ given' = {}
    /\ obSocket' = [s \in ObSockets |-> IF s \in given THEN "closed" ELSE obSocket[s]]
    /\ UNCHANGED <<dialReq, lookups, resolveInfo, dials, results, reaper, hold>>

NextOb ==
    \/ \E ob \in {"direct", "socks5", "http"}, proto \in {"tcp", "udp"}, mode \in ObModes, bind \in BOOLEAN :
          /\ bind => ob = "direct" /\ proto = "udp"
          /\ Request([ob |-> ob, proto |-> proto, mode |-> mode, bind |-> bind])
    \/ \E f \in Families : LookupStep(f) \/ DialEnds(f, TRUE) \/ DialEnds(f, FALSE)
    \/ Resolved \/ DirectRefused \/ DirectTCP \/ FirstResult \/ SecondResult \/ Reap \/ DirectUDP
    \/ ProxyDial \/ ProxyFails \/ ProxyConnects \/ ProxyAssociates \/ ControlHoldEnds \/ CallerCloses

SpecOb == InitOb /\ [][NextOb]_obVars

-----------------------------------------------------------------------------
(* Properties *)

\* Once the call has ended and the loser of the race is reaped, the only sockets
\* open are those the caller holds, whichever dial came first and whatever failed:
\* no dial is left behind that could still open one.  The connection is of a
\* family that the mode accepts and the name has.  Left out is one path that
\* does leak: a SOCKS5 association whose UDP dial fails.
OnlyGivenStayOpen ==
    /\ (obCall \in {"ok", "failed", "closed"} /\ reaper # "wait")
          => /\ {s \in ObSockets : obSocket[s] = "open"} \subseteq given
             /\ \A f \in Families : dials[f] # "dialing"
    /\ (obCall = "ok" /\ hold # "done") => \A s \in given : obSocket[s] = "open"
    /\ (obCall = "ok" /\ dialReq.ob = "direct" /\ dialReq.proto = "tcp")
          => /\ given \subseteq resolveInfo.has
             /\ (dialReq.mode = "4" => given = {"v4"}) /\ (dialReq.mode = "6" => given = {"v6"})
    /\ (obCall = "ok" /\ dialReq.ob = "direct" /\ dialReq.proto = "udp" /\ dialReq.bind)
          => WriteFamily(resolveInfo.has) \in given
=============================================================================
