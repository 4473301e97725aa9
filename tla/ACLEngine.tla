----------------------------- MODULE ACLEngine ------------------------------
(***************************************************************************)
(* The ACL engine: extras/outbounds/acl.go over the rule compiler and the  *)
(* matchers of extras/outbounds/acl.  A rule set is compiled once and then *)
(* answers requests through a cache.  A domain name is the sequence of its *)
(* parts, each dot a part of its own; an address is a number and an absent *)
(* one -1; a net is an address and the number of addresses its mask leaves *)
(* open.  Regular expressions and the geo databases are external.          *)
(***************************************************************************)
EXTENDS Integers, Sequences, SequencesExt, FiniteSetsExt

CONSTANTS
    TextRules,     \* the lines a rule file is made of: outbound, address, ports, hijack
    MaxRules,      \* bound on the lines of a file
    Outs,          \* the configured outbounds, in order
    AclRequests,   \* requests: host [name, v4, v6], protocol, port
    CacheSize      \* aclCacheSize

NoIP == -1
NoOutbound == "nil"

InNet(net, ip) == ip # NoIP /\ ip \div net.size = net.ip \div net.size

\* What the database lists for one country and one address family: no net holds
\* another.
NetList(nets) ==
    /\ IsFiniteSet(nets)
    /\ \A n \in nets : n.ip \in Nat /\ n.size \in Nat \ {0}
    /\ \A n, o \in nets : InNet(n, o.ip) => n = o

\* No outbound is called "nil", which stands for Go's nil here; ports are numbers.
ASSUME ACLAssumption ==
    /\ Outs \in Seq(STRING) /\ NoOutbound \notin ToSet(Outs) /\ CacheSize \in Nat /\ MaxRules \in Nat
    /\ \A t \in TextRules :
          /\ t.ports \in Seq(Nat) /\ Len(t.ports) <= 2
          /\ t.address.kind = "wildcard" => t.address.name \in Seq(STRING)
          /\ t.address.kind = "geoip" =>
                NetList(t.address.n4) /\ NetList(t.address.n6) /\ t.address.inverse \in BOOLEAN
          /\ t.address.kind = "geosite" =>
                \A d \in t.address.domains : d.type = "root" => d.value \in Seq(STRING)
    /\ \A req \in AclRequests :
          /\ req.port \in Nat /\ req.host.name \in Seq(STRING)
          /\ req.host.v4 \in Nat \cup {NoIP} /\ req.host.v6 \in Nat \cup {NoIP}

VARIABLES
    rules,      \* compiledRuleSetImpl.Rules, or <<>> before Compile
    aclState,   \* "new", "ready" or "error"
    aclCache,   \* the LRU cache: most recent first
    answer      \* history: the last request and what handle decided

aclVars == <<rules, aclState, aclCache, answer>>

NoHijack == [name |-> <<>>, v4 |-> NoIP, v6 |-> NoIP]
BadHijack == [NoHijack EXCEPT !.name = <<"invalid">>]

NoAnswer == [req |-> <<>>, out |-> NoOutbound, host |-> <<>>]

InitACL == rules = <<>> /\ aclState = "new" /\ aclCache = <<>> /\ answer = NoAnswer

-----------------------------------------------------------------------------
(* Matchers *)

\* The name itself, or what follows one of its dots.
HasSuffix(name, suffix) ==
    LET at == Len(name) - Len(suffix)
    IN name = suffix \/ (at > 0 /\ name[at] = "." /\ SubSeq(name, at + 1, Len(name)) = suffix)

\* deepMatchRune from part i of the name and part j of the pattern, in which "*"
\* stands for any parts of the name.
DeepMatch(str, pattern) ==
    LET match[x \in (1..(Len(str) + 1)) \X (1..(Len(pattern) + 1))] ==
            LET i == x[1]
                j == x[2]
            IN IF j > Len(pattern) THEN i > Len(str)
               ELSE IF pattern[j] = "*"
                 THEN match[<<i, j + 1>>] \/ (i <= Len(str) /\ match[<<i + 1, j>>])
               ELSE i <= Len(str) /\ str[i] = pattern[j] /\ match[<<i + 1, j + 1>>]
    IN match[<<1, 1>>]

\* geoipMatcher.matchIP: a binary search in the nets, which are sorted.
SearchNets(nets, ip) ==
    LET search[x \in (1..(Len(nets) + 1)) \X (0..Len(nets))] ==
            LET left == x[1]
                right == x[2]
                mid == (left + right) \div 2
            IN IF left > right THEN FALSE
               ELSE IF InNet(nets[mid], ip) THEN TRUE
               ELSE IF nets[mid].ip < ip THEN search[<<mid + 1, right>>]
               ELSE search[<<left, mid - 1>>]
    IN search[<<1, Len(nets)>>]

\* newGeoIPMatcher sorts each family; Match tries both addresses.
SortedNets(nets) ==
    CHOOSE s \in SetToSeqs(nets) : \A i, j \in DOMAIN s : i < j => s[i].ip <= s[j].ip
GeoIPMatch(m, host) ==
    LET Found(nets, ip) == ip # NoIP /\ SearchNets(SortedNets(nets), ip)
    IN IF Found(m.n4, host.v4) \/ Found(m.n6, host.v6) THEN ~m.inverse ELSE m.inverse

\* attrsAllow: a domain must have every attribute that the rule asks for.
AttrsAllow(m, d) == m.attrs \subseteq d.attrs

\* buildIndex: exact names, roots, and what is left to scan.
GeositeIndex(m) ==
    LET allowed == {d \in m.domains : AttrsAllow(m, d)}
    IN [full |-> {d.value : d \in {x \in allowed : x.type = "full"}},
        root |-> {d.value : d \in {x \in allowed : x.type = "root"}},
        residual |-> {d \in allowed : d.type \in {"plain", "regex"}}]

\* Plain is a substring; a regular expression is the set of names it matches.
ResidualMatch(d, name) ==
    IF d.type = "plain" THEN \E i, j \in 0..Len(name) : SubSeq(name, i + 1, j) = d.value
    ELSE name \in d.value

\* geositeMatcher.Match: the name, then what follows each of its dots.
GeositeMatch(m, name) ==
    LET ix == GeositeIndex(m)
    IN \/ name \in ix.full
       \/ name \in ix.root
       \/ \E i \in 1..Len(name) : name[i] = "." /\ SubSeq(name, i + 1, Len(name)) \in ix.root
       \/ \E d \in ix.residual : ResidualMatch(d, name)

\* The address of the host in the family of an address or a net.
SameFamily(m, host) == IF m.v6 THEN host.v6 ELSE host.v4

HostMatch(m, host) ==
    CASE m.kind = "all" -> TRUE
      [] m.kind = "ip" -> m.ip = SameFamily(m, host)
      [] m.kind = "cidr" -> InNet(m, SameFamily(m, host))
      [] m.kind = "exact" -> host.name = m.name
      [] m.kind = "suffix" -> HasSuffix(host.name, m.name)
      [] m.kind = "wildcard" -> DeepMatch(host.name, m.name)
      [] m.kind = "geoip" -> GeoIPMatch(m, host)
      [] m.kind = "geosite" -> GeositeMatch(m, host.name)

-----------------------------------------------------------------------------
(* Compile *)

\* parseProtoPort: the protocol, and no port, one port or a range.  Port 0 in
\* the compiled rule stands for all ports, also when it was written.
ParseProtoPort(t) ==
    [ok |-> t.proto \in {"both", "tcp", "udp"} /\ (Len(t.ports) = 2 => t.ports[1] <= t.ports[2]),
     start |-> IF t.ports = <<>> THEN 0 ELSE t.ports[1],
     end |-> IF t.ports = <<>> THEN 0 ELSE Last(t.ports)]

\* outboundsToMap: direct and reject are built in; default is the first.
KnownOutbounds == ToSet(Outs) \cup {"direct", "reject", "default"}
DefaultOutbound == IF "default" \in ToSet(Outs) THEN "default" ELSE IF Outs = <<>> THEN "direct" ELSE Outs[1]
OutboundOf(o) == IF o = "default" THEN DefaultOutbound ELSE o

\* compileHostMatcher refuses a database entry that does not exist.
Compilable(t) ==
    /\ t.out \in KnownOutbounds
    /\ t.address.kind # "unknown"
    /\ ParseProtoPort(t).ok
    /\ t.hijack # BadHijack

CompiledRule(t) ==
    [out |-> OutboundOf(t.out), host |-> t.address, proto |-> t.proto,
     start |-> ParseProtoPort(t).start, end |-> ParseProtoPort(t).end, hijack |-> t.hijack]

\* Compile: one bad line and there is no engine.
Compile(lines) ==
    /\ aclState = "new"
    /\ IF \A i \in DOMAIN lines : Compilable(lines[i])
         THEN aclState' = "ready" /\ rules' = [i \in DOMAIN lines |-> CompiledRule(lines[i])]
         ELSE aclState' = "error" /\ UNCHANGED rules
    /\ UNCHANGED <<aclCache, answer>>

-----------------------------------------------------------------------------
(* Match and handle *)

\* The name without its trailing dots.
Normalize(host) ==
    LET n == Min({k \in 0..Len(host.name) : \A i \in (k + 1)..Len(host.name) : host.name[i] = "."})
    IN [name |-> SubSeq(host.name, 1, n), v4 |-> host.v4, v6 |-> host.v6]

\* compiledRule.Match
RuleMatch(r, host, proto, port) ==
    /\ r.proto = "both" \/ r.proto = proto
    /\ r.start # 0 => r.start <= port /\ port <= r.end
    /\ HostMatch(r.host, host)

\* The first rule that matches, by index; 0 if none does.
FirstRule(rs, host, proto, port) ==
    LET hits == {i \in DOMAIN rs : RuleMatch(rs[i], host, proto, port)}
    IN IF hits = {} THEN 0 ELSE Min(hits)

\* Mutation: the port is not part of the key.
KeyOfHost(host, proto, port) == [host |-> host, proto |-> proto]

\* matchResultCacheKey
KeyOf(host, proto, port) == [host |-> host, proto |-> proto, port |-> port]

NoMatch == [out |-> NoOutbound, hijack |-> NoHijack]
Result(rs, i) == IF i = 0 THEN NoMatch ELSE [out |-> rs[i].out, hijack |-> rs[i].hijack]

\* Match: a cached result moves to the front; a new one, "no match" included, is
\* added and the oldest falls out.
Remember(entry, hits) ==
    IF hits # {} THEN <<entry>> \o RemoveAt(aclCache, Min(hits))
    ELSE SubSeq(<<entry>> \o aclCache, 1, Min({CacheSize, 1 + Len(aclCache)}))

\* handle: no match is the default outbound; a hijack replaces host and addresses.
Handle(req) ==
    LET host == Normalize(req.host)
        key == KeyOf(host, req.proto, req.port)
        hits == {i \in DOMAIN aclCache : aclCache[i].key = key}
        result == IF hits # {} THEN aclCache[Min(hits)].result
                  ELSE Result(rules, FirstRule(rules, host, req.proto, req.port))
    IN /\ aclState = "ready"
       /\ aclCache' = Remember([key |-> key, result |-> result], hits)
       /\ answer' = [req |-> req,
                     out |-> IF result.out = NoOutbound THEN DefaultOutbound ELSE result.out,
                     host |-> IF result.out # NoOutbound /\ result.hijack # NoHijack THEN result.hijack ELSE req.host]
       /\ UNCHANGED <<rules, aclState>>

NextACL ==
    \/ \E n \in 0..MaxRules : \E lines \in [1..n -> TextRules] : Compile(lines)
    \/ \E req \in AclRequests : Handle(req)

SpecACL == InitACL /\ [][NextACL]_aclVars

-----------------------------------------------------------------------------
(* Properties *)

\* What a matcher means: written without index, search or recursion.
WildcardMeans(name, pattern) ==
    \E cut \in [1..(Len(pattern) + 1) -> 0..Len(name)] :
       /\ cut[1] = 0 /\ cut[Len(pattern) + 1] = Len(name)
       /\ \A i \in 1..Len(pattern) :
             IF pattern[i] = "*" THEN cut[i] <= cut[i + 1]
             ELSE cut[i + 1] = cut[i] + 1 /\ name[cut[i + 1]] = pattern[i]
HostMeans(m, host) ==
    CASE m.kind = "geoip" ->
            (\/ \E n \in m.n4 : InNet(n, host.v4)
             \/ \E n \in m.n6 : InNet(n, host.v6)) # m.inverse
      [] m.kind = "wildcard" -> WildcardMeans(host.name, m.name)
      [] m.kind = "geosite" ->
            \E d \in m.domains : /\ AttrsAllow(m, d)
                                 /\ \/ d.type = "full" /\ host.name = d.value
                                    \/ d.type = "root" /\ HasSuffix(host.name, d.value)
                                    \/ d.type \in {"plain", "regex"} /\ ResidualMatch(d, host.name)
      [] OTHER -> HostMatch(m, host)

\* Every request is answered by the first rule that its host, protocol and port
\* satisfy (the default outbound if none does), whatever was asked before and
\* whatever the cache has kept or lost, and the indexed and searched matchers
\* mean what a scan of their lists means.  The nets of a country must not
\* overlap for that.
FirstRuleWins ==
    answer.req # <<>> =>
       LET req == answer.req
           Means(r) == /\ r.proto \in {"both", req.proto}
                       /\ r.start = 0 \/ req.port \in r.start..r.end
                       /\ HostMeans(r.host, Normalize(req.host))
           hits == {i \in DOMAIN rules : Means(rules[i])}
           first == Result(rules, IF hits = {} THEN 0 ELSE Min(hits))
       IN /\ answer.out = IF hits = {} THEN DefaultOutbound ELSE first.out
          /\ answer.host = IF first.hijack # NoHijack THEN first.hijack ELSE req.host
=============================================================================
