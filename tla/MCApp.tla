------------------------------- MODULE MCApp -------------------------------
(***************************************************************************)
(* The components around the core, side by side: local inbounds and their   *)
(* multiplexer, outbounds, ACL, sniffer, traffic statistics, the loaders of *)
(* files, and the server and client commands.  They share no variable: a    *)
(* behaviour moves one of them and leaves the others at their initial       *)
(* states.                                                                  *)
(***************************************************************************)
EXTENDS ProxyMux, FastOpen, TrafficStats, Outbounds, ACLEngine, Sniffer, FileLoaders,
        LocalInbounds, UDPTunnel, ServerSetup, ClientApp

CONSTANTS w1, w2, r1, u1, c1, c2, h1, h2, a, b

VARIABLE part   \* the component that moves

MCUserOf == (c1 :> u1) @@ (c2 :> u1)

MCBinaries == <<"iptables", "ip6tables">>
MCRedirects == <<1, 2>>

----------------------------------------------------------------------------
(* A rule file for every kind of address, protocol and port, and requests   *)
(* that tell them apart.                                                     *)

Line(out, address, proto, ports, hijack) ==
    [out |-> out, address |-> address, proto |-> proto, ports |-> ports, hijack |-> hijack]

Host(name, v4, v6) == [name |-> name, v4 |-> v4, v6 |-> v6]

MCOuts == <<"proxy">>

Domains == {[type |-> "full", value |-> <<"www", ".", "a">>, attrs |-> {}],
            [type |-> "root", value |-> <<"b">>, attrs |-> {"ads"}],
            [type |-> "plain", value |-> <<"www">>, attrs |-> {}],
            [type |-> "regex", value |-> {<<"b">>}, attrs |-> {}]}

GeoIP(inverse) ==
    [kind |-> "geoip", inverse |-> inverse,
     n4 |-> {[ip |-> 0, size |-> 2], [ip |-> 4, size |-> 1], [ip |-> 6, size |-> 2]},
     n6 |-> {[ip |-> 8, size |-> 4]}]

MCTextRules ==
    {Line("direct", [kind |-> "all"], "tcp", <<>>, NoHijack),
     Line("reject", [kind |-> "suffix", name |-> <<"a">>], "both", <<80>>, NoHijack),
     Line("proxy", [kind |-> "exact", name |-> <<"www", ".", "a">>], "both", <<>>, Host(<<>>, 1, NoIP)),
     Line("direct", [kind |-> "wildcard", name |-> <<"*", ".", "b">>], "both", <<53, 80>>, NoHijack),
     Line("reject", [kind |-> "ip", ip |-> 5, v6 |-> FALSE], "both", <<>>, NoHijack),
     Line("reject", [kind |-> "cidr", ip |-> 4, size |-> 4, v6 |-> FALSE], "udp", <<>>, NoHijack),
     Line("direct", GeoIP(FALSE), "both", <<>>, NoHijack),
     Line("reject", GeoIP(TRUE), "both", <<0, 53>>, NoHijack),
     Line("direct", [kind |-> "geosite", domains |-> Domains, attrs |-> {}], "both", <<>>, NoHijack),
     Line("default", [kind |-> "geosite", domains |-> Domains, attrs |-> {"ads"}], "both", <<>>, NoHijack),
     Line("direct", [kind |-> "unknown"], "both", <<>>, NoHijack),
     Line("direct", [kind |-> "all"], "both", <<>>, BadHijack)}

Req(host, proto, port) == [host |-> host, proto |-> proto, port |-> port]

MCAclRequests ==
    {Req(Host(<<"www", ".", "a">>, 5, NoIP), "tcp", 80), Req(Host(<<"www", ".", "a">>, 5, NoIP), "tcp", 53),
     Req(Host(<<"b", ".">>, 4, NoIP), "udp", 53), Req(Host(<<"c", ".", "b">>, 7, NoIP), "udp", 443),
     Req(Host(<<"c", ".", "b", ".">>, 2, NoIP), "tcp", 53), Req(Host(<<"d">>, 5, 11), "udp", 53)}

----------------------------------------------------------------------------

\* Initial choices are made only by the component that moves.
InitAll ==
    /\ part \in {"mux", "fast", "stats", "outbounds", "acl", "sniff", "cert", "geo", "inbounds", "tunnel",
                 "server", "client"}
    /\ InitMux /\ InitFast /\ InitStats /\ InitOb /\ InitACL /\ InitSniff /\ InitCert /\ InitGeo
    /\ InitInb /\ InitTun /\ InitSetup /\ InitApp
    /\ part # "geo" => geoFile = "absent"
    /\ part # "client" => ~realmAddr /\ ~portMapping /\ modeAt = << >>

\* Every component but p stays where it is.
Others(p) ==
    /\ UNCHANGED part
    /\ IF p = "mux" THEN TRUE ELSE UNCHANGED muxVars
    /\ IF p = "fast" THEN TRUE ELSE UNCHANGED fastVars
    /\ IF p = "stats" THEN TRUE ELSE UNCHANGED statVars
    /\ IF p = "outbounds" THEN TRUE ELSE UNCHANGED obVars
    /\ IF p = "acl" THEN TRUE ELSE UNCHANGED aclVars
    /\ IF p = "sniff" THEN TRUE ELSE UNCHANGED sniffVars
    /\ IF p = "cert" THEN TRUE ELSE UNCHANGED certVars
    /\ IF p = "geo" THEN TRUE ELSE UNCHANGED geoVars
    /\ IF p = "inbounds" THEN TRUE ELSE UNCHANGED inb
    /\ IF p = "tunnel" THEN TRUE ELSE UNCHANGED tunVars
    /\ IF p = "server" THEN TRUE ELSE UNCHANGED setupVars
    /\ IF p = "client" THEN TRUE ELSE UNCHANGED appVars

NextAll ==
    \/ part = "mux" /\ NextMux /\ Others("mux")
    \/ part = "fast" /\ NextFast /\ Others("fast")
    \/ part = "stats" /\ NextStats /\ Others("stats")
    \/ part = "outbounds" /\ NextOb /\ Others("outbounds")
    \/ part = "acl" /\ NextACL /\ Others("acl")
    \/ part = "sniff" /\ NextSniff /\ Others("sniff")
    \/ part = "cert" /\ NextCert /\ Others("cert")
    \/ part = "geo" /\ NextGeo /\ Others("geo")
    \/ part = "inbounds" /\ NextInb /\ Others("inbounds")
    \/ part = "tunnel" /\ NextTun /\ Others("tunnel")
    \/ part = "server" /\ NextSetup /\ Others("server")
    \/ part = "client" /\ NextApp /\ Others("client")
============================================================================
