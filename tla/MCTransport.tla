---------------------------- MODULE MCTransport ----------------------------
(***************************************************************************)
(* The components between the QUIC connection and the network, side by side:*)
(* TCP relay, fragmentation, client sessions, port hopping, gecko, the      *)
(* congestion controllers and the realm runtime.  They share no variable,   *)
(* so interleaving them would only multiply states: a behaviour moves one   *)
(* of them and leaves the others at their initial states.                   *)
(***************************************************************************)
EXTENDS StreamCopy, UDPFragmentation, ClientUDP, UDPHop, Gecko, RealmRuntime, RealmPunch,
        WindowedFilter, BandwidthSampler, BBRSender, BrutalSender

CONSTANTS t1, s1, s2, p1, p2, a1, a2, c1, c2, c3

VARIABLE part   \* the component that moves

MCAttemptOf == (c1 :> a1) @@ (c2 :> a1) @@ (c3 :> a2)

\* Initial choices are made only by the component that moves.  The realm runtime has a
\* mapper and no responder: both change the addresses in the same way and share nothing else.
InitTransport ==
    /\ part \in {"relay", "frag", "client", "hop", "gecko", "realm", "punch", "filter", "sampler", "bbr", "brutal"}
    /\ InitCopy /\ InitFrag /\ Init /\ InitHop /\ InitGecko /\ InitRealm /\ InitPunch
    /\ InitFilter /\ InitSampler /\ InitBBR /\ InitBrutal
    /\ part # "hop" => addrIndex = Min(HopPorts)
    /\ part # "brutal" => lossCompensation
    /\ portMap = IF part = "realm" THEN "wait" ELSE "none"

\* Every component but p stays where it is.
Others(p) ==
    /\ UNCHANGED part
    /\ IF p = "relay" THEN TRUE ELSE UNCHANGED streamVars
    /\ IF p = "frag" THEN TRUE ELSE UNCHANGED fragVars
    /\ IF p = "client" THEN TRUE ELSE UNCHANGED vars
    /\ IF p = "hop" THEN TRUE ELSE UNCHANGED hopVars
    /\ IF p = "gecko" THEN TRUE ELSE UNCHANGED gkVars
    /\ IF p = "realm" THEN TRUE ELSE UNCHANGED realmVars
    /\ IF p = "punch" THEN TRUE ELSE UNCHANGED punchVars
    /\ IF p = "filter" THEN TRUE ELSE UNCHANGED filterVars
    /\ IF p = "sampler" THEN TRUE ELSE UNCHANGED samplerVars
    /\ IF p = "bbr" THEN TRUE ELSE UNCHANGED bbrVars
    /\ IF p = "brutal" THEN TRUE ELSE UNCHANGED brutalVars

NextTransport ==
    \/ part = "relay" /\ NextCopy /\ Others("relay")
    \/ part = "frag" /\ NextFrag /\ Others("frag")
    \/ part = "client" /\ Next /\ Others("client")
    \/ part = "hop" /\ NextHop /\ Others("hop")
    \/ part = "gecko" /\ NextGecko /\ Others("gecko")
    \/ part = "realm" /\ NextRealm /\ Others("realm")
    \/ part = "punch" /\ NextPunch /\ Others("punch")
    \/ part = "filter" /\ NextFilter /\ Others("filter")
    \/ part = "sampler" /\ NextSampler /\ Others("sampler")
    \/ part = "bbr" /\ NextBBR /\ Others("bbr")
    \/ part = "brutal" /\ NextBrutal /\ Others("brutal")
============================================================================
