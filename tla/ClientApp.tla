----------------------------- MODULE ClientApp -----------------------------
(***************************************************************************)
(* The client command of the app: mimic is attached, the reconnectable      *)
(* client is made, the configured modes run and a signal or the failure of  *)
(* a mode ends the process.  Every connection attempt evaluates Config      *)
(* again: it fills the configuration and, for a realm address, opens the    *)
(* socket and punches through to the server before the core client sees it; *)
(* otherwise the socket is opened by the factory when connect asks for it.  *)
(* The reconnectable client's mutex makes attempts exclude each other.      *)
(***************************************************************************)
EXTENDS Naturals, FiniteSets

CONSTANTS Modes,        \* names of the modes
          MaxModes,     \* bound: modes configured at once
          MaxEntries,   \* bound: entries of a forwarding mode
          MaxAttempts   \* bound: connection attempts

ASSUME AttemptsAssumption == MaxAttempts \in Nat

VARIABLES appAt,        \* runClient: what the main goroutine does
          exited,       \* how the process ended
          realmAddr,    \* the server address is a realm address
          portMapping,  \* realm.portMapping.enabled
          modeAt,       \* of each configured mode
          modeEntries,      \* forwarding modes: entries listening
          attAt,        \* where the attempt in progress is; "idle" without one
          attempts,     \* attempts so far; the last one is the current one
          sock,         \* the socket of each attempt
          gateway,      \* the port mapping of each attempt
          currentClient,      \* the attempt whose client rc.client is; 0 for nil
          abandoned     \* history: attempts whose open socket the code gave up without closing

appVars == <<appAt, exited, realmAddr, portMapping, modeAt, modeEntries, attAt, attempts, sock, gateway, currentClient, abandoned>>

Forwarding == {"tcpForwarding", "udpForwarding"}

AttemptIDs == 1..MaxAttempts

InitApp ==
    /\ appAt = "mimic"
    /\ exited = "none"
    /\ realmAddr \in BOOLEAN
    /\ portMapping \in BOOLEAN
    /\ modeAt \in UNION {[ms -> {"off"}] : ms \in {s \in SUBSET Modes : Cardinality(s) <= MaxModes}}
    /\ modeEntries = [m \in Forwarding |-> 0]
    /\ attAt = "idle"
    /\ attempts = 0
    /\ sock = [k \in AttemptIDs |-> "none"]
    /\ gateway = [k \in AttemptIDs |-> "none"]
    /\ currentClient = 0
    /\ abandoned = {}

----------------------------------------------------------------------------
(* runClient                                                                *)

\* The process is gone, and with it its sockets and (Pdeathsig) mimic; the gateway keeps a
\* mapping that was not removed until the lease ends.
ExitApp(how) ==
    /\ appAt' = "exited"
    /\ exited' = how
    /\ sock' = [k \in AttemptIDs |-> IF sock[k] = "open" THEN "closed" ELSE sock[k]]
    /\ gateway' = [k \in AttemptIDs |-> IF gateway[k] \in {"held", "renewed", "cancelled"} THEN "left" ELSE gateway[k]]
    /\ attAt' = "idle"
    /\ currentClient' = 0
    /\ UNCHANGED <<realmAddr, portMapping, modeAt, modeEntries, attempts, abandoned>>

\* startMimic: validateMimic, mimicServerAddrs and mimic.Start; a failure is fatal.
StartMimicClient ==
    /\ appAt = "mimic"
    /\ \/ ExitApp("fatal")
       \/ /\ appAt' = "new"
          /\ UNCHANGED <<exited, realmAddr, portMapping, modeAt, modeEntries, attAt, attempts, sock, gateway, currentClient, abandoned>>

\* configFunc, under the mutex of the reconnectable client.
BeginAttempt ==
    /\ attAt = "idle"
    /\ currentClient = 0
    /\ attempts < MaxAttempts
    /\ attempts' = attempts + 1
    /\ attAt' = "config"
    /\ UNCHANGED <<exited, realmAddr, portMapping, modeAt, modeEntries, sock, gateway, currentClient, abandoned>>

\* NewReconnectableClient: the first attempt is part of it unless lazy is set.
NewReconnectable ==
    /\ appAt = "new"
    /\ \/ BeginAttempt /\ appAt' = "eager"
       \/ /\ appAt' = "running"
          /\ UNCHANGED <<exited, realmAddr, portMapping, modeAt, modeEntries, attAt, attempts, sock, gateway, currentClient, abandoned>>

\* pktConn.Close; cleanupPacketConn cancels the renewal of the mapping first.
CloseSocket(k) ==
    /\ sock' = [sock EXCEPT ![k] = "closed"]
    /\ gateway' = [gateway EXCEPT ![k] = IF @ = "renewed" THEN "cancelled" ELSE @]

\* A signal, or the first mode that reports a failure (none configured is one): the client
\* is closed, which waits for an attempt in progress, and the process exits.
Ends ==
    /\ appAt = "running"
    /\ \/ appAt' = "closing"
       \/ /\ modeAt = << >> \/ \E m \in DOMAIN modeAt : modeAt[m] = "failed"
          /\ appAt' = "failing"
    /\ UNCHANGED <<exited, realmAddr, portMapping, modeAt, modeEntries, attAt, attempts, sock, gateway, currentClient, abandoned>>

CloseClient ==
    /\ appAt \in {"closing", "failing"}
    /\ attAt = "idle"
    /\ appAt' = IF appAt = "closing" THEN "leave" ELSE "die"
    /\ IF currentClient = 0 THEN UNCHANGED <<sock, gateway>> ELSE CloseSocket(currentClient)
    /\ currentClient' = 0
    /\ UNCHANGED <<exited, realmAddr, portMapping, modeAt, modeEntries, attAt, attempts, abandoned>>

\* Nothing waits for the goroutines that close the mappings.
LeaveProcess ==
    \/ appAt = "leave" /\ ExitApp("signal")
    \/ appAt = "die" /\ ExitApp("fatal")

----------------------------------------------------------------------------
(* The modes                                                                *)

ModeGoes(m, to) ==
    /\ modeAt' = [modeAt EXCEPT ![m] = to]
    /\ UNCHANGED <<appAt, exited, realmAddr, portMapping, attAt, attempts, sock, gateway, currentClient, abandoned>>

ModeMayRun(m) == m \in DOMAIN modeAt /\ appAt \in {"running", "closing", "failing"}

\* A mode with one listener: its configuration or the listen call fails, or it serves until
\* its listener does.
OneListener(m) ==
    /\ ModeMayRun(m)
    /\ \/ modeAt[m] = "off" /\ \E to \in {"failed", "serving"} : ModeGoes(m, to)
       \/ modeAt[m] = "serving" /\ ModeGoes(m, "failed")
    /\ UNCHANGED modeEntries

ClientSOCKS5 == OneListener("socks5")
ClientHTTP == OneListener("http")
ClientTCPTProxy == OneListener("tcpTProxy")
ClientUDPTProxy == OneListener("udpTProxy")
ClientTCPRedirect == OneListener("tcpRedirect")
ClientTUN == OneListener("tun")

\* The entries are started in order; one that cannot listen fails the mode although the ones
\* before it serve, and so does the first that stops.
OneListenerPerEntry(m) ==
    /\ ModeMayRun(m)
    /\ \/ /\ modeAt[m] \in {"off", "starting"}
          /\ modeEntries[m] < MaxEntries
          /\ modeEntries' = [modeEntries EXCEPT ![m] = @ + 1]
          /\ \E to \in {"starting", "serving"} : ModeGoes(m, to)
       \/ /\ modeAt[m] # "failed"
          /\ ModeGoes(m, "failed")
          /\ UNCHANGED modeEntries

ClientTCPForwarding == OneListenerPerEntry("tcpForwarding")
ClientUDPForwarding == OneListenerPerEntry("udpForwarding")

ModeServing == \E m \in DOMAIN modeAt : modeAt[m] = "serving" \/ (m \in Forwarding /\ modeEntries[m] > 0)

\* clientDo, called for a client of a mode: connect when there is none, or find that the
\* client is dead and forget it.
ClientDo ==
    /\ ModeServing
    /\ appAt \in {"running", "closing", "failing"}
    /\ \/ BeginAttempt /\ UNCHANGED appAt
       \/ /\ currentClient # 0 /\ attAt = "idle"
          /\ currentClient' = 0
          /\ abandoned' = abandoned \union {currentClient}
          /\ UNCHANGED <<appAt, exited, realmAddr, portMapping, modeAt, modeEntries, attAt, attempts, sock, gateway>>

----------------------------------------------------------------------------
(* An attempt: Config                                                       *)

Untouched == <<realmAddr, portMapping, modeAt, modeEntries, attempts>>

\* The error reaches the caller; in NewReconnectableClient it is fatal, and the exit closes
\* what is left.
AttemptFails ==
    /\ attAt' = "idle"
    /\ appAt' = IF appAt = "eager" THEN "die" ELSE appAt
    /\ UNCHANGED <<exited, currentClient>>
    /\ UNCHANGED Untouched

NothingOpened == UNCHANGED <<sock, gateway, abandoned>>

Goes(to) == attAt' = to /\ UNCHANGED <<appAt, exited, currentClient>> /\ UNCHANGED Untouched

\* A filler sets its part of the configuration or refuses it.
Filler(from, to) ==
    /\ attAt = from
    /\ AttemptFails \/ Goes(to)
    /\ NothingOpened

\* parseRealmAddr: a malformed realm address is an error; otherwise the scheme decides.
ParseRealmAddr == Filler("config", IF realmAddr THEN "tls" ELSE "addr")

FillServerAddr == Filler("addr", "factory")

\* socketOptions and hopIntervalConfig may refuse; no socket is opened.
FillConnFactory == Filler("factory", "tls")

FillClientTLS == Filler("tls", "congestion")

FillClientCongestion == Filler("congestion", "bandwidth")

FillClientBandwidth == Filler("bandwidth", IF realmAddr THEN "open" ELSE "verify")

----------------------------------------------------------------------------
(* An attempt: realmConfig                                                  *)

\* realmConfig whose error returns do not run the deferred clean-up.
RealmFailsBare == AttemptFails /\ NothingOpened

\* The deferred functions of realmConfig run with success false: the mapping and the socket go.
RealmFails ==
    /\ AttemptFails
    /\ sock' = [sock EXCEPT ![attempts] = "closed"]
    /\ gateway' = [gateway EXCEPT ![attempts] = IF @ = "held" THEN "removed" ELSE @]
    /\ UNCHANGED abandoned

RealmOpen ==
    /\ attAt = "open"
    /\ \/ AttemptFails /\ NothingOpened
       \/ Goes("map") /\ sock' = [sock EXCEPT ![attempts] = "open"] /\ UNCHANGED <<gateway, abandoned>>

\* newRealmPortMapper: without a gateway the attempt goes on; a gateway that maps the port and
\* then gives no usable external address keeps the mapping and no mapper.
RealmMap ==
    /\ attAt = "map"
    /\ Goes("stun")
    /\ \E g \in IF portMapping THEN {"none", "held", "left"} ELSE {"none"} : gateway' = [gateway EXCEPT ![attempts] = g]
    /\ UNCHANGED <<sock, abandoned>>

RealmStage(from, to) ==
    /\ attAt = from
    /\ RealmFails \/ (Goes(to) /\ NothingOpened)

RealmDiscover == RealmStage("stun", "connect")

RealmConnect == RealmStage("connect", "punch")

RealmPunchThrough == RealmStage("punch", "wrap")

\* wrapObfs, then the renewal loop takes the mapper over.
RealmWrap ==
    /\ attAt = "wrap"
    /\ \/ RealmFails
       \/ /\ Goes("verify")
          /\ gateway' = [gateway EXCEPT ![attempts] = IF @ = "held" THEN "renewed" ELSE @]
          /\ UNCHANGED <<sock, abandoned>>

\* realmPortMapLoop: cancelled, it removes the mapping, which may fail.
PortMapLoopEnds(k) ==
    /\ appAt # "exited"
    /\ gateway[k] = "cancelled"
    /\ \E g \in {"removed", "left"} : gateway' = [gateway EXCEPT ![k] = g]
    /\ UNCHANGED <<appAt, exited, realmAddr, portMapping, modeAt, modeEntries, attAt, attempts, sock, currentClient, abandoned>>

----------------------------------------------------------------------------
(* An attempt: NewClient                                                    *)

\* verifyAndFill comes before the factory is used: a socket opened by realmConfig is lost.
VerifyAndFill ==
    /\ attAt = "verify"
    /\ \/ /\ AttemptFails
          /\ abandoned' = IF realmAddr THEN abandoned \union {attempts} ELSE abandoned
          /\ UNCHANGED <<sock, gateway>>
       \/ Goes("factory.New") /\ NothingOpened

\* singleUseConnFactory.New: the realm socket is handed over; otherwise the socket is opened,
\* and closed again when wrapObfs refuses it.
FactoryNew ==
    /\ attAt = "factory.New"
    /\ \/ realmAddr /\ Goes("auth") /\ NothingOpened
       \/ ~realmAddr /\ AttemptFails /\ NothingOpened
       \/ ~realmAddr /\ AttemptFails /\ sock' = [sock EXCEPT ![attempts] = "closed"] /\ UNCHANGED <<gateway, abandoned>>
       \/ ~realmAddr /\ Goes("auth") /\ sock' = [sock EXCEPT ![attempts] = "open"] /\ UNCHANGED <<gateway, abandoned>>

\* connect: the round trip fails or the server refuses, or the client is the current one.
Authenticate ==
    /\ attAt = "auth"
    /\ \/ AttemptFails /\ CloseSocket(attempts) /\ UNCHANGED abandoned
       \/ /\ attAt' = "idle"
          /\ currentClient' = attempts
          /\ appAt' = IF appAt = "eager" THEN "running" ELSE appAt
          /\ UNCHANGED exited
          /\ UNCHANGED Untouched
          /\ NothingOpened

AttemptStep ==
    \/ ParseRealmAddr \/ FillServerAddr \/ FillConnFactory \/ FillClientTLS \/ FillClientCongestion \/ FillClientBandwidth
    \/ RealmOpen \/ RealmMap \/ RealmDiscover \/ RealmConnect \/ RealmPunchThrough \/ RealmWrap
    \/ VerifyAndFill \/ FactoryNew \/ Authenticate

NextApp ==
    \/ StartMimicClient \/ NewReconnectable \/ Ends \/ CloseClient \/ LeaveProcess
    \/ ClientSOCKS5 \/ ClientHTTP \/ ClientTCPForwarding \/ ClientUDPForwarding
    \/ ClientTCPTProxy \/ ClientUDPTProxy \/ ClientTCPRedirect \/ ClientTUN
    \/ ClientDo
    \/ appAt # "exited" /\ AttemptStep
    \/ \E k \in AttemptIDs : PortMapLoopEnds(k)

SpecApp == InitApp /\ [][NextApp]_appVars

----------------------------------------------------------------------------

\* However attempts fail and whatever they had done by then, an open socket belongs to the
\* attempt in progress or to the current client, and a mapping on the gateway is kept alive
\* only for such a socket; the exceptions are the sockets the code gives up knowingly (a realm
\* socket when verifyAndFill refuses the configuration, the socket of a client found dead).
AttemptsLeaveNothing ==
    \A k \in AttemptIDs :
        /\ sock[k] = "open" => k = currentClient \/ (k = attempts /\ attAt # "idle") \/ k \in abandoned
        /\ gateway[k] \in {"held", "renewed"} => sock[k] = "open"
============================================================================
