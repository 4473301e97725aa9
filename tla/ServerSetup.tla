---------------------------- MODULE ServerSetup ----------------------------
(***************************************************************************)
(* The server command of the app: Config runs its fillers in order, then    *)
(* mimic is started, the server runs and a signal ends it.  fillConn opens  *)
(* the socket and, for a range of ports, installs redirect rules in the     *)
(* kernel with nft or iptables, or, for a realm address, registers with the *)
(* rendezvous server.  Rules live in the kernel, not in the process, so     *)
(* they are part of the state that outlives an exit; any error of a filler  *)
(* is fatal (logger.Fatal exits without running deferred calls), and the    *)
(* process may be killed at any point.                                      *)
(***************************************************************************)
EXTENDS Naturals, Sequences

CONSTANTS Binaries,     \* sequence: the iptables binaries, or nft families, of the listen address
          Redirects,    \* sequence: the port ranges to redirect
          MaxStarts     \* bound: starts of the process

ASSUME FirewallAssumption == Len(Binaries) \in Nat /\ Len(Redirects) \in Nat

VARIABLES setupAt,      \* what the process does next; "off" when there is none
          exitHow,      \* how the last process ended
          starts,
          fwRules,        \* kernel: the tables, chains and rules in place
          rules0,       \* history: the rules at the start of this process
          plan,         \* the next firewall command: which tool, binary and command of it
          undo,         \* closerFuncs.fns: what its Close will undo, in order of addition
          stuck,        \* history: what of it has a command that failed when it was undone
          udpSock,      \* the listening socket
          realmReg,     \* the registration with the rendezvous server and its port mapping
          helpers,      \* HTTP servers started in the background by the fillers
          mimicProc     \* the mimic child process

setupVars == <<setupAt, exitHow, starts, fwRules, rules0, plan, undo, stuck, udpSock, realmReg, helpers, mimicProc>>

NoPlan == [tool |-> "nft", bin |-> 1, cmd |-> 1]

InitSetup ==
    /\ setupAt = "off"
    /\ exitHow = "none"
    /\ starts = 0
    /\ fwRules = {} /\ rules0 = {}
    /\ plan = NoPlan /\ undo = << >> /\ stuck = {}
    /\ udpSock = "none"
    /\ realmReg = "none"
    /\ helpers = FALSE
    /\ mimicProc = "none"

\* The process is gone: its socket, servers and (Pdeathsig) mimic with it.  A registration is
\* left to expire unless it was given back.
Exit(how) ==
    /\ setupAt' = "off"
    /\ exitHow' = how
    /\ udpSock' = "none"
    /\ realmReg' = "none"
    /\ helpers' = FALSE
    /\ mimicProc' = "none"
    /\ plan' = NoPlan
    /\ undo' = << >>
    /\ UNCHANGED <<starts, rules0, stuck>>

Fatal == Exit("fatal") /\ UNCHANGED fwRules

Start ==
    /\ setupAt = "off"
    /\ starts < MaxStarts
    /\ starts' = starts + 1
    /\ rules0' = fwRules
    /\ setupAt' = "conn"
    /\ exitHow' = "running"
    /\ stuck' = {}
    /\ UNCHANGED <<fwRules, plan, undo, udpSock, realmReg, helpers, mimicProc>>

----------------------------------------------------------------------------
(* fillConn                                                                 *)

\* resolveServerListenAddr, parseServerRealmAddr and realmIPMode choose the path or fail.
ListenKinds == {"invalid", "plain", "range", "realm"}

Obj(what, bin, base, ports) == [what |-> what, bin |-> bin, base |-> base, ports |-> ports]

Tools == {"iptables", "nft"}

\* What a tool makes first.  setupIPTablesRedirect: a chain with its target;
\* setupNFTablesRedirect: a table with its two chains.
Preamble(tool, bin) ==
    IF tool = "iptables"
    THEN <<Obj("chain", bin, "none", 0), Obj("target", bin, "none", 0)>>
    ELSE <<Obj("table", bin, "none", 0), Obj("hook", bin, "PREROUTING", 0), Obj("hook", bin, "OUTPUT", 0)>>

\* Then the rules, for both base chains and every range: jumps into the iptables chain, or
\* rules of the nft table.
RuleOf(tool, bin, n) ==
    LET second == n > Len(Redirects)
    IN Obj(IF tool = "iptables" THEN "rule" ELSE "nftrule", bin,
           IF second THEN "OUTPUT" ELSE "PREROUTING",
           Redirects[IF second THEN n - Len(Redirects) ELSE n])

Made(tool) == IF tool = "iptables" THEN 2 ELSE 3   \* commands of the preamble
Commands(tool) == Made(tool) + 2 * Len(Redirects)

\* Command n of one binary, and the command after the one the plan is at.
Command(tool, b, n) ==
    IF n <= Made(tool) THEN Preamble(tool, Binaries[b])[n] ELSE RuleOf(tool, Binaries[b], n - Made(tool))
NextCommand ==
    IF plan.cmd < Commands(plan.tool) THEN [plan EXCEPT !.cmd = @ + 1]
    ELSE [plan EXCEPT !.bin = @ + 1, !.cmd = 1]

\* correctnet.ListenUDP may fail; a range of ports needs the firewall, chosen by the
\* environment variable or by what is installed.
FillConn ==
    /\ setupAt = "conn"
    /\ \/ Fatal
       \/ \E listen \in ListenKinds \ {"invalid"} :
            /\ udpSock' = "open"
            /\ setupAt' = CASE listen = "plain" -> "obfs" [] listen = "range" -> "firewall" [] OTHER -> "realm"
            /\ IF listen = "range" THEN plan' \in [tool : Tools, bin : {1}, cmd : {1}] ELSE UNCHANGED plan
            /\ UNCHANGED <<exitHow, starts, fwRules, rules0, undo, stuck, realmReg, helpers, mimicProc>>

\* What a command leaves to undo: nothing for what goes with its table or chain.
Undoable(o) == o.what \in {"table", "chain", "rule"}

\* closerFuncs.Close begins; UndoLast is one function of it.
CloseRules(at) ==
    /\ setupAt' = at
    /\ UNCHANGED <<exitHow, starts, fwRules, rules0, plan, undo, stuck, udpSock, realmReg, helpers, mimicProc>>

\* One command of the set-up.  Creating a chain that exists fails; any command may fail, and
\* then everything done so far is undone and the process gives up.
FirewallCommand ==
    /\ setupAt = "firewall" /\ plan.bin <= Len(Binaries)
    /\ LET o == Command(plan.tool, plan.bin, plan.cmd) IN
       \/ CloseRules("giveUp")
       \/ /\ ~(o.what = "chain" /\ o \in fwRules)
          /\ fwRules' = fwRules \union {o}
          /\ undo' = IF Undoable(o) THEN Append(undo, o) ELSE undo
          /\ plan' = NextCommand
          /\ UNCHANGED <<setupAt, exitHow, starts, rules0, stuck, udpSock, realmReg, helpers, mimicProc>>

FirewallDone ==
    /\ setupAt = "firewall" /\ plan.bin > Len(Binaries)
    /\ setupAt' = "obfs"
    /\ UNCHANGED <<exitHow, starts, fwRules, rules0, plan, undo, stuck, udpSock, realmReg, helpers, mimicProc>>

\* What the undo function of o is to remove: an nft table with all that is in it, an iptables
\* chain with its target, or a rule.
Covers(o, r) ==
    \/ o = r
    \/ o.what = "table" /\ r.bin = o.bin /\ r.what \in {"table", "hook", "nftrule"}
    \/ o.what = "chain" /\ r.bin = o.bin /\ r.what = "target"

\* nft delete table, or iptables -D: the command works, or its error is discarded.
Delete(o) ==
    \/ fwRules' = {r \in fwRules : ~Covers(o, r)} /\ UNCHANGED stuck
    \/ stuck' = stuck \union {o} /\ UNCHANGED fwRules

\* iptables -X refuses a chain that is not empty, or that a rule jumps to.
Refused(k, bin) == \E r \in k : r.bin = bin /\ r.what \in {"rule", "target"}

\* iptables -F, then iptables -X: the error of either is discarded.
FlushDelete(o) ==
    \E flushed, deleted \in BOOLEAN :
        LET k == {r \in fwRules : ~(flushed /\ r.what = "target" /\ r.bin = o.bin)} IN
        /\ fwRules' = {r \in k : ~(deleted /\ r = o /\ ~Refused(k, o.bin))}
        /\ stuck' = IF flushed /\ deleted THEN stuck ELSE stuck \union {o}

\* One function of closerFuncs.fns.
UndoOne(o) == IF o.what = "chain" THEN FlushDelete(o) ELSE Delete(o)

\* Mutation: the functions run in the order they were added.
UndoFirst ==
    /\ setupAt \in {"giveUp", "close"} /\ undo # << >>
    /\ UndoOne(Head(undo))
    /\ undo' = Tail(undo)
    /\ UNCHANGED <<setupAt, exitHow, starts, rules0, plan, udpSock, realmReg, helpers, mimicProc>>

\* closerFuncs.Close: last added, first undone, whatever becomes of each.
UndoLast ==
    /\ setupAt \in {"giveUp", "close"} /\ undo # << >>
    /\ UndoOne(undo[Len(undo)])
    /\ undo' = SubSeq(undo, 1, Len(undo) - 1)
    /\ UNCHANGED <<setupAt, exitHow, starts, rules0, plan, udpSock, realmReg, helpers, mimicProc>>

\* All is undone: the error is fatal, or the server has been shut down.
UndoDone ==
    /\ setupAt \in {"giveUp", "close"} /\ undo = << >>
    /\ Exit(IF setupAt = "close" THEN "clean" ELSE "rolled back")
    /\ UNCHANGED fwRules

\* fillRealmConn and startRealmServerRuntime: the client, the puncher, the port mapping, the
\* addresses and the first registration; whatever fails, the mapping and the socket go.
FillRealmConn ==
    /\ setupAt = "realm"
    /\ \/ Exit("rolled back") /\ UNCHANGED fwRules
       \/ /\ realmReg' = "registered"
          /\ setupAt' = "tls"
          /\ UNCHANGED <<exitHow, starts, fwRules, rules0, plan, undo, stuck, udpSock, helpers, mimicProc>>

\* wrapObfs: an unknown type or bad password closes the socket and undoes the rules.
WrapObfs ==
    /\ setupAt = "obfs"
    /\ \/ CloseRules("giveUp")
       \/ /\ setupAt' = "tls"
          /\ UNCHANGED <<exitHow, starts, fwRules, rules0, plan, undo, stuck, udpSock, realmReg, helpers, mimicProc>>

----------------------------------------------------------------------------
(* The other fillers: each validates its part of the configuration, and an  *)
(* error is fatal although the rules of fillConn are in place by then.       *)

Fill(from, to) ==
    /\ setupAt = from
    /\ \/ Fatal
       \/ /\ setupAt' = to
          /\ UNCHANGED <<exitHow, starts, fwRules, rules0, plan, undo, stuck, udpSock, realmReg, helpers, mimicProc>>

\* Exactly one of tls and acme; a certificate that loads, or one that ACME manages.
FillTLSConfig == Fill("tls", "hook")

FillRequestHook == Fill("hook", "outbound")

\* The outbounds, then the ACL around them, then the resolver, then the speed test.
FillOutboundConfig == Fill("outbound", "congestion")

FillCongestionConfig == Fill("congestion", "bandwidth")

FillBandwidthConfig == Fill("bandwidth", "auth")

FillAuthenticator == Fill("auth", "logger")

\* The statistics server runs in the background; its failure is fatal whenever it comes.
FillTrafficLogger ==
    /\ setupAt = "logger"
    /\ helpers' \in BOOLEAN
    /\ setupAt' = "masq"
    /\ UNCHANGED <<exitHow, starts, fwRules, rules0, plan, undo, stuck, udpSock, realmReg, mimicProc>>

FillMasqHandler ==
    /\ setupAt = "masq"
    /\ \/ Fatal
       \/ /\ helpers' \in {helpers, TRUE}
          /\ setupAt' = "mimic"
          /\ UNCHANGED <<exitHow, starts, fwRules, rules0, plan, undo, stuck, udpSock, realmReg, mimicProc>>

RunHelpers == helpers /\ setupAt # "off" /\ Fatal

----------------------------------------------------------------------------
(* mimic and the server                                                     *)

\* mimic.Start: not configured, or one already runs with filters that cover ours: nothing to
\* start; otherwise the child is started, unless it cannot be.
StartMimic ==
    /\ setupAt = "mimic"
    /\ \/ Fatal
       \/ /\ \/ setupAt' = "serving" /\ UNCHANGED mimicProc
             \/ setupAt' = "waitReady" /\ mimicProc' = "starting"
          /\ UNCHANGED <<exitHow, starts, fwRules, rules0, plan, undo, stuck, udpSock, realmReg, helpers>>

\* waitReady: only the lock file of our own child counts; the timeout and an early exit are fatal.
WaitReady ==
    /\ setupAt = "waitReady"
    /\ \/ Fatal
       \/ /\ setupAt' = "serving"
          /\ mimicProc' = "ready"
          /\ UNCHANGED <<exitHow, starts, fwRules, rules0, plan, undo, stuck, udpSock, realmReg, helpers>>

\* The wait goroutine: a child that stops by itself is fatal, one that Close stopped is not.
MimicStops == mimicProc = "ready" /\ setupAt = "serving" /\ Fatal

\* Serve or NewServer fails.
ServeFails == setupAt = "serving" /\ Fatal

\* A signal: Server.Close runs hyConfig.Cleanup (the rules, or the realm runtime), and the
\* deferred Close of mimic waits for the child.
Shutdown ==
    /\ setupAt = "serving"
    /\ CloseRules("close")

Kill == setupAt # "off" /\ Exit("killed") /\ UNCHANGED fwRules

NextSetup ==
    \/ Start
    \/ FillConn \/ FirewallCommand \/ FirewallDone \/ UndoLast \/ UndoDone \/ FillRealmConn \/ WrapObfs
    \/ FillTLSConfig \/ FillRequestHook \/ FillOutboundConfig \/ FillCongestionConfig
    \/ FillBandwidthConfig \/ FillAuthenticator \/ FillTrafficLogger \/ FillMasqHandler
    \/ RunHelpers
    \/ StartMimic \/ WaitReady \/ MimicStops \/ ServeFails \/ Shutdown \/ Kill

SpecSetup == InitSetup /\ [][NextSetup]_setupVars

----------------------------------------------------------------------------

\* What stays when a command that was to remove o fails: what o covers, and for a rule also
\* the chain it jumps to, which iptables -X then refuses.
LeftBy(o, r) == Covers(o, r) \/ (o.what = "rule" /\ r.what = "chain" /\ r.bin = o.bin)

\* A process that shuts down in order, or gives up while it sets up the socket, leaves no
\* redirect rule, chain or table that was not there before it started, whichever command of
\* the set-up failed and whatever an earlier process that was killed has left.  Close discards
\* the errors of the commands it runs: one that fails leaves what it was to remove, and of the
\* others only the chain that a rule still jumps to.
SetupRollsBack ==
    exitHow \in {"clean", "rolled back"} =>
        \A r \in fwRules \ rules0 : \E o \in stuck : LeftBy(o, r)
============================================================================
