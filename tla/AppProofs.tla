----------------------------- MODULE AppProofs -----------------------------
(***************************************************************************)
(* Proofs about the parts around the protocol: the fast open dialer, the   *)
(* loaders that swap certificates and geo databases under their readers,   *)
(* the UDP forwarding tunnel, the listener that SOCKS5 and HTTP share, the *)
(* local inbounds, the client command, the outbounds with their resolver,  *)
(* the sniffer, the traffic statistics, the redirect rules of the server   *)
(* command and the ACL engine. Each part has an inductive invariant of its *)
(* own, named ...Inv, whose comments say what it adds to the property.     *)
(* SpecX of a component is its initial predicate and its next-state        *)
(* relation, without fairness: nothing here is about progress.             *)
(***************************************************************************)
EXTENDS FastOpen, FileLoaders, UDPTunnel, ProxyMux, LocalInbounds, ClientApp,
        Outbounds, Sniffer, TrafficStats, ServerSetup, ACLEngine,
        FiniteSetTheorems, FunctionTheorems, SequenceTheorems, WellFoundedInduction, TLAPS

-----------------------------------------------------------------------------
(* FastOpen *)

Locking == {"dial", "write locked"}
Writing == Locking \cup {"start", "check", "lock", "write", "written", "failed"}
Reading == {"start", "wait", "read", "data", "failed"}

\* The lock has one holder; a dial is under way only while nothing is known of
\* the connection yet; and Close has ended the wait and the connection.
DialInv ==
    /\ writer \in [Writers -> Writing] /\ fastReader \in [Readers -> Reading]
    /\ \A w \in Writers : writer[w] \in Locking => connLock
    /\ \A v, w \in Writers : writer[v] \in Locking /\ writer[w] \in Locking => v = w
    /\ \A w \in Writers : writer[w] = "dial" => target = "nil" /\ ~ready
    /\ target # "nil" => ready
    /\ fastCloser # "no" => ready /\ target # "open"
    /\ \A r \in Readers : fastReader[r] = "read" => target # "nil"

DeadlineTypeOK ==
    /\ deadlineCalls \in Nat
    /\ preset \in [Directions \cup {"both"} -> Nat]
    /\ connDeadline \in [Directions -> Nat] /\ askedFor \in [Directions -> Nat]
    /\ \A f \in Directions \cup {"both"} : preset[f] <= deadlineCalls
    /\ overtaken \subseteq Directions

\* Before the dial the fields say what was asked last unless they are overtaken,
\* and afterwards the connection does.
DeadlineInv ==
    /\ DeadlineTypeOK
    /\ \A d \in overtaken : 0 < preset[d] /\ preset[d] < askedFor[d]
    /\ target = "nil" => \A d \in Directions \ overtaken : Applied[d] = askedFor[d]
    /\ target = "open" => \A d \in Directions :
          connDeadline[d] = IF d \in overtaken THEN preset[d] ELSE askedFor[d]

FastInv == DialInv /\ DeadlineInv

\* Setting one of the fields sets what is asked of its directions.
LEMMA FieldIsSet ==
  ASSUME DeadlineInv, NEW field \in Directions \cup {"both"}, NEW dirs \in SUBSET Directions,
         SetField(field, dirs)
  PROVE  /\ deadlineCalls' = deadlineCalls + 1 /\ deadlineCalls' \in Nat /\ target' = target
         /\ preset' \in [Directions \cup {"both"} -> Nat]
         /\ connDeadline' \in [Directions -> Nat] /\ askedFor' \in [Directions -> Nat]
         /\ \A f \in Directions \cup {"both"} :
               preset'[f] = (IF f = field THEN deadlineCalls' ELSE preset[f]) /\ preset'[f] <= deadlineCalls'
         /\ \A d \in Directions : askedFor'[d] = IF d \in dirs THEN deadlineCalls' ELSE askedFor[d]
         /\ \A d \in Directions : connDeadline'[d] = IF d \in dirs /\ target # "nil" THEN deadlineCalls'
                                                      ELSE connDeadline[d]
<1>1. deadlineCalls' = deadlineCalls + 1 /\ deadlineCalls' \in Nat /\ target' = target
  BY DEF DeadlineInv, DeadlineTypeOK, SetField
<1> QED
  BY <1>1 DEF DeadlineInv, DeadlineTypeOK, SetField

\* The three setters keep what is known of the deadlines.
LEMMA SetterStep ==
  ASSUME DeadlineInv, SetDeadline \/ SetReadDeadline \/ SetWriteDeadline PROVE DeadlineInv'
<1> USE DEF DeadlineInv, DeadlineTypeOK, Directions, Unset, Applied
<1>1. CASE SetDeadline
  BY <1>1, FieldIsSet DEF SetDeadline
<1>2. ASSUME NEW d \in Directions, SetField(d, {d}), overtaken' = overtaken \ {d} PROVE DeadlineInv'
  <2>1. DeadlineTypeOK'
    BY <1>2, FieldIsSet
  <2>2. ASSUME NEW e \in Directions, e # d
        PROVE  preset'[e] = preset[e] /\ askedFor'[e] = askedFor[e] /\ connDeadline'[e] = connDeadline[e]
    BY <1>2, <2>2, FieldIsSet
  <2>3. /\ preset'[d] = deadlineCalls' /\ askedFor'[d] = deadlineCalls' /\ deadlineCalls' # 0
        /\ target # "nil" => connDeadline'[d] = deadlineCalls'
        /\ preset'["both"] = preset["both"] /\ target' = target
    BY <1>2, FieldIsSet
  <2> QED
    BY <1>2, <2>1, <2>2, <2>3
<1>3. CASE SetReadDeadline
  BY <1>2, <1>3 DEF SetReadDeadline
<1>4. CASE SetWriteDeadline
  BY <1>2, <1>4 DEF SetWriteDeadline
<1> QED
  BY <1>1, <1>3, <1>4

\* The dial gives the connection what the fields say; nothing but the setters
\* touches them.
LEMMA DeadlineStep == DialInv /\ DeadlineInv /\ [NextFast]_fastVars => DeadlineInv'
<1> SUFFICES ASSUME DialInv, DeadlineInv, [NextFast]_fastVars PROVE DeadlineInv'
  OBVIOUS
<1> USE DEF DeadlineInv, DeadlineTypeOK, Applied, Goto, deadlines
<1>1. ASSUME NEW w \in Writers, WriteCheck(w) PROVE DeadlineInv'
  BY <1>1 DEF WriteCheck
<1>2. ASSUME NEW w \in Writers, WriteLock(w) PROVE DeadlineInv'
  BY <1>2 DEF WriteLock
<1>3. ASSUME NEW w \in Writers, WriteDial(w) PROVE DeadlineInv'
  <2>1. CASE UNCHANGED <<target, connDeadline>>
    BY <1>3, <2>1 DEF WriteDial
  <2>2. CASE target' = "open" /\ connDeadline' = Applied /\ target = "nil"
    <3>1. UNCHANGED <<preset, deadlineCalls, askedFor, overtaken>>
      BY <1>3 DEF WriteDial
    <3>2. Applied \in [Directions -> Nat]
      BY DEF Directions
    <3>3. \A d \in overtaken : Applied[d] = preset[d]
      BY DEF Directions, Unset
    <3> QED
      BY <2>2, <3>1, <3>2, <3>3
  <2> QED
    BY <1>3, <2>1, <2>2 DEF WriteDial, DialInv
<1>4. ASSUME NEW w \in Writers, WriteThrough(w) PROVE DeadlineInv'
  BY <1>4 DEF WriteThrough
<1>5. ASSUME NEW r \in Readers, ReaderStep(r) \/ ReadThrough(r) PROVE DeadlineInv'
  BY <1>5 DEF ReaderStep, ReadStart, ReadReady, ReadThrough
<1>6. CASE CloseConn
  BY <1>6 DEF CloseConn
<1>7. CASE SetDeadline \/ SetReadDeadline \/ SetWriteDeadline
  BY <1>7, SetterStep
<1>8. CASE UNCHANGED fastVars
  BY <1>8 DEF fastVars
<1> QED
  BY <1>1, <1>2, <1>3, <1>4, <1>5, <1>6, <1>7, <1>8 DEF NextFast, WriterStep

\* Every step of a Write, a Read, Close or a setter keeps the rest.
LEMMA DialStep == DialInv /\ [NextFast]_fastVars => DialInv'
<1> SUFFICES ASSUME DialInv, [NextFast]_fastVars PROVE DialInv'
  OBVIOUS
<1> USE DEF DialInv, Locking, Writing, Reading, Goto, isClosedBeforeReady
<1>1. ASSUME NEW w \in Writers, WriteCheck(w) PROVE DialInv'
  BY <1>1 DEF WriteCheck
<1>2. ASSUME NEW w \in Writers, WriteLock(w) PROVE DialInv'
  BY <1>2 DEF WriteLock
<1>3. ASSUME NEW w \in Writers, WriteDial(w) PROVE DialInv'
  BY <1>3 DEF WriteDial
<1>4. ASSUME NEW w \in Writers, WriteThrough(w) PROVE DialInv'
  BY <1>4 DEF WriteThrough
<1>5. ASSUME NEW r \in Readers, ReadStart(r) PROVE DialInv'
  BY <1>5 DEF ReadStart
<1>6. ASSUME NEW r \in Readers, ReadReady(r) PROVE DialInv'
  BY <1>6 DEF ReadReady
<1>7. ASSUME NEW r \in Readers, ReadThrough(r) PROVE DialInv'
  BY <1>7 DEF ReadThrough
<1>8. CASE CloseConn
  BY <1>8 DEF CloseConn
<1>9. CASE SetDeadline \/ SetReadDeadline \/ SetWriteDeadline
  BY <1>9 DEF SetDeadline, SetReadDeadline, SetWriteDeadline, SetField
<1>10. CASE UNCHANGED fastVars
  BY <1>10 DEF fastVars
<1> QED
  BY <1>1, <1>2, <1>3, <1>4, <1>5, <1>6, <1>7, <1>8, <1>9, <1>10
  DEF NextFast, WriterStep, ReaderStep

\* A connection that is dialled by the first Write (fastopen.go) is never
\* established behind the back of Close, whichever of the goroutines gets the
\* lock first, and however many deadlines are set, in whatever order around the
\* dial, it has the last one in each direction unless that one was a general
\* one that an older one of the direction overtakes.
THEOREM FastOpenIsSafe == SpecFast => []FastOpenSafe
<1>1. InitFast => FastInv
  <2>1. InitFast => DialInv
    BY DEF InitFast, DialInv, Locking, Writing, Reading
  <2>2. InitFast => DeadlineInv
    BY DEF InitFast, DeadlineInv, DeadlineTypeOK, Applied, Directions, Unset
  <2> QED
    BY <2>1, <2>2 DEF FastInv
<1>2. FastInv /\ [NextFast]_fastVars => FastInv'
  BY DialStep, DeadlineStep DEF FastInv
<1>3. FastInv => FastOpenSafe
  BY DEF FastInv, DialInv, DeadlineInv, DeadlineTypeOK, FastOpenSafe
<1> QED
  BY <1>1, <1>2, <1>3, PTL DEF SpecFast

-----------------------------------------------------------------------------
(* FileLoaders *)

Caches == [gen : Nat, cert : Nat, certMod : Nat, keyMod : Nat]
InHandshake == {"start", "stat", "lock", "recheck", "make", "load", "key", "done"}
HandshakeRecords == [at : InHandshake, cache : Caches, new : Caches, served : Nat]

\* The certificate of a cache, and of one in the making, was read after its
\* modification time was taken, and the version on disk only grows.
InOrder(c) == c \in Caches /\ c.certMod <= c.cert /\ c.cert <= certFile
HandshakeOK(r) ==
    /\ r \in HandshakeRecords
    /\ r.at = "load" => r.new.certMod <= certFile
    /\ r.at = "key" => InOrder(r.new)

CertInv ==
    /\ certFile \in Nat /\ keyFile \in Nat /\ cacheGen \in Nat
    /\ InOrder(certCache)
    /\ DOMAIN hs = Handshakes /\ hs = [h \in Handshakes |-> hs[h]]
    /\ \A h \in Handshakes : HandshakeOK(hs[h])

\* A handshake that moves on and leaves the cache as it is.
LEMMA StepKeeps ==
  ASSUME CertInv, NEW h \in Handshakes, NEW rec, NEW lock, Step(h, rec, lock),
         UNCHANGED <<certCache, cacheGen>>, HandshakeOK(rec)
  PROVE  CertInv'
<1>1. \A g \in Handshakes : hs'[g] = IF g = h THEN rec ELSE hs[g]
  BY DEF CertInv, Step
<1>2. \A g \in Handshakes : HandshakeOK(hs[g])'
  BY <1>1 DEF CertInv, HandshakeOK, InOrder, Step
<1> QED
  BY <1>2 DEF CertInv, InOrder, Step

\* A handshake that ends with an older certificate.
LEMMA ServeKeeps ==
  ASSUME CertInv, NEW h \in Handshakes, NEW version \in Nat, NEW lock, Serve(h, version, lock)
  PROVE  CertInv'
<1>1. HandshakeOK([hs[h] EXCEPT !.at = "done", !.served = version])
  BY DEF CertInv, HandshakeOK, HandshakeRecords, InHandshake
<1> QED
  BY <1>1, StepKeeps DEF Serve

\* Renewals and handshakes, in any interleaving, keep the invariant.
LEMMA CertStep == CertInv /\ [NextCert]_certVars => CertInv'
<1> SUFFICES ASSUME CertInv, [NextCert]_certVars PROVE CertInv'
  OBVIOUS
<1>1. CASE RenewCert \/ RenewKey \/ ToggleAway
  BY <1>1 DEF CertInv, HandshakeOK, InOrder, HandshakeRecords, Caches, RenewCert, RenewKey, ToggleAway
<1> USE DEF HandshakeOK, InOrder, HandshakeRecords, InHandshake, Caches
<1>2. ASSUME NEW h \in Handshakes PROVE HandshakeOK(hs[h])
  BY DEF CertInv
<1>3. ASSUME NEW h \in Handshakes, LoadCache(h) PROVE CertInv'
  <2> DEFINE x == [hs[h] EXCEPT !.at = "stat", !.cache = certCache]
  <2>1. hs[h] \in HandshakeRecords /\ certCache \in Caches /\ certFile \in Nat /\ keyFile \in Nat
    BY <1>2 DEF CertInv
  <2>2. x \in HandshakeRecords
    BY <2>1
  <2>3. x.at = "stat" /\ x.new = hs[h].new
    BY <2>1
  <2>4. HandshakeOK(x)
    BY <2>2, <2>3
  <2> QED
    BY <1>3, <2>2, <2>3, <2>4, StepKeeps DEF LoadCache
<1>4. ASSUME NEW h \in Handshakes, CheckModTime(h) PROVE CertInv'
  <2>1. HandshakeOK([hs[h] EXCEPT !.at = "lock"]) /\ hs[h].cache.cert \in Nat
    BY <1>2
  <2> QED
    BY <1>4, <2>1, StepKeeps, ServeKeeps DEF CheckModTime
<1>5. ASSUME NEW h \in Handshakes, TakeLock(h) PROVE CertInv'
  <2>1. HandshakeOK([hs[h] EXCEPT !.at = "recheck"]) /\ hs[h].cache.cert \in Nat
    BY <1>2
  <2> QED
    BY <1>5, <2>1, StepKeeps, ServeKeeps DEF TakeLock
<1>6. ASSUME NEW h \in Handshakes, Recheck(h) PROVE CertInv'
  <2>1. HandshakeOK([hs[h] EXCEPT !.at = "make"]) /\ certCache.cert \in Nat
    BY <1>2, SMTT(30) DEF CertInv
  <2> QED
    BY <1>6, <2>1, StepKeeps, ServeKeeps DEF Recheck
<1>7. ASSUME NEW h \in Handshakes, MakeStat(h) PROVE CertInv'
  <2> DEFINE x == [hs[h] EXCEPT !.at = "load", !.new = Stat(NoCache)]
  <2>1. hs[h] \in HandshakeRecords /\ certCache \in Caches /\ certFile \in Nat /\ keyFile \in Nat
    BY <1>2 DEF CertInv
  <2>2. x \in HandshakeRecords
    BY <2>1 DEF Stat, NoCache
  <2>3. x.at = "load" /\ x.new = Stat(NoCache)
    BY <2>1 DEF Stat, NoCache
  <2>4. HandshakeOK(x) /\ hs[h].cache.cert \in Nat
    <3>1. Stat(NoCache).certMod <= certFile
      BY <2>1 DEF Stat, NoCache
    <3> HIDE DEF x
    <3> QED
      BY <2>1, <2>2, <2>3, <3>1
  <2> QED
    BY <1>7, <2>2, <2>3, <2>4, StepKeeps, ServeKeeps DEF MakeStat
<1>8. ASSUME NEW h \in Handshakes, LoadCert(h) PROVE CertInv'
  <2> DEFINE x == [hs[h] EXCEPT !.at = "key", !.new.cert = certFile]
  <2>1. hs[h] \in HandshakeRecords /\ certCache \in Caches /\ certFile \in Nat /\ keyFile \in Nat
    BY <1>2 DEF CertInv
  <2>2. x \in HandshakeRecords
    BY <2>1
  <2>3. x.at = "key" /\ x.new = [hs[h].new EXCEPT !.cert = certFile]
    BY <2>1
  <2>4. HandshakeOK(x) /\ hs[h].cache.cert \in Nat
    BY <1>2, <1>8, <2>1, <2>2, <2>3 DEF LoadCert
  <2> QED
    BY <1>8, <2>2, <2>3, <2>4, StepKeeps, ServeKeeps DEF LoadCert
<1>9. ASSUME NEW h \in Handshakes, LoadKey(h) PROVE CertInv'
  <2>1. HandshakeOK([hs[h] EXCEPT !.at = "done", !.served = hs[h].new.cert]) /\ hs[h].cache.cert \in Nat
    BY <1>2
  <2>2. CASE Serve(h, hs[h].cache.cert, "free")
    BY <2>1, <2>2, ServeKeeps
  <2>3. CASE /\ certCache' = [hs[h].new EXCEPT !.gen = cacheGen + 1] /\ cacheGen' = cacheGen + 1
             /\ Step(h, [hs[h] EXCEPT !.at = "done", !.served = hs[h].new.cert], "free")
    <3>1. \A g \in Handshakes : HandshakeOK(hs[g])'
      BY <2>1, <2>3 DEF CertInv, Step
    <3>2. InOrder(certCache)'
      BY <1>2, <1>9, <2>3 DEF CertInv, Step, LoadKey
    <3> QED
      BY <2>3, <3>1, <3>2, SMTT(30) DEF CertInv, Step
  <2> QED
    BY <1>9, <2>2, <2>3 DEF LoadKey
<1>10. CASE UNCHANGED certVars
  BY <1>10 DEF CertInv, certVars
<1> QED
  BY <1>1, <1>3, <1>4, <1>5, <1>6, <1>7, <1>8, <1>9, <1>10 DEF NextCert

\* A download under way counts as tried.
GeoInv == LastGoodSurvives /\ (geoAt \in {"get", "check"} => geoTried)

\* Loads, downloads and restarts keep the last good database.
LEMMA GeoStep == GeoInv /\ [NextGeo]_geoVars => GeoInv'
<1> SUFFICES ASSUME GeoInv, [NextGeo]_geoVars PROVE GeoInv'
  OBVIOUS
<1> USE DEF GeoInv, LastGoodSurvives, Loadable, history
<1>1. CASE LoadConfigured \/ Load
  BY <1>1 DEF LoadConfigured, Load, ShouldDownload
<1>2. ASSUME geoTried, Failed PROVE GeoInv'
  <2>1. CASE geoMap' = (IF Loadable(geoFile) THEN geoFile ELSE "error") /\ UNCHANGED ioFailed
    BY <1>2, <2>1 DEF Failed
  <2>2. CASE geoMap' = "error" /\ ioFailed' = TRUE
    BY <1>2, <2>2 DEF Failed
  <2> QED
    BY <1>2, <2>1, <2>2 DEF Failed, LoadFile
<1>3. CASE Download \/ CheckAndRename
  <2>1. geoTried
    BY <1>3 DEF Download, CheckAndRename
  <2>2. CASE Failed
    BY <1>2, <2>1, <2>2
  <2>3. CASE geoAt' = "check" /\ UNCHANGED <<geoAuto, geoFile, geoOld, geoMap, geoRuns, history>>
    BY <2>1, <2>3
  <2>4. CASE /\ Loadable(geoTemp) /\ geoFile' = geoTemp /\ geoAt' = "idle"
             /\ wasGood' = (wasGood \/ geoTemp = "good") /\ emptied' = (geoTemp = "empty")
             /\ UNCHANGED geoTried /\ LoadFile(geoTemp)
    <3>1. CASE geoMap' = (IF Loadable(geoTemp) THEN geoTemp ELSE "error")
      BY <2>1, <2>4, <3>1
    <3>2. CASE geoMap' = "error" /\ ioFailed' = TRUE
      BY <2>1, <2>4, <3>2
    <3> QED
      BY <2>4, <3>1, <3>2 DEF LoadFile
  <2> QED
    BY <1>3, <2>2, <2>3, <2>4, Zenon DEF Download, CheckAndRename
<1>4. CASE Age \/ Restart \/ UNCHANGED geoVars
  BY <1>4 DEF Age, Restart, geoVars
<1> QED
  BY <1>1, <1>2, <1>3, <1>4 DEF NextGeo

\* However renewals of the certificate interleave with the handshakes that
\* reload it (certloader.go), what passes for current is current; wherever a
\* download of a geo database fails or the program is stopped (geoloader.go),
\* a good database stays in place and loads as far as it can be read, unless
\* an empty download passes the check.
THEOREM FilesAreReloadedSafely == SpecCert /\ SpecGeo => []ReloadsAreSafe
<1>1. InitCert => CertInv
  BY DEF InitCert, CertInv, NoCache, Caches, InHandshake, HandshakeOK, HandshakeRecords, InOrder
<1>2. CertInv => UpToDateIsCurrent
  BY DEF CertInv, UpToDateIsCurrent, Caches, InOrder
<1>3. InitGeo => GeoInv
  BY DEF InitGeo, GeoInv, LastGoodSurvives
<1>4. UpToDateIsCurrent /\ GeoInv => ReloadsAreSafe
  BY DEF ReloadsAreSafe, GeoInv
<1> QED
  BY <1>1, <1>2, <1>3, <1>4, CertStep, GeoStep, PTL DEF SpecCert, SpecGeo

-----------------------------------------------------------------------------
(* UDPTunnel *)

Loops == {"none", "run", "exit", "delete", "gone"}
Sessions == [src : Sources \cup {"none"}, conn : {"none", "open", "closed"}, loop : Loops,
             timeout : BOOLEAN, idle : BOOLEAN]

TunTypeOK ==
    /\ tunAt \in {"read", "insert", "last", "returned"}
    /\ feeding \in 0..MaxTunnel
    /\ tunMap \in [Sources -> 0..MaxTunnel]
    /\ tunSes \in [1..MaxTunnel -> Sessions]
    /\ tunClosing \in [Cleanups -> 0..MaxTunnel]

\* A session that was opened has a source, and a goroutine that is in the map,
\* or about to be put there, until it deletes its entry.
TableInv ==
    /\ \A i \in 1..MaxTunnel : tunSes[i].conn # "none" => tunSes[i].src \in Sources
    /\ \A i \in 1..MaxTunnel : tunSes[i].conn = "none" => tunSes[i].loop = "none"
    /\ \A a \in Sources : tunMap[a] # 0 => /\ tunSes[tunMap[a]].conn # "none"
                                           /\ tunSes[tunMap[a]].src = a
    /\ \A i \in 1..MaxTunnel :
          tunSes[i].loop \in {"run", "exit", "delete"} => feeding = i \/ tunMap[tunSes[i].src] = i
    /\ tunAt = "insert" <=> feeding # 0
    /\ feeding # 0 => tunSes[feeding].conn # "none" /\ tunMap[tunSes[feeding].src] = 0

\* A session that is open is looked after: by its goroutine, or by a cleanup
\* that has marked it and keeps it in the map.
ClosingInv ==
    /\ \A k \in Cleanups : tunClosing[k] # 0 => /\ tunSes[tunClosing[k]].conn # "none"
                                                /\ tunMap[tunSes[tunClosing[k]].src] = tunClosing[k]
    /\ \A i \in 1..MaxTunnel :
          tunSes[i].conn = "open" =>
             IF tunSes[i].timeout THEN \E k \in Cleanups : tunClosing[k] = i
             ELSE tunSes[i].loop \in {"run", "exit"}
    /\ tunAt = "returned" => \A a \in Sources : tunMap[a] # 0 => tunSes[tunMap[a]].conn = "closed"

TunInv == TunTypeOK /\ TableInv /\ ClosingInv

\* Every step of Serve, of a receive goroutine or of a cleanup keeps the invariant.
LEMMA TunStep == TunInv /\ [NextTun]_tunVars => TunInv'
<1> SUFFICES ASSUME TunInv, [NextTun]_tunVars PROVE TunInv'
  OBVIOUS
<1> USE TunnelAssumption
<1>0. TunTypeOK /\ TableInv /\ ClosingInv
  BY DEF TunInv
<1>1. ASSUME NEW a \in Sources, TunnelFeed(a) PROVE TunInv'
  <2>1. ASSUME tunMap[a] # 0, tunSes' = [tunSes EXCEPT ![tunMap[a]].idle = FALSE], UNCHANGED <<tunAt, feeding>> PROVE TunInv'
    <3>1. TunTypeOK'
      <4>1. tunMap[a] \in 1..MaxTunnel /\ tunSes[tunMap[a]] \in Sessions
        BY <2>1, <1>0, <1>1 DEF TunTypeOK, TunnelFeed
      <4>2. [tunSes[tunMap[a]] EXCEPT !.idle = FALSE] \in Sessions
        BY <4>1 DEF Sessions, Loops, NotOpened
      <4>3. tunSes' = [tunSes EXCEPT ![tunMap[a]] = [tunSes[tunMap[a]] EXCEPT !.idle = FALSE]]
        BY <2>1, <1>0, <1>1, <4>1 DEF TunTypeOK, TunnelFeed
      <4> QED
        BY <2>1, <1>0, <1>1, <4>1, <4>2, <4>3 DEF TunTypeOK, TunnelFeed, Cleanups
    <3>2. \A j \in 1..MaxTunnel :
             /\ tunSes'[j].src = tunSes[j].src
             /\ tunSes'[j].conn = tunSes[j].conn
             /\ tunSes'[j].loop = tunSes[j].loop
             /\ tunSes'[j].timeout = tunSes[j].timeout
      BY <2>1, <1>0, <1>1 DEF TunTypeOK, TunnelFeed, Sessions, NotOpened
    <3>3. TableInv'
      BY <2>1, <3>1, <3>2, <1>0, <1>1 DEF TunTypeOK, TableInv, TunnelFeed, Unlocked, Cleanups
    <3>4. ClosingInv'
      BY <2>1, <3>1, <3>2, <1>0, <1>1 DEF TunTypeOK, TableInv, ClosingInv, TunnelFeed, Unlocked, Cleanups
    <3> QED
      BY <3>1, <3>3, <3>4 DEF TunInv
  <2>2. ASSUME NEW i \in 1..MaxTunnel, tunMap[a] = 0, tunSes[i].conn = "none", tunAt' = "insert", feeding' = i,
               tunSes' = [tunSes EXCEPT ![i] = [NotOpened EXCEPT !.src = a, !.conn = "open", !.loop = "run"]]
        PROVE TunInv'
    <3>1. TunTypeOK'
      <4>1. i \in 1..MaxTunnel /\ tunSes[i] \in Sessions
        BY <2>2, <1>0, <1>1 DEF TunTypeOK, TunnelFeed
      <4>2. [NotOpened EXCEPT !.src = a, !.conn = "open", !.loop = "run"] \in Sessions
        BY <4>1 DEF Sessions, Loops, NotOpened
      <4>3. tunSes' = [tunSes EXCEPT ![i] = [NotOpened EXCEPT !.src = a, !.conn = "open", !.loop = "run"]]
        BY <2>2, <1>0, <1>1, <4>1 DEF TunTypeOK, TunnelFeed
      <4> QED
        BY <2>2, <1>0, <1>1, <4>1, <4>2, <4>3 DEF TunTypeOK, TunnelFeed, Cleanups
    <3>2. \A j \in 1..MaxTunnel :
             /\ tunSes'[j].src = IF j = i THEN a ELSE tunSes[j].src
             /\ tunSes'[j].conn = IF j = i THEN "open" ELSE tunSes[j].conn
             /\ tunSes'[j].loop = IF j = i THEN "run" ELSE tunSes[j].loop
             /\ tunSes'[j].timeout = IF j = i THEN FALSE ELSE tunSes[j].timeout
      BY <2>2, <1>0, <1>1 DEF TunTypeOK, TunnelFeed, Sessions, NotOpened
    <3>3. TableInv'
      BY <2>2, <3>1, <3>2, <1>0, <1>1 DEF TunTypeOK, TableInv, TunnelFeed, Unlocked, Cleanups
    <3>4. ClosingInv'
      <4>1. UNCHANGED <<tunMap, tunClosing>> /\ tunAt' = "insert"
        BY <1>1, <2>2 DEF TunnelFeed
      <4>2. \A k \in Cleanups : tunClosing[k] # 0 => tunClosing[k] \in 1..MaxTunnel /\ tunClosing[k] # i
        BY <1>0, <2>2 DEF TunTypeOK, ClosingInv
      <4>3. \A j \in 1..MaxTunnel : j # i => tunSes'[j] = tunSes[j]
        BY <1>0, <2>2 DEF TunTypeOK
      <4>4. \A k \in Cleanups : tunClosing[k] # 0 => /\ tunSes'[tunClosing[k]].conn # "none"
                                                    /\ tunMap[tunSes'[tunClosing[k]].src] = tunClosing[k]
        BY <1>0, <4>2, <4>3 DEF ClosingInv
      <4>5. ASSUME NEW j \in 1..MaxTunnel, tunSes'[j].conn = "open"
            PROVE  IF tunSes'[j].timeout THEN \E k \in Cleanups : tunClosing[k] = j
                   ELSE tunSes'[j].loop \in {"run", "exit"}
        <5>1. CASE j = i
          BY <3>2, <5>1
        <5>2. CASE j # i
          BY <1>0, <4>3, <4>5, <5>2 DEF ClosingInv
        <5> QED
          BY <5>1, <5>2
      <4> QED
        BY <4>1, <4>4, <4>5 DEF ClosingInv
    <3> QED
      BY <3>1, <3>3, <3>4 DEF TunInv
  <2> QED
    BY <1>1, <2>1, <2>2, <1>0 DEF TunnelFeed, Opened, TunTypeOK
<1>2. ASSUME Insert PROVE TunInv'
  <2>1. TunTypeOK'
    <3>1. feeding \in 1..MaxTunnel /\ tunSes[feeding].src \in Sources
      BY <1>0, <1>2 DEF TunTypeOK, TableInv, Insert
    <3> QED
      BY <1>0, <1>2, <3>1 DEF TunTypeOK, Insert
  <2>2. \A j \in 1..MaxTunnel :
           /\ tunSes'[j].src = tunSes[j].src
           /\ tunSes'[j].conn = tunSes[j].conn
           /\ tunSes'[j].loop = tunSes[j].loop
           /\ tunSes'[j].timeout = tunSes[j].timeout
    BY <1>2, <1>0 DEF TunTypeOK, Insert, Sessions, NotOpened
  <2>3. TableInv'
    BY <1>2, <2>1, <2>2, <1>0 DEF TunTypeOK, TableInv, Insert, Unlocked, Cleanups
  <2>4. ClosingInv'
    BY <1>2, <2>1, <2>2, <1>0 DEF TunTypeOK, TableInv, ClosingInv, Insert, Unlocked, Cleanups
  <2> QED
    BY <2>1, <2>3, <2>4 DEF TunInv
<1>3. ASSUME NEW i \in 1..MaxTunnel, LoopEnds(i) PROVE TunInv'
  <2>1. TunTypeOK'
    BY <1>3, <1>0, SMTT(30) DEF TunTypeOK, LoopEnds, Sessions, Loops, Cleanups, NotOpened
  <2>2. \A j \in 1..MaxTunnel :
           /\ tunSes'[j].src = tunSes[j].src
           /\ tunSes'[j].conn = tunSes[j].conn
           /\ tunSes'[j].loop = IF j = i THEN "exit" ELSE tunSes[j].loop
           /\ tunSes'[j].timeout = tunSes[j].timeout
    BY <1>3, <1>0 DEF TunTypeOK, LoopEnds, Sessions, NotOpened
  <2>3. TableInv'
    BY <1>3, <2>1, <2>2, <1>0 DEF TunTypeOK, TableInv, LoopEnds, Unlocked, Cleanups
  <2>4. ClosingInv'
    BY <1>3, <2>1, <2>2, <1>0 DEF TunTypeOK, TableInv, ClosingInv, LoopEnds, Unlocked, Cleanups
  <2> QED
    BY <2>1, <2>3, <2>4 DEF TunInv
<1>4. ASSUME NEW i \in 1..MaxTunnel, LoopExit(i) PROVE TunInv'
  <2>1. TunTypeOK'
    <3>1. i \in 1..MaxTunnel /\ tunSes[i] \in Sessions
      BY <1>4, <1>0 DEF TunTypeOK, LoopExit
    <3>2. [tunSes[i] EXCEPT !.loop = "delete", !.conn = IF tunSes[i].timeout THEN @ ELSE "closed"] \in Sessions
      BY <3>1 DEF Sessions, Loops, NotOpened
    <3>3. tunSes' = [tunSes EXCEPT ![i] = [tunSes[i] EXCEPT !.loop = "delete", !.conn = IF tunSes[i].timeout THEN @ ELSE "closed"]]
      BY <1>4, <1>0, <3>1 DEF TunTypeOK, LoopExit
    <3> QED
      BY <1>4, <1>0, <3>1, <3>2, <3>3 DEF TunTypeOK, LoopExit, Cleanups
  <2>2. \A j \in 1..MaxTunnel :
           /\ tunSes'[j].src = tunSes[j].src
           /\ tunSes'[j].conn = IF j = i /\ ~tunSes[i].timeout THEN "closed" ELSE tunSes[j].conn
           /\ tunSes'[j].loop = IF j = i THEN "delete" ELSE tunSes[j].loop
           /\ tunSes'[j].timeout = tunSes[j].timeout
    BY <1>4, <1>0 DEF TunTypeOK, LoopExit, Sessions, NotOpened
  <2>3. TableInv'
    BY <1>4, <2>1, <2>2, <1>0 DEF TunTypeOK, TableInv, LoopExit, Unlocked, Cleanups
  <2>4. ClosingInv'
    BY <1>4, <2>1, <2>2, <1>0 DEF TunTypeOK, TableInv, ClosingInv, LoopExit, Unlocked, Cleanups
  <2> QED
    BY <2>1, <2>3, <2>4 DEF TunInv
<1>5. ASSUME NEW i \in 1..MaxTunnel, LoopDelete(i) PROVE TunInv'
  <2>1. TunTypeOK'
    <3>1. i \in 1..MaxTunnel /\ tunSes[i] \in Sessions
      BY <1>5, <1>0 DEF TunTypeOK, LoopDelete
    <3>2. [tunSes[i] EXCEPT !.loop = "gone"] \in Sessions
      BY <3>1 DEF Sessions, Loops, NotOpened
    <3>3. tunSes' = [tunSes EXCEPT ![i] = [tunSes[i] EXCEPT !.loop = "gone"]]
      BY <1>5, <1>0, <3>1 DEF TunTypeOK, LoopDelete
    <3>4. tunSes[i].src \in Sources
      BY <1>0, <1>5 DEF TunTypeOK, TableInv, LoopDelete
    <3> QED
      BY <1>5, <1>0, <3>1, <3>2, <3>3, <3>4 DEF TunTypeOK, LoopDelete, Cleanups
  <2>2. \A j \in 1..MaxTunnel :
           /\ tunSes'[j].src = tunSes[j].src
           /\ tunSes'[j].conn = tunSes[j].conn
           /\ tunSes'[j].loop = IF j = i THEN "gone" ELSE tunSes[j].loop
           /\ tunSes'[j].timeout = tunSes[j].timeout
    BY <1>5, <1>0 DEF TunTypeOK, LoopDelete, Sessions, NotOpened
  <2>3. TableInv'
    BY <1>5, <2>1, <2>2, <1>0 DEF TunTypeOK, TableInv, LoopDelete, Unlocked, Cleanups
  <2>4. ClosingInv'
    BY <1>5, <2>1, <2>2, <1>0 DEF TunTypeOK, TableInv, ClosingInv, LoopDelete, Unlocked, Cleanups
  <2> QED
    BY <2>1, <2>3, <2>4 DEF TunInv
<1>6. ASSUME NEW i \in 1..MaxTunnel, GoesIdle(i) PROVE TunInv'
  <2>1. TunTypeOK'
    BY <1>6, <1>0, ZenonT(40) DEF TunTypeOK, GoesIdle, Sessions, Loops, Cleanups, NotOpened
  <2>2. \A j \in 1..MaxTunnel :
           /\ tunSes'[j].src = tunSes[j].src
           /\ tunSes'[j].conn = tunSes[j].conn
           /\ tunSes'[j].loop = tunSes[j].loop
           /\ tunSes'[j].timeout = tunSes[j].timeout
    BY <1>6, <1>0 DEF TunTypeOK, GoesIdle, Sessions, NotOpened
  <2>3. TableInv'
    BY <1>6, <2>1, <2>2, <1>0 DEF TunTypeOK, TableInv, GoesIdle, Unlocked, Cleanups
  <2>4. ClosingInv'
    BY <1>6, <2>1, <2>2, <1>0 DEF TunTypeOK, TableInv, ClosingInv, GoesIdle, Unlocked, Cleanups
  <2> QED
    BY <2>1, <2>3, <2>4 DEF TunInv
<1>7. ASSUME NEW k \in Cleanups, NEW a \in Sources, CleanupMark(k, a) PROVE TunInv'
  <2>1. TunTypeOK'
    <3>1. tunMap[a] \in 1..MaxTunnel /\ tunSes[tunMap[a]] \in Sessions
      BY <1>7, <1>0 DEF TunTypeOK, CleanupMark
    <3>2. [tunSes[tunMap[a]] EXCEPT !.timeout = TRUE] \in Sessions
      BY <3>1 DEF Sessions, Loops, NotOpened
    <3>3. tunSes' = [tunSes EXCEPT ![tunMap[a]] = [tunSes[tunMap[a]] EXCEPT !.timeout = TRUE]]
      BY <1>7, <1>0, <3>1 DEF TunTypeOK, CleanupMark
    <3> QED
      BY <1>7, <1>0, <3>1, <3>2, <3>3 DEF TunTypeOK, CleanupMark, Cleanups
  <2>2. \A j \in 1..MaxTunnel :
           /\ tunSes'[j].src = tunSes[j].src
           /\ tunSes'[j].conn = tunSes[j].conn
           /\ tunSes'[j].loop = tunSes[j].loop
           /\ tunSes'[j].timeout = (tunSes[j].timeout \/ j = tunMap[a])
    BY <1>7, <1>0, ZenonT(40) DEF TunTypeOK, CleanupMark, Sessions, NotOpened
  <2>3. TableInv'
    BY <1>7, <2>1, <2>2, <1>0 DEF TunTypeOK, TableInv, CleanupMark, Unlocked, Cleanups
  <2>4. ClosingInv'
    BY <1>7, <2>1, <2>2, <1>0 DEF TunTypeOK, TableInv, ClosingInv, CleanupMark, Unlocked, Cleanups
  <2> QED
    BY <2>1, <2>3, <2>4 DEF TunInv
<1>8. ASSUME NEW k \in Cleanups, CleanupClose(k) PROVE TunInv'
  <2>1. TunTypeOK'
    BY <1>8, <1>0, SMTT(30) DEF TunTypeOK, CleanupClose, Sessions, Loops, Cleanups, NotOpened
  <2>2. \A j \in 1..MaxTunnel :
           /\ tunSes'[j].src = tunSes[j].src
           /\ tunSes'[j].conn = IF j = tunClosing[k] THEN "closed" ELSE tunSes[j].conn
           /\ tunSes'[j].loop = tunSes[j].loop
           /\ tunSes'[j].timeout = tunSes[j].timeout
    BY <1>8, <1>0 DEF TunTypeOK, CleanupClose, Sessions, NotOpened
  <2>3. TableInv'
    BY <1>8, <2>1, <2>2, <1>0 DEF TunTypeOK, TableInv, ClosingInv, CleanupClose
  <2>4. ClosingInv'
    BY <1>8, <2>1, <2>2, <1>0 DEF TunTypeOK, TableInv, ClosingInv, CleanupClose, Unlocked, Cleanups
  <2> QED
    BY <2>1, <2>3, <2>4 DEF TunInv
<1>9. CASE ServeEnds
  BY <1>0, <1>9 DEF ServeEnds, TunInv, TunTypeOK, TableInv, ClosingInv
<1>10. CASE UNCHANGED tunVars
  BY <1>0, <1>10 DEF tunVars, TunInv, TunTypeOK, TableInv, ClosingInv
<1> QED
  BY <1>0, <1>1, <1>2, <1>3, <1>4, <1>5, <1>6, <1>7, <1>8, <1>9, <1>10 DEF NextTun, TunTypeOK

\* Whoever closes a forwarded session first, its receive goroutine, the idle
\* cleanup or the one that Serve defers (forwarding/udp.go), none is open once
\* Serve has returned.
THEOREM TunnelSessionsClose == SpecTun => []TunnelClosesSessions
<1>1. InitTun => TunInv
  BY TunnelAssumption DEF InitTun, TunInv, TunTypeOK, TableInv, ClosingInv, Cleanups, Sessions, Loops, NotOpened
<1>2. TunInv => TunnelClosesSessions
  BY TunnelAssumption DEF TunInv, TunTypeOK, TableInv, ClosingInv, TunnelClosesSessions, Sessions, Opened, Loops, Cleanups
<1> QED
  BY <1>1, <1>2, TunStep, PTL DEF SpecTun

-----------------------------------------------------------------------------
(* ProxyMux *)

SubRecords == [mux : Muxes \cup {Nil}, proto : Protocols \cup {"none"},
               acceptClosed : BOOLEAN, closeClosed : BOOLEAN]
MainStates == {"none", "top", "select", "idle", "exit", "close", "release", "done"}

MuxTypeOK ==
    /\ main \in [Muxes -> MainStates]
    /\ slot \in [Muxes -> [Protocols -> Subs \cup {Nil}]]
    /\ watched \in [Muxes -> [Protocols -> Subs \cup {Nil}]]
    /\ sub \in [Subs -> SubRecords]
    /\ caller \in [Protocols -> Muxes \cup {Nil}]
    /\ registry \in Muxes \cup {Nil}

\* A sub-listener that serves belongs to a mux and a protocol.
SubsOwned == \A s \in Subs : Serving(s) => sub[s].mux \in Muxes /\ sub[s].proto \in Protocols

MuxInv == MuxTypeOK /\ SubsOwned /\ NoOrphanListener

\* A step that leaves slots and sub-listeners alone and ends no mainLoop.
LEMMA MuxQuiet ==
  ASSUME MuxInv, UNCHANGED <<slot, sub>>, MuxTypeOK',
         \A m \in Muxes : main'[m] = "done" => main[m] = "done"
  PROVE  MuxInv'
  BY DEF MuxInv, SubsOwned, NoOrphanListener, Serving

\* The goroutines of a mux and the callers of Listen and Close keep the invariant.
LEMMA MuxStep == MuxInv /\ [NextMux]_muxVars => MuxInv'
<1> SUFFICES ASSUME MuxInv, [NextMux]_muxVars PROVE MuxInv'
  OBVIOUS
<1> USE MuxAssumption DEF Nil, Muxes, Subs
<1>0. MuxTypeOK /\ SubsOwned /\ NoOrphanListener
  BY DEF MuxInv
<1>1. ASSUME NEW p \in Protocols, GetOrCreate(p) PROVE MuxInv'
  <2>1. CASE caller' = [caller EXCEPT ![p] = registry] /\ UNCHANGED <<registry, main>>
    <3>1. MuxTypeOK'
      BY <1>0, <1>1, <2>1 DEF MuxTypeOK, GetOrCreate
    <3> QED
      BY <1>1, <2>1, <3>1, MuxQuiet DEF GetOrCreate
  <2>2. ASSUME NEW m \in Muxes, registry' = m, main' = [main EXCEPT ![m] = "top"],
               caller' = [caller EXCEPT ![p] = m]
        PROVE  MuxInv'
    <3>1. MuxTypeOK' /\ \A k \in Muxes : main'[k] = "done" => main[k] = "done"
      BY <1>0, <1>1, <2>2 DEF MuxTypeOK, GetOrCreate, MainStates
    <3> QED
      BY <1>1, <3>1, MuxQuiet DEF GetOrCreate
  <2> QED
    BY <1>1, <2>1, <2>2 DEF GetOrCreate
<1>2. ASSUME NEW p \in Protocols, Listen(p) PROVE MuxInv'
  <2> DEFINE m == caller[p]
  <2>1. m \in Muxes /\ UNCHANGED <<main, watched, registry>> /\ caller' = [caller EXCEPT ![p] = Nil]
    BY <1>0, <1>2 DEF Listen, MuxTypeOK
  <2>2. CASE UNCHANGED <<slot, sub>>
    <3>1. MuxTypeOK'
      BY <1>0, <2>1, <2>2 DEF MuxTypeOK
    <3> QED
      BY <2>1, <2>2, <3>1, MuxQuiet
  <2>3. CASE ~InUse(m, p) /\ slot' = [slot EXCEPT ![m][p] = Nil] /\ UNCHANGED sub
    <3>1. MuxTypeOK'
      BY <1>0, <2>1, <2>3 DEF MuxTypeOK
    <3>2. NoOrphanListener'
      BY <1>0, <2>1, <2>3 DEF MuxTypeOK, NoOrphanListener, Serving, InUse, SubsOwned
    <3> QED
      BY <1>0, <2>3, <3>1, <3>2 DEF MuxInv, SubsOwned, Serving
  <2>4. ASSUME NEW s \in Subs, NewSub(m, p, s), ~InUse(m, p), ~MuxClosed(m) PROVE MuxInv'
    <3> DEFINE r == [NoSub EXCEPT !.mux = m, !.proto = p]
    <3>1. r \in SubRecords /\ r.mux = m /\ r.proto = p
      BY <2>1 DEF NoSub, SubRecords
    <3>2. sub' = [sub EXCEPT ![s] = r] /\ slot' = [slot EXCEPT ![m][p] = s]
      BY <2>4 DEF NewSub
    <3> HIDE DEF r
    <3>3. MuxTypeOK'
      BY <1>0, <2>1, <3>1, <3>2 DEF MuxTypeOK
    <3>4. \A t \in Subs : t # s => sub'[t] = sub[t]
      BY <1>0, <3>2 DEF MuxTypeOK
    <3>5. sub'[s].mux = m /\ sub'[s].proto = p
      BY <1>0, <3>1, <3>2 DEF MuxTypeOK
    <3>6. SubsOwned'
      BY <1>0, <2>1, <3>4, <3>5 DEF SubsOwned, Serving
    <3>7. NoOrphanListener'
      <4> SUFFICES ASSUME NEW t \in Subs, Serving(t)'
                   PROVE  slot'[sub'[t].mux][sub'[t].proto] = t /\ main'[sub'[t].mux] # "done"
        BY DEF NoOrphanListener
      <4>1. CASE t = s
        BY <1>0, <2>1, <2>4, <3>2, <3>5, <4>1 DEF MuxTypeOK, MuxClosed
      <4>2. CASE t # s
        <5>1. Serving(t) /\ sub'[t] = sub[t]
          BY <3>4, <4>2 DEF Serving
        <5>2. slot[sub[t].mux][sub[t].proto] = t /\ sub[t].mux \in Muxes /\ sub[t].proto \in Protocols
          BY <1>0, <5>1 DEF NoOrphanListener, SubsOwned, Serving
        <5>3. ~(sub[t].mux = m /\ sub[t].proto = p)
          BY <2>4, <5>1, <5>2 DEF InUse, Serving
        <5> QED
          BY <1>0, <2>1, <3>2, <5>1, <5>2, <5>3 DEF MuxTypeOK, NoOrphanListener
      <4> QED
        BY <4>1, <4>2
    <3> QED
      BY <3>3, <3>6, <3>7 DEF MuxInv
  <2> QED
    BY <1>2, <2>2, <2>3, <2>4 DEF Listen
<1>3. ASSUME NEW s \in Subs, CloseSub(s) PROVE MuxInv'
  <2>1. sub' = [sub EXCEPT ![s] = [sub[s] EXCEPT !.closeClosed = TRUE]] /\ UNCHANGED <<slot, main, watched, caller, registry>>
    BY <1>3 DEF CloseSub
  <2>2. sub[s] \in SubRecords
    BY <1>0 DEF MuxTypeOK
  <2>3. /\ [sub[s] EXCEPT !.closeClosed = TRUE] \in SubRecords
        /\ [sub[s] EXCEPT !.closeClosed = TRUE].closeClosed
        /\ [sub[s] EXCEPT !.closeClosed = TRUE].mux = sub[s].mux
        /\ [sub[s] EXCEPT !.closeClosed = TRUE].proto = sub[s].proto
    BY <2>2 DEF SubRecords
  <2>4. MuxTypeOK'
    BY <1>0, <2>1, <2>3 DEF MuxTypeOK
  <2>5. \A t \in Subs : IF t = s THEN sub'[t] = [sub[s] EXCEPT !.closeClosed = TRUE] ELSE sub'[t] = sub[t]
    BY <1>0, <2>1 DEF MuxTypeOK
  <2>6. SubsOwned'
    BY <1>0, <1>3, <2>3, <2>5 DEF SubsOwned, Serving
  <2>7. NoOrphanListener'
    BY <1>0, <2>1, <2>3, <2>5 DEF NoOrphanListener, Serving
  <2> QED
    BY <2>4, <2>6, <2>7 DEF MuxInv
<1>4. ASSUME NEW m \in Muxes, NEW p \in Protocols, MainSubClosed(m, p) PROVE MuxInv'
  <2> DEFINE s == watched[m][p]
  <2>1. s \in Subs /\ sub[s].closeClosed /\ UNCHANGED <<sub, caller, registry>>
        /\ slot' = [slot EXCEPT ![m][p] = IF @ = s THEN Nil ELSE @]
        /\ main' = [main EXCEPT ![m] = "idle"] /\ watched' = [watched EXCEPT ![m] = NoSlots]
    BY <1>0, <1>4 DEF MainSubClosed, MuxTypeOK
  <2> HIDE DEF s
  <2>2. MuxTypeOK'
    BY <1>0, <2>1 DEF MuxTypeOK, MainStates, NoSlots
  <2>3. \A t \in Subs : Serving(t)' => Serving(t) /\ t # s
    BY <2>1 DEF Serving
  <2>4. \A k \in Muxes, q \in Protocols : slot[k][q] # s => slot'[k][q] = slot[k][q]
    BY <1>0, <2>1 DEF MuxTypeOK
  <2>5. \A k \in Muxes : main'[k] = "done" => main[k] = "done"
    BY <1>0, <2>1 DEF MuxTypeOK
  <2>6. NoOrphanListener'
    BY <1>0, <2>1, <2>3, <2>4, <2>5 DEF NoOrphanListener, SubsOwned, Serving
  <2> QED
    BY <1>0, <2>1, <2>2, <2>6 DEF MuxInv, SubsOwned, Serving
<1>5. ASSUME NEW m \in Muxes, ExitRelease(m) PROVE MuxInv'
  <2> DEFINE In(s) == \E p \in Protocols : slot[m][p] = s
  <2>1. /\ sub' = [s \in Subs |-> IF In(s) THEN [sub[s] EXCEPT !.acceptClosed = TRUE] ELSE sub[s]]
        /\ slot' = [slot EXCEPT ![m] = NoSlots] /\ main' = [main EXCEPT ![m] = "done"]
        /\ UNCHANGED <<watched, caller, registry>>
    BY <1>5 DEF ExitRelease
  <2>2. ASSUME NEW s \in Subs
        PROVE  /\ [sub[s] EXCEPT !.acceptClosed = TRUE] \in SubRecords
               /\ [sub[s] EXCEPT !.acceptClosed = TRUE].acceptClosed
               /\ [sub[s] EXCEPT !.acceptClosed = TRUE].mux = sub[s].mux
               /\ [sub[s] EXCEPT !.acceptClosed = TRUE].proto = sub[s].proto
               /\ sub[s] \in SubRecords
    BY <1>0 DEF MuxTypeOK, SubRecords
  <2> HIDE DEF In
  <2>3. MuxTypeOK'
    BY <1>0, <2>1, <2>2 DEF MuxTypeOK, MainStates, NoSlots
  <2>4. \A s \in Subs : sub'[s].mux = sub[s].mux /\ sub'[s].proto = sub[s].proto /\ (In(s) => sub'[s].acceptClosed)
    BY <2>1, <2>2
  <2>5. \A s \in Subs : ~In(s) => sub'[s] = sub[s]
    BY <2>1
  <2>6. ASSUME NEW s \in Subs, Serving(s)' PROVE Serving(s) /\ sub'[s] = sub[s] /\ sub[s].mux # m
    <3>1. Serving(s) /\ sub'[s] = sub[s] /\ ~In(s)
      BY <2>4, <2>5, <2>6 DEF Serving
    <3> QED
      BY <1>0, <3>1 DEF NoOrphanListener, SubsOwned, Serving, In
  <2>7. SubsOwned'
    BY <1>0, <2>6 DEF SubsOwned
  <2>8. NoOrphanListener'
    BY <1>0, <2>1, <2>6 DEF NoOrphanListener, SubsOwned, Serving, MuxTypeOK
  <2> QED
    BY <2>3, <2>7, <2>8 DEF MuxInv
<1>6. ASSUME NEW m \in Muxes, MainTop(m) PROVE MuxInv'
  <2>1. MuxTypeOK' /\ \A k \in Muxes : main'[k] = "done" => main[k] = "done"
    BY <1>0, <1>6 DEF MuxTypeOK, MainTop, MainStates, NoSlots
  <2> QED
    BY <1>6, <2>1, MuxQuiet DEF MainTop
<1>7. ASSUME NEW m \in Muxes, CheckIdle(m) PROVE MuxInv'
  <2>1. MuxTypeOK' /\ \A k \in Muxes : main'[k] = "done" => main[k] = "done"
    BY <1>0, <1>7 DEF MuxTypeOK, CheckIdle, MainStates, NoSlots
  <2> QED
    BY <1>7, <2>1, MuxQuiet DEF CheckIdle
<1>8. ASSUME NEW m \in Muxes, MainAcceptClosed(m) PROVE MuxInv'
  <2>1. MuxTypeOK' /\ \A k \in Muxes : main'[k] = "done" => main[k] = "done"
    BY <1>0, <1>8 DEF MuxTypeOK, MainAcceptClosed, MainStates, NoSlots
  <2> QED
    BY <1>8, <2>1, MuxQuiet DEF MainAcceptClosed
<1>9. ASSUME NEW m \in Muxes, ExitDelete(m) PROVE MuxInv'
  <2>1. MuxTypeOK' /\ \A k \in Muxes : main'[k] = "done" => main[k] = "done"
    BY <1>0, <1>9 DEF MuxTypeOK, ExitDelete, MainStates, NoSlots
  <2> QED
    BY <1>9, <2>1, MuxQuiet DEF ExitDelete
<1>10. ASSUME NEW m \in Muxes, ExitClose(m) PROVE MuxInv'
  <2>1. MuxTypeOK' /\ \A k \in Muxes : main'[k] = "done" => main[k] = "done"
    BY <1>0, <1>10 DEF MuxTypeOK, ExitClose, MainStates, NoSlots
  <2> QED
    BY <1>10, <2>1, MuxQuiet DEF ExitClose
<1>11. ASSUME NEW m \in Muxes, NEW c \in LocalConns, MainConn(m, c) PROVE MuxInv'
  <2>1. MuxTypeOK' /\ \A k \in Muxes : main'[k] = "done" => main[k] = "done"
    BY <1>0, <1>11 DEF MuxTypeOK, MainConn, MainStates, NoSlots
  <2> QED
    BY <1>11, <2>1, MuxQuiet DEF MainConn
<1>12. ASSUME UNCHANGED <<registry, main, watched, slot, sub, caller>> PROVE MuxInv'
  BY <1>0, <1>12 DEF MuxInv, MuxTypeOK, SubsOwned, NoOrphanListener, Serving
<1>13. ASSUME NEW s \in Subs, NEW c \in LocalConns, AcceptConn(s, c) PROVE MuxInv'
  BY <1>12, <1>13 DEF AcceptConn
<1>14. ASSUME NEW s \in Subs, AcceptError(s) PROVE MuxInv'
  BY <1>12, <1>14 DEF AcceptError
<1>15. ASSUME NEW m \in Muxes, BaseAcceptError(m) PROVE MuxInv'
  BY <1>12, <1>15 DEF BaseAcceptError
<1>16. ASSUME NEW m \in Muxes, NEW c \in LocalConns, BaseAccept(m, c) PROVE MuxInv'
  BY <1>12, <1>16 DEF BaseAccept
<1>17. ASSUME NEW m \in Muxes, NEW c \in LocalConns, AcceptLoopQuit(m, c) PROVE MuxInv'
  BY <1>12, <1>17 DEF AcceptLoopQuit
<1>18. ASSUME NEW c \in LocalConns, DispatchStep(c) PROVE MuxInv'
  BY <1>12, <1>18 DEF DispatchStep, DispatchRead, DispatchDropped, DispatchPanic
<1>19. CASE UNCHANGED muxVars
  BY <1>12, <1>19 DEF muxVars
<1> QED
  BY <1>1, <1>2, <1>3, <1>4, <1>5, <1>6, <1>7, <1>8, <1>9, <1>10, <1>11, <1>13, <1>14, <1>15,
     <1>16, <1>17, <1>18, <1>19 DEF NextMux, MainStep

\* Whatever Listen calls race the shutdown of a muxListener (proxymux), a
\* sub-listener that was handed out and not closed has a mainLoop that offers it
\* connections or tells it of the end.
THEOREM NoListenerIsOrphaned == SpecMux => []NoOrphanListener
<1> USE MuxAssumption DEF Nil, Muxes, Subs
<1>1. InitMux => MuxInv
  <2> SUFFICES ASSUME InitMux PROVE MuxInv
    OBVIOUS
  <2>1. MuxTypeOK
    BY DEF InitMux, MuxTypeOK, SubRecords, MainStates, NoSub, NoSlots
  <2>2. \A s \in Subs : sub[s] = NoSub
    BY DEF InitMux
  <2> QED
    BY <2>1, <2>2 DEF MuxInv, SubsOwned, NoOrphanListener, Serving
<1>2. MuxInv => NoOrphanListener
  BY DEF MuxInv
<1> QED
  BY <1>1, <1>2, MuxStep, PTL DEF SpecMux

-----------------------------------------------------------------------------
(* LocalInbounds *)

ResourceStates == {"none", "open", "closed"}
GoroutineStates == {"none", "run", "write", "ended"}
Handlers == {"none", "negotiate", "request", "http", "httpreq", "tcp", "udp", "relay", "done"}
InbRecords ==
    [kind : Kinds \cup {"none"}, at : Handlers, auth : BOOLEAN, cred : Credentials,
     served : SUBSET Credentials,
     local : ResourceStates, remote : ResourceStates, sock : ResourceStates,
     up : GoroutineStates, down : GoroutineStates, hold : GoroutineStates, errs : Nat,
     client : Senders \cup {"none"}, senders : SUBSET Senders, early : Nat, pending : Nat,
     out : Seq({"early", "later"})]

\* What is in errChan and what will still be sent to it.
Busy(g) == IF g \in {"run", "write"} THEN 1 ELSE 0
ResultsDue(r) == r.errs + Busy(r.up) + Busy(r.hold) + (IF r.sock = "none" THEN Busy(r.down) ELSE 0)

\* Before the relay nothing is open in the tunnel, running or forwarded, and
\* after the handler nothing is open; a handler that may use the tunnel has
\* admitted the credentials of the request at hand; what came early is pending
\* until it is the first thing forwarded; and the client is the only sender.
ConnOK(r) ==
    /\ r \in InbRecords
    /\ r.at \notin {"relay", "done"} =>
          /\ r.remote = "none" /\ r.sock = "none" /\ r.errs = 0 /\ r.out = << >>
          /\ r.up = "none" /\ r.down = "none" /\ r.hold = "none"
    /\ r.at = "done" => r.local # "open" /\ r.remote # "open" /\ r.sock # "open"
    /\ r.auth /\ r.at \in {"request", "httpreq", "tcp", "udp"} => r.cred = "good"
    /\ r.auth => r.served \subseteq {"good"}
    /\ r.out = << >> => r.pending = r.early /\ r.early \in {0, 1}
    /\ r.out # << >> => (r.out[1] = "early" <=> r.early = 1)
    /\ r.senders \subseteq {r.client} /\ (r.client = "none" => r.senders = {})
    /\ ResultsDue(r) <= 2

InbInv == DOMAIN inb = Inbound /\ inb = [c \in Inbound |-> inb[c]] /\ \A c \in Inbound : ConnOK(inb[c])

\* The deferred closes of a handler.
LEMMA ReleasedOK ==
  ASSUME NEW r, ConnOK(r)
  PROVE  ConnOK(Released(r)) /\ Released(r).errs = r.errs /\ Released(r) \in InbRecords
<1> DEFINE x == Released(r)
<1>1. ASSUME NEW s \in ResourceStates
      PROVE  Closed(s) \in ResourceStates /\ Closed(s) # "open" /\ (Closed(s) = "none" <=> s = "none")
  BY DEF Closed, ResourceStates
<1>2. r \in InbRecords /\ r.local \in ResourceStates /\ r.remote \in ResourceStates /\ r.sock \in ResourceStates
  BY DEF ConnOK, InbRecords
<1>3. x \in InbRecords
  BY <1>1, <1>2 DEF InbRecords, Released, Handlers
<1>4. /\ x.at = "done" /\ x.auth = r.auth /\ x.cred = r.cred /\ x.served = r.served
      /\ x.local = Closed(r.local) /\ x.remote = Closed(r.remote) /\ x.sock = Closed(r.sock)
      /\ x.up = r.up /\ x.down = r.down /\ x.hold = r.hold /\ x.errs = r.errs
      /\ x.client = r.client /\ x.senders = r.senders /\ x.early = r.early
      /\ x.pending = r.pending /\ x.out = r.out
  BY <1>2 DEF InbRecords, Released
<1> HIDE DEF x
<1>5. ResultsDue(x) = ResultsDue(r)
  BY <1>1, <1>2, <1>4 DEF ResultsDue
<1>6. ConnOK(x)
  BY <1>1, <1>2, <1>3, <1>4, <1>5 DEF ConnOK
<1> QED
  BY <1>3, <1>4, <1>6 DEF x

\* A request that was let in may use the tunnel.
LEMMA UsesOK ==
  ASSUME NEW r, ConnOK(r), r.at \in {"httpreq", "tcp", "udp"}
  PROVE  ConnOK(Uses(r)) /\ Uses(r) \in InbRecords /\ Uses(r).at = r.at
<1> DEFINE x == Uses(r)
<1>1. r \in InbRecords /\ r.served \cup {r.cred} \in SUBSET Credentials
  BY DEF ConnOK, InbRecords
<1>2. x \in InbRecords
  BY <1>1 DEF InbRecords, Uses
<1>3. /\ x.at = r.at /\ x.auth = r.auth /\ x.cred = r.cred /\ x.served = r.served \cup {r.cred}
      /\ x.local = r.local /\ x.remote = r.remote /\ x.sock = r.sock /\ x.up = r.up
      /\ x.down = r.down /\ x.hold = r.hold /\ x.errs = r.errs /\ x.client = r.client
      /\ x.senders = r.senders /\ x.early = r.early /\ x.pending = r.pending /\ x.out = r.out
  BY <1>1 DEF InbRecords, Uses
<1> HIDE DEF x
<1>4. ConnOK(x)
  BY <1>1, <1>2, <1>3 DEF ConnOK, ResultsDue, Busy
<1> QED
  BY <1>2, <1>3, <1>4 DEF x

\* What is appended comes first only in an empty sequence.
LEMMA AppendFirst ==
  ASSUME NEW S, NEW q \in Seq(S), NEW w \in S
  PROVE  /\ Append(q, w) \in Seq(S) /\ Append(q, w) # << >>
         /\ Append(q, w)[1] = IF q = << >> THEN w ELSE q[1]
<1>1. Append(q, w) \in Seq(S) /\ Len(Append(q, w)) = Len(q) + 1 /\ Len(q) \in Nat
  OBVIOUS
<1>2. CASE q = << >>
  BY <1>1, <1>2
<1>3. CASE q # << >>
  <2>1. Len(q) # 0
    BY <1>3
  <2>2. 1 \in 1..Len(q)
    BY <1>1, <2>1
  <2>3. Append(q, w)[1] = q[1]
    BY <2>2
  <2> QED
    BY <1>1, <1>3, <2>3
<1> QED
  BY <1>2, <1>3

\* A connection not yet accepted.
LEMMA FreshOK ==
  /\ ConnOK(Fresh)
  /\ Fresh.served = {} /\ Fresh.remote = "none" /\ Fresh.sock = "none" /\ Fresh.up = "none"
  /\ Fresh.down = "none" /\ Fresh.hold = "none" /\ Fresh.errs = 0 /\ Fresh.out = << >>
  /\ Fresh.pending = 0 /\ Fresh.early = 0 /\ Fresh.senders = {}
<1>1. << >> \in Seq({"early", "later"})
  OBVIOUS
<1> QED
  BY <1>1 DEF ConnOK, ResultsDue, Busy, InbRecords, Fresh, ResourceStates, GoroutineStates, Handlers, Credentials

\* One connection changes, into one that is as good.
LEMMA SetKeeps ==
  ASSUME InbInv, NEW c \in Inbound, NEW rec, Set(c, rec), ConnOK(rec)
  PROVE  InbInv'
<1>1. \A d \in Inbound : inb'[d] = IF d = c THEN rec ELSE inb[d]
  BY DEF InbInv, Set
<1> QED
  BY <1>1 DEF InbInv, Set

\* A goroutine's result takes the place that was kept for it.
LEMMA ReportOK ==
  ASSUME NEW r, ConnOK(r), NEW g \in {"up", "down", "hold"}, r[g] \in {"run", "write"},
         g = "down" => r.sock = "none"
  PROVE  ConnOK([r EXCEPT ![g] = "ended", !.errs = @ + 1])
<1>1. r \in InbRecords /\ r.errs + 1 \in Nat
  BY DEF ConnOK, InbRecords
<1>2. r.up \in GoroutineStates /\ r.down \in GoroutineStates /\ r.hold \in GoroutineStates /\ r.errs \in Nat
  BY <1>1 DEF InbRecords
<1>3. CASE g = "up"
  <2> DEFINE x == [r EXCEPT !.up = "ended", !.errs = @ + 1]
  <2>1. x \in InbRecords
    BY <1>1 DEF InbRecords, GoroutineStates
  <2>2. /\ x.at = r.at /\ x.auth = r.auth /\ x.cred = r.cred /\ x.served = r.served
        /\ x.local = r.local /\ x.remote = r.remote /\ x.sock = r.sock /\ x.up = "ended"
        /\ x.down = r.down /\ x.hold = r.hold /\ x.errs = r.errs + 1 /\ x.client = r.client
        /\ x.senders = r.senders /\ x.early = r.early /\ x.pending = r.pending /\ x.out = r.out
    BY <1>1 DEF InbRecords
  <2> HIDE DEF x
  <2>3. ResultsDue(x) = ResultsDue(r)
    BY <1>2, <1>3, <2>2 DEF ResultsDue, Busy
  <2>4. ConnOK(x)
    BY <1>1, <1>3, <2>1, <2>2, <2>3 DEF ConnOK
  <2> QED
    BY <1>3, <2>4 DEF x
<1>4. CASE g = "down"
  <2> DEFINE x == [r EXCEPT !.down = "ended", !.errs = @ + 1]
  <2>1. x \in InbRecords
    BY <1>1 DEF InbRecords, GoroutineStates
  <2>2. /\ x.at = r.at /\ x.auth = r.auth /\ x.cred = r.cred /\ x.served = r.served
        /\ x.local = r.local /\ x.remote = r.remote /\ x.sock = r.sock /\ x.up = r.up
        /\ x.down = "ended" /\ x.hold = r.hold /\ x.errs = r.errs + 1 /\ x.client = r.client
        /\ x.senders = r.senders /\ x.early = r.early /\ x.pending = r.pending /\ x.out = r.out
    BY <1>1 DEF InbRecords
  <2> HIDE DEF x
  <2>3. ResultsDue(x) = ResultsDue(r)
    BY <1>2, <1>4, <2>2 DEF ResultsDue, Busy
  <2>4. ConnOK(x)
    BY <1>1, <1>4, <2>1, <2>2, <2>3 DEF ConnOK
  <2> QED
    BY <1>4, <2>4 DEF x
<1>5. CASE g = "hold"
  <2> DEFINE x == [r EXCEPT !.hold = "ended", !.errs = @ + 1]
  <2>1. x \in InbRecords
    BY <1>1 DEF InbRecords, GoroutineStates
  <2>2. /\ x.at = r.at /\ x.auth = r.auth /\ x.cred = r.cred /\ x.served = r.served
        /\ x.local = r.local /\ x.remote = r.remote /\ x.sock = r.sock /\ x.up = r.up
        /\ x.down = r.down /\ x.hold = "ended" /\ x.errs = r.errs + 1 /\ x.client = r.client
        /\ x.senders = r.senders /\ x.early = r.early /\ x.pending = r.pending /\ x.out = r.out
    BY <1>1 DEF InbRecords
  <2> HIDE DEF x
  <2>3. ResultsDue(x) = ResultsDue(r)
    BY <1>2, <1>5, <2>2 DEF ResultsDue, Busy
  <2>4. ConnOK(x)
    BY <1>1, <1>5, <2>1, <2>2, <2>3 DEF ConnOK
  <2> QED
    BY <1>5, <2>4 DEF x
<1> QED
  BY <1>3, <1>4, <1>5

\* Every step of a handler or of its goroutines keeps the connection good.
LEMMA InbStep == InbInv /\ [NextInb]_inb => InbInv'
<1> SUFFICES ASSUME InbInv, NEW c \in Inbound,
                    \/ Accept(c) \/ SocksNegotiate(c) \/ SocksDispatch(c)
                    \/ HTTPDispatch(c) \/ HTTPHandleRequest(c)
                    \/ SocksHandleTCP(c) \/ HTTPHandleConnect(c) \/ ForwardHandle(c) \/ RedirectHandle(c)
                    \/ TProxyHandle(c) \/ TunNewConnection(c) \/ TunNewPacketConnection(c)
                    \/ TProxyNewPair(c) \/ SocksHandleUDP(c)
                    \/ Forward(c) \/ UDPServer(c) \/ UpEnds(c) \/ WriteReturns(c) \/ HoldEnds(c)
                    \/ DownEnds(c) \/ Finish(c)
             PROVE  InbInv'
  BY DEF NextInb, InbInv
<1> DEFINE r == inb[c]
<1>1. ConnOK(r) /\ ConnOK(Released(r))
  BY ReleasedOK DEF InbInv
<1>0. r \in InbRecords
  BY <1>1 DEF ConnOK
<1> HIDE DEF r
<1>2. CASE Accept(c)
  <2>1. PICK kind \in Kinds, auth \in BOOLEAN :
          /\ auth => kind \in {"socks5", "http"}
          /\ Set(c, [Fresh EXCEPT !.kind = kind, !.auth = auth,
                                  !.local = IF kind = "tproxyudp" THEN "none" ELSE "open",
                                  !.at = CASE kind = "socks5" -> "negotiate"
                                           [] kind = "http" -> "http"
                                           [] kind \in {"tunudp", "tproxyudp"} -> "udp"
                                           [] OTHER -> "tcp"])
    BY <1>2 DEF Accept
  <2> DEFINE at == CASE kind = "socks5" -> "negotiate"
                     [] kind = "http" -> "http"
                     [] kind \in {"tunudp", "tproxyudp"} -> "udp"
                     [] OTHER -> "tcp"
             local == IF kind = "tproxyudp" THEN "none" ELSE "open"
             x == [Fresh EXCEPT !.kind = kind, !.auth = auth, !.local = local, !.at = at]
  <2>2. at \in Handlers /\ local \in ResourceStates /\ (at \in {"tcp", "udp"} => auth = FALSE)
        /\ at \in {"negotiate", "http", "tcp", "udp"}
    BY <2>1 DEF Handlers, ResourceStates
  <2> HIDE DEF at, local
  <2>3. /\ x \in InbRecords /\ x.at = at /\ x.auth = auth /\ x.served = {} /\ x.remote = "none"
        /\ x.sock = "none" /\ x.up = "none" /\ x.down = "none" /\ x.hold = "none" /\ x.errs = 0
        /\ x.out = << >> /\ x.pending = 0 /\ x.early = 0 /\ x.senders = {}
    BY <2>2, FreshOK DEF ConnOK, InbRecords
  <2>4. Set(c, x)
    BY <2>1 DEF at, local
  <2> HIDE DEF x
  <2>5. ConnOK(x)
    BY <2>2, <2>3 DEF ConnOK, ResultsDue, Busy
  <2> QED
    BY <2>4, <2>5, SetKeeps
<1>3. CASE SocksNegotiate(c)
  <2>1. r.at = "negotiate"
    BY <1>3 DEF SocksNegotiate, r
  <2>2. ASSUME NEW cred \in Credentials, Admits(c, cred)
        PROVE  ConnOK([r EXCEPT !.at = "request", !.cred = cred])
    <3>0. r.auth => cred = "good"
      BY <2>2 DEF Admits, r
    <3> DEFINE x == [r EXCEPT !.at = "request", !.cred = cred]
    <3>1. x \in InbRecords
      BY <1>0 DEF InbRecords, ResourceStates, GoroutineStates, Handlers, Credentials
    <3>2. /\ x.at = "request" /\ x.auth = r.auth /\ x.cred = cred /\ x.served = r.served
          /\ x.local = r.local /\ x.remote = r.remote /\ x.sock = r.sock /\ x.up = r.up
          /\ x.down = r.down /\ x.hold = r.hold /\ x.errs = r.errs /\ x.client = r.client
          /\ x.senders = r.senders /\ x.early = r.early /\ x.pending = r.pending
          /\ x.out = r.out
      BY <1>0 DEF InbRecords
    <3> HIDE DEF x
    <3>3. ConnOK(x)
      BY <1>0, <1>1, <2>1, <3>0, <3>1, <3>2 DEF ConnOK, ResultsDue, Busy
    <3> QED
      BY <3>3 DEF x
  <2>3. ASSUME NEW cred \in Credentials,
               Set(c, IF Admits(c, cred) THEN [r EXCEPT !.at = "request", !.cred = cred] ELSE Released(r))
        PROVE  InbInv'
    BY <1>1, <2>2, <2>3, SetKeeps
  <2> QED
    BY <1>1, <1>3, <2>3, SetKeeps DEF SocksNegotiate, r
<1>4. CASE SocksDispatch(c)
  <2>1. r.at = "request"
    BY <1>4 DEF SocksDispatch, r
  <2>2. ASSUME NEW cmd \in {"tcp", "udp"} PROVE ConnOK([r EXCEPT !.at = cmd])
    <3> DEFINE x == [r EXCEPT !.at = cmd]
    <3>1. x \in InbRecords
      BY <1>0 DEF InbRecords, ResourceStates, GoroutineStates, Handlers, Credentials
    <3>2. /\ x.at = cmd /\ x.auth = r.auth /\ x.cred = r.cred /\ x.served = r.served
          /\ x.local = r.local /\ x.remote = r.remote /\ x.sock = r.sock /\ x.up = r.up
          /\ x.down = r.down /\ x.hold = r.hold /\ x.errs = r.errs /\ x.client = r.client
          /\ x.senders = r.senders /\ x.early = r.early /\ x.pending = r.pending
          /\ x.out = r.out
      BY <1>0 DEF InbRecords
    <3> HIDE DEF x
    <3>3. ConnOK(x)
      BY <1>0, <1>1, <2>1, <3>1, <3>2 DEF ConnOK, ResultsDue, Busy
    <3> QED
      BY <3>3 DEF x
  <2>3. ASSUME NEW cmd \in {"tcp", "udp"}, Set(c, [r EXCEPT !.at = cmd]) PROVE InbInv'
    BY <2>2, <2>3, SetKeeps
  <2> QED
    BY <1>1, <1>4, <2>3, SetKeeps DEF SocksDispatch, r
<1>5. CASE HTTPDispatch(c)
  <2>1. r.at = "http"
    BY <1>5 DEF HTTPDispatch, r
  <2>2. ASSUME NEW cred \in Credentials, Admits(c, cred), Dispatched(c, cred) PROVE InbInv'
    <3>0. r.auth => cred = "good"
      BY <2>2 DEF Admits, r
    <3> DEFINE x == [r EXCEPT !.at = "httpreq", !.cred = cred]
    <3>1. x \in InbRecords
      BY <1>0 DEF InbRecords, ResourceStates, GoroutineStates, Handlers, Credentials
    <3>2. /\ x.at = "httpreq" /\ x.auth = r.auth /\ x.cred = cred /\ x.served = r.served
          /\ x.local = r.local /\ x.remote = r.remote /\ x.sock = r.sock /\ x.up = r.up
          /\ x.down = r.down /\ x.hold = r.hold /\ x.errs = r.errs /\ x.client = r.client
          /\ x.senders = r.senders /\ x.early = r.early /\ x.pending = r.pending
          /\ x.out = r.out
      BY <1>0 DEF InbRecords
    <3> HIDE DEF x
    <3>3. ConnOK(x)
      BY <1>0, <1>1, <2>1, <3>0, <3>1, <3>2 DEF ConnOK, ResultsDue, Busy
    <3>4. ASSUME NEW n \in {0, 1}, Set(c, [r EXCEPT !.at = "tcp", !.cred = cred, !.early = n, !.pending = n])
          PROVE  InbInv'
      <4>0. n \in Nat
        OBVIOUS
      <4> DEFINE y == [r EXCEPT !.at = "tcp", !.cred = cred, !.early = n, !.pending = n]
      <4>1. y \in InbRecords
        BY <1>0, <4>0 DEF InbRecords, ResourceStates, GoroutineStates, Handlers, Credentials
      <4>2. /\ y.at = "tcp" /\ y.auth = r.auth /\ y.cred = cred /\ y.served = r.served
            /\ y.local = r.local /\ y.remote = r.remote /\ y.sock = r.sock /\ y.up = r.up
            /\ y.down = r.down /\ y.hold = r.hold /\ y.errs = r.errs /\ y.client = r.client
            /\ y.senders = r.senders /\ y.early = n /\ y.pending = n /\ y.out = r.out
        BY <1>0, <4>0 DEF InbRecords
      <4> HIDE DEF y
      <4>3. ConnOK(y)
        BY <1>0, <1>1, <2>1, <3>0, <4>1, <4>2 DEF ConnOK, ResultsDue, Busy
      <4> QED
        BY <3>4, <4>3, SetKeeps DEF y
    <3>5. CASE Set(c, x)
      BY <3>3, <3>5, SetKeeps
    <3> QED
      BY <2>2, <3>4, <3>5 DEF Dispatched, x, r
  <2>3. ASSUME Set(c, Released(r)) PROVE InbInv'
    BY <1>1, <2>3, SetKeeps
  <2> QED
    BY <1>5, <2>2, <2>3 DEF HTTPDispatch, r
<1>6. ASSUME r.at \in {"httpreq", "tcp", "udp"}
      PROVE  /\ Uses(r) \in InbRecords /\ ConnOK(Uses(r)) /\ Uses(r).at = r.at
             /\ ConnOK(Released(Uses(r)))
  BY <1>1, <1>6, UsesOK, ReleasedOK
<1> DEFINE u == Uses(r)
<1> HIDE DEF u
<1>7. CASE HTTPHandleRequest(c)
  <2>1. u.at = "httpreq" /\ u \in InbRecords /\ ConnOK(u) /\ ConnOK(Released(u))
    BY <1>6, <1>7 DEF HTTPHandleRequest, r, u
  <2> DEFINE x == [u EXCEPT !.at = "http"]
  <2>2. x \in InbRecords
    BY <2>1 DEF InbRecords, ResourceStates, GoroutineStates, Handlers, Credentials
  <2>3. /\ x.at = "http" /\ x.auth = u.auth /\ x.cred = u.cred /\ x.served = u.served
        /\ x.local = u.local /\ x.remote = u.remote /\ x.sock = u.sock /\ x.up = u.up
        /\ x.down = u.down /\ x.hold = u.hold /\ x.errs = u.errs /\ x.client = u.client
        /\ x.senders = u.senders /\ x.early = u.early /\ x.pending = u.pending /\ x.out = u.out
    BY <2>1 DEF InbRecords
  <2> HIDE DEF x
  <2>4. ConnOK(x)
    BY <2>1, <2>2, <2>3 DEF ConnOK, ResultsDue, Busy
  <2> QED
    BY <1>1, <1>7, <2>1, <2>4, SetKeeps DEF HTTPHandleRequest, x, u, r
<1>8. CASE TProxyNewPair(c)
  <2>1. u.at = "udp" /\ u \in InbRecords /\ ConnOK(u) /\ ConnOK(Released(u))
    BY <1>6, <1>8 DEF TProxyNewPair, r, u
  <2> DEFINE x == [u EXCEPT !.at = "relay", !.local = "open", !.remote = "open", !.up = "run", !.down = "run"]
  <2>2. x \in InbRecords
    BY <2>1, ZenonT(40) DEF InbRecords, ResourceStates, GoroutineStates, Handlers, Credentials
  <2>3. /\ x.at = "relay" /\ x.auth = u.auth /\ x.cred = u.cred /\ x.served = u.served
        /\ x.local = "open" /\ x.remote = "open" /\ x.sock = u.sock /\ x.up = "run"
        /\ x.down = "run" /\ x.hold = u.hold /\ x.errs = u.errs /\ x.client = u.client
        /\ x.senders = u.senders /\ x.early = u.early /\ x.pending = u.pending /\ x.out = u.out
    BY <2>1 DEF InbRecords
  <2> HIDE DEF x
  <2>4. ConnOK(x)
    BY <2>1, <2>2, <2>3 DEF ConnOK, ResultsDue, Busy
  <2> QED
    BY <1>1, <1>8, <2>1, <2>4, SetKeeps DEF TProxyNewPair, x, u, r
<1>9. CASE SocksHandleUDP(c)
  <2>1. u.at = "udp" /\ u \in InbRecords /\ ConnOK(u) /\ ConnOK(Released(u))
    BY <1>6, <1>9 DEF SocksHandleUDP, r, u
  <2> DEFINE x == [u EXCEPT !.at = "relay", !.sock = "open", !.remote = "open", !.up = "run", !.hold = "run"]
  <2>2. x \in InbRecords
    BY <2>1, ZenonT(40) DEF InbRecords, ResourceStates, GoroutineStates, Handlers, Credentials
  <2>3. /\ x.at = "relay" /\ x.auth = u.auth /\ x.cred = u.cred /\ x.served = u.served
        /\ x.local = u.local /\ x.remote = "open" /\ x.sock = "open" /\ x.up = "run"
        /\ x.down = u.down /\ x.hold = "run" /\ x.errs = u.errs /\ x.client = u.client
        /\ x.senders = u.senders /\ x.early = u.early /\ x.pending = u.pending /\ x.out = u.out
    BY <2>1 DEF InbRecords
  <2> HIDE DEF x
  <2>4. ConnOK(x)
    BY <2>1, <2>2, <2>3 DEF ConnOK, ResultsDue, Busy
  <2> QED
    BY <1>1, <1>9, <2>1, <2>4, SetKeeps DEF SocksHandleUDP, x, u, r
<1>10. CASE r.at \in {"tcp", "udp"} /\ (Relay(c) \/ Set(c, Released(r)))
  <2>1. u.at \in {"tcp", "udp"} /\ u \in InbRecords /\ ConnOK(u) /\ ConnOK(Released(u))
    BY <1>6, <1>10 DEF u
  <2> DEFINE x == [u EXCEPT !.at = "relay", !.remote = "open", !.up = "run", !.down = "run"]
  <2>2. x \in InbRecords
    BY <2>1, ZenonT(40) DEF InbRecords, ResourceStates, GoroutineStates, Handlers, Credentials
  <2>3. /\ x.at = "relay" /\ x.auth = u.auth /\ x.cred = u.cred /\ x.served = u.served
        /\ x.local = u.local /\ x.remote = "open" /\ x.sock = u.sock /\ x.up = "run"
        /\ x.down = "run" /\ x.hold = u.hold /\ x.errs = u.errs /\ x.client = u.client
        /\ x.senders = u.senders /\ x.early = u.early /\ x.pending = u.pending /\ x.out = u.out
    BY <2>1 DEF InbRecords
  <2> HIDE DEF x
  <2>4. ConnOK(x)
    BY <2>1, <2>2, <2>3 DEF ConnOK, ResultsDue, Busy
  <2> QED
    BY <1>1, <1>10, <2>1, <2>4, SetKeeps DEF Relay, x, u, r
<1>11. CASE Forward(c)
  <2>1. r.up = "run" /\ r.pending \in Nat
    BY <1>0, <1>11 DEF Forward, r, InbRecords
  <2>2. ASSUME NEW w \in {"early", "later"}
        PROVE  /\ Append(r.out, w) \in Seq({"early", "later"}) /\ Append(r.out, w) # << >>
               /\ Append(r.out, w)[1] = IF r.out = << >> THEN w ELSE r.out[1]
    <3>1. r.out \in Seq({"early", "later"})
      BY <1>0 DEF InbRecords
    <3> QED
      BY <3>1, AppendFirst
  <2>3. CASE r.pending > 0
    <3>1. r.pending - 1 \in Nat
      BY <2>1, <2>3
    <3> DEFINE x == [r EXCEPT !.up = "write", !.out = Append(r.out, "early"), !.pending = r.pending - 1]
    <3>2. x \in InbRecords
      BY <1>0, <2>2, <3>1 DEF InbRecords, ResourceStates, GoroutineStates, Handlers, Credentials
    <3>3. /\ x.at = r.at /\ x.auth = r.auth /\ x.cred = r.cred /\ x.served = r.served
          /\ x.local = r.local /\ x.remote = r.remote /\ x.sock = r.sock /\ x.up = "write"
          /\ x.down = r.down /\ x.hold = r.hold /\ x.errs = r.errs /\ x.client = r.client
          /\ x.senders = r.senders /\ x.early = r.early /\ x.pending = r.pending - 1
          /\ x.out = Append(r.out, "early")
      BY <1>0, <2>2, <3>1 DEF InbRecords
    <3> HIDE DEF x
    <3>4. ConnOK(x)
      BY <1>0, <1>1, <2>1, <2>2, <2>3, <3>2, <3>3 DEF ConnOK, ResultsDue, Busy
    <3>5. Set(c, x)
      BY <1>11, <2>3 DEF Forward, x, r
    <3> QED
      BY <3>4, <3>5, SetKeeps
  <2>4. CASE ~(r.pending > 0)
    <3> DEFINE x == [r EXCEPT !.up = "write", !.out = Append(r.out, "later")]
    <3>2. x \in InbRecords
      BY <1>0, <2>2 DEF InbRecords, ResourceStates, GoroutineStates, Handlers, Credentials
    <3>3. /\ x.at = r.at /\ x.auth = r.auth /\ x.cred = r.cred /\ x.served = r.served
          /\ x.local = r.local /\ x.remote = r.remote /\ x.sock = r.sock /\ x.up = "write"
          /\ x.down = r.down /\ x.hold = r.hold /\ x.errs = r.errs /\ x.client = r.client
          /\ x.senders = r.senders /\ x.early = r.early /\ x.pending = r.pending
          /\ x.out = Append(r.out, "later")
      BY <1>0, <2>2 DEF InbRecords
    <3> HIDE DEF x
    <3>4. ConnOK(x)
      BY <1>0, <1>1, <2>1, <2>2, <2>4, <3>2, <3>3 DEF ConnOK, ResultsDue, Busy
    <3>5. Set(c, x)
      BY <1>11, <2>4 DEF Forward, x, r
    <3> QED
      BY <3>4, <3>5, SetKeeps
  <2> QED
    BY <2>3, <2>4
<1>12. CASE UDPServer(c)
  <2>1. PICK s \in Senders :
          /\ r.client \in {"none", s}
          /\ Set(c, [r EXCEPT !.up = "write", !.client = s,
                              !.down = IF r.client = "none" THEN "run" ELSE @,
                              !.senders = @ \cup {s}])
    BY <1>12 DEF UDPServer, r
  <2> DEFINE answering == IF r.client = "none" THEN "run" ELSE r.down
             heard == r.senders \cup {s}
  <2>2. heard \in SUBSET Senders /\ answering \in GoroutineStates
    BY <1>0 DEF InbRecords, GoroutineStates
  <2>3. r.up = "run" /\ r.sock = "open"
    BY <1>12 DEF UDPServer, r
  <2>4. heard \subseteq {s} /\ s # "none"
    BY <1>1, <2>1, SendersAssumption DEF ConnOK
  <2> HIDE DEF answering, heard
  <2> DEFINE x == [r EXCEPT !.up = "write", !.client = s, !.down = answering, !.senders = heard]
  <2>5. x \in InbRecords
    BY <1>0, <2>2, ZenonT(40) DEF InbRecords, ResourceStates, GoroutineStates, Handlers, Credentials
  <2>6. /\ x.at = r.at /\ x.auth = r.auth /\ x.cred = r.cred /\ x.served = r.served
        /\ x.local = r.local /\ x.remote = r.remote /\ x.sock = r.sock /\ x.up = "write"
        /\ x.down = answering /\ x.hold = r.hold /\ x.errs = r.errs /\ x.client = s
        /\ x.senders = heard /\ x.early = r.early /\ x.pending = r.pending /\ x.out = r.out
    BY <1>0, <2>2 DEF InbRecords
  <2> HIDE DEF x
  <2>7. ConnOK(x)
    BY <1>0, <1>1, <2>3, <2>4, <2>5, <2>6 DEF ConnOK, ResultsDue, Busy
  <2> QED
    BY <2>1, <2>7, SetKeeps DEF x, answering, heard
<1>13. ASSUME NEW g \in {"up", "down", "hold"}, r[g] \in {"run", "write"}, g = "down" => r.sock = "none",
              Report(c, g)
       PROVE  InbInv'
  <2>1. ConnOK([r EXCEPT ![g] = "ended", !.errs = @ + 1])
    BY <1>1, <1>13, ReportOK
  <2> QED
    BY <1>13, <2>1, SetKeeps DEF Report, r
<1>14. CASE UpEnds(c) \/ HoldEnds(c)
  BY <1>13, <1>14 DEF UpEnds, HoldEnds, r
<1>15. CASE WriteReturns(c)
  <2>1. r.up = "write"
    BY <1>15 DEF WriteReturns, r
  <2> DEFINE x == [r EXCEPT !.up = "run"]
  <2>2. x \in InbRecords
    BY <1>0 DEF InbRecords, ResourceStates, GoroutineStates, Handlers, Credentials
  <2>3. /\ x.at = r.at /\ x.auth = r.auth /\ x.cred = r.cred /\ x.served = r.served
        /\ x.local = r.local /\ x.remote = r.remote /\ x.sock = r.sock /\ x.up = "run"
        /\ x.down = r.down /\ x.hold = r.hold /\ x.errs = r.errs /\ x.client = r.client
        /\ x.senders = r.senders /\ x.early = r.early /\ x.pending = r.pending /\ x.out = r.out
    BY <1>0 DEF InbRecords
  <2> HIDE DEF x
  <2>4. ConnOK(x)
    BY <1>0, <1>1, <2>1, <2>2, <2>3 DEF ConnOK, ResultsDue, Busy
  <2>5. CASE Set(c, x)
    BY <2>4, <2>5, SetKeeps
  <2> QED
    BY <1>13, <1>15, <2>1, <2>5 DEF WriteReturns, x, r
<1>16. CASE DownEnds(c)
  <2>1. r.down = "run"
    BY <1>16 DEF DownEnds, r
  <2>2. CASE r.sock = "none"
    BY <1>13, <1>16, <2>1, <2>2 DEF DownEnds, r
  <2>3. CASE r.sock # "none"
    <3>1. Closed(r.sock) \in ResourceStates /\ Closed(r.sock) \notin {"none", "open"}
      BY <1>0, <2>3 DEF InbRecords, Closed, ResourceStates
    <3> DEFINE x == [r EXCEPT !.down = "ended", !.sock = Closed(r.sock)]
    <3>2. x \in InbRecords
      BY <1>0, <3>1 DEF InbRecords, ResourceStates, GoroutineStates, Handlers, Credentials
    <3>3. /\ x.at = r.at /\ x.auth = r.auth /\ x.cred = r.cred /\ x.served = r.served
          /\ x.local = r.local /\ x.remote = r.remote /\ x.sock = Closed(r.sock) /\ x.up = r.up
          /\ x.down = "ended" /\ x.hold = r.hold /\ x.errs = r.errs /\ x.client = r.client
          /\ x.senders = r.senders /\ x.early = r.early /\ x.pending = r.pending
          /\ x.out = r.out
      BY <1>0, <3>1 DEF InbRecords
    <3> HIDE DEF x
    <3>4. ConnOK(x)
      BY <1>0, <1>1, <2>1, <2>3, <3>1, <3>2, <3>3 DEF ConnOK, ResultsDue, Busy
    <3>5. Set(c, x)
      BY <1>16, <2>3 DEF DownEnds, x, r
    <3> QED
      BY <3>4, <3>5, SetKeeps
  <2> QED
    BY <2>2, <2>3
<1>17. CASE Finish(c)
  <2>1. CASE r.errs > 0 /\ Set(c, [Released(r) EXCEPT !.errs = @ - 1])
    <3> DEFINE y == Released(r)
    <3>1. y \in InbRecords /\ y.errs = r.errs /\ r.errs \in Nat /\ ConnOK(y) /\ y.at = "done"
      BY <1>0, <1>1, ReleasedOK DEF Released, InbRecords
    <3> HIDE DEF y
    <3>2. y.errs - 1 \in Nat
      BY <2>1, <3>1
    <3> DEFINE x == [y EXCEPT !.errs = y.errs - 1]
    <3>3. x \in InbRecords
      BY <3>1, <3>2 DEF InbRecords, ResourceStates, GoroutineStates, Handlers, Credentials
    <3>4. /\ x.at = y.at /\ x.auth = y.auth /\ x.cred = y.cred /\ x.served = y.served
          /\ x.local = y.local /\ x.remote = y.remote /\ x.sock = y.sock /\ x.up = y.up
          /\ x.down = y.down /\ x.hold = y.hold /\ x.errs = y.errs - 1 /\ x.client = y.client
          /\ x.senders = y.senders /\ x.early = y.early /\ x.pending = y.pending
          /\ x.out = y.out
      BY <3>1, <3>2 DEF InbRecords
    <3> HIDE DEF x
    <3>5. ConnOK(x)
      BY <3>1, <3>2, <3>3, <3>4 DEF ConnOK, ResultsDue, Busy
    <3> QED
      BY <2>1, <3>5, SetKeeps DEF x, y
  <2> QED
    BY <1>1, <1>17, <2>1, SetKeeps DEF Finish, r
<1> QED
  BY <1>2, <1>3, <1>4, <1>5, <1>7, <1>8, <1>9, <1>10, <1>11, <1>12, <1>14, <1>15, <1>16, <1>17
  DEF SocksHandleTCP, HTTPHandleConnect, ForwardHandle, RedirectHandle, TProxyHandle,
      TunNewConnection, TunNewPacketConnection, r

\* The goroutines that will report are as many as ResultsDue counts.
LEMMA ReportersAreCounted ==
  ASSUME NEW r, ConnOK(r)
  PROVE  r.errs + Cardinality(Reporters(r)) <= 2
<1> DEFINE U == {g \in {"up"} : r.up \in {"run", "write"}}
           H == {g \in {"hold"} : r.hold \in {"run", "write"}}
           D == {g \in {"down"} : r.down \in {"run", "write"} /\ r.sock = "none"}
<1>1. Reporters(r) = (U \cup H) \cup D
  BY DEF Reporters
<1>3. IsFiniteSet(U) /\ Cardinality(U) = Busy(r.up)
  <2>1. CASE r.up \in {"run", "write"}
    <3>1. U = {"up"}
      BY <2>1
    <3> QED
      BY <2>1, <3>1, FS_Singleton DEF Busy
  <2>2. CASE ~(r.up \in {"run", "write"})
    <3>1. U = {}
      BY <2>2
    <3> QED
      BY <2>2, <3>1, FS_EmptySet DEF Busy
  <2> QED
    BY <2>1, <2>2
<1>4. IsFiniteSet(H) /\ Cardinality(H) = Busy(r.hold)
  <2>1. CASE r.hold \in {"run", "write"}
    <3>1. H = {"hold"}
      BY <2>1
    <3> QED
      BY <2>1, <3>1, FS_Singleton DEF Busy
  <2>2. CASE ~(r.hold \in {"run", "write"})
    <3>1. H = {}
      BY <2>2
    <3> QED
      BY <2>2, <3>1, FS_EmptySet DEF Busy
  <2> QED
    BY <2>1, <2>2
<1>5. IsFiniteSet(D) /\ Cardinality(D) = IF r.sock = "none" THEN Busy(r.down) ELSE 0
  <2>1. CASE r.down \in {"run", "write"} /\ r.sock = "none"
    <3>1. D = {"down"}
      BY <2>1
    <3> QED
      BY <2>1, <3>1, FS_Singleton DEF Busy
  <2>2. CASE ~(r.down \in {"run", "write"} /\ r.sock = "none")
    <3>1. D = {}
      BY <2>2
    <3> QED
      BY <2>2, <3>1, FS_EmptySet DEF Busy
  <2> QED
    BY <2>1, <2>2
<1>6. U \cap H = {} /\ (U \cup H) \cap D = {}
  OBVIOUS
<1> HIDE DEF U, H, D
<1>7. IsFiniteSet(U \cup H) /\ Cardinality(U \cup H) = Busy(r.up) + Busy(r.hold)
  <2>1. Cardinality(U \cup H) = Cardinality(U) + Cardinality(H) - Cardinality(U \cap H)
    BY <1>3, <1>4, FS_Union
  <2> QED
    BY <1>3, <1>4, <1>6, <2>1, FS_Union, FS_EmptySet DEF Busy
<1>8. Cardinality(Reporters(r)) = Busy(r.up) + Busy(r.hold) + (IF r.sock = "none" THEN Busy(r.down) ELSE 0)
  <2>1. Cardinality((U \cup H) \cup D)
          = Cardinality(U \cup H) + Cardinality(D) - Cardinality((U \cup H) \cap D)
    BY <1>5, <1>7, FS_Union
  <2> QED
    BY <1>1, <1>5, <1>6, <1>7, <2>1, FS_EmptySet DEF Busy
<1>9. r.errs \in Nat /\ ResultsDue(r) <= 2
  BY DEF ConnOK, InbRecords
<1> QED
  BY <1>8, <1>9 DEF ResultsDue, Busy

\* No inbound (socks5, http, forwarding, redirect, tproxy, tun) uses the tunnel
\* for a request without good credentials, forwards the bytes that came with a
\* CONNECT request out of order, or relays for two clients of one SOCKS5
\* association; no goroutine of a relay blocks on errChan, and a handler that
\* returned has closed what it opened.
THEOREM InboundsServeTheirClients == SpecInb => []InboundServesItsClient
<1>1. InitInb => InbInv
  BY FreshOK DEF InitInb, InbInv
<1>2. ASSUME InbInv, NEW c \in Inbound
      PROVE  /\ inb[c].auth => inb[c].served \subseteq {"good"}
             /\ inb[c].out # << >> => (inb[c].out[1] = "early" <=> inb[c].early = 1)
             /\ inb[c].senders \subseteq {inb[c].client}
             /\ inb[c].errs + Cardinality(Reporters(inb[c])) <= ErrChanCap
             /\ inb[c].at = "done" => "open" \notin Resources(inb[c])
  <2>1. ConnOK(inb[c])
    BY <1>2 DEF InbInv
  <2>2. inb[c].errs + Cardinality(Reporters(inb[c])) <= 2
    BY <2>1, ReportersAreCounted
  <2>3. inb[c].errs \in Nat /\ IsFiniteSet(Reporters(inb[c]))
    <3>1. Reporters(inb[c]) \subseteq {"up", "down", "hold"}
      BY DEF Reporters
    <3>2. IsFiniteSet({"up", "down", "hold"})
      <4>1. IsFiniteSet({"up"}) /\ IsFiniteSet({"up"} \cup {"down"})
        BY FS_AddElement, FS_Singleton
      <4>2. IsFiniteSet(({"up"} \cup {"down"}) \cup {"hold"})
        BY <4>1, FS_AddElement
      <4>3. ({"up"} \cup {"down"}) \cup {"hold"} = {"up", "down", "hold"}
        OBVIOUS
      <4> QED
        BY <4>2, <4>3
    <3> QED
      BY <2>1, <3>1, <3>2, FS_Subset DEF ConnOK, InbRecords
  <2>4. Cardinality(Reporters(inb[c])) \in Nat
    BY <2>3, FS_CardinalityType
  <2>5. inb[c].errs + Cardinality(Reporters(inb[c])) <= ErrChanCap
    BY <2>2, <2>3, <2>4, ErrChanAssumption
  <2> QED
    BY <2>1, <2>5 DEF ConnOK, Resources
<1>3. InbInv => InboundServesItsClient
  BY <1>2 DEF InboundServesItsClient
<1> QED
  BY <1>1, <1>3, InbStep, PTL DEF SpecInb

-----------------------------------------------------------------------------
(* ClientApp *)

Configuring == {"config", "addr", "factory", "tls", "congestion", "bandwidth", "open"}
RealmStages == {"map", "stun", "connect", "punch", "wrap"}
Connecting == {"verify", "factory.New", "auth"}
SockStates == {"none", "open", "closed"}
MappingStates == {"none", "held", "renewed", "cancelled", "removed", "left"}

AppTypeOK ==
    /\ realmAddr \in BOOLEAN
    /\ attAt \in {"idle"} \cup Configuring \cup RealmStages \cup Connecting
    /\ attempts \in 0..MaxAttempts /\ currentClient \in 0..MaxAttempts
    /\ sock \in [AttemptIDs -> SockStates] /\ gateway \in [AttemptIDs -> MappingStates]

\* What the attempt in progress has opened by now, and what it has not; without
\* a realm address there is no mapping, and a mapping is held only until the
\* renewal loop takes it over.
AttemptInv ==
    /\ currentClient <= attempts
    /\ attAt # "idle" => attempts \in AttemptIDs /\ currentClient = 0
    /\ \A k \in AttemptIDs : k > attempts => sock[k] = "none" /\ gateway[k] = "none"
    /\ attAt \in Configuring => sock[attempts] = "none" /\ gateway[attempts] = "none"
    /\ attAt \in RealmStages \cup {"open"} => realmAddr
    /\ attAt \in RealmStages => sock[attempts] = "open" /\ gateway[attempts] # "renewed"
    /\ attAt \in {"verify", "factory.New"} /\ ~realmAddr => sock[attempts] # "open"
    /\ ~realmAddr => \A k \in AttemptIDs : gateway[k] = "none"
    /\ \A k \in AttemptIDs : gateway[k] = "held" => k = attempts /\ attAt \in RealmStages

AppInv == AppTypeOK /\ AttemptInv /\ AttemptsLeaveNothing

\* A step of the modes or of runClient that is none of an attempt.
LEMMA AppQuiet ==
  ASSUME AppInv, UNCHANGED <<realmAddr, attAt, attempts, sock, gateway, currentClient, abandoned>>
  PROVE  AppInv'
  BY DEF AppInv, AppTypeOK, AttemptInv, AttemptsLeaveNothing

\* The exit closes every socket and leaves no mapping that is renewed.
LEMMA ExitKeeps ==
  ASSUME AppInv, NEW how, ExitApp(how)
  PROVE  AppInv'
<1> USE AttemptsAssumption DEF AttemptIDs
<1>1. AppTypeOK'
  BY DEF AppInv, AppTypeOK, ExitApp, SockStates, MappingStates
<1>2. \A k \in AttemptIDs : /\ sock'[k] # "open" /\ gateway'[k] \notin {"held", "renewed"}
                            /\ sock[k] = "none" => sock'[k] = "none"
                            /\ gateway[k] = "none" => gateway'[k] = "none"
  BY DEF ExitApp
<1>3. attAt' = "idle" /\ attempts' = attempts /\ realmAddr' = realmAddr /\ currentClient' = 0
  BY DEF ExitApp
<1>4. AttemptInv'
  BY <1>2, <1>3 DEF AppInv, AppTypeOK, AttemptInv, Configuring, RealmStages
<1>5. AttemptsLeaveNothing'
  BY <1>2 DEF AttemptsLeaveNothing
<1> QED
  BY <1>1, <1>4, <1>5 DEF AppInv

\* A new attempt has opened nothing yet.
LEMMA BeginKeeps ==
  ASSUME AppInv, BeginAttempt
  PROVE  AppInv'
<1> USE AttemptsAssumption DEF AttemptIDs
<1>1. AppTypeOK'
  BY DEF AppInv, AppTypeOK, BeginAttempt, Configuring
<1>2. AttemptInv'
  BY DEF AppInv, AppTypeOK, AttemptInv, BeginAttempt, Configuring, RealmStages
<1>3. AttemptsLeaveNothing'
  BY DEF AppInv, AttemptsLeaveNothing, BeginAttempt
<1> QED
  BY <1>1, <1>2, <1>3 DEF AppInv

\* Everything of the attempt stays as it is, except where it is; what failed has
\* left nothing open, and is not at a stage at which the gateway holds a mapping.
LEMMA FailsKeeps ==
  ASSUME AppInv, AttemptFails, NothingOpened, attAt # "idle", attAt \notin RealmStages,
         sock[attempts] # "open"
  PROVE  AppInv'
<1> USE AttemptsAssumption DEF AttemptIDs
<1>1. AppTypeOK'
  BY DEF AppInv, AppTypeOK, AttemptFails, NothingOpened, Untouched
<1>2. AttemptInv'
  BY DEF AppInv, AttemptInv, AttemptFails, NothingOpened, Untouched, Configuring, RealmStages
<1>3. AttemptsLeaveNothing'
  BY DEF AppInv, AttemptInv, AttemptsLeaveNothing, AttemptFails, NothingOpened, Untouched
<1> QED
  BY <1>1, <1>2, <1>3 DEF AppInv

\* The fillers.
LEMMA FillerKeeps ==
  ASSUME AppInv, NEW from \in Configuring, NEW to \in Configuring \cup {"verify"},
         to = "open" => realmAddr, Filler(from, to)
  PROVE  AppInv'
<1> USE AttemptsAssumption DEF AttemptIDs
<1>1. CASE AttemptFails
  <2>1. attAt # "idle" /\ attAt \notin RealmStages /\ sock[attempts] # "open" /\ NothingOpened
    BY DEF AppInv, AttemptInv, Filler, Configuring, RealmStages
  <2> QED
    BY <1>1, <2>1, FailsKeeps
<1>2. CASE Goes(to)
  <2>1. AppTypeOK'
    BY <1>2 DEF AppInv, AppTypeOK, Filler, Goes, Untouched, NothingOpened, Connecting
  <2>2. AttemptInv'
    BY <1>2 DEF AppInv, AttemptInv, Filler, Goes, Untouched, NothingOpened, Configuring, RealmStages
  <2>3. AttemptsLeaveNothing'
    BY <1>2 DEF AppInv, AttemptsLeaveNothing, Filler, Goes, Untouched, NothingOpened, Configuring
  <2> QED
    BY <2>1, <2>2, <2>3 DEF AppInv
<1> QED
  BY <1>1, <1>2 DEF Filler

\* The deferred functions of realmConfig close what the attempt has opened.
LEMMA RealmFailsKeeps ==
  ASSUME AppInv, RealmFails, attAt \in RealmStages
  PROVE  AppInv'
<1> USE AttemptsAssumption DEF AttemptIDs
<1>1. attempts \in AttemptIDs /\ gateway[attempts] # "renewed" /\ currentClient = 0
  BY DEF AppInv, AttemptInv, RealmStages
<1>2. /\ sock' = [sock EXCEPT ![attempts] = "closed"] /\ attAt' = "idle"
      /\ gateway' = [gateway EXCEPT ![attempts] = IF gateway[attempts] = "held" THEN "removed" ELSE gateway[attempts]]
      /\ UNCHANGED <<realmAddr, attempts, currentClient, abandoned>>
  BY DEF RealmFails, AttemptFails, Untouched
<1>3. AppTypeOK'
  BY <1>1, <1>2 DEF AppInv, AppTypeOK, SockStates, MappingStates
<1>4. \A k \in AttemptIDs : IF k = attempts THEN sock'[k] = "closed" /\ gateway'[k] \notin {"held", "renewed"}
                            ELSE sock'[k] = sock[k] /\ gateway'[k] = gateway[k]
  BY <1>1, <1>2 DEF AppInv, AppTypeOK
<1>5. realmAddr
  BY DEF AppInv, AttemptInv
<1>6. AttemptInv'
  BY <1>1, <1>2, <1>4, <1>5 DEF AppInv, AppTypeOK, AttemptInv, Configuring, RealmStages
<1>7. AttemptsLeaveNothing'
  BY <1>2, <1>4 DEF AppInv, AttemptsLeaveNothing
<1> QED
  BY <1>3, <1>6, <1>7 DEF AppInv

\* The stages of realmConfig that keep what is open.
LEMMA RealmGoes ==
  ASSUME AppInv, attAt \in RealmStages, NEW to \in RealmStages, Goes(to), NothingOpened
  PROVE  AppInv'
<1>1. UNCHANGED <<realmAddr, attempts, sock, gateway, currentClient, abandoned>> /\ attAt' = to
  BY DEF Goes, NothingOpened, Untouched
<1> QED
  BY <1>1 DEF AppInv, AppTypeOK, AttemptInv, AttemptsLeaveNothing, Configuring, RealmStages, Connecting

\* Every step of the client command keeps the invariant.
LEMMA AppStep == AppInv /\ [NextApp]_appVars => AppInv'
<1> SUFFICES ASSUME AppInv, [NextApp]_appVars PROVE AppInv'
  OBVIOUS
<1> USE AttemptsAssumption
<1>0. AppTypeOK /\ AttemptInv /\ AttemptsLeaveNothing
  BY DEF AppInv
<1>1. CASE StartMimicClient \/ LeaveProcess
  BY <1>1, ExitKeeps, AppQuiet DEF StartMimicClient, LeaveProcess
<1>2. CASE NewReconnectable
  BY <1>2, BeginKeeps, AppQuiet DEF NewReconnectable
<1>3. CASE Ends
  BY <1>3, AppQuiet DEF Ends
<1>4. CASE CloseClient
  <2>1. CASE currentClient = 0
    BY <1>4, <2>1, AppQuiet DEF CloseClient
  <2>2. CASE currentClient # 0
    <3>1. /\ sock' = [sock EXCEPT ![currentClient] = "closed"] /\ attAt' = attAt /\ attAt = "idle"
          /\ gateway' = [gateway EXCEPT ![currentClient] = IF gateway[currentClient] = "renewed" THEN "cancelled" ELSE gateway[currentClient]]
          /\ currentClient' = 0 /\ UNCHANGED <<realmAddr, attempts, abandoned>> /\ currentClient \in AttemptIDs
      BY <1>0, <1>4, <2>2 DEF CloseClient, CloseSocket, AppTypeOK, AttemptIDs
    <3>2. AppTypeOK'
      BY <1>0, <3>1 DEF AppTypeOK, SockStates, MappingStates
    <3>3. gateway[currentClient] # "held" /\ ~(currentClient > attempts /\ gateway[currentClient] = "renewed")
      BY <1>0, <3>1 DEF AttemptInv, RealmStages
    <3>4. \A k \in AttemptIDs : IF k = currentClient
                                THEN sock'[k] = "closed" /\ gateway'[k] \notin {"held", "renewed"}
                                     /\ (gateway[k] = "none" => gateway'[k] = "none")
                                ELSE sock'[k] = sock[k] /\ gateway'[k] = gateway[k]
      BY <1>0, <3>1, <3>3 DEF AppTypeOK
    <3>5. AttemptInv'
      BY <1>0, <3>1, <3>4, AttemptsAssumption DEF AppTypeOK, AttemptInv, Configuring, RealmStages, AttemptIDs
    <3>6. AttemptsLeaveNothing'
      BY <1>0, <3>1, <3>4 DEF AttemptsLeaveNothing
    <3> QED
      BY <3>2, <3>5, <3>6 DEF AppInv
  <2> QED
    BY <2>1, <2>2
<1>5. CASE \/ ClientSOCKS5 \/ ClientHTTP \/ ClientTCPForwarding \/ ClientUDPForwarding
           \/ ClientTCPTProxy \/ ClientUDPTProxy \/ ClientTCPRedirect \/ ClientTUN
  BY <1>5, AppQuiet DEF ClientSOCKS5, ClientHTTP, ClientTCPForwarding, ClientUDPForwarding,
     ClientTCPTProxy, ClientUDPTProxy, ClientTCPRedirect, ClientTUN, OneListener, OneListenerPerEntry, ModeGoes
<1>6. CASE ClientDo
  <2>1. CASE currentClient # 0 /\ attAt = "idle" /\ currentClient' = 0 /\ abandoned' = abandoned \union {currentClient}
             /\ UNCHANGED <<realmAddr, attAt, attempts, sock, gateway>>
    BY <1>0, <2>1 DEF AppInv, AppTypeOK, AttemptInv, AttemptsLeaveNothing
  <2> QED
    BY <1>6, <2>1, BeginKeeps DEF ClientDo
<1>7. CASE ParseRealmAddr
  BY <1>7, FillerKeeps DEF ParseRealmAddr, Configuring
<1>8. CASE FillServerAddr
  BY <1>8, FillerKeeps DEF FillServerAddr, Configuring
<1>9. CASE FillConnFactory
  BY <1>9, FillerKeeps DEF FillConnFactory, Configuring
<1>10. CASE FillClientTLS
  BY <1>10, FillerKeeps DEF FillClientTLS, Configuring
<1>11. CASE FillClientCongestion
  BY <1>11, FillerKeeps DEF FillClientCongestion, Configuring
<1>12. CASE FillClientBandwidth
  BY <1>12, FillerKeeps DEF FillClientBandwidth, Configuring
<1>13. CASE RealmOpen
  <2>1. CASE AttemptFails /\ NothingOpened
    BY <1>0, <1>13, <2>1, FailsKeeps DEF RealmOpen, AttemptInv, Configuring, RealmStages
  <2>2. CASE Goes("map") /\ sock' = [sock EXCEPT ![attempts] = "open"] /\ UNCHANGED <<gateway, abandoned>>
    <3>1. UNCHANGED <<realmAddr, attempts, gateway, currentClient, abandoned>> /\ attAt' = "map"
      BY <2>2 DEF Goes, Untouched
    <3>2. attempts \in AttemptIDs /\ attAt = "open" /\ gateway[attempts] = "none" /\ realmAddr
      BY <1>0, <1>13 DEF RealmOpen, AttemptInv, Configuring
    <3>3. \A k \in AttemptIDs : sock'[k] = IF k = attempts THEN "open" ELSE sock[k]
      BY <1>0, <2>2, <3>2 DEF AppTypeOK
    <3>4. AppTypeOK'
      BY <1>0, <2>2, <3>1 DEF AppTypeOK, SockStates, RealmStages
    <3>5. AttemptInv'
      BY <1>0, <3>1, <3>2, <3>3 DEF AppTypeOK, AttemptInv, Configuring, RealmStages, AttemptIDs
    <3>6. AttemptsLeaveNothing'
      BY <1>0, <3>1, <3>2, <3>3 DEF AttemptsLeaveNothing
    <3> QED
      BY <3>4, <3>5, <3>6 DEF AppInv
  <2> QED
    BY <1>13, <2>1, <2>2 DEF RealmOpen
<1>14. CASE RealmMap
  <2>1. PICK g \in {"none", "held", "left"} : gateway' = [gateway EXCEPT ![attempts] = g]
    BY <1>14 DEF RealmMap
  <2>2. UNCHANGED <<realmAddr, attempts, sock, currentClient, abandoned>> /\ attAt' = "stun" /\ attAt = "map"
    BY <1>14 DEF RealmMap, Goes, Untouched
  <2>3. attempts \in AttemptIDs /\ sock[attempts] = "open" /\ realmAddr
    BY <1>0, <2>2 DEF AttemptInv, RealmStages
  <2>4. \A k \in AttemptIDs : gateway'[k] = IF k = attempts THEN g ELSE gateway[k]
    BY <1>0, <2>1, <2>3 DEF AppTypeOK
  <2>5. AppTypeOK'
    BY <1>0, <2>1, <2>2 DEF AppTypeOK, MappingStates, RealmStages
  <2>6. AttemptInv'
    BY <1>0, <2>2, <2>3, <2>4 DEF AppTypeOK, AttemptInv, Configuring, RealmStages, AttemptIDs
  <2>7. AttemptsLeaveNothing'
    BY <1>0, <2>2, <2>3, <2>4 DEF AttemptsLeaveNothing
  <2> QED
    BY <2>5, <2>6, <2>7 DEF AppInv
<1>15. CASE RealmDiscover \/ RealmConnect \/ RealmPunchThrough
  BY <1>15, RealmFailsKeeps, RealmGoes DEF RealmDiscover, RealmConnect, RealmPunchThrough, RealmStage, RealmStages
<1>16. CASE RealmWrap
  <2>1. CASE RealmFails
    BY <1>16, <2>1, RealmFailsKeeps DEF RealmWrap, RealmStages
  <2>2. CASE /\ Goes("verify") /\ UNCHANGED <<sock, abandoned>>
             /\ gateway' = [gateway EXCEPT ![attempts] = IF @ = "held" THEN "renewed" ELSE @]
    <3>1. UNCHANGED <<realmAddr, attempts, sock, currentClient, abandoned>> /\ attAt' = "verify" /\ attAt = "wrap"
      BY <1>16, <2>2 DEF RealmWrap, Goes, Untouched
    <3>2. attempts \in AttemptIDs /\ sock[attempts] = "open" /\ realmAddr
      BY <1>0, <3>1 DEF AttemptInv, RealmStages
    <3>3. \A k \in AttemptIDs : gateway'[k] = IF k = attempts /\ gateway[k] = "held" THEN "renewed" ELSE gateway[k]
      BY <1>0, <2>2, <3>2 DEF AppTypeOK
    <3>4. AppTypeOK'
      BY <1>0, <2>2, <3>1 DEF AppTypeOK, MappingStates, Connecting
    <3>5. AttemptInv'
      BY <1>0, <3>1, <3>2, <3>3 DEF AppTypeOK, AttemptInv, Configuring, RealmStages, AttemptIDs
    <3>6. AttemptsLeaveNothing'
      BY <1>0, <3>1, <3>2, <3>3 DEF AttemptsLeaveNothing
    <3> QED
      BY <3>4, <3>5, <3>6 DEF AppInv
  <2> QED
    BY <1>16, <2>1, <2>2 DEF RealmWrap
<1>17. CASE VerifyAndFill
  <2>1. CASE AttemptFails /\ UNCHANGED <<sock, gateway>> /\ abandoned' = IF realmAddr THEN abandoned \union {attempts} ELSE abandoned
    <3>1. UNCHANGED <<realmAddr, attempts, sock, gateway, currentClient>> /\ attAt' = "idle" /\ attAt = "verify"
      BY <1>17, <2>1 DEF VerifyAndFill, AttemptFails, Untouched
    <3>2. AppTypeOK' /\ AttemptInv'
      BY <1>0, <3>1 DEF AppTypeOK, AttemptInv, Configuring, RealmStages
    <3>3. AttemptsLeaveNothing'
      BY <1>0, <2>1, <3>1 DEF AttemptsLeaveNothing, AttemptInv
    <3> QED
      BY <3>2, <3>3 DEF AppInv
  <2>2. CASE Goes("factory.New") /\ NothingOpened
    <3>1. UNCHANGED <<realmAddr, attempts, sock, gateway, currentClient, abandoned>> /\ attAt' = "factory.New" /\ attAt = "verify"
      BY <1>17, <2>2 DEF VerifyAndFill, Goes, NothingOpened, Untouched
    <3> QED
      BY <1>0, <3>1 DEF AppInv, AppTypeOK, AttemptInv, AttemptsLeaveNothing, Configuring, RealmStages, Connecting
  <2> QED
    BY <1>17, <2>1, <2>2 DEF VerifyAndFill
<1>18. CASE FactoryNew
  <2>0. attAt = "factory.New" /\ attempts \in AttemptIDs /\ currentClient = 0 /\ attAt \notin RealmStages
    BY <1>0, <1>18 DEF FactoryNew, AttemptInv, RealmStages
  <2>1. CASE Goes("auth") /\ NothingOpened
    <3>1. UNCHANGED <<realmAddr, attempts, sock, gateway, currentClient, abandoned>> /\ attAt' = "auth"
      BY <2>1 DEF Goes, NothingOpened, Untouched
    <3> QED
      BY <1>0, <2>0, <3>1 DEF AppInv, AppTypeOK, AttemptInv, AttemptsLeaveNothing, Configuring, RealmStages, Connecting
  <2>2. CASE ~realmAddr /\ AttemptFails /\ NothingOpened
    BY <1>0, <2>0, <2>2, FailsKeeps DEF AttemptInv
  <2>3. ASSUME NEW to \in {"idle", "auth"}, NEW st \in {"closed", "open"}, ~realmAddr, attAt' = to,
               to = "idle" => st = "closed", sock' = [sock EXCEPT ![attempts] = st],
               UNCHANGED <<realmAddr, attempts, gateway, currentClient, abandoned>>
        PROVE  AppInv'
    <3>1. \A k \in AttemptIDs : sock'[k] = IF k = attempts THEN st ELSE sock[k]
      BY <1>0, <2>0, <2>3 DEF AppTypeOK
    <3>2. AppTypeOK'
      BY <1>0, <2>3 DEF AppTypeOK, SockStates, Connecting
    <3>3. AttemptInv'
      BY <1>0, <2>0, <2>3, <3>1 DEF AppTypeOK, AttemptInv, Configuring, RealmStages, AttemptIDs
    <3>4. AttemptsLeaveNothing'
      BY <1>0, <2>0, <2>3, <3>1 DEF AttemptsLeaveNothing, AttemptInv
    <3> QED
      BY <3>2, <3>3, <3>4 DEF AppInv
  <2> QED
    BY <1>18, <2>1, <2>2, <2>3 DEF FactoryNew, Goes, AttemptFails, Untouched
<1>19. CASE Authenticate
  <2>0. attAt = "auth" /\ attempts \in AttemptIDs /\ currentClient = 0 /\ gateway[attempts] # "held"
    BY <1>0, <1>19 DEF Authenticate, AttemptInv, RealmStages
  <2>1. CASE AttemptFails /\ CloseSocket(attempts) /\ UNCHANGED abandoned
    <3>1. UNCHANGED <<realmAddr, attempts, currentClient, abandoned>> /\ attAt' = "idle"
      BY <2>1 DEF AttemptFails, Untouched
    <3>2. \A k \in AttemptIDs : IF k = attempts
                                THEN sock'[k] = "closed" /\ gateway'[k] \notin {"held", "renewed"}
                                     /\ (gateway[k] = "none" => gateway'[k] = "none")
                                ELSE sock'[k] = sock[k] /\ gateway'[k] = gateway[k]
      BY <1>0, <2>0, <2>1 DEF AppTypeOK, CloseSocket
    <3>3. AppTypeOK'
      BY <1>0, <2>0, <2>1, <3>1 DEF AppTypeOK, CloseSocket, SockStates, MappingStates
    <3>4. AttemptInv'
      BY <1>0, <2>0, <3>1, <3>2 DEF AppTypeOK, AttemptInv, Configuring, RealmStages, AttemptIDs
    <3>5. AttemptsLeaveNothing'
      BY <1>0, <2>0, <3>1, <3>2 DEF AttemptsLeaveNothing
    <3> QED
      BY <3>3, <3>4, <3>5 DEF AppInv
  <2>2. CASE attAt' = "idle" /\ currentClient' = attempts /\ UNCHANGED Untouched /\ NothingOpened
    <3>1. UNCHANGED <<realmAddr, attempts, sock, gateway, abandoned>> /\ attAt' = "idle" /\ currentClient' = attempts
      BY <2>2 DEF Untouched, NothingOpened
    <3>2. AppTypeOK'
      BY <1>0, <2>0, <3>1, AttemptsAssumption DEF AppTypeOK, AttemptIDs
    <3>3. AttemptInv'
      BY <1>0, <2>0, <3>1, AttemptsAssumption DEF AppTypeOK, AttemptInv, Configuring, RealmStages, AttemptIDs
    <3>4. AttemptsLeaveNothing'
      BY <1>0, <2>0, <3>1, AttemptsAssumption DEF AttemptsLeaveNothing, AttemptIDs
    <3> QED
      BY <3>2, <3>3, <3>4 DEF AppInv
  <2> QED
    BY <1>19, <2>1, <2>2 DEF Authenticate
<1>20. ASSUME NEW k \in AttemptIDs, PortMapLoopEnds(k) PROVE AppInv'
  <2>1. PICK g \in {"removed", "left"} : gateway' = [gateway EXCEPT ![k] = g]
    BY <1>20 DEF PortMapLoopEnds
  <2>2. gateway[k] = "cancelled" /\ UNCHANGED <<realmAddr, attAt, attempts, sock, currentClient, abandoned>>
    BY <1>20 DEF PortMapLoopEnds
  <2>3. \A j \in AttemptIDs : gateway'[j] = IF j = k THEN g ELSE gateway[j]
    BY <1>0, <2>1 DEF AppTypeOK
  <2>4. AppTypeOK'
    BY <1>0, <2>1, <2>2 DEF AppTypeOK, MappingStates
  <2>5. k <= attempts /\ (attAt \in Configuring => k # attempts)
    BY <1>0, <1>20, <2>2, AttemptsAssumption DEF AppTypeOK, AttemptInv, AttemptIDs
  <2>5a. AttemptInv'
    BY <1>0, <1>20, <2>1, <2>2, <2>3, <2>5, AttemptsAssumption DEF AppTypeOK, AttemptInv, Configuring, RealmStages, AttemptIDs
  <2>6. AttemptsLeaveNothing'
    BY <1>0, <2>2, <2>3 DEF AttemptsLeaveNothing
  <2> QED
    BY <2>4, <2>5a, <2>6 DEF AppInv
<1>21. CASE UNCHANGED appVars
  BY <1>21, AppQuiet DEF appVars
<1> QED
  BY <1>1, <1>2, <1>3, <1>4, <1>5, <1>6, <1>7, <1>8, <1>9, <1>10, <1>11, <1>12, <1>13, <1>14,
     <1>15, <1>16, <1>17, <1>18, <1>19, <1>20, <1>21 DEF NextApp, AttemptStep

\* However the connection attempts of the client command fail (app/cmd/client.go),
\* an open socket belongs to the attempt in progress, to the current client or to
\* those the code gives up, and no mapping is renewed for a socket that is gone.
THEOREM AttemptsLeaveNothingBehind == SpecApp => []AttemptsLeaveNothing
<1>1. InitApp => AppInv
  BY AttemptsAssumption DEF InitApp, AppInv, AppTypeOK, AttemptInv, AttemptsLeaveNothing, AttemptIDs,
     SockStates, MappingStates, Configuring, RealmStages
<1>2. AppInv => AttemptsLeaveNothing
  BY DEF AppInv
<1> QED
  BY <1>1, <1>2, AppStep, PTL DEF SpecApp

-----------------------------------------------------------------------------
(* Outbounds *)

ObCalls == {"idle", "resolve", "next", "race", "single", "second", "talk", "abandoned", "ok", "failed", "closed"}
DialResults == [family : Families, ok : BOOLEAN]

ObTypeOK ==
    /\ dialReq \in [ob : {"direct", "socks5", "http"}, proto : {"tcp", "udp"}, mode : ObModes \cup {"auto"}, bind : BOOLEAN]
    /\ obCall \in ObCalls
    /\ resolveInfo \in [has : SUBSET Families, err : BOOLEAN]
    /\ dials \in [Families -> {"none", "dialing", "ended"}]
    /\ results \in Seq(DialResults)
    /\ reaper \in {"none", "wait", "done"}
    /\ obSocket \in [ObSockets -> {"none", "open", "closed"}]
    /\ given \in SUBSET ObSockets
    /\ hold \in {"none", "run", "done"}

\* The dials that run or whose result nobody has taken.
Sent(f) == \E i \in 1..Len(results) : results[i].family = f
Outstanding == {f \in Families : dials[f] = "dialing" \/ Sent(f)}
AtMostOne(S) == \A f, g \in S : f = g

DirectTCPReq == dialReq.ob = "direct" /\ dialReq.proto = "tcp"

\* Every family dials at most once, and its result tells whether its socket is open.
ResultsInv ==
    /\ \A i \in 1..Len(results) :
          /\ dials[results[i].family] = "ended"
          /\ results[i].ok <=> obSocket[results[i].family] = "open"
          /\ \A j \in 1..Len(results) : results[i].family = results[j].family => i = j
    /\ \A f \in Families : dials[f] = "dialing" => obSocket[f] # "open"
    /\ \A f \in Families : dials[f] # "none" => DirectTCPReq /\ obCall \notin {"idle", "resolve", "next"}

\* Whoever still has to take a result is there to take it, and takes no more than one;
\* once a call that was not won by the first result has ended, none is outstanding.
FlowInv ==
    /\ reaper # "none" => obCall \in {"ok", "closed"}
    /\ obCall \in {"single", "second"} \/ reaper = "wait" => AtMostOne(Outstanding)
    /\ obCall \in {"ok", "failed", "closed"} /\ reaper # "wait" => Outstanding = {}
    /\ obCall \in {"race", "single", "second"} => DirectTCPReq
    /\ obCall \in {"talk", "abandoned"} => dialReq.ob # "direct"
    /\ obCall = "talk" => obSocket["control"] = "open"
    /\ dialReq.bind => dialReq.ob = "direct" /\ dialReq.proto = "udp"

\* Whose an open socket is.
OpenInv ==
    /\ \A s \in ObSockets : obSocket[s] = "open" =>
          s \in given \/ s \in Outstanding \/ (s = "control" /\ obCall \in {"talk", "abandoned"})
    /\ obCall # "ok" => given = {}
    /\ obCall = "ok" /\ hold # "done" => \A s \in given : obSocket[s] = "open"
    /\ given \cap Outstanding = {}
    /\ hold # "none" => dialReq.ob # "direct" /\ obCall \in {"ok", "closed"} /\ given \subseteq {"control", "assoc"}

\* A dial, and the connection it gives, is of a family that the mode accepts.
Accepted(f) == /\ f \in resolveInfo.has
               /\ (dialReq.mode = "4" => f = "v4") /\ (dialReq.mode = "6" => f = "v6")
ChoiceInv ==
    /\ \A f \in Outstanding : Accepted(f)
    /\ obCall = "ok" /\ DirectTCPReq => \E f \in Families : given = {f} /\ Accepted(f)
    /\ obCall = "ok" /\ dialReq.bind => \E f \in Families : given = {f} /\ f \in resolveInfo.has

ObInv == ObTypeOK /\ ResultsInv /\ FlowInv /\ OpenInv /\ ChoiceInv

\* A step that neither dials nor takes a result, nor touches a socket.
LEMMA ObQuiet ==
  ASSUME ObInv, UNCHANGED <<dialReq, obCall, resolveInfo, dials, results, reaper, obSocket, given, hold>>
  PROVE  ObInv'
  BY DEF ObInv, ObTypeOK, ResultsInv, FlowInv, OpenInv, ChoiceInv, Outstanding, Sent, DirectTCPReq, Accepted

\* Before the outbound is called nothing is dialed, open or given.
LEMMA NothingYet ==
  ASSUME ObInv, obCall \in {"idle", "resolve", "next"}
  PROVE  /\ Outstanding = {} /\ given = {} /\ results = <<>> /\ reaper = "none" /\ hold = "none"
         /\ \A f \in Families : dials[f] = "none"
         /\ \A s \in ObSockets : obSocket[s] # "open"
<1>1. \A f \in Families : dials[f] = "none"
  BY DEF ObInv, ResultsInv
<1>2. results = <<>>
  <2>1. SUFFICES ASSUME results # <<>> PROVE FALSE
    OBVIOUS
  <2>2. 1 \in 1..Len(results) /\ results[1] \in DialResults
    BY <2>1 DEF ObInv, ObTypeOK
  <2> QED
    BY <1>1, <2>2 DEF ObInv, ResultsInv, DialResults
<1>3. Outstanding = {}
  BY <1>1, <1>2 DEF Outstanding, Sent
<1>4. given = {} /\ reaper = "none" /\ hold = "none"
  BY DEF ObInv, OpenInv, FlowInv
<1>5. \A s \in ObSockets : obSocket[s] # "open"
  BY <1>3, <1>4 DEF ObInv, OpenInv
<1> QED
  BY <1>1, <1>2, <1>3, <1>4, <1>5

\* The outbound is called, or the resolver works, or it is refused.
LEMMA StaysEarly ==
  ASSUME ObInv, obCall \in {"idle", "resolve", "next"},
         obCall' \in {"idle", "resolve", "next", "failed"},
         dialReq' \in [ob : {"direct", "socks5", "http"}, proto : {"tcp", "udp"}, mode : ObModes \cup {"auto"}, bind : BOOLEAN],
         dialReq'.bind => dialReq'.ob = "direct" /\ dialReq'.proto = "udp",
         resolveInfo' \in [has : SUBSET Families, err : BOOLEAN],
         UNCHANGED <<dials, results, reaper, obSocket, given, hold>>
  PROVE  ObInv'
<1> USE NothingYet
<1>1. ObTypeOK'
  BY DEF ObInv, ObTypeOK, ObCalls
<1>2. Outstanding' = {}
  BY DEF Outstanding, Sent
<1>3. ResultsInv'
  BY DEF ResultsInv
<1>4. FlowInv'
  BY <1>2 DEF FlowInv
<1>5. OpenInv'
  BY <1>2 DEF OpenInv
<1>6. ChoiceInv'
  BY <1>2 DEF ChoiceInv
<1> QED
  BY <1>1, <1>3, <1>4, <1>5, <1>6 DEF ObInv

\* Taking the first result.
LEMMA TakeResult ==
  ASSUME ObInv, results # <<>>, results' = Tail(results), dials' = dials
  PROVE  /\ Head(results) \in DialResults /\ Head(results).family \in Outstanding
         /\ Head(results).ok <=> obSocket[Head(results).family] = "open"
         /\ results' \in Seq(DialResults)
         /\ Outstanding' = Outstanding \ {Head(results).family}
         /\ \A i \in 1..Len(results') : i + 1 \in 1..Len(results) /\ results'[i] = results[i + 1]
         /\ \A i \in 1..Len(results') : results'[i].family # Head(results).family
<1>1. results \in Seq(DialResults) /\ Len(results) \in Nat \ {0} /\ Head(results) = results[1] /\ 1 \in 1..Len(results)
  BY DEF ObInv, ObTypeOK
<1>2. results' \in Seq(DialResults) /\ Len(results') = Len(results) - 1
  BY <1>1
<1>3. \A i \in 1..Len(results') : i + 1 \in 1..Len(results) /\ results'[i] = results[i + 1] /\ i + 1 # 1
  BY <1>1, <1>2
<1>4. \A i \in 2..Len(results) : i - 1 \in 1..Len(results') /\ results'[i - 1] = results[i]
  BY <1>1, <1>2
<1>5. \A i \in 1..Len(results') : results'[i].family # Head(results).family
  BY <1>1, <1>3 DEF ObInv, ResultsInv
<1>6. Head(results) \in DialResults /\ Head(results).family \in Families
  <2>1. Head(results) \in DialResults
    BY <1>1
  <2> QED
    BY <2>1 DEF DialResults
<1>7. Head(results).family \in Outstanding /\ (Head(results).ok <=> obSocket[Head(results).family] = "open")
  BY <1>1, <1>6 DEF Outstanding, Sent, ObInv, ResultsInv
<1>8. \A f \in Families : Sent(f)' <=> Sent(f) /\ f # Head(results).family
  <2> SUFFICES ASSUME NEW f \in Families PROVE Sent(f)' <=> Sent(f) /\ f # Head(results).family
    OBVIOUS
  <2>1. ASSUME Sent(f)' PROVE Sent(f) /\ f # Head(results).family
    BY <1>3, <1>5, <2>1 DEF Sent
  <2>2. ASSUME Sent(f), f # Head(results).family PROVE Sent(f)'
    <3>1. PICK i \in 1..Len(results) : results[i].family = f
      BY <2>2 DEF Sent
    <3>2. i \in 2..Len(results)
      BY <1>1, <2>2, <3>1
    <3> QED
      BY <1>4, <3>1, <3>2 DEF Sent
  <2> QED
    BY <2>1, <2>2
<1>9. dials[Head(results).family] # "dialing"
  BY <1>1 DEF ObInv, ResultsInv
<1>10. Outstanding' = Outstanding \ {Head(results).family}
  BY <1>8, <1>9 DEF Outstanding
<1> QED
  BY <1>2, <1>3, <1>5, <1>6, <1>7, <1>10

\* The dials start.
LEMMA DirectTCPKeeps ==
  ASSUME ObInv, DirectTCP
  PROVE  ObInv'
<1> DEFINE both == dialReq.mode = "auto" /\ resolveInfo.has = Families
           p == Preferred(dialReq.mode, resolveInfo.has)
<1>0. ObTypeOK /\ obCall = "next" /\ DirectTCPReq /\ resolveInfo.has # {} /\ p # "none" /\ resolveInfo.has \subseteq Families
  BY DEF DirectTCP, ObInv, ObTypeOK, DirectTCPReq
<1>1. /\ obCall' = (IF both THEN "race" ELSE "single")
      /\ dials' = [g \in Families |-> IF both \/ g = p THEN "dialing" ELSE "none"]
      /\ UNCHANGED <<dialReq, resolveInfo, results, reaper, obSocket, given, hold>>
  BY DEF DirectTCP
<1>2. p \in Families /\ Accepted(p)
  BY <1>0 DEF Preferred, Families, Accepted
<1>3. both => \A f \in Families : Accepted(f)
  BY DEF Accepted
<1> HIDE DEF both, p
<1>4. results' = <<>> /\ reaper' = "none" /\ hold' = "none" /\ given' = {}
  BY <1>0, <1>1, NothingYet
<1>5. \A s \in ObSockets : obSocket'[s] # "open"
  BY <1>0, <1>1, NothingYet
<1>6. obCall' \in {"race", "single"} /\ dialReq' = dialReq
  BY <1>1
<1>7. Outstanding' = {g \in Families : both \/ g = p}
  BY <1>1, <1>4 DEF Outstanding, Sent
<1>8. ObTypeOK'
  BY <1>0, <1>1 DEF ObTypeOK, ObCalls
<1>9. ResultsInv'
  BY <1>0, <1>4, <1>5, <1>6 DEF ResultsInv, DirectTCPReq, Families, ObSockets
<1>10. obCall' = "single" => AtMostOne(Outstanding')
  BY <1>1, <1>7 DEF AtMostOne
<1>11. FlowInv'
  BY <1>0, <1>4, <1>6, <1>10 DEF FlowInv, DirectTCPReq, ObInv, AtMostOne
<1>12. OpenInv'
  BY <1>4, <1>5, <1>6 DEF OpenInv
<1>13. \A f \in Families : Accepted(f)' <=> Accepted(f)
  BY <1>1 DEF Accepted
<1>14. ChoiceInv'
  BY <1>2, <1>3, <1>6, <1>7, <1>13 DEF ChoiceInv
<1> QED
  BY <1>8, <1>9, <1>11, <1>12, <1>14 DEF ObInv

\* A dial ends, with a socket or without, and is outstanding until its result is taken.
LEMMA DialEndsKeeps ==
  ASSUME ObInv, NEW f \in Families, NEW ok \in BOOLEAN, DialEnds(f, ok)
  PROVE  ObInv'
<1> DEFINE r == [family |-> f, ok |-> ok]
<1>0. ObTypeOK /\ ResultsInv /\ FlowInv /\ OpenInv /\ ChoiceInv
  BY DEF ObInv
<1>1. /\ dials[f] = "dialing" /\ dials' = [dials EXCEPT ![f] = "ended"]
      /\ obSocket' = (IF ok THEN [obSocket EXCEPT ![f] = "open"] ELSE obSocket)
      /\ results' = Append(results, r)
      /\ UNCHANGED <<dialReq, obCall, resolveInfo, reaper, given, hold>>
  BY DEF DialEnds
<1>2. r \in DialResults /\ r.family = f /\ r.ok = ok
  BY DEF DialResults
<1> HIDE DEF r
<1>3. /\ results' \in Seq(DialResults) /\ Len(results) \in Nat /\ Len(results') = Len(results) + 1
      /\ \A i \in 1..Len(results) : results'[i] = results[i]
      /\ results'[Len(results) + 1] = r
      /\ \A i \in 1..Len(results) : results[i] \in DialResults /\ results[i].family \in Families
  <2>1. results \in Seq(DialResults)
    BY <1>0 DEF ObTypeOK
  <2>2. \A i \in 1..Len(results) : results[i] \in DialResults
    BY <2>1
  <2>3. \A d \in DialResults : d.family \in Families
    BY DEF DialResults
  <2> QED
    BY <1>1, <1>2, <2>1, <2>2, <2>3
<1>4. f \in ObSockets /\ obSocket[f] # "open" /\ (obSocket'[f] = "open" <=> ok)
  BY <1>0, <1>1 DEF ObSockets, ResultsInv, ObTypeOK
<1>5. \A s \in ObSockets : s # f => obSocket'[s] = obSocket[s]
  BY <1>0, <1>1 DEF ObTypeOK
<1>6. \A g \in Families : dials'[g] = IF g = f THEN "ended" ELSE dials[g]
  BY <1>0, <1>1 DEF ObTypeOK
<1>7. \A i \in 1..Len(results) : results[i].family # f
  BY <1>0, <1>1 DEF ResultsInv
<1>8. Outstanding' = Outstanding
  <2>1. \A g \in Families : Sent(g)' <=> Sent(g) \/ g = f
    BY <1>2, <1>3 DEF Sent
  <2> QED
    BY <1>1, <1>6, <2>1 DEF Outstanding
<1>9. f \in Outstanding
  BY <1>1 DEF Outstanding
<1>10. ObTypeOK'
  <2>1. dials' \in [Families -> {"none", "dialing", "ended"}] /\ obSocket' \in [ObSockets -> {"none", "open", "closed"}]
    BY <1>0, <1>1, <1>4 DEF ObTypeOK
  <2> QED
    BY <1>0, <1>1, <1>3, <2>1 DEF ObTypeOK
<1>11. ResultsInv'
  <2>1. ASSUME NEW i \in 1..Len(results')
        PROVE  /\ dials'[results'[i].family] = "ended"
               /\ results'[i].ok <=> obSocket'[results'[i].family] = "open"
               /\ \A j \in 1..Len(results') : results'[i].family = results'[j].family => i = j
    <3>1. CASE i = Len(results) + 1
      BY <1>2, <1>3, <1>4, <1>6, <1>7, <3>1
    <3>2. CASE i \in 1..Len(results)
      <4>1. results'[i] = results[i] /\ results[i].family \in Families /\ results[i].family # f /\ results[i].family \in ObSockets
        BY <1>3, <1>7, <3>2 DEF ObSockets
      <4>2. \A j \in 1..Len(results) : results[i].family = results[j].family => i = j
        BY <1>0, <3>2 DEF ResultsInv
      <4>3. \A j \in 1..Len(results') : results'[i].family = results'[j].family => i = j
        BY <1>2, <1>3, <3>2, <4>1, <4>2
      <4>4. dials[results[i].family] = "ended" /\ (results[i].ok <=> obSocket[results[i].family] = "open")
        BY <1>0, <3>2 DEF ResultsInv
      <4> QED
        BY <1>5, <1>6, <4>1, <4>3, <4>4
    <3> QED
      BY <1>3, <3>1, <3>2
  <2>2. \A g \in Families : dials'[g] = "dialing" => obSocket'[g] # "open"
    BY <1>0, <1>5, <1>6 DEF ResultsInv, ObSockets
  <2>3. \A g \in Families : dials'[g] # "none" => DirectTCPReq' /\ obCall' \notin {"idle", "resolve", "next"}
    BY <1>0, <1>1, <1>6 DEF ResultsInv, DirectTCPReq
  <2> QED
    BY <2>1, <2>2, <2>3 DEF ResultsInv
<1>12. FlowInv'
  <2>1. "control" \in ObSockets /\ "control" # f
    BY DEF ObSockets, Families
  <2> QED
    BY <1>0, <1>1, <1>5, <1>8, <2>1 DEF FlowInv, DirectTCPReq
<1>13. OpenInv'
  <2>1. f \notin given
    BY <1>0, <1>9 DEF OpenInv
  <2>2. given \subseteq ObSockets
    BY <1>0 DEF ObTypeOK
  <2>3. \A s \in ObSockets : obSocket'[s] = "open" =>
          s \in given' \/ s \in Outstanding' \/ (s = "control" /\ obCall' \in {"talk", "abandoned"})
    BY <1>0, <1>1, <1>5, <1>8, <1>9 DEF OpenInv
  <2>4. obCall' = "ok" /\ hold' # "done" => \A s \in given' : obSocket'[s] = "open"
    BY <1>0, <1>1, <1>5, <2>1, <2>2 DEF OpenInv
  <2> QED
    BY <1>0, <1>1, <1>8, <2>3, <2>4 DEF OpenInv
<1>14. ChoiceInv'
  BY <1>0, <1>1, <1>8 DEF ChoiceInv, DirectTCPReq, Accepted
<1> QED
  BY <1>10, <1>11, <1>12, <1>13, <1>14 DEF ObInv

\* What is left of the invariant about the results once one is taken.
LEMMA ResultsAfterTake ==
  ASSUME ObInv, results # <<>>, results' = Tail(results), UNCHANGED <<dials, dialReq>>,
         obCall' \notin {"idle", "resolve", "next"},
         \A s \in ObSockets : s # Head(results).family => obSocket'[s] = obSocket[s],
         obSocket'[Head(results).family] = "open" => obSocket[Head(results).family] = "open"
  PROVE  ResultsInv'
<1> DEFINE h == Head(results)
<1>0. ResultsInv /\ ObTypeOK
  BY DEF ObInv
<1>1. /\ h \in DialResults /\ h.family \in Outstanding
      /\ \A i \in 1..Len(results') : i + 1 \in 1..Len(results) /\ results'[i] = results[i + 1]
      /\ \A i \in 1..Len(results') : results'[i].family # h.family
  BY TakeResult
<1>2. Len(results') \in Nat /\ \A i \in 1..Len(results') : results'[i].family \in Families
  <2>1. results' \in Seq(DialResults)
    BY TakeResult
  <2>2. \A i \in 1..Len(results') : results'[i] \in DialResults
    BY <2>1
  <2> QED
    BY <2>1, <2>2 DEF DialResults
<1> HIDE DEF h
<1>3. \A f \in Families : f \in ObSockets
  BY DEF ObSockets
<1>4. ASSUME NEW i \in 1..Len(results')
      PROVE  /\ dials'[results'[i].family] = "ended"
             /\ results'[i].ok <=> obSocket'[results'[i].family] = "open"
             /\ \A j \in 1..Len(results') : results'[i].family = results'[j].family => i = j
  <2>1. /\ dials[results[i + 1].family] = "ended"
        /\ results[i + 1].ok <=> obSocket[results[i + 1].family] = "open"
        /\ \A j \in 1..Len(results) : results[i + 1].family = results[j].family => i + 1 = j
    BY <1>0, <1>1 DEF ResultsInv
  <2>2. obSocket'[results'[i].family] = obSocket[results'[i].family]
    BY <1>1, <1>2, <1>3 DEF h
  <2>3. \A j \in 1..Len(results') : results'[i].family = results'[j].family => i = j
    <3> SUFFICES ASSUME NEW j \in 1..Len(results'), results'[i].family = results'[j].family PROVE i = j
      OBVIOUS
    <3>1. i + 1 = j + 1
      BY <1>1, <2>1
    <3> QED
      BY <1>2, <3>1
  <2> QED
    BY <1>1, <2>1, <2>2, <2>3
<1>5. \A f \in Families : dials'[f] = "dialing" => obSocket'[f] # "open"
  BY <1>0, <1>3 DEF ResultsInv
<1>6. \A f \in Families : dials'[f] # "none" => DirectTCPReq' /\ obCall' \notin {"idle", "resolve", "next"}
  BY <1>0 DEF ResultsInv, DirectTCPReq
<1> QED
  BY <1>4, <1>5, <1>6 DEF ResultsInv

\* A call in the race has given nothing yet; what it takes is accepted.
LEMMA TakerState ==
  ASSUME ObInv, results # <<>>
  PROVE  /\ DirectTCPReq /\ obCall \notin {"idle", "resolve", "next", "talk", "abandoned"} /\ hold = "none"
         /\ obCall \in {"race", "single", "second"} => reaper = "none" /\ given = {}
<1>1. 1 \in 1..Len(results) /\ results[1] \in DialResults
  BY DEF ObInv, ObTypeOK
<1>2. results[1].family \in Families
  BY <1>1 DEF DialResults
<1>3. DirectTCPReq /\ obCall \notin {"idle", "resolve", "next"}
  BY <1>1, <1>2 DEF ObInv, ResultsInv
<1>4. obCall \notin {"talk", "abandoned"} /\ hold = "none"
  BY <1>3 DEF ObInv, FlowInv, OpenInv, DirectTCPReq
<1>5. obCall \in {"race", "single", "second"} => reaper = "none" /\ given = {}
  BY DEF ObInv, FlowInv, OpenInv
<1> QED
  BY <1>3, <1>4, <1>5

\* The call returns what it took; the reaper is there for the other dial if there is one.
LEMMA TakenKeeps ==
  ASSUME ObInv, results # <<>>, results' = Tail(results), obCall \in {"race", "single", "second"},
         Take(Head(results).ok, Head(results).family),
         reaper' = (IF obCall = "race" THEN "wait" ELSE "none"), obCall = "race" => Head(results).ok,
         UNCHANGED <<dialReq, resolveInfo, dials, obSocket, hold>>
  PROVE  ObInv'
<1> DEFINE h == Head(results)
<1>0. ObTypeOK /\ FlowInv /\ OpenInv /\ ChoiceInv
  BY DEF ObInv
<1>1. h.ok \in BOOLEAN /\ h.family \in Outstanding /\ h.family \in Families /\ h.family \in ObSockets
  BY TakeResult DEF DialResults, ObSockets
<1>2. h.ok <=> obSocket[h.family] = "open"
  BY TakeResult
<1>3. Outstanding' = Outstanding \ {h.family} /\ results' \in Seq(DialResults)
  BY TakeResult
<1>4. obCall' = (IF h.ok THEN "ok" ELSE "failed") /\ given' = (IF h.ok THEN {h.family} ELSE {})
  BY DEF Take
<1>5. DirectTCPReq /\ hold = "none" /\ given = {} /\ reaper = "none"
  BY TakerState
<1>6. obCall = "race" => h.ok
  OBVIOUS
<1>7. obCall' \notin {"idle", "resolve", "next", "talk", "abandoned"} /\ obCall' \in {"ok", "failed"}
  BY <1>4
<1>8. ResultsInv'
  BY <1>7, ResultsAfterTake
<1> HIDE DEF h
<1>9. ObTypeOK'
  BY <1>0, <1>1, <1>3, <1>4, <1>7 DEF ObTypeOK, ObCalls
<1>10. obCall # "race" => Outstanding' = {}
  BY <1>0, <1>1, <1>3 DEF FlowInv, AtMostOne
<1>11. AtMostOne(Outstanding')
  BY <1>1, <1>3 DEF AtMostOne, Outstanding, Families
<1>12. FlowInv'
  BY <1>0, <1>4, <1>5, <1>6, <1>7, <1>10, <1>11 DEF FlowInv, DirectTCPReq, AtMostOne
<1>13. OpenInv'
  <2>1. \A s \in ObSockets : obSocket[s] = "open" => s \in Outstanding
    BY <1>0, <1>5 DEF OpenInv
  <2>2. \A s \in ObSockets : obSocket'[s] = "open" => s \in given' \/ s \in Outstanding'
    BY <1>2, <1>3, <1>4, <2>1
  <2> QED
    BY <1>2, <1>3, <1>4, <1>5, <1>7, <2>2 DEF OpenInv
<1>14. \A f \in Families : Accepted(f)' <=> Accepted(f)
  BY DEF Accepted
<1>15. ~dialReq'.bind
  BY <1>0, <1>5 DEF FlowInv, DirectTCPReq
<1>16. Accepted(h.family)
  BY <1>0, <1>1 DEF ChoiceInv
<1>17. Outstanding' \subseteq Families
  BY DEF Outstanding
<1>18. ChoiceInv'
  BY <1>0, <1>1, <1>3, <1>4, <1>14, <1>15, <1>16, <1>17 DEF ChoiceInv
<1> QED
  BY <1>8, <1>9, <1>12, <1>13, <1>18 DEF ObInv

\* The first result is a failure: the call waits for the second.
LEMMA LostFirstKeeps ==
  ASSUME ObInv, results # <<>>, results' = Tail(results), obCall = "race", obCall' = "second", ~Head(results).ok,
         UNCHANGED <<dialReq, resolveInfo, dials, obSocket, hold, reaper, given>>
  PROVE  ObInv'
<1> DEFINE h == Head(results)
<1>0. ObTypeOK /\ FlowInv /\ OpenInv /\ ChoiceInv
  BY DEF ObInv
<1>1. h.family \in Outstanding /\ h.family \in Families /\ obSocket[h.family] # "open"
  BY TakeResult DEF DialResults
<1>2. Outstanding' = Outstanding \ {h.family} /\ results' \in Seq(DialResults)
  BY TakeResult
<1>3. DirectTCPReq /\ hold = "none" /\ given = {} /\ reaper = "none"
  BY TakerState
<1>4. ResultsInv'
  BY ResultsAfterTake
<1> HIDE DEF h
<1>5. ObTypeOK'
  BY <1>0, <1>2 DEF ObTypeOK, ObCalls
<1>6. AtMostOne(Outstanding')
  BY <1>1, <1>2 DEF AtMostOne, Outstanding, Families
<1>7. FlowInv'
  BY <1>0, <1>3, <1>6 DEF FlowInv, DirectTCPReq, AtMostOne
<1>8. OpenInv'
  BY <1>0, <1>1, <1>2, <1>3 DEF OpenInv
<1>9. ChoiceInv'
  BY <1>0, <1>2 DEF ChoiceInv, Accepted
<1> QED
  BY <1>4, <1>5, <1>7, <1>8, <1>9 DEF ObInv

\* The reaper closes the connection that lost the race.
LEMMA ReapKeeps ==
  ASSUME ObInv, Reap
  PROVE  ObInv'
<1> DEFINE h == Head(results)
<1>0. ObTypeOK /\ FlowInv /\ OpenInv /\ ChoiceInv
  BY DEF ObInv
<1>1. /\ reaper = "wait" /\ results # <<>> /\ results' = Tail(results) /\ reaper' = "done"
      /\ obSocket' = [obSocket EXCEPT ![h.family] = IF @ = "open" THEN "closed" ELSE @]
      /\ UNCHANGED <<dialReq, obCall, resolveInfo, dials, given, hold>>
  BY DEF Reap, CloseOne
<1>2. h.family \in Outstanding /\ h.family \in Families /\ h.family \in ObSockets
  BY <1>1, TakeResult DEF DialResults, ObSockets
<1>3. Outstanding' = Outstanding \ {h.family} /\ results' \in Seq(DialResults)
  BY <1>1, TakeResult
<1>4. obCall \in {"ok", "closed"} /\ Outstanding' = {}
  BY <1>0, <1>1, <1>2, <1>3 DEF FlowInv, AtMostOne
<1>5. \A s \in ObSockets : IF s = h.family THEN obSocket'[s] # "open" ELSE obSocket'[s] = obSocket[s]
  BY <1>0, <1>1, <1>2 DEF ObTypeOK
<1>6. ResultsInv'
  BY <1>1, <1>2, <1>4, <1>5, ResultsAfterTake
<1>7. ObTypeOK'
  <2>1. obSocket' \in [ObSockets -> {"none", "open", "closed"}]
    BY <1>0, <1>1, <1>2 DEF ObTypeOK
  <2> QED
    BY <1>0, <1>1, <1>3, <2>1 DEF ObTypeOK
<1> HIDE DEF h
<1>8. FlowInv'
  BY <1>0, <1>1, <1>4 DEF FlowInv, DirectTCPReq
<1>9. OpenInv'
  <2>1. h.family \notin given /\ given \subseteq ObSockets
    BY <1>0, <1>2 DEF OpenInv, ObTypeOK
  <2>2. \A s \in ObSockets : obSocket'[s] = "open" => s \in given'
    BY <1>0, <1>1, <1>3, <1>4, <1>5 DEF OpenInv
  <2>3. obCall' = "ok" /\ hold' # "done" => \A s \in given' : obSocket'[s] = "open"
    BY <1>0, <1>1, <1>5, <2>1 DEF OpenInv
  <2> QED
    BY <1>0, <1>1, <1>4, <2>2, <2>3 DEF OpenInv
<1>10. ChoiceInv'
  BY <1>0, <1>1, <1>4 DEF ChoiceInv, DirectTCPReq, Accepted
<1> QED
  BY <1>6, <1>7, <1>8, <1>9, <1>10 DEF ObInv

\* UDP through the direct outbound: a socket of both families, or a bound one.
LEMMA DirectUDPKeeps ==
  ASSUME ObInv, DirectUDP
  PROVE  ObInv'
<1> DEFINE p == Preferred(dialReq.mode, resolveInfo.has)
           used == IF dialReq.bind THEN {p} ELSE Families
<1>0. ObTypeOK /\ FlowInv /\ ResultsInv /\ resolveInfo.has \subseteq Families /\ obCall = "next"
  BY DEF ObInv, ObTypeOK, DirectUDP
<1>1. Outstanding = {} /\ given = {} /\ results = <<>> /\ reaper = "none" /\ hold = "none"
  BY <1>0, NothingYet
<1>2. /\ dialReq.ob = "direct" /\ dialReq.proto = "udp" /\ ~DirectTCPReq
      /\ UNCHANGED <<dialReq, resolveInfo, dials, results, reaper, hold>>
  BY DEF DirectUDP, DirectTCPReq
<1>3. Outstanding' = {}
  BY <1>1, <1>2 DEF Outstanding, Sent
<1>4. \A f \in Families : dials[f] = "none"
  BY <1>0, NothingYet
<1>5. \A s \in ObSockets : obSocket[s] # "open"
  BY <1>0, NothingYet
<1>6. ResultsInv'
  BY <1>1, <1>2, <1>4 DEF ResultsInv
<1>7. dialReq.bind => p \in Families /\ p \in resolveInfo.has
  BY <1>0 DEF DirectUDP, Preferred, Families
<1>8. CASE obSocket' = [s \in ObSockets |-> IF s \in used THEN "open" ELSE obSocket[s]] /\ given' = used /\ obCall' = "ok"
  <2>1. used \subseteq Families /\ Families \subseteq ObSockets
    BY <1>7 DEF ObSockets
  <2>2. dialReq.bind => used = {p}
    OBVIOUS
  <2> HIDE DEF used, p
  <2>3. ObTypeOK'
    BY <1>0, <1>2, <1>8, <2>1 DEF ObTypeOK, ObCalls
  <2>4. FlowInv'
    BY <1>0, <1>1, <1>2, <1>3, <1>8 DEF FlowInv, DirectTCPReq
  <2>5. OpenInv'
    BY <1>0, <1>1, <1>2, <1>3, <1>5, <1>8, <2>1 DEF OpenInv
  <2>6. ChoiceInv'
    BY <1>2, <1>3, <1>7, <1>8, <2>2 DEF ChoiceInv, DirectTCPReq
  <2> QED
    BY <1>6, <2>3, <2>4, <2>5, <2>6 DEF ObInv
<1>9. CASE obCall' = "failed" /\ UNCHANGED <<given, obSocket>>
  BY <1>0, <1>2, <1>9, StaysEarly DEF ObTypeOK, FlowInv
<1> QED
  BY <1>8, <1>9 DEF DirectUDP

\* A step of a proxy request or of the caller: no dial is in play, or none is touched.
LEMMA ProxyKeeps ==
  ASSUME ObInv, dialReq.ob # "direct",
         ProxyDial \/ ProxyFails \/ ProxyConnects \/ ProxyAssociates \/ ControlHoldEnds
  PROVE  ObInv'
<1>0. ObTypeOK /\ ResultsInv /\ FlowInv /\ OpenInv /\ ChoiceInv /\ ~DirectTCPReq /\ ~dialReq.bind
  BY DEF ObInv, FlowInv, DirectTCPReq
<1>1. \A f \in Families : dials[f] = "none"
  BY <1>0 DEF ResultsInv
<1>2. results = <<>>
  BY <1>0, TakerState
<1>3. Outstanding = {}
  BY <1>1, <1>2 DEF Outstanding, Sent
<1>4. UNCHANGED <<dialReq, lookups, resolveInfo, dials, results, reaper>>
  BY DEF ProxyDial, ProxyFails, ProxyConnects, ProxyAssociates, ControlHoldEnds
<1>5. Outstanding' = {} /\ ~DirectTCPReq' /\ ~dialReq'.bind
  BY <1>0, <1>3, <1>4 DEF Outstanding, Sent, DirectTCPReq
<1>6. ResultsInv'
  BY <1>1, <1>2, <1>4 DEF ResultsInv
<1>7. ChoiceInv'
  BY <1>5 DEF ChoiceInv
<1>8. "control" \in ObSockets /\ "assoc" \in ObSockets /\ "control" # "assoc"
  BY DEF ObSockets
<1>9. CASE ProxyDial
  <2>1. obCall = "next" /\ UNCHANGED <<given, hold>>
    BY <1>9 DEF ProxyDial
  <2>2. given = {} /\ hold = "none" /\ reaper = "none"
    BY <2>1, NothingYet
  <2>3. \A s \in ObSockets : obSocket[s] # "open"
    BY <2>1, NothingYet
  <2>4. CASE obSocket' = [obSocket EXCEPT !["control"] = "open"] /\ obCall' = "talk"
    <3>1. \A s \in ObSockets : obSocket'[s] = "open" <=> s = "control"
      BY <1>0, <1>8, <2>3, <2>4 DEF ObTypeOK
    <3>2. ObTypeOK'
      BY <1>0, <1>4, <1>8, <2>1, <2>4 DEF ObTypeOK, ObCalls
    <3>3. FlowInv'
      BY <1>0, <1>4, <1>5, <1>8, <2>2, <2>4, <3>1 DEF FlowInv
    <3>4. OpenInv'
      BY <1>4, <1>5, <2>1, <2>2, <2>4, <3>1 DEF OpenInv
    <3> QED
      BY <1>6, <1>7, <3>2, <3>3, <3>4 DEF ObInv
  <2>5. CASE obCall' = "failed" /\ UNCHANGED obSocket
    BY <1>0, <1>4, <2>1, <2>5, StaysEarly DEF ObTypeOK
  <2> QED
    BY <1>9, <2>4, <2>5 DEF ProxyDial
<1>10. ASSUME obCall = "talk" PROVE given = {} /\ hold = "none" /\ reaper = "none" /\ obSocket["control"] = "open"
                                    /\ \A s \in ObSockets : obSocket[s] = "open" => s = "control"
  BY <1>0, <1>3, <1>10 DEF FlowInv, OpenInv
<1>11. CASE ProxyFails
  <2>1. /\ obCall = "talk" /\ obCall' = "failed" /\ UNCHANGED <<given, hold>>
        /\ obSocket' = [obSocket EXCEPT !["control"] = IF @ = "open" THEN "closed" ELSE @]
    BY <1>11 DEF ProxyFails, CloseOne
  <2>2. \A s \in ObSockets : obSocket'[s] # "open"
    BY <1>0, <1>8, <1>10, <2>1 DEF ObTypeOK
  <2>3. ObTypeOK'
    BY <1>0, <1>4, <1>8, <2>1 DEF ObTypeOK, ObCalls
  <2>4. FlowInv'
    BY <1>0, <1>4, <1>5, <1>10, <2>1 DEF FlowInv
  <2>5. OpenInv'
    BY <1>4, <1>5, <1>10, <2>1, <2>2 DEF OpenInv
  <2> QED
    BY <1>6, <1>7, <2>3, <2>4, <2>5 DEF ObInv
<1>12. CASE ProxyConnects
  <2>1. obCall = "talk" /\ obCall' = "ok" /\ given' = {"control"} /\ UNCHANGED <<obSocket, hold>>
    BY <1>12 DEF ProxyConnects
  <2>3. ObTypeOK'
    BY <1>0, <1>4, <1>8, <2>1 DEF ObTypeOK, ObCalls
  <2>4. FlowInv'
    BY <1>0, <1>4, <1>5, <1>10, <2>1 DEF FlowInv
  <2>5. OpenInv'
    BY <1>4, <1>5, <1>10, <2>1 DEF OpenInv
  <2> QED
    BY <1>6, <1>7, <2>3, <2>4, <2>5 DEF ObInv
<1>13. CASE ProxyAssociates
  <2>0. obCall = "talk"
    BY <1>13 DEF ProxyAssociates
  <2>1. CASE /\ obCall' = "ok" /\ given' = {"control", "assoc"} /\ hold' = "run"
             /\ obSocket' = [obSocket EXCEPT !["assoc"] = "open"]
    <3>1. \A s \in ObSockets : obSocket'[s] = "open" <=> s \in {"control", "assoc"}
      BY <1>0, <1>8, <1>10, <2>0, <2>1 DEF ObTypeOK
    <3>2. ObTypeOK'
      BY <1>0, <1>4, <1>8, <2>1 DEF ObTypeOK, ObCalls
    <3>3. FlowInv'
      BY <1>0, <1>4, <1>5, <1>10, <2>0, <2>1 DEF FlowInv
    <3>4. OpenInv'
      BY <1>0, <1>4, <1>5, <1>8, <2>1, <3>1 DEF OpenInv
    <3> QED
      BY <1>6, <1>7, <3>2, <3>3, <3>4 DEF ObInv
  <2>2. CASE obCall' = "abandoned" /\ UNCHANGED <<given, hold, obSocket>>
    <3>2. ObTypeOK'
      BY <1>0, <1>4, <2>2 DEF ObTypeOK, ObCalls
    <3>3. FlowInv'
      BY <1>0, <1>4, <1>5, <1>10, <2>0, <2>2 DEF FlowInv
    <3>4. OpenInv'
      BY <1>4, <1>5, <1>10, <2>0, <2>2 DEF OpenInv
    <3> QED
      BY <1>6, <1>7, <3>2, <3>3, <3>4 DEF ObInv
  <2> QED
    BY <1>13, <2>1, <2>2 DEF ProxyAssociates
<1>14. CASE ControlHoldEnds
  <2>1. /\ hold = "run" /\ hold' = "done" /\ UNCHANGED <<obCall, given>>
        /\ obSocket' = [obSocket EXCEPT !["control"] = "closed", !["assoc"] = "closed"]
    BY <1>14 DEF ControlHoldEnds
  <2>2. \A s \in ObSockets : obSocket'[s] = "open" => obSocket[s] = "open"
    BY <1>0, <1>8, <2>1 DEF ObTypeOK
  <2>3. ObTypeOK'
    BY <1>0, <1>4, <1>8, <2>1 DEF ObTypeOK
  <2>4. obCall \in {"ok", "closed"}
    BY <1>0, <2>1 DEF OpenInv
  <2>5. FlowInv'
    BY <1>0, <1>4, <1>5, <2>1, <2>4 DEF FlowInv, AtMostOne
  <2>6. OpenInv'
    BY <1>0, <1>3, <1>4, <1>5, <2>1, <2>2 DEF OpenInv
  <2> QED
    BY <1>6, <1>7, <2>3, <2>5, <2>6 DEF ObInv
<1> QED
  BY <1>9, <1>11, <1>12, <1>13, <1>14

\* The caller closes what it was given; a dial the reaper still waits for is not touched.
LEMMA CallerClosesKeeps ==
  ASSUME ObInv, CallerCloses
  PROVE  ObInv'
<1>0. ObTypeOK /\ ResultsInv /\ FlowInv /\ OpenInv /\ ChoiceInv
  BY DEF ObInv
<1>1. /\ obCall = "ok" /\ obCall' = "closed" /\ given' = {}
      /\ obSocket' = [s \in ObSockets |-> IF s \in given THEN "closed" ELSE obSocket[s]]
      /\ UNCHANGED <<dialReq, resolveInfo, dials, results, reaper, hold>>
  BY DEF CallerCloses
<1>2. Outstanding' = Outstanding
  BY <1>1 DEF Outstanding, Sent
<1>3. \A f \in Outstanding : f \notin given /\ f \in ObSockets /\ obSocket'[f] = obSocket[f]
  BY <1>0, <1>1 DEF OpenInv, Outstanding, ObSockets
<1>4. ObTypeOK'
  BY <1>0, <1>1 DEF ObTypeOK, ObCalls
<1>5. ResultsInv'
  <2>1. \A i \in 1..Len(results) : results[i].family \in Outstanding
    <3>1. \A i \in 1..Len(results) : results[i] \in DialResults
      BY <1>0 DEF ObTypeOK
    <3>2. \A i \in 1..Len(results) : results[i].family \in Families
      BY <3>1 DEF DialResults
    <3> QED
      BY <3>2 DEF Outstanding, Sent
  <2>2. \A f \in Families : dials[f] = "dialing" => f \in Outstanding
    BY DEF Outstanding
  <2> QED
    BY <1>0, <1>1, <1>3, <2>1, <2>2 DEF ResultsInv, DirectTCPReq
<1>6. FlowInv'
  BY <1>0, <1>1, <1>2 DEF FlowInv, DirectTCPReq
<1>7. OpenInv'
  BY <1>0, <1>1, <1>2 DEF OpenInv
<1>8. ChoiceInv'
  BY <1>0, <1>1, <1>2 DEF ChoiceInv, DirectTCPReq, Accepted
<1> QED
  BY <1>4, <1>5, <1>6, <1>7, <1>8 DEF ObInv

LEMMA ObInvariance == SpecOb => []ObInv
<1>1. InitOb => ObInv
  <2> SUFFICES ASSUME InitOb PROVE ObInv
    OBVIOUS
  <2>1. ObTypeOK
    BY DEF InitOb, ObTypeOK, NoDial, ObCalls, DialResults
  <2>2. Outstanding = {}
    BY DEF InitOb, Outstanding, Sent
  <2>3. ResultsInv
    BY DEF InitOb, ResultsInv
  <2>4. FlowInv
    BY <2>2 DEF InitOb, FlowInv, NoDial
  <2>5. OpenInv
    BY <2>2 DEF InitOb, OpenInv
  <2>6. ChoiceInv
    BY <2>2 DEF InitOb, ChoiceInv
  <2> QED
    BY <2>1, <2>3, <2>4, <2>5, <2>6 DEF ObInv
<1>2. ObInv /\ [NextOb]_obVars => ObInv'
  <2> SUFFICES ASSUME ObInv, [NextOb]_obVars PROVE ObInv'
    OBVIOUS
  <2>0. ObTypeOK /\ FlowInv
    BY DEF ObInv
  <2>1. ASSUME NEW ob \in {"direct", "socks5", "http"}, NEW proto \in {"tcp", "udp"}, NEW mode \in ObModes, NEW bind \in BOOLEAN,
               bind => ob = "direct" /\ proto = "udp",
               Request([ob |-> ob, proto |-> proto, mode |-> mode, bind |-> bind])
        PROVE  ObInv'
    <3>1. /\ obCall = "idle" /\ obCall' \in {"resolve", "next"} /\ UNCHANGED <<dials, results, reaper, obSocket, given, hold>>
          /\ dialReq' = [ob |-> ob, proto |-> proto, mode |-> mode, bind |-> bind]
      BY <2>1 DEF Request
    <3>2. resolveInfo' = resolveInfo \/ \E f \in Families : resolveInfo' = [has |-> {f}, err |-> FALSE]
      BY <2>1 DEF Request
    <3>3. resolveInfo' \in [has : SUBSET Families, err : BOOLEAN]
      <4>1. CASE resolveInfo' = resolveInfo
        BY <2>0, <4>1 DEF ObTypeOK
      <4>2. ASSUME NEW f \in Families, resolveInfo' = [has |-> {f}, err |-> FALSE]
            PROVE  resolveInfo' \in [has : SUBSET Families, err : BOOLEAN]
        BY <4>2
      <4> QED
        BY <3>2, <4>1, <4>2
    <3>4. dialReq' \in [ob : {"direct", "socks5", "http"}, proto : {"tcp", "udp"}, mode : ObModes \cup {"auto"}, bind : BOOLEAN]
      BY <3>1
    <3>5. dialReq'.bind => dialReq'.ob = "direct" /\ dialReq'.proto = "udp"
      BY <2>1, <3>1
    <3> QED
      BY <3>1, <3>3, <3>4, <3>5, StaysEarly
  <2>2. ASSUME NEW f \in Families, LookupStep(f) PROVE ObInv'
    BY <2>2, ObQuiet DEF LookupStep
  <2>3. ASSUME NEW f \in Families, DialEnds(f, TRUE) \/ DialEnds(f, FALSE) PROVE ObInv'
    BY <2>3, DialEndsKeeps
  <2>4. CASE Resolved
    <3>1. resolveInfo' \in [has : SUBSET Families, err : BOOLEAN]
      BY <2>4 DEF Resolved
    <3> QED
      BY <2>0, <2>4, <3>1, StaysEarly DEF Resolved, ObTypeOK, FlowInv
  <2>5. CASE DirectRefused
    BY <2>0, <2>5, StaysEarly DEF DirectRefused, ObTypeOK, FlowInv
  <2>6. CASE DirectTCP
    BY <2>6, DirectTCPKeeps
  <2>7. CASE FirstResult
    <3>1. /\ results # <<>> /\ obCall \in {"race", "single"} /\ results' = Tail(results)
          /\ IF obCall = "single" \/ Head(results).ok THEN Take(Head(results).ok, Head(results).family)
                                                      ELSE obCall' = "second" /\ UNCHANGED given
          /\ reaper' = (IF obCall = "race" /\ Head(results).ok THEN "wait" ELSE reaper)
          /\ UNCHANGED <<dialReq, resolveInfo, dials, obSocket, hold>>
      BY <2>7 DEF FirstResult
    <3>2. reaper = "none"
      BY <3>1, TakerState
    <3>3. CASE obCall = "single" \/ Head(results).ok
      BY <3>1, <3>2, <3>3, TakenKeeps
    <3>4. CASE ~(obCall = "single" \/ Head(results).ok)
      BY <3>1, <3>4, LostFirstKeeps
    <3> QED
      BY <3>3, <3>4
  <2>8. CASE SecondResult
    <3>1. reaper = "none"
      BY <2>8, TakerState DEF SecondResult
    <3> QED
      BY <2>8, <3>1, TakenKeeps DEF SecondResult
  <2>9. CASE Reap
    BY <2>9, ReapKeeps
  <2>10. CASE DirectUDP
    BY <2>10, DirectUDPKeeps
  <2>11. CASE ProxyDial \/ ProxyFails \/ ProxyConnects \/ ProxyAssociates \/ ControlHoldEnds
    <3>1. dialReq.ob # "direct"
      BY <2>11 DEF ObInv, FlowInv, OpenInv, ProxyDial, ProxyFails, ProxyConnects, ProxyAssociates, ControlHoldEnds
    <3> QED
      BY <2>11, <3>1, ProxyKeeps
  <2>12. CASE CallerCloses
    BY <2>12, CallerClosesKeeps
  <2>13. CASE UNCHANGED obVars
    BY <2>13, ObQuiet DEF obVars
  <2> QED
    BY <2>1, <2>2, <2>3, <2>4, <2>5, <2>6, <2>7, <2>8, <2>9, <2>10, <2>11, <2>12, <2>13 DEF NextOb
<1> QED
  BY <1>1, <1>2, PTL DEF SpecOb

\* A request through an outbound leaves no socket behind but the ones it gives the caller,
\* and gives the family that the mode and the addresses of the name allow (ob_direct.go,
\* dualStackDialTCP; ob_socks5.go, ob_http.go), whatever the CNAME chain and the retries were.
THEOREM OutboundsLeakNothing == SpecOb => []OnlyGivenStayOpen
<1>1. ObInv => OnlyGivenStayOpen
  <2> SUFFICES ASSUME ObInv PROVE OnlyGivenStayOpen
    OBVIOUS
  <2>0. ObTypeOK /\ FlowInv /\ OpenInv /\ ChoiceInv
    BY DEF ObInv
  <2>1. obCall \in {"ok", "failed", "closed"} /\ reaper # "wait"
          => /\ {s \in ObSockets : obSocket[s] = "open"} \subseteq given
             /\ \A f \in Families : dials[f] # "dialing"
    BY <2>0 DEF FlowInv, OpenInv, Outstanding
  <2>2. obCall = "ok" /\ dialReq.ob = "direct" /\ dialReq.proto = "tcp"
          => /\ given \subseteq resolveInfo.has
             /\ (dialReq.mode = "4" => given = {"v4"}) /\ (dialReq.mode = "6" => given = {"v6"})
    BY <2>0 DEF ChoiceInv, DirectTCPReq, Accepted
  <2>3. ASSUME obCall = "ok", dialReq.bind PROVE WriteFamily(resolveInfo.has) \in given
    <3>1. PICK f \in Families : given = {f} /\ f \in resolveInfo.has
      BY <2>0, <2>3 DEF ChoiceInv
    <3>2. given # Families /\ (\E g \in given : g \in resolveInfo.has) /\ (CHOOSE g \in given : TRUE) \in given
      BY <3>1 DEF Families
    <3> QED
      BY <3>2 DEF WriteFamily
  <2> QED
    BY <2>0, <2>1, <2>2, <2>3 DEF OnlyGivenStayOpen, OpenInv
<1> QED
  BY <1>1, ObInvariance, PTL

-----------------------------------------------------------------------------
(* Least elements, and lists of finite sets *)

\* Every non-empty set of natural numbers has a least element.
LEMMA LeastNat ==
  ASSUME NEW T, T \subseteq Nat, T # {}
  PROVE  \E x \in T : \A y \in T : x <= y
<1> DEFINE R == {ss \in Nat \X Nat : ss[1] < ss[2]}
<1>1. IsWellFoundedOn(R, Nat)
  BY NatLessThanWellFounded DEF OpToRel
<1> HIDE DEF R
<1>2. PICK x \in T : \A y \in T : ~(<<y, x>> \in R)
  BY <1>1, WFMin
<1>3. ASSUME NEW y \in T PROVE x <= y
  <2>1. x \in Nat /\ y \in Nat /\ ~(<<y, x>> \in R)
    BY <1>2
  <2>2. y < x => <<y, x>> \in R
    BY <2>1 DEF R
  <2> QED
    BY <2>1, <2>2
<1> QED
  BY <1>3

LEMMA MinOfNats ==
  ASSUME NEW T, T \subseteq Nat, T # {}
  PROVE  Min(T) \in T /\ \A y \in T : Min(T) <= y
  BY LeastNat DEF Min

\* Any finite set can be listed by increasing key.
LEMMA KeySort ==
  ASSUME NEW U, IsFiniteSet(U), NEW key \in [U -> Nat]
  PROVE  \E s \in SetToSeqs(U) : \A i, j \in 1..Cardinality(U) : i < j => key[s[i]] <= key[s[j]]
<1> DEFINE Sorts(S) == \E s \in SetToSeqs(S) : \A i, j \in 1..Cardinality(S) : i < j => key[s[i]] <= key[s[j]]
           T == {k \in Nat : \E S \in SUBSET U : Cardinality(S) = k /\ ~Sorts(S)}
<1> SUFFICES ASSUME ~Sorts(U) PROVE FALSE
  OBVIOUS
<1>1. \A S \in SUBSET U : IsFiniteSet(S) /\ Cardinality(S) \in Nat
  BY FS_Subset, FS_CardinalityType
<1>2. T \subseteq Nat /\ T # {}
  BY <1>1
<1>3. PICK k \in T : \A y \in T : k <= y
  BY <1>2, LeastNat
<1>4. PICK S \in SUBSET U : Cardinality(S) = k /\ ~Sorts(S)
  BY <1>3
<1>5. k \in Nat /\ IsFiniteSet(S)
  BY <1>1, <1>3
<1>6. \A R \in SUBSET U : Cardinality(R) < k => Sorts(R)
  BY <1>1, <1>3, <1>5
<1> HIDE DEF T
<1>7. CASE k = 0
  <2>1. << >> \in SetToSeqs(S)
    BY <1>4, <1>7 DEF SetToSeqs
  <2> QED
    BY <1>4, <1>7, <2>1
<1>8. CASE k # 0
  <2>1. S # {}
    BY <1>4, <1>8, FS_EmptySet
  <2> DEFINE keys == {key[n] : n \in S}
  <2>2. keys \subseteq Nat /\ keys # {}
    BY <2>1
  <2>3. PICK least \in keys : \A y \in keys : least <= y
    BY <2>2, LeastNat
  <2>4. PICK first \in S : \A n \in S : key[first] <= key[n]
    BY <2>3
  <2>5. Cardinality(S \ {first}) = k - 1 /\ k - 1 \in Nat
    <3>1. Cardinality(S \ {first}) = Cardinality(S) - 1
      BY <1>5, <2>4, FS_RemoveElement
    <3> QED
      BY <1>4, <1>5, <1>8, <3>1
  <2>6. PICK s \in SetToSeqs(S \ {first}) : \A i, j \in 1..(k - 1) : i < j => key[s[i]] <= key[s[j]]
    BY <1>6, <1>5, <2>5
  <2>7. s \in [1..(k - 1) -> S \ {first}] /\ \A i, j \in 1..(k - 1) : i # j => s[i] # s[j]
    BY <2>5, <2>6 DEF SetToSeqs
  <2> DEFINE r == [i \in 1..k |-> IF i = 1 THEN first ELSE s[i - 1]]
  <2>8. ASSUME NEW i \in 1..k, i # 1 PROVE i - 1 \in 1..(k - 1) /\ r[i] = s[i - 1] /\ r[i] \in S \ {first}
    BY <1>5, <2>7, <2>8
  <2>9. 1 \in 1..k /\ r[1] = first
    BY <1>5, <1>8
  <2>10. r \in [1..k -> S]
    BY <2>4, <2>8
  <2> HIDE DEF r
  <2>11. ASSUME NEW i \in 1..k, NEW j \in 1..k, i < j PROVE key[r[i]] <= key[r[j]] /\ r[i] # r[j]
    <3>1. j # 1 /\ r[j] \in S \ {first}
      BY <2>8, <2>11
    <3>2. CASE i = 1
      BY <2>4, <2>9, <3>1, <3>2
    <3>3. CASE i # 1
      <4>1. PICK a \in 1..(k - 1), b \in 1..(k - 1) : a = i - 1 /\ b = j - 1 /\ r[i] = s[a] /\ r[j] = s[b]
        BY <2>8, <3>1, <3>3
      <4>2. a < b
        BY <2>11, <4>1
      <4> QED
        BY <2>6, <2>7, <4>1, <4>2
    <3> QED
      BY <3>2, <3>3
  <2>12. r \in SetToSeqs(S)
    <3>1. \A i, j \in 1..k : i # j => r[i] # r[j]
      BY <2>11
    <3> QED
      BY <1>4, <2>10, <3>1 DEF SetToSeqs
  <2> QED
    BY <1>4, <2>11, <2>12
<1> QED
  BY <1>7, <1>8

\* A list of a finite set has every element of it.
LEMMA ListHasAll ==
  ASSUME NEW U, IsFiniteSet(U), NEW s \in SetToSeqs(U)
  PROVE  /\ s \in Seq(U) /\ Len(s) = Cardinality(U)
         /\ \A u \in U : \E i \in 1..Cardinality(U) : s[i] = u
<1> DEFINE k == Cardinality(U)
<1>2. k \in Nat
  BY FS_CardinalityType
<1>3. s \in [1..k -> U] /\ \A i, j \in 1..k : i # j => s[i] # s[j]
  BY DEF SetToSeqs
<1>4. s \in Seq(U) /\ Len(s) = k
  BY <1>2, <1>3
<1>5. s \in Injection(1..k, U)
  <2>1. \A i, j \in 1..k : s[i] = s[j] => i = j
    BY <1>3
  <2> QED
    BY <1>3, <2>1, Fun_IsInj
<1>6. s \in Surjection(1..k, U)
  <2>1. IsFiniteSet(1..k) /\ Cardinality(1..k) = k
    BY <1>2, FS_Interval
  <2> QED
    BY <1>5, <2>1, FS_Injection
<1>7. \A u \in U : \E i \in 1..k : s[i] = u
  BY <1>6 DEF Surjection
<1> QED
  BY <1>4, <1>7

-----------------------------------------------------------------------------
(* Sniffer *)

\* What TCP has taken is in pre, in the teeReader's buffer or given back, in the order of
\* the stream; the host of the request stays one that can be rewritten.
SniffInv ==
    /\ sniffAt \in {"idle", "pre", "http", "tls", "done", "udp"}
    /\ stream \in [look : Looks, bytes : Nat]
    /\ taken \in Nat /\ taken <= stream.bytes
    /\ sniffHost # "broken"
    /\ sniffAt \in {"idle", "pre"} => taken = 0
    /\ sniffAt \in {"idle", "pre", "tls"} => teeBuf = <<>>
    /\ sniffAt = "http" => \/ pre = Bytes(taken) /\ teeBuf = <<>>
                           \/ pre = <<>> /\ teeBuf = Bytes(taken)
    /\ sniffAt = "tls" => pre = Bytes(taken)
    /\ sniffAt = "done" => putback = Bytes(taken) /\ sniffDeadline = FALSE

\* A run of the stream from byte t on.
From(t, n) == [i \in 1..n |-> t + i]

LEMMA BytesJoin ==
  ASSUME NEW t \in Nat, NEW n \in Nat
  PROVE  Bytes(t) \o From(t, n) = Bytes(t + n) /\ <<>> \o From(0, n) = Bytes(n)
<1> DEFINE a == Bytes(t)  b == From(t, n)  c == Bytes(t + n)
<1>1. a \in Seq(Nat) /\ Len(a) = t /\ \A i \in 1..t : a[i] = i
  BY DEF Bytes
<1>2. b \in Seq(Nat) /\ Len(b) = n /\ \A i \in 1..n : b[i] = t + i
  BY DEF From
<1>3. c \in Seq(Nat) /\ Len(c) = t + n /\ \A i \in 1..(t + n) : c[i] = i
  BY DEF Bytes
<1> HIDE DEF a, b, c
<1>4. a \o b \in Seq(Nat) /\ Len(a \o b) = t + n
  BY <1>1, <1>2, ConcatProperties
<1>5. \A i \in 1..(t + n) : (a \o b)[i] = i
  BY <1>1, <1>2
<1>6. a \o b = c
  BY <1>3, <1>4, <1>5, SeqEqual
<1>7. <<>> \o From(0, n) = From(0, n) /\ From(0, n) = Bytes(n)
  <2>1. From(0, n) \in Seq(Nat)
    BY DEF From
  <2>2. From(0, n) = Bytes(n)
    BY DEF From, Bytes
  <2> QED
    BY <2>1, <2>2, ConcatEmptySeq
<1> QED
  BY <1>6, <1>7 DEF a, b, c

\* io.ReadFull takes a run of the stream that is no longer than the stream is.
LEMMA TookRun ==
  ASSUME SniffInv, NEW n \in Nat
  PROVE  \E k \in 0..n : Took(n) = From(taken, k) /\ Len(Took(n)) = k /\ taken + k <= stream.bytes
<1> DEFINE hi == IF taken + n <= stream.bytes THEN taken + n ELSE stream.bytes
           k == Cardinality(ReadFull(n))
<1>1. taken \in Nat /\ stream.bytes \in Nat /\ taken <= stream.bytes
  BY DEF SniffInv
<1>2. hi \in Nat /\ taken <= hi /\ hi <= stream.bytes /\ hi <= taken + n
  BY <1>1
<1>3. ReadFull(n) = (taken + 1)..hi
  BY DEF ReadFull
<1> HIDE DEF hi
<1>4. k = hi - taken
  <2>1. taken + 1 \in Int /\ hi \in Int
    BY <1>1, <1>2
  <2>2. Cardinality((taken + 1)..hi) = IF taken + 1 > hi THEN 0 ELSE hi - (taken + 1) + 1
    BY <2>1, FS_Interval
  <2> QED
    BY <1>1, <1>2, <1>3, <2>2
<1>5. k \in 0..n /\ taken + k <= stream.bytes /\ k \in Nat
  BY <1>1, <1>2, <1>4
<1>6. Took(n) = From(taken, k)
  BY DEF Took, From
<1> HIDE DEF k
<1>7. Len(From(taken, k)) = k
  BY <1>5 DEF From
<1> QED
  BY <1>5, <1>6, <1>7

\* TCP gives its bytes back.
LEMMA GivesBack ==
  ASSUME NEW buf, SniffReturn(buf), buf = Bytes(taken'), taken' \in Nat, taken' <= stream'.bytes,
         stream' \in [look : Looks, bytes : Nat], sniffHost' # "broken"
  PROVE  SniffInv'
  BY DEF SniffReturn, SniffInv

LEMMA SniffStep ==
  ASSUME SniffInv, [NextSniff]_sniffVars
  PROVE  SniffInv'
<1> USE SniffAssumption
<1>0. /\ taken \in Nat /\ taken <= stream.bytes /\ stream \in [look : Looks, bytes : Nat]
      /\ stream.look \in Looks /\ stream.bytes \in Nat /\ sniffHost # "broken"
  BY DEF SniffInv
<1>a. \A kind : Checked(kind) => kind # "broken"
  BY DEF Checked, Check
<1>1. CASE StartTCP
  <2>1. stream' \in [look : Looks, bytes : Nat] /\ 0 <= stream'.bytes
    BY <1>1 DEF StartTCP
  <2>2. sniffHost' # "broken"
    BY <1>1, <1>a DEF StartTCP
  <2> QED
    BY <1>0, <1>1, <2>1, <2>2 DEF StartTCP, SniffInv
<1>2. CASE ReadPre
  <2>0. taken = 0 /\ teeBuf = <<>> /\ UNCHANGED <<stream, teeBuf, sniffHost>>
    BY <1>2 DEF SniffInv, ReadPre
  <2>1. PICK k \in 0..3 : Took(3) = From(taken, k) /\ Len(Took(3)) = k /\ taken + k <= stream.bytes
    BY TookRun
  <2>2. Took(3) = Bytes(k) /\ taken' = k
    BY <1>2, <2>0, <2>1 DEF ReadPre, From, Bytes
  <2>3. CASE SniffReturn(Took(3))
    BY <1>0, <2>0, <2>1, <2>2, <2>3, GivesBack
  <2>4. CASE pre' = Took(3) /\ sniffAt' = stream.look /\ stream.look # "other"
    BY <1>0, <2>0, <2>1, <2>2, <2>4 DEF SniffInv, Looks
  <2> QED
    BY <1>2, <2>3, <2>4 DEF ReadPre
<1>3. CASE TeeRead
  <2>0. sniffAt = "http" /\ UNCHANGED <<sniffAt, stream, sniffHost>>
    BY <1>3 DEF TeeRead
  <2>1. CASE pre # <<>> /\ teeBuf' = teeBuf \o pre /\ pre' = <<>> /\ UNCHANGED taken
    <3>1. teeBuf = <<>> /\ pre = Bytes(taken)
      BY <2>0, <2>1 DEF SniffInv
    <3>2. Bytes(taken) \in Seq(Nat)
      BY <1>0 DEF Bytes
    <3>3. teeBuf' = Bytes(taken')
      BY <2>1, <3>1, <3>2, ConcatEmptySeq
    <3> QED
      BY <1>0, <2>0, <2>1, <3>3 DEF SniffInv
  <2>2. ASSUME NEW n \in 1..(MaxHeader - Len(teeBuf)), taken + n <= stream.bytes, pre = <<>>, UNCHANGED pre,
               teeBuf' = teeBuf \o [i \in 1..n |-> taken + i], taken' = taken + n
        PROVE  SniffInv'
    <3>0. n \in Nat
      OBVIOUS
    <3>1. pre = <<>> /\ (teeBuf = Bytes(taken) \/ (taken = 0 /\ teeBuf = <<>>))
      <4>1. Len(Bytes(taken)) = taken
        BY <1>0 DEF Bytes
      <4> QED
        BY <2>0, <2>2, <4>1 DEF SniffInv
    <3>2. teeBuf' = teeBuf \o From(taken, n)
      BY <2>2 DEF From
    <3>3. teeBuf' = Bytes(taken')
      <4>1. Bytes(taken) \o From(taken, n) = Bytes(taken + n) /\ <<>> \o From(0, n) = Bytes(n)
        BY <1>0, <3>0, BytesJoin
      <4>2. taken = 0 => taken + n = n
        BY <3>0
      <4>3. CASE teeBuf = Bytes(taken)
        BY <2>2, <3>2, <4>1, <4>3
      <4>4. CASE taken = 0 /\ teeBuf = <<>>
        BY <2>2, <3>2, <4>1, <4>2, <4>4
      <4> QED
        BY <3>1, <4>3, <4>4
    <3>4. taken' \in Nat /\ taken' <= stream'.bytes /\ stream' = stream
      BY <1>0, <2>0, <2>2, <3>0
    <3> QED
      BY <1>0, <2>0, <2>2, <3>3, <3>4 DEF SniffInv
  <2> QED
    BY <1>3, <2>1, <2>2 DEF TeeRead
<1>4. CASE EndHTTP
  <2>0. sniffAt = "http" /\ teeBuf # <<>> /\ UNCHANGED <<stream, taken, pre, teeBuf>>
    BY <1>4 DEF EndHTTP
  <2>1. pre = <<>> /\ teeBuf = Bytes(taken)
    BY <2>0 DEF SniffInv
  <2>2. pre \o teeBuf = Bytes(taken)
    <3>1. Bytes(taken) \in Seq(Nat)
      BY <1>0 DEF Bytes
    <3> QED
      BY <2>1, <3>1, ConcatEmptySeq
  <2>3. SniffReturn(pre \o teeBuf) /\ sniffHost' # "broken"
    BY <1>0, <1>4 DEF EndHTTP, Rewrite
  <2> QED
    BY <1>0, <2>0, <2>2, <2>3, GivesBack
<1>5. CASE ReadTLS
  <2> DEFINE got == Took(2 + TLSBody)
  <2>0. sniffAt = "tls" /\ pre = Bytes(taken) /\ UNCHANGED stream /\ pre' = pre \o got /\ taken' = taken + Len(got)
    BY <1>5 DEF SniffInv, ReadTLS
  <2>1. PICK k \in 0..(2 + TLSBody) : got = From(taken, k) /\ Len(got) = k /\ taken + k <= stream.bytes
    BY TookRun
  <2>2. pre' = Bytes(taken') /\ taken' = taken + k
    <3>1. k \in Nat
      BY <2>1
    <3>2. Bytes(taken) \o From(taken, k) = Bytes(taken + k)
      BY <1>0, <3>1, BytesJoin
    <3> QED
      BY <2>0, <2>1, <3>2
  <2>3. SniffReturn(pre') /\ sniffHost' # "broken"
    BY <1>0, <1>5 DEF ReadTLS, Rewrite
  <2>4. taken' \in Nat /\ taken' <= stream'.bytes
    BY <1>0, <2>0, <2>1, <2>2
  <2> QED
    BY <1>0, <2>0, <2>2, <2>3, <2>4, GivesBack
<1>6. CASE SniffUDP
  <2>1. sniffAt' = "udp" /\ sniffHost' # "broken"
    <3>1. PICK kind \in Addresses :
             /\ Checked(kind)
             /\ IF AssembleCryptoFrames(frames') # Bytes(HelloLen)
                THEN sniffAt' = "udp" /\ sniffHost' = kind
                ELSE IF kind # "broken"
                THEN sniffAt' = "udp" /\ sniffHost' = "sniffed"
                ELSE sniffAt' = "failed" /\ sniffHost' = kind
      BY <1>6 DEF SniffUDP
    <3> QED
      BY <1>a, <3>1
  <2> QED
    BY <1>0, <1>6, <2>1 DEF SniffUDP, SniffInv
<1>7. CASE UNCHANGED sniffVars
  BY <1>7 DEF sniffVars, SniffInv
<1> QED
  BY <1>1, <1>2, <1>3, <1>4, <1>5, <1>6, <1>7 DEF NextSniff

\* What sort.Slice leaves of n frames: the same frames, by offset.
SortOf(fs, s, p, n) ==
    /\ p \in [1..n -> 1..n] /\ (\A i, j \in 1..n : i # j => p[i] # p[j])
    /\ \A k \in 1..n : \E i \in 1..n : p[i] = k
    /\ s = [i \in 1..n |-> fs[p[i]]]
    /\ \A i, j \in 1..n : i < j => s[i].offset <= s[j].offset

LEMMA FramesSort ==
  ASSUME NEW n \in Nat, NEW fs \in [1..n -> Slices]
  PROVE  \E p : SortOf(fs, SortFrames(fs), p, n)
<1>1. \A i \in 1..n : fs[i].offset \in Nat /\ fs[i].len \in Nat
  BY SniffAssumption DEF Slices
<1>2. IsFiniteSet(1..n) /\ Cardinality(1..n) = n /\ DOMAIN fs = 1..n
  BY FS_Interval
<1> DEFINE key == [i \in 1..n |-> fs[i].offset]
           OK(p) == \A i, j \in DOMAIN fs : i < j => ~Earlier(fs[p[j]], fs[p[i]])
           order == CHOOSE p \in SetToSeqs(DOMAIN fs) : OK(p)
<1>3. key \in [1..n -> Nat]
  BY <1>1
<1>4. \A p \in SetToSeqs(1..n) : p \in [1..n -> 1..n]
  BY <1>2 DEF SetToSeqs
<1>5. ASSUME NEW p \in SetToSeqs(1..n) PROVE OK(p) <=> \A i, j \in 1..n : i < j => fs[p[i]].offset <= fs[p[j]].offset
  <2>1. \A i \in 1..n : p[i] \in 1..n /\ fs[p[i]].offset \in Nat
    BY <1>1, <1>4
  <2>2. ASSUME NEW i \in 1..n, NEW j \in 1..n
        PROVE  ~Earlier(fs[p[j]], fs[p[i]]) <=> fs[p[i]].offset <= fs[p[j]].offset
    <3>1. PICK a \in Nat, b \in Nat : a = fs[p[i]].offset /\ b = fs[p[j]].offset
      BY <2>1
    <3> QED
      BY <3>1 DEF Earlier
  <2> QED
    BY <1>2, <2>2
<1>6. \E p \in SetToSeqs(1..n) : OK(p)
  <2>1. PICK p \in SetToSeqs(1..n) : \A i, j \in 1..n : i < j => key[p[i]] <= key[p[j]]
    BY <1>2, <1>3, KeySort
  <2>2. \A i \in 1..n : key[p[i]] = fs[p[i]].offset
    BY <1>4
  <2>3. \A i, j \in 1..n : i < j => fs[p[i]].offset <= fs[p[j]].offset
    BY <2>1, <2>2
  <2> QED
    BY <1>5, <2>3
<1>7. order \in SetToSeqs(1..n) /\ OK(order)
  BY <1>2, <1>6
<1>8. SortFrames(fs) = [i \in 1..n |-> fs[order[i]]]
  BY <1>2 DEF SortFrames
<1> HIDE DEF order
<1>9. \A i, j \in 1..n : i < j => fs[order[i]].offset <= fs[order[j]].offset
  BY <1>5, <1>7
<1>10. \A k \in 1..n : \E i \in 1..n : order[i] = k
  <2>1. \A k \in 1..n : \E i \in 1..Cardinality(1..n) : order[i] = k
    BY <1>2, <1>7, ListHasAll
  <2> QED
    BY <1>2, <2>1
<1>11. \A i, j \in 1..n : i # j => order[i] # order[j]
  BY <1>2, <1>7 DEF SetToSeqs
<1>12. PICK s : s = SortFrames(fs)
  OBVIOUS
<1>13. \A i, j \in 1..n : i < j => s[i].offset <= s[j].offset
  BY <1>8, <1>9, <1>12
<1> QED
  BY <1>4, <1>7, <1>8, <1>10, <1>11, <1>12, <1>13 DEF SortOf

AllCovered(fs, n) == UNION {Covered(fs[i]) : i \in 1..n}

\* The frames cover the ClientHello without gap or overlap.
Whole(fs, n) ==
    /\ AllCovered(fs, n) = 1..HelloLen
    /\ \A i, j \in 1..n : i # j => Covered(fs[i]) \cap Covered(fs[j]) = {}

\* Sorting changes nothing about what is covered.
LEMMA SortKeeps ==
  ASSUME NEW n \in Nat, NEW fs \in [1..n -> Slices], NEW s, NEW p, SortOf(fs, s, p, n)
  PROVE  /\ s \in [1..n -> Slices]
         /\ Whole(fs, n) <=> Whole(s, n)
         /\ AllCovered(fs, n) = AllCovered(s, n)
<1>1. \A i \in 1..n : s[i] = fs[p[i]] /\ p[i] \in 1..n
  BY DEF SortOf
<1>2. \A k \in 1..n : \E i \in 1..n : p[i] = k
  BY DEF SortOf
<1>3. s \in [1..n -> Slices]
  BY <1>1 DEF SortOf
<1>4. \A x : x \in AllCovered(fs, n) <=> x \in AllCovered(s, n)
  <2>1. ASSUME NEW x, NEW i \in 1..n, x \in Covered(fs[i]) PROVE \E k \in 1..n : x \in Covered(s[k])
    <3>1. PICK k \in 1..n : p[k] = i
      BY <1>2
    <3>2. s[k] = fs[i]
      BY <1>1, <3>1, Zenon
    <3> QED
      BY <2>1, <3>2
  <2>2. ASSUME NEW x, NEW i \in 1..n, x \in Covered(s[i]) PROVE \E k \in 1..n : x \in Covered(fs[k])
    BY <1>1, <2>2, Zenon
  <2> QED
    BY <2>1, <2>2 DEF AllCovered
<1>5. AllCovered(fs, n) = AllCovered(s, n)
  BY <1>4
<1>6. ASSUME \A i, j \in 1..n : i # j => Covered(fs[i]) \cap Covered(fs[j]) = {},
             NEW i \in 1..n, NEW j \in 1..n, i # j
      PROVE  Covered(s[i]) \cap Covered(s[j]) = {}
  <2>1. p[i] # p[j]
    BY <1>6 DEF SortOf
  <2> QED
    BY <1>1, <1>6, <2>1, Zenon
<1>7. ASSUME \A i, j \in 1..n : i # j => Covered(s[i]) \cap Covered(s[j]) = {},
             NEW i \in 1..n, NEW j \in 1..n, i # j
      PROVE  Covered(fs[i]) \cap Covered(fs[j]) = {}
  <2>1. PICK a \in 1..n : p[a] = i
    BY <1>2
  <2>2. PICK b \in 1..n : p[b] = j
    BY <1>2
  <2>3. a # b
    BY <1>7, <2>1, <2>2
  <2> QED
    BY <1>1, <1>7, <2>1, <2>2, <2>3, Zenon
<1> QED
  BY <1>3, <1>5, <1>6, <1>7, Zenon DEF Whole

\* Sorted frames without overlap lie one behind the other.
LEMMA Behind ==
  ASSUME NEW n \in Nat, NEW s \in [1..n -> Slices], NEW i \in 1..n, NEW j \in 1..n,
         s[i].offset <= s[j].offset, Covered(s[i]) \cap Covered(s[j]) = {}
  PROVE  s[i].offset + s[i].len <= s[j].offset
<1>1. PICK a \in Nat, l \in Nat, b \in Nat, m \in Nat :
         a = s[i].offset /\ l = s[i].len /\ b = s[j].offset /\ m = s[j].len /\ l >= 1 /\ m >= 1
  BY SniffAssumption DEF Slices
<1>2. SUFFICES ASSUME b < a + l PROVE FALSE
  BY <1>1
<1>a. a <= b /\ l >= 1 /\ m >= 1
  BY <1>1
<1>3. b + 1 \in (a + 1)..(a + l) /\ b + 1 \in (b + 1)..(b + m)
  BY <1>2, <1>a
<1> QED
  BY <1>1, <1>3 DEF Covered

Follow(s, n) == \A i \in 2..n : s[i].offset = s[i - 1].offset + s[i - 1].len

\* Frames that follow one another and whose bytes are the ClientHello's, and frames that
\* cover it without gap or overlap, are the same.
LEMMA FollowsIsWhole ==
  ASSUME NEW n \in Nat, n >= 1, NEW s \in [1..n -> Slices],
         \A i, j \in 1..n : i < j => s[i].offset <= s[j].offset
  PROVE  Whole(s, n) <=>
           /\ Follow(s, n)
           /\ s[n].offset + s[n].len = HelloLen
           /\ 1..HelloLen \subseteq AllCovered(s, n)
<1> DEFINE bytes == AllCovered(s, n)
<1>0. \A i \in 1..n : /\ s[i].offset \in Nat /\ s[i].len \in Nat /\ s[i].len >= 1
                      /\ s[i].offset + s[i].len <= HelloLen
  BY SniffAssumption DEF Slices
<1>h. HelloLen \in Nat
  BY SniffAssumption
<1>1. ASSUME NEW x \in bytes PROVE \E i \in 1..n : x \in Int /\ s[i].offset < x /\ x <= s[i].offset + s[i].len
  <2>1. PICK i \in 1..n : x \in Covered(s[i])
    BY <1>1 DEF AllCovered
  <2> QED
    BY <1>0, <2>1 DEF Covered
<1>2. ASSUME Whole(s, n)
      PROVE  /\ Follow(s, n)
             /\ s[n].offset + s[n].len = HelloLen
             /\ 1..HelloLen \subseteq bytes
  <2>1. bytes = 1..HelloLen
    BY <1>2 DEF Whole
  <2> HIDE DEF bytes
  <2>2. ASSUME NEW i \in 1..n, NEW j \in 1..n, i < j PROVE s[i].offset + s[i].len <= s[j].offset
    <3>1. s[i].offset <= s[j].offset /\ Covered(s[i]) \cap Covered(s[j]) = {}
      BY <1>2, <2>2 DEF Whole
    <3> QED
      BY <3>1, Behind
  <2>3. ASSUME NEW i \in 2..n PROVE s[i].offset = s[i - 1].offset + s[i - 1].len
    <3>1. PICK h \in 1..n : h = i - 1 /\ h < i
      BY <2>3
    <3>2. i \in 1..n /\ s[h].offset + s[h].len <= s[i].offset
      BY <2>2, <3>1
    <3>3. PICK e \in Nat : e = s[h].offset + s[h].len
      BY <1>0
    <3>4. ASSUME e < s[i].offset PROVE FALSE
      <4>1. e + 1 \in 1..HelloLen
        <5>1. s[i].offset \in Nat /\ s[i].len \in Nat /\ s[i].offset + s[i].len <= HelloLen
          BY <1>0, <3>2
        <5> QED
          BY <1>h, <3>4, <5>1
      <4>2. PICK k \in 1..n : s[k].offset < e + 1 /\ e + 1 <= s[k].offset + s[k].len
        BY <1>1, <2>1, <4>1
      <4>3. CASE k < h
        BY <1>0, <2>2, <3>3, <4>2, <4>3
      <4>4. CASE k = h
        BY <1>0, <3>3, <4>2, <4>4
      <4>5. CASE k = i
        BY <1>0, <3>2, <3>3, <3>4, <4>2, <4>5
      <4>6. CASE k > i
        <5>1. s[i].offset <= s[k].offset
          BY <3>2, <4>6
        <5> QED
          BY <1>0, <3>2, <3>3, <3>4, <4>2, <5>1
      <4> QED
        BY <3>1, <4>3, <4>4, <4>5, <4>6
    <3> QED
      BY <1>0, <3>1, <3>2, <3>3, <3>4
  <2>4. s[n].offset + s[n].len = HelloLen
    <3>0. n \in 1..n /\ s[n].len >= 1 /\ s[n].offset + s[n].len <= HelloLen /\ s[n].offset \in Nat /\ s[n].len \in Nat
      BY <1>0
    <3>1. HelloLen \in 1..HelloLen
      BY <1>h, <3>0
    <3>2. PICK k \in 1..n : s[k].offset < HelloLen /\ HelloLen <= s[k].offset + s[k].len
      BY <1>1, <2>1, <3>1
    <3>3. CASE k = n
      BY <3>0, <3>2, <3>3, <1>h
    <3>4. CASE k < n
      BY <1>0, <1>h, <2>2, <3>0, <3>2, <3>4
    <3> QED
      BY <3>3, <3>4
  <2> QED
    BY <2>1, <2>3, <2>4 DEF Follow
<1>3. ASSUME Follow(s, n), 1..HelloLen \subseteq bytes
      PROVE  Whole(s, n)
  <2>1. ASSUME NEW x \in bytes PROVE x \in 1..HelloLen
    <3>1. PICK i \in 1..n : x \in Int /\ s[i].offset < x /\ x <= s[i].offset + s[i].len
      BY <1>1
    <3> QED
      BY <1>0, <1>h, <3>1
  <2>2. bytes = 1..HelloLen
    BY <1>3, <2>1
  <2>3. ASSUME NEW i \in 1..n, NEW j \in 1..n, i < j PROVE Covered(s[i]) \cap Covered(s[j]) = {}
    <3>1. PICK k \in 2..n : k = i + 1 /\ k - 1 = i
      BY <2>3
    <3>2. s[k].offset = s[i].offset + s[i].len
      BY <1>3, <3>1 DEF Follow
    <3>3. s[k].offset <= s[j].offset
      <4>1. k = j \/ k < j
        BY <2>3, <3>1
      <4>2. k \in 1..n
        BY <3>1
      <4> QED
        BY <1>0, <4>1, <4>2
    <3>4. s[i].offset + s[i].len <= s[j].offset
      BY <3>2, <3>3
    <3> QED
      BY <1>0, <3>4 DEF Covered
  <2>4. \A i, j \in 1..n : i # j => Covered(s[i]) \cap Covered(s[j]) = {}
    <3> SUFFICES ASSUME NEW i \in 1..n, NEW j \in 1..n, i # j PROVE Covered(s[i]) \cap Covered(s[j]) = {}
      OBVIOUS
    <3>1. i < j \/ j < i
      OBVIOUS
    <3> QED
      BY <2>3, <3>1
  <2> QED
    BY <2>2, <2>4 DEF Whole
<1> QED
  BY <1>2, <1>3

\* assembleCryptoFrames finds the ClientHello exactly when the frames cover it without gap or
\* overlap, in whatever order they came.
LEMMA AssemblesWhole ==
  ASSUME NEW n \in Nat, NEW fs \in [1..n -> Slices]
  PROVE  AssembleCryptoFrames(fs) = Bytes(HelloLen) <=> Whole(fs, n)
<1>h. HelloLen \in Nat
  BY SniffAssumption
<1>0. Len(fs) = n /\ DOMAIN fs = 1..n /\ fs \in Seq(Slices)
  OBVIOUS
<1>1. CASE n = 0
  <2>1. AssembleCryptoFrames(fs) = << >>
    BY <1>0, <1>1 DEF AssembleCryptoFrames
  <2>2. Whole(fs, n) <=> HelloLen = 0
    <3>1. AllCovered(fs, n) = {}
      BY <1>1 DEF AllCovered
    <3>2. 1..HelloLen = {} <=> HelloLen = 0
      BY <1>h
    <3> QED
      BY <1>1, <3>1, <3>2 DEF Whole
  <2>3. << >> = Bytes(HelloLen) <=> HelloLen = 0
    <3>1. Len(Bytes(HelloLen)) = HelloLen /\ Len(<<>>) = 0
      BY <1>h DEF Bytes
    <3>2. HelloLen = 0 => Bytes(HelloLen) = <<>>
      BY DEF Bytes
    <3> QED
      BY <3>1, <3>2
  <2> QED
    BY <2>1, <2>2, <2>3
<1>2. CASE n = 1
  <2>1. PICK o \in Nat, l \in Nat : o = fs[1].offset /\ l = fs[1].len /\ l >= 1
    BY <1>2, SniffAssumption DEF Slices
  <2>2. AssembleCryptoFrames(fs) = [i \in 1..l |-> o + i]
    BY <1>0, <1>2, <2>1 DEF AssembleCryptoFrames
  <2>3. [i \in 1..l |-> o + i] = Bytes(HelloLen) <=> o = 0 /\ l = HelloLen
    <3>1. ASSUME [i \in 1..l |-> o + i] = Bytes(HelloLen) PROVE o = 0 /\ l = HelloLen
      <4>1. Len([i \in 1..l |-> o + i]) = l /\ Len(Bytes(HelloLen)) = HelloLen
        BY <1>h DEF Bytes
      <4>2. l = HelloLen
        BY <3>1, <4>1
      <4>3. 1 \in 1..l /\ [i \in 1..l |-> o + i][1] = o + 1
        BY <2>1
      <4>4. Bytes(HelloLen)[1] = 1
        BY <4>2, <4>3 DEF Bytes
      <4> QED
        BY <3>1, <4>2, <4>3, <4>4
    <3>2. ASSUME o = 0, l = HelloLen PROVE [i \in 1..l |-> o + i] = Bytes(HelloLen)
      BY <3>2 DEF Bytes
    <3> QED
      BY <3>1, <3>2
  <2>4. Whole(fs, n) <=> (o + 1)..(o + l) = 1..HelloLen
    <3>1. AllCovered(fs, n) = Covered(fs[1])
      BY <1>2 DEF AllCovered
    <3>2. \A i, j \in 1..n : i = j
      BY <1>2
    <3> QED
      BY <2>1, <3>1, <3>2 DEF Whole, Covered
  <2>5. (o + 1)..(o + l) = 1..HelloLen <=> o = 0 /\ l = HelloLen
    <3>1. ASSUME (o + 1)..(o + l) = 1..HelloLen PROVE o = 0 /\ l = HelloLen
      <4>0. o + 1 \in (o + 1)..(o + l) /\ o + l \in (o + 1)..(o + l)
        BY <2>1
      <4>1. o + 1 \in 1..HelloLen /\ o + l \in 1..HelloLen
        BY <3>1, <4>0, Zenon
      <4>2. 1 \in (o + 1)..(o + l) /\ HelloLen \in (o + 1)..(o + l)
        BY <1>h, <3>1, <4>1
      <4> QED
        BY <1>h, <4>1, <4>2
    <3>2. o = 0 /\ l = HelloLen => (o + 1)..(o + l) = 1..HelloLen
      OBVIOUS
    <3> QED
      BY <3>1, <3>2
  <2> QED
    BY <2>2, <2>3, <2>4, <2>5
<1>3. CASE n >= 2
  <2>1. PICK s, p : s = SortFrames(fs) /\ SortOf(fs, s, p, n)
    BY FramesSort
  <2>2. PICK bytes : bytes = AllCovered(fs, n)
    OBVIOUS
  <2>3. /\ s \in [1..n -> Slices] /\ (Whole(fs, n) <=> Whole(s, n)) /\ bytes = AllCovered(s, n)
        /\ \A i, j \in 1..n : i < j => s[i].offset <= s[j].offset
    <3>1. /\ s \in [1..n -> Slices] /\ (Whole(fs, n) <=> Whole(s, n))
          /\ AllCovered(fs, n) = AllCovered(s, n)
      BY <2>1, SortKeeps
    <3>2. \A i, j \in 1..n : i < j => s[i].offset <= s[j].offset
      BY <2>1 DEF SortOf
    <3> QED
      BY <2>2, <3>1, <3>2, Zenon
  <2>4. PICK end \in Nat : end = s[n].offset + s[n].len
    <3>1. n \in 1..n
      BY <1>3
    <3> QED
      BY <2>3, <3>1 DEF Slices
  <2>5. Whole(s, n) <=> /\ Follow(s, n)
                        /\ end = HelloLen
                        /\ 1..HelloLen \subseteq bytes
    <3>1. n >= 1
      BY <1>3
    <3>2. Whole(s, n) <=> /\ Follow(s, n)
                          /\ s[n].offset + s[n].len = HelloLen
                          /\ 1..HelloLen \subseteq AllCovered(s, n)
      BY <2>3, <3>1, FollowsIsWhole
    <3> QED
      BY <2>3, <2>4, <3>2, Zenon
  <2>6. AssembleCryptoFrames(fs) =
          IF ~Follow(s, n) THEN << >>
          ELSE [i \in 1..end |-> IF i \in bytes THEN i ELSE 0]
    <3>1. Len(s) = n
      BY <2>3
    <3>2. n # 0 /\ n # 1
      BY <1>3
    <3> QED
      BY <1>0, <2>1, <2>2, <2>4, <3>1, <3>2, Zenon DEF AssembleCryptoFrames, AllCovered, Follow
  <2>7. HelloLen >= 1
    <3>1. 1 \in 1..n
      BY <1>3
    <3> QED
      BY <3>1, SniffAssumption DEF Slices
  <2>8. << >> # Bytes(HelloLen)
    <3>1. Len(Bytes(HelloLen)) = HelloLen /\ Len(<<>>) = 0
      BY <1>h DEF Bytes
    <3> QED
      BY <2>7, <3>1
  <2>9. [i \in 1..end |-> IF i \in bytes THEN i ELSE 0] = Bytes(HelloLen)
          <=> end = HelloLen /\ 1..HelloLen \subseteq bytes
    <3> DEFINE data == [i \in 1..end |-> IF i \in bytes THEN i ELSE 0]
    <3>1. Len(data) = end /\ Len(Bytes(HelloLen)) = HelloLen
      BY <1>h DEF Bytes
    <3>2. ASSUME data = Bytes(HelloLen), NEW i \in 1..HelloLen PROVE i \in bytes
      <4>1. end = HelloLen
        BY <3>1, <3>2
      <4>2. data[i] = IF i \in bytes THEN i ELSE 0
        BY <4>1
      <4>3. Bytes(HelloLen)[i] = i
        BY DEF Bytes
      <4> QED
        BY <1>h, <3>2, <4>2, <4>3
    <3>3. ASSUME end = HelloLen, 1..HelloLen \subseteq bytes PROVE data = Bytes(HelloLen)
      BY <3>3 DEF Bytes
    <3>4. data = Bytes(HelloLen) => end = HelloLen
      BY <3>1
    <3> HIDE DEF data
    <3>5. data = Bytes(HelloLen) <=> end = HelloLen /\ 1..HelloLen \subseteq bytes
      BY <3>2, <3>3, <3>4
    <3> QED
      BY <3>5 DEF data
  <2> QED
    BY <2>3, <2>5, <2>6, <2>8, <2>9
<1> QED
  BY <1>1, <1>2, <1>3

LEMMA HelloStep ==
  ASSUME SniffInv, HelloFoundInAnyOrder, [NextSniff]_sniffVars
  PROVE  HelloFoundInAnyOrder'
<1>1. CASE SniffUDP
  <2>1. PICK n \in 0..MaxFrames : frames' \in [1..n -> Slices]
    BY <1>1 DEF SniffUDP
  <2>2. n \in Nat /\ DOMAIN frames' = 1..n
    BY <2>1, SniffAssumption
  <2>3. PICK fs : fs = frames'
    OBVIOUS
  <2>4. AssembleCryptoFrames(fs) = Bytes(HelloLen) <=> Whole(fs, n)
    BY <2>1, <2>2, <2>3, AssemblesWhole
  <2>5. ASSUME sniffAt' = "udp" PROVE sniffHost' = "sniffed" <=> AssembleCryptoFrames(fs) = Bytes(HelloLen)
    BY <1>1, <2>3, <2>5 DEF SniffUDP, Addresses
  <2> QED
    BY <2>2, <2>3, <2>4, <2>5, Zenon DEF HelloFoundInAnyOrder, Whole, AllCovered
<1>2. CASE StartTCP \/ TeeRead
  BY <1>2 DEF StartTCP, TeeRead, HelloFoundInAnyOrder
<1>3. CASE ReadPre
  BY <1>3 DEF ReadPre, SniffReturn, HelloFoundInAnyOrder, SniffInv, Looks
<1>4. CASE EndHTTP
  BY <1>4 DEF EndHTTP, Rewrite, SniffReturn, HelloFoundInAnyOrder
<1>5. CASE ReadTLS
  BY <1>5 DEF ReadTLS, Rewrite, SniffReturn, HelloFoundInAnyOrder
<1>6. CASE UNCHANGED sniffVars
  BY <1>6 DEF sniffVars, HelloFoundInAnyOrder
<1> QED
  BY <1>1, <1>2, <1>3, <1>4, <1>5, <1>6 DEF NextSniff

\* Sniffing the first bytes of a proxied stream neither loses nor repeats nor reorders any of
\* them, leaves no read deadline and fails no request that passed Check (sniff.go, TCP), for
\* every stream length, record length and header limit; and the name in a QUIC ClientHello is
\* found exactly when the CRYPTO frames cover it without gap or overlap, in any order
\* (payload.go, assembleCryptoFrames), for every length and any number of frames.
THEOREM SniffingHarmsNothing == SpecSniff => []SniffingIsHarmless
<1>1. InitSniff => SniffInv /\ HelloFoundInAnyOrder
  BY DEF InitSniff, SniffInv, Looks, HelloFoundInAnyOrder
<1>2. SniffInv /\ HelloFoundInAnyOrder /\ [NextSniff]_sniffVars => (SniffInv /\ HelloFoundInAnyOrder)'
  BY SniffStep, HelloStep
<1>3. SniffInv => StreamIntact
  <2> SUFFICES ASSUME SniffInv, sniffAt = "done"
               PROVE  putback \o [i \in 1..(stream.bytes - taken) |-> taken + i] = Bytes(stream.bytes)
    BY DEF SniffInv, StreamIntact
  <2> DEFINE n == stream.bytes - taken
  <2>1. taken \in Nat /\ n \in Nat /\ taken + n = stream.bytes /\ putback = Bytes(taken)
    BY DEF SniffInv
  <2>2. [i \in 1..n |-> taken + i] = From(taken, n)
    BY DEF From
  <2> QED
    BY <2>1, <2>2, BytesJoin
<1> QED
  BY <1>1, <1>2, <1>3, PTL DEF SpecSniff, SniffingIsHarmless

-----------------------------------------------------------------------------
(* TrafficStats *)

LinkStates == {"new", "online", "closed", "offline"}

StatsTypeOK ==
    /\ StatsMap \in [Users -> Nat] /\ reported \in [Users -> Nat] /\ moved \in [Users -> Nat]
    /\ OnlineMap \in [Users -> Nat]
    /\ link \in [StatConns -> LinkStates]
    /\ outgoing \in [StatConns -> Seq(Nat)] /\ unbilled \in [StatConns -> Nat]
    /\ refused \in [Users -> [bytes : Nat, datagrams : Nat]]
    /\ kicks \in Nat

\* A kick that is pending has refused nothing yet.
Pends(u) == IF u \in KickMap THEN 1 ELSE 0
KickInv == \A u \in Users : refused[u].datagrams + Pends(u) <= kicks

WireInv == \A u \in Users : /\ IsFiniteSet(UnbilledBytes(u))
                            /\ moved[u] = StatsMap[u] + reported[u] + refused[u].bytes + Cardinality(UnbilledBytes(u))

OnlineInv == \A u \in Users : OnlineMap[u] = Cardinality(OnlineConns(u))

\* The handler of a connection ends only when its datagrams are charged.
LinkInv == \A c \in StatConns : unbilled[c] # 0 => link[c] \in {"online", "closed"}

StatsInv == StatsTypeOK /\ KickInv /\ WireInv /\ OnlineInv /\ LinkInv

\* The number of bytes of one datagram.
LEMMA DatagramBytes ==
  ASSUME NEW c, NEW n \in Nat
  PROVE  IsFiniteSet({c} \X (1..n)) /\ Cardinality({c} \X (1..n)) = n
<1> DEFINE f == [i \in 1..n |-> <<c, i>>]
<1>1. f \in Bijection(1..n, {c} \X (1..n))
  <2>1. f \in [1..n -> {c} \X (1..n)]
    OBVIOUS
  <2>2. \A a, b \in 1..n : f[a] = f[b] => a = b
    OBVIOUS
  <2>3. \A t \in {c} \X (1..n) : \E s \in 1..n : f[s] = t
    OBVIOUS
  <2> QED
    BY <2>1, <2>2, <2>3, Fun_IsBij
<1>2. ExistsBijection(1..n, {c} \X (1..n))
  BY <1>1 DEF ExistsBijection
<1>3. IsFiniteSet(1..n) /\ Cardinality(1..n) = n
  <2>1. n \in Int /\ 1 \in Int /\ (1 > n => n = 0)
    OBVIOUS
  <2>2. IsFiniteSet(1..n) /\ Cardinality(1..n) = IF 1 > n THEN 0 ELSE n - 1 + 1
    BY <2>1, FS_Interval
  <2> QED
    BY <2>1, <2>2
<1> QED
  BY <1>2, <1>3, FS_Bijection

\* The fragments of a message are natural numbers of bytes.
LEMMA FragsAreBytes ==
  ASSUME NEW n \in Nat, n > DatagramLimit
  PROVE  FragSizes(n) \in Seq(Nat)
<1> DEFINE count == (n + DatagramLimit - 1) \div DatagramLimit
           last == n - (count - 1) * DatagramLimit
<1>0. DatagramLimit \in Nat \ {0}
  BY StatsAssumption
<1>1. count \in Nat /\ DatagramLimit * count <= n + DatagramLimit - 1
  BY <1>0
<1>2. last \in Nat
  BY <1>0, <1>1
<1>3. FragSizes(n) = [i \in 1..count |-> IF i < count THEN DatagramLimit ELSE last]
  BY DEF FragSizes
<1> HIDE DEF count, last
<1> QED
  BY <1>0, <1>1, <1>2, <1>3

\* A datagram goes out: its bytes join those of its user.
LEMMA WireGains ==
  ASSUME StatsTypeOK, NEW c \in StatConns, NEW n \in Nat, unbilled[c] = 0,
         unbilled' = [unbilled EXCEPT ![c] = n], NEW u \in Users, IsFiniteSet(UnbilledBytes(u))
  PROVE  /\ IsFiniteSet(UnbilledBytes(u)')
         /\ Cardinality(UnbilledBytes(u)') = Cardinality(UnbilledBytes(u)) + (IF u = UserOf[c] THEN n ELSE 0)
<1> DEFINE D == {c} \X (1..n)
<1>1. \A d \in StatConns : unbilled'[d] = IF d = c THEN n ELSE unbilled[d]
  BY DEF StatsTypeOK
<1>2. CASE u # UserOf[c]
  <2>1. UnbilledBytes(u)' = UnbilledBytes(u)
    BY <1>1, <1>2 DEF UnbilledBytes
  <2>2. Cardinality(UnbilledBytes(u)) \in Nat
    BY FS_CardinalityType
  <2> QED
    BY <1>2, <2>1, <2>2
<1>3. CASE u = UserOf[c]
  <2>0. {c} \X (1..unbilled[c]) = {}
    OBVIOUS
  <2>1. UnbilledBytes(u)' = UnbilledBytes(u) \cup D
    BY <1>1, <1>3, <2>0 DEF UnbilledBytes
  <2>2. UnbilledBytes(u) \cap D = {}
    BY <2>0 DEF UnbilledBytes
  <2>3. IsFiniteSet(D) /\ Cardinality(D) = n
    BY DatagramBytes
  <2> HIDE DEF D
  <2>4. Cardinality(UnbilledBytes(u)) \in Nat
    BY FS_CardinalityType
  <2>5. IsFiniteSet(UnbilledBytes(u) \cup D)
        /\ Cardinality(UnbilledBytes(u) \cup D) = Cardinality(UnbilledBytes(u)) + Cardinality(D) - Cardinality(UnbilledBytes(u) \cap D)
    BY <2>3, FS_Union
  <2>6. Cardinality(UnbilledBytes(u) \cap D) = 0
    BY <2>2, FS_EmptySet
  <2> QED
    BY <1>3, <2>1, <2>3, <2>4, <2>5, <2>6
<1> QED
  BY <1>2, <1>3

\* A datagram is charged or refused: its bytes leave.
LEMMA WireLoses ==
  ASSUME StatsTypeOK, NEW c \in StatConns,
         unbilled' = [unbilled EXCEPT ![c] = 0], NEW u \in Users, IsFiniteSet(UnbilledBytes(u))
  PROVE  /\ IsFiniteSet(UnbilledBytes(u)')
         /\ Cardinality(UnbilledBytes(u)') = Cardinality(UnbilledBytes(u)) - (IF u = UserOf[c] THEN unbilled[c] ELSE 0)
<1> DEFINE n == unbilled[c]
           D == {c} \X (1..n)
<1>0. n \in Nat
  BY DEF StatsTypeOK
<1>1. \A d \in StatConns : unbilled'[d] = IF d = c THEN 0 ELSE unbilled[d]
  BY DEF StatsTypeOK
<1>2. CASE u # UserOf[c]
  <2>1. UnbilledBytes(u)' = UnbilledBytes(u)
    BY <1>1, <1>2 DEF UnbilledBytes
  <2>2. Cardinality(UnbilledBytes(u)) \in Nat
    BY FS_CardinalityType
  <2> QED
    BY <1>2, <2>1, <2>2
<1>3. CASE u = UserOf[c]
  <2>0. {c} \X (1..0) = {}
    OBVIOUS
  <2>1. UnbilledBytes(u)' = UnbilledBytes(u) \ D
    BY <1>1, <1>3, <2>0 DEF UnbilledBytes
  <2>2. UnbilledBytes(u) \cap D = D
    BY <1>3 DEF UnbilledBytes
  <2>3. IsFiniteSet(D) /\ Cardinality(D) = n
    BY <1>0, DatagramBytes
  <2> HIDE DEF D
  <2>4. IsFiniteSet(UnbilledBytes(u) \ D)
        /\ Cardinality(UnbilledBytes(u) \ D) = Cardinality(UnbilledBytes(u)) - Cardinality(UnbilledBytes(u) \cap D)
    BY FS_Difference
  <2> QED
    BY <1>3, <2>1, <2>2, <2>3, <2>4
<1> QED
  BY <1>2, <1>3

\* A step that moves, charges and refuses nothing.
LEMMA StatsQuiet ==
  ASSUME StatsInv, UNCHANGED <<StatsMap, reported, OnlineMap, link, unbilled, moved, refused>>,
         outgoing' \in [StatConns -> Seq(Nat)],
         kicks' \in Nat, \A u \in Users : Pends(u)' <= Pends(u) + (kicks' - kicks)
  PROVE  StatsInv'
<1>1. StatsTypeOK'
  BY DEF StatsInv, StatsTypeOK
<1>2. KickInv'
  <2>1. \A u \in Users : Pends(u) \in {0, 1} /\ Pends(u)' \in {0, 1}
    BY DEF Pends
  <2>2. \A u \in Users : refused[u].datagrams \in Nat /\ kicks \in Nat /\ refused[u].datagrams + Pends(u) <= kicks
    BY DEF StatsInv, StatsTypeOK, KickInv
  <2> QED
    BY <2>1, <2>2 DEF KickInv
<1>3. WireInv'
  <2>1. \A u \in Users : UnbilledBytes(u)' = UnbilledBytes(u)
    BY DEF UnbilledBytes
  <2> QED
    BY <2>1 DEF StatsInv, WireInv
<1>4. OnlineInv'
  BY DEF StatsInv, OnlineInv, OnlineConns
<1>5. LinkInv'
  BY DEF StatsInv, LinkInv
<1> QED
  BY <1>1, <1>2, <1>3, <1>4, <1>5 DEF StatsInv

LEMMA ConnectKeeps ==
  ASSUME StatsInv, NEW c \in StatConns, Connect(c) \/ Disconnect(c)
  PROVE  StatsInv'
<1> DEFINE u == UserOf[c]
<1>0. StatsTypeOK /\ KickInv /\ WireInv /\ OnlineInv /\ LinkInv /\ u \in Users /\ IsFiniteSet(StatConns)
  BY StatsAssumption DEF StatsInv
<1>1. UNCHANGED <<StatsMap, reported, KickMap, unbilled, moved, refused, kicks>>
  BY DEF Connect, Disconnect
<1>2. KickInv' /\ WireInv'
  BY <1>0, <1>1 DEF KickInv, WireInv, UnbilledBytes, Pends
<1>2a. LinkInv'
  BY <1>0, <1>1 DEF LinkInv, Connect, Disconnect, StatsTypeOK
<1>3. \A v \in Users : OnlineMap[v] \in Nat /\ OnlineMap[v] = Cardinality(OnlineConns(v)) /\ IsFiniteSet(OnlineConns(v))
  BY <1>0, FS_Subset DEF OnlineInv, OnlineConns, StatsTypeOK
<1>4. CASE Connect(c)
  <2>1. /\ link[c] = "new" /\ link' = [link EXCEPT ![c] = "online"] /\ outgoing' = outgoing
        /\ OnlineMap' = [OnlineMap EXCEPT ![u] = @ + 1]
    BY <1>4 DEF Connect
  <2>2. StatsTypeOK'
    <3>1. link' \in [StatConns -> LinkStates] /\ OnlineMap' \in [Users -> Nat]
      BY <1>0, <2>1 DEF StatsTypeOK, LinkStates
    <3> QED
      BY <1>0, <1>1, <2>1, <3>1 DEF StatsTypeOK
  <2>3. OnlineConns(u)' = OnlineConns(u) \cup {c} /\ c \notin OnlineConns(u)
    BY <1>0, <2>1 DEF OnlineConns, StatsTypeOK
  <2>4. \A v \in Users : v # u => OnlineConns(v)' = OnlineConns(v)
    BY <1>0, <2>1 DEF OnlineConns, StatsTypeOK
  <2>5. Cardinality(OnlineConns(u)') = Cardinality(OnlineConns(u)) + 1
    BY <1>0, <1>3, <2>3, FS_AddElement
  <2>6. \A v \in Users : OnlineMap'[v] = IF v = u THEN OnlineMap[v] + 1 ELSE OnlineMap[v]
    BY <1>0, <2>1 DEF StatsTypeOK
  <2>7. OnlineInv'
    BY <1>0, <1>3, <2>4, <2>5, <2>6 DEF OnlineInv
  <2> QED
    BY <1>2, <1>2a, <2>2, <2>7 DEF StatsInv
<1>5. CASE Disconnect(c)
  <2>1. /\ link[c] \in {"online", "closed"} /\ link' = [link EXCEPT ![c] = "offline"]
        /\ outgoing' = [outgoing EXCEPT ![c] = <<>>]
        /\ OnlineMap' = [OnlineMap EXCEPT ![u] = IF @ - 1 <= 0 THEN 0 ELSE @ - 1]
    BY <1>5 DEF Disconnect
  <2>2. StatsTypeOK'
    <3>1. link' \in [StatConns -> LinkStates] /\ outgoing' \in [StatConns -> Seq(Nat)]
      BY <1>0, <2>1 DEF StatsTypeOK, LinkStates
    <3>2. OnlineMap' \in [Users -> Nat]
      BY <1>0, <2>1 DEF StatsTypeOK
    <3> QED
      BY <1>0, <1>1, <3>1, <3>2 DEF StatsTypeOK
  <2>3. OnlineConns(u)' = OnlineConns(u) \ {c} /\ c \in OnlineConns(u)
    BY <1>0, <2>1 DEF OnlineConns, StatsTypeOK
  <2>4. \A v \in Users : v # u => OnlineConns(v)' = OnlineConns(v)
    BY <1>0, <2>1 DEF OnlineConns, StatsTypeOK
  <2>5. Cardinality(OnlineConns(u)') = Cardinality(OnlineConns(u)) - 1
    BY <1>0, <1>3, <2>3, FS_RemoveElement
  <2>6. \A v \in Users : OnlineMap'[v] = IF v = u THEN (IF OnlineMap[v] - 1 <= 0 THEN 0 ELSE OnlineMap[v] - 1) ELSE OnlineMap[v]
    BY <1>0, <2>1 DEF StatsTypeOK
  <2>7. Cardinality(OnlineConns(u)) # 0
    BY <1>0, <1>3, <2>3, FS_EmptySet
  <2>8. OnlineInv'
    BY <1>0, <1>3, <2>4, <2>5, <2>6, <2>7 DEF OnlineInv
  <2> QED
    BY <1>2, <1>2a, <2>2, <2>8 DEF StatsInv
<1> QED
  BY <1>4, <1>5

\* A connection that is closed under its handler is still counted as online until the handler ends.
LEMMA ClosingKeepsOnline ==
  ASSUME StatsTypeOK, OnlineInv, NEW c \in StatConns, link[c] \in {"online", "closed"},
         link' = [link EXCEPT ![c] = "closed"], UNCHANGED OnlineMap
  PROVE  OnlineInv'
<1>1. \A u \in Users : OnlineConns(u)' = OnlineConns(u)
  BY DEF StatsTypeOK, OnlineConns
<1> QED
  BY <1>1 DEF OnlineInv

LEMMA ReceiveKeeps ==
  ASSUME StatsInv, NEW c \in StatConns, NEW n \in Nat, CountedReceive(c, n)
  PROVE  StatsInv'
<1> DEFINE u == UserOf[c]
<1>0. StatsTypeOK /\ KickInv /\ WireInv /\ OnlineInv /\ LinkInv /\ u \in Users
  BY StatsAssumption DEF StatsInv
<1>1. UNCHANGED <<reported, OnlineMap, StreamMap, outgoing, unbilled, refused, kicks>> /\ link[c] = "online"
  BY DEF CountedReceive
<1>2. CASE u \in KickMap
  <2>1. KickMap' = KickMap \ {u} /\ UNCHANGED <<StatsMap, moved>> /\ link' = [link EXCEPT ![c] = "closed"]
    BY <1>2 DEF CountedReceive, LogTraffic
  <2>2. StatsTypeOK'
    BY <1>0, <1>1, <2>1 DEF StatsTypeOK, LinkStates
  <2>3. KickInv'
    <3>1. \A v \in Users : Pends(v) \in {0, 1} /\ Pends(v)' \in {0, 1} /\ Pends(v)' <= Pends(v)
      BY <2>1 DEF Pends
    <3>2. \A v \in Users : refused[v].datagrams \in Nat /\ kicks \in Nat /\ refused[v].datagrams + Pends(v) <= kicks
      BY <1>0 DEF StatsTypeOK, KickInv
    <3> QED
      BY <1>1, <3>1, <3>2 DEF KickInv
  <2>4. WireInv'
    BY <1>0, <1>1, <2>1 DEF WireInv, UnbilledBytes
  <2>5. OnlineInv'
    BY <1>0, <1>1, <2>1, ClosingKeepsOnline
  <2>6. LinkInv'
    BY <1>0, <1>1, <2>1 DEF LinkInv, StatsTypeOK
  <2> QED
    BY <2>2, <2>3, <2>4, <2>5, <2>6 DEF StatsInv
<1>3. CASE u \notin KickMap
  <2>1. /\ KickMap' = KickMap /\ StatsMap' = [StatsMap EXCEPT ![u] = @ + n]
        /\ moved' = [moved EXCEPT ![u] = @ + n] /\ UNCHANGED link
    BY <1>3 DEF CountedReceive, LogTraffic
  <2>2. StatsTypeOK'
    <3>1. StatsMap' \in [Users -> Nat] /\ moved' \in [Users -> Nat]
      BY <1>0, <2>1, SMTT(30) DEF StatsTypeOK
    <3> QED
      BY <1>0, <1>1, <2>1, <3>1 DEF StatsTypeOK
  <2>3. KickInv' /\ OnlineInv' /\ LinkInv'
    BY <1>0, <1>1, <2>1 DEF KickInv, OnlineInv, OnlineConns, LinkInv, Pends
  <2>4. \A v \in Users : IF v = u THEN StatsMap'[v] = StatsMap[v] + n /\ moved'[v] = moved[v] + n
                                  ELSE StatsMap'[v] = StatsMap[v] /\ moved'[v] = moved[v]
    BY <1>0, <2>1 DEF StatsTypeOK
  <2>5. WireInv'
    <3> SUFFICES ASSUME NEW v \in Users
                 PROVE  /\ IsFiniteSet(UnbilledBytes(v)')
                        /\ moved'[v] = StatsMap'[v] + reported'[v] + refused'[v].bytes + Cardinality(UnbilledBytes(v)')
      BY DEF WireInv
    <3>1. UnbilledBytes(v)' = UnbilledBytes(v)
      BY <1>1 DEF UnbilledBytes
    <3>2. /\ StatsMap[v] \in Nat /\ moved[v] \in Nat /\ reported[v] \in Nat /\ refused[v].bytes \in Nat
          /\ IsFiniteSet(UnbilledBytes(v)) /\ Cardinality(UnbilledBytes(v)) \in Nat
      BY <1>0, FS_CardinalityType DEF StatsTypeOK, WireInv
    <3>3. moved[v] = StatsMap[v] + reported[v] + refused[v].bytes + Cardinality(UnbilledBytes(v))
      BY <1>0 DEF WireInv
    <3> QED
      BY <1>1, <2>4, <3>1, <3>2, <3>3
  <2> QED
    BY <2>2, <2>3, <2>5 DEF StatsInv
<1> QED
  BY <1>2, <1>3

\* A datagram goes on the wire.
LEMMA SendKeeps ==
  ASSUME StatsInv, NEW c \in StatConns, SendDatagram(c)
  PROVE  StatsInv'
<1> DEFINE n == Head(outgoing[c])
           u == UserOf[c]
<1>0. StatsTypeOK /\ KickInv /\ WireInv /\ OnlineInv /\ LinkInv /\ u \in Users
  BY StatsAssumption DEF StatsInv
<1>1. outgoing[c] \in Seq(Nat) /\ outgoing[c] # <<>> /\ unbilled[c] = 0
  BY <1>0 DEF StatsTypeOK, SendDatagram, Pending
<1>2. n \in Nat /\ Tail(outgoing[c]) \in Seq(Nat)
  BY <1>1
<1>3. UNCHANGED <<StatsMap, reported, KickMap, OnlineMap, StreamMap, link, refused, kicks>>
  BY DEF SendDatagram
<1>3a. \A v \in Users : Pends(v)' <= Pends(v) + (kicks' - kicks)
  BY <1>0, <1>3 DEF Pends, StatsTypeOK
<1> HIDE DEF n
<1>4. CASE n > DatagramLimit /\ outgoing' = [outgoing EXCEPT ![c] = FragSizes(n)] /\ UNCHANGED <<unbilled, moved>>
  <2>1. FragSizes(n) \in Seq(Nat)
    BY <1>2, <1>4, FragsAreBytes
  <2>2. outgoing' \in [StatConns -> Seq(Nat)]
    BY <1>0, <1>4, <2>1 DEF StatsTypeOK
  <2> QED
    BY <1>0, <1>3, <1>3a, <1>4, <2>2, StatsQuiet DEF StatsTypeOK
<1>5. CASE outgoing' = [outgoing EXCEPT ![c] = <<>>] /\ UNCHANGED <<unbilled, moved>>
  <2>1. outgoing' \in [StatConns -> Seq(Nat)]
    BY <1>0, <1>5 DEF StatsTypeOK
  <2> QED
    BY <1>0, <1>3, <1>3a, <1>5, <2>1, StatsQuiet DEF StatsTypeOK
<1>6. CASE /\ outgoing' = [outgoing EXCEPT ![c] = Tail(@)] /\ unbilled' = [unbilled EXCEPT ![c] = n]
           /\ moved' = [moved EXCEPT ![u] = @ + n] /\ link[c] = "online"
  <2>1. StatsTypeOK'
    <3>1. outgoing' \in [StatConns -> Seq(Nat)]
      BY <1>0, <1>2, <1>6 DEF StatsTypeOK
    <3>2. unbilled' \in [StatConns -> Nat] /\ moved' \in [Users -> Nat]
      BY <1>0, <1>2, <1>6, SMTT(30) DEF StatsTypeOK
    <3> QED
      BY <1>0, <1>3, <3>1, <3>2 DEF StatsTypeOK
  <2>2. KickInv' /\ OnlineInv'
    BY <1>0, <1>3 DEF KickInv, OnlineInv, OnlineConns, Pends
  <2>2a. LinkInv'
    BY <1>0, <1>3, <1>6 DEF LinkInv, StatsTypeOK
  <2>3. WireInv'
    <3> SUFFICES ASSUME NEW v \in Users
                 PROVE  /\ IsFiniteSet(UnbilledBytes(v)')
                        /\ moved'[v] = StatsMap'[v] + reported'[v] + refused'[v].bytes + Cardinality(UnbilledBytes(v)')
      BY DEF WireInv
    <3>1. /\ StatsMap[v] \in Nat /\ moved[v] \in Nat /\ reported[v] \in Nat /\ refused[v].bytes \in Nat
          /\ IsFiniteSet(UnbilledBytes(v)) /\ Cardinality(UnbilledBytes(v)) \in Nat
      BY <1>0, FS_CardinalityType DEF StatsTypeOK, WireInv
    <3>2. moved[v] = StatsMap[v] + reported[v] + refused[v].bytes + Cardinality(UnbilledBytes(v))
      BY <1>0 DEF WireInv
    <3>3. moved'[v] = IF v = u THEN moved[v] + n ELSE moved[v]
      BY <1>0, <1>6 DEF StatsTypeOK
    <3>4. /\ IsFiniteSet(UnbilledBytes(v)')
          /\ Cardinality(UnbilledBytes(v)') = Cardinality(UnbilledBytes(v)) + (IF v = u THEN n ELSE 0)
      BY <1>0, <1>1, <1>2, <1>6, <3>1, WireGains
    <3> QED
      BY <1>2, <1>3, <3>1, <3>2, <3>3, <3>4, SMTT(30)
  <2> QED
    BY <2>1, <2>2, <2>2a, <2>3 DEF StatsInv
<1> QED
  BY <1>4, <1>5, <1>6 DEF SendDatagram, n

\* The charge of a datagram that was sent, or its refusal.
LEMMA ChargeKeeps ==
  ASSUME StatsInv, NEW c \in StatConns, ChargeSent(c)
  PROVE  StatsInv'
<1> DEFINE n == unbilled[c]
           u == UserOf[c]
<1>0. StatsTypeOK /\ KickInv /\ WireInv /\ OnlineInv /\ LinkInv /\ u \in Users /\ n \in Nat
  BY StatsAssumption DEF StatsInv, StatsTypeOK
<1>1. UNCHANGED <<reported, OnlineMap, StreamMap, moved, kicks>> /\ unbilled' = [unbilled EXCEPT ![c] = 0]
  BY DEF ChargeSent
<1>2. unbilled' \in [StatConns -> Nat] /\ link[c] \in {"online", "closed"}
  BY <1>0, <1>1, SMTT(30) DEF StatsTypeOK, LinkInv, ChargeSent
<1>3. \A v \in Users :
        /\ StatsMap[v] \in Nat /\ moved[v] \in Nat /\ reported[v] \in Nat /\ refused[v].bytes \in Nat /\ refused[v].datagrams \in Nat
        /\ moved[v] = StatsMap[v] + reported[v] + refused[v].bytes + Cardinality(UnbilledBytes(v))
        /\ Cardinality(UnbilledBytes(v)) \in Nat /\ IsFiniteSet(UnbilledBytes(v)')
        /\ Cardinality(UnbilledBytes(v)') = Cardinality(UnbilledBytes(v)) - (IF v = u THEN n ELSE 0)
  <2> SUFFICES ASSUME NEW v \in Users
      PROVE /\ StatsMap[v] \in Nat /\ moved[v] \in Nat /\ reported[v] \in Nat /\ refused[v].bytes \in Nat /\ refused[v].datagrams \in Nat
            /\ moved[v] = StatsMap[v] + reported[v] + refused[v].bytes + Cardinality(UnbilledBytes(v))
            /\ Cardinality(UnbilledBytes(v)) \in Nat /\ IsFiniteSet(UnbilledBytes(v)')
            /\ Cardinality(UnbilledBytes(v)') = Cardinality(UnbilledBytes(v)) - (IF v = u THEN n ELSE 0)
    OBVIOUS
  <2>1. StatsMap[v] \in Nat /\ moved[v] \in Nat /\ reported[v] \in Nat /\ refused[v].bytes \in Nat /\ refused[v].datagrams \in Nat
    BY <1>0 DEF StatsTypeOK
  <2>2. IsFiniteSet(UnbilledBytes(v)) /\ moved[v] = StatsMap[v] + reported[v] + refused[v].bytes + Cardinality(UnbilledBytes(v))
    BY <1>0 DEF WireInv
  <2>3. Cardinality(UnbilledBytes(v)) \in Nat
    BY <2>2, FS_CardinalityType
  <2>4. IsFiniteSet(UnbilledBytes(v)') /\ Cardinality(UnbilledBytes(v)') = Cardinality(UnbilledBytes(v)) - (IF v = u THEN n ELSE 0)
    BY <1>0, <1>1, <2>2, WireLoses
  <2> QED
    BY <2>1, <2>2, <2>3, <2>4
<1>4. CASE u \in KickMap
  <2>1. /\ KickMap' = KickMap \ {u} /\ UNCHANGED StatsMap
        /\ link' = [link EXCEPT ![c] = "closed"] /\ outgoing' = [outgoing EXCEPT ![c] = <<>>]
        /\ refused' = [refused EXCEPT ![u].bytes = @ + n, ![u].datagrams = @ + 1]
    BY <1>4 DEF ChargeSent, LogTraffic
  <2>2. refused' \in [Users -> [bytes : Nat, datagrams : Nat]]
    BY <1>0, <2>1 DEF StatsTypeOK
  <2>3. \A v \in Users : IF v = u THEN refused'[v].bytes = refused[v].bytes + n /\ refused'[v].datagrams = refused[v].datagrams + 1
                                  ELSE refused'[v] = refused[v]
    BY <1>0, <2>1 DEF StatsTypeOK
  <2>4. StatsTypeOK'
    <3>1. link' \in [StatConns -> LinkStates]
      BY <1>0, <2>1 DEF StatsTypeOK, LinkStates
    <3>2. outgoing' \in [StatConns -> Seq(Nat)]
      BY <1>0, <2>1 DEF StatsTypeOK
    <3> QED
      BY <1>0, <1>1, <1>2, <2>1, <2>2, <3>1, <3>2 DEF StatsTypeOK
  <2>5. KickInv'
    <3>1. \A v \in Users : IF v = u THEN Pends(v) = 1 /\ Pends(v)' = 0 ELSE Pends(v)' = Pends(v)
      BY <1>4, <2>1 DEF Pends
    <3>2. \A v \in Users : Pends(v) \in {0, 1}
      BY DEF Pends
    <3>3. \A v \in Users : kicks \in Nat /\ refused[v].datagrams + Pends(v) <= kicks
      BY <1>0 DEF KickInv, StatsTypeOK
    <3>4. \A v \in Users : refused'[v].datagrams + Pends(v)' <= kicks
      BY <1>3, <2>3, <3>1, <3>2, <3>3
    <3> QED
      BY <1>1, <3>4 DEF KickInv
  <2>6. WireInv'
    <3> SUFFICES ASSUME NEW v \in Users
                 PROVE  /\ IsFiniteSet(UnbilledBytes(v)')
                        /\ moved'[v] = StatsMap'[v] + reported'[v] + refused'[v].bytes + Cardinality(UnbilledBytes(v)')
      BY DEF WireInv
    <3>1. refused'[v].bytes = refused[v].bytes + (IF v = u THEN n ELSE 0)
      BY <1>3, <2>3
    <3> QED
      BY <1>0, <1>1, <1>3, <2>1, <3>1, SMTT(30)
  <2>7. OnlineInv'
    BY <1>0, <1>1, <1>2, <2>1, ClosingKeepsOnline
  <2>8. LinkInv'
    BY <1>0, <1>1, <2>1 DEF LinkInv, StatsTypeOK
  <2> QED
    BY <2>4, <2>5, <2>6, <2>7, <2>8 DEF StatsInv
<1>5. CASE u \notin KickMap
  <2>1. StatsMap' = [StatsMap EXCEPT ![u] = @ + n] /\ UNCHANGED <<KickMap, link, outgoing, refused>>
    BY <1>5 DEF ChargeSent, LogTraffic
  <2>2. StatsTypeOK'
    <3>1. StatsMap' \in [Users -> Nat]
      BY <1>0, <2>1 DEF StatsTypeOK
    <3> QED
      BY <1>0, <1>1, <1>2, <2>1, <3>1 DEF StatsTypeOK
  <2>3. KickInv' /\ OnlineInv' /\ LinkInv'
    <3>1. KickInv'
      BY <1>0, <1>1, <2>1 DEF KickInv, Pends
    <3>2. OnlineInv'
      BY <1>0, <1>1, <2>1 DEF OnlineInv, OnlineConns
    <3>3. LinkInv'
      BY <1>0, <1>1, <2>1 DEF LinkInv, StatsTypeOK
    <3> QED
      BY <3>1, <3>2, <3>3
  <2>4. \A v \in Users : StatsMap'[v] = IF v = u THEN StatsMap[v] + n ELSE StatsMap[v]
    BY <1>0, <2>1 DEF StatsTypeOK
  <2>5. WireInv'
    BY <1>0, <1>1, <1>3, <2>1, <2>4 DEF WireInv
  <2> QED
    BY <2>2, <2>3, <2>5 DEF StatsInv
<1> QED
  BY <1>4, <1>5

LEMMA StatsStep ==
  ASSUME StatsInv, [NextStats]_statVars
  PROVE  StatsInv'
<1>0. StatsTypeOK
  BY DEF StatsInv
<1>1. ASSUME NEW c \in StatConns, Connect(c) \/ Disconnect(c) PROVE StatsInv'
  BY <1>1, ConnectKeeps
<1>2. ASSUME NEW c \in StatConns, TraceStream(c) PROVE StatsInv'
  <2>1. \A u \in Users : Pends(u)' <= Pends(u) + (kicks' - kicks)
    BY <1>0, <1>2 DEF TraceStream, Pends, StatsTypeOK
  <2> QED
    BY <1>0, <1>2, <2>1, StatsQuiet DEF TraceStream, StatsTypeOK
<1>3. ASSUME NEW c \in StatConns, SendDatagram(c) PROVE StatsInv'
  BY <1>3, SendKeeps
<1>4. ASSUME NEW c \in StatConns, ChargeSent(c) PROVE StatsInv'
  BY <1>4, ChargeKeeps
<1>5. ASSUME NEW c \in StatConns, NEW n \in Sizes, CountedReceive(c, n) PROVE StatsInv'
  BY <1>5, ReceiveKeeps, StatsAssumption
<1>6. ASSUME NEW c \in StatConns, NEW n \in Sizes, AnswerPacket(c, n) PROVE StatsInv'
  <2>1. \A u \in Users : Pends(u)' <= Pends(u) + (kicks' - kicks)
    BY <1>0, <1>6 DEF AnswerPacket, Pends, StatsTypeOK
  <2>2. <<n>> \in Seq(Nat)
    BY StatsAssumption
  <2>3. outgoing' \in [StatConns -> Seq(Nat)]
    BY <1>0, <1>6, <2>2 DEF AnswerPacket, StatsTypeOK
  <2> QED
    BY <1>0, <1>6, <2>1, <2>3, StatsQuiet DEF AnswerPacket, StatsTypeOK
<1>7. CASE GetTrafficClear
  <2>0. KickInv /\ WireInv /\ OnlineInv /\ LinkInv
    BY DEF StatsInv
  <2>1. /\ reported' = [u \in Users |-> reported[u] + StatsMap[u]] /\ StatsMap' = ZeroPerUser
        /\ UNCHANGED <<KickMap, OnlineMap, link, outgoing, unbilled, moved, refused, kicks>>
    BY <1>7 DEF GetTrafficClear
  <2>2. StatsTypeOK'
    BY <1>0, <2>1 DEF StatsTypeOK, ZeroPerUser
  <2>3. KickInv' /\ OnlineInv' /\ LinkInv'
    BY <2>0, <2>1 DEF KickInv, OnlineInv, OnlineConns, LinkInv, Pends
  <2>4. WireInv'
    <3> SUFFICES ASSUME NEW v \in Users
                 PROVE  /\ IsFiniteSet(UnbilledBytes(v)')
                        /\ moved'[v] = StatsMap'[v] + reported'[v] + refused'[v].bytes + Cardinality(UnbilledBytes(v)')
      BY DEF WireInv
    <3>1. UnbilledBytes(v)' = UnbilledBytes(v)
      BY <2>1 DEF UnbilledBytes
    <3>2. /\ IsFiniteSet(UnbilledBytes(v)) /\ Cardinality(UnbilledBytes(v)) \in Nat
          /\ moved[v] = StatsMap[v] + reported[v] + refused[v].bytes + Cardinality(UnbilledBytes(v))
      BY <2>0, FS_CardinalityType DEF WireInv
    <3>3. StatsMap[v] \in Nat /\ reported[v] \in Nat /\ refused[v].bytes \in Nat
      BY <1>0 DEF StatsTypeOK
    <3>4. StatsMap'[v] = 0 /\ reported'[v] = reported[v] + StatsMap[v]
      BY <2>1 DEF ZeroPerUser
    <3> QED
      BY <2>1, <3>1, <3>2, <3>3, <3>4
  <2> QED
    BY <2>2, <2>3, <2>4 DEF StatsInv
<1>8. ASSUME NEW ids \in SUBSET Users, Kick(ids) PROVE StatsInv'
  <2>1. kicks' = kicks + 1 /\ kicks \in Nat
    BY <1>0, <1>8 DEF Kick, StatsTypeOK
  <2>2. \A u \in Users : Pends(u) \in {0, 1} /\ Pends(u)' \in {0, 1}
    BY DEF Pends
  <2>3. \A u \in Users : Pends(u)' <= Pends(u) + (kicks' - kicks)
    BY <2>1, <2>2
  <2> QED
    BY <1>0, <1>8, <2>1, <2>3, StatsQuiet DEF Kick, StatsTypeOK
<1>9. CASE UNCHANGED statVars
  <2>1. \A u \in Users : Pends(u)' <= Pends(u) + (kicks' - kicks)
    BY <1>0, <1>9 DEF statVars, Pends, StatsTypeOK
  <2> QED
    BY <1>0, <1>9, <2>1, StatsQuiet DEF statVars, StatsTypeOK
<1> QED
  BY <1>1, <1>2, <1>3, <1>4, <1>5, <1>6, <1>7, <1>8, <1>9 DEF NextStats

\* Every byte a user moved is charged exactly once, whole or in fragments, and a kick costs at
\* most one datagram; the online count is the number of connections (http.go, LogTraffic,
\* LogOnlineState; server.go, SendMessage), for any number of users, connections and kicks.
THEOREM TrafficIsBilledOnce == SpecStats => []BilledOnce
<1>1. InitStats => StatsInv
  <2> SUFFICES ASSUME InitStats PROVE StatsInv
    OBVIOUS
  <2>1. StatsTypeOK
    BY DEF InitStats, StatsTypeOK, ZeroPerUser, LinkStates
  <2>2. KickInv
    BY DEF InitStats, KickInv, Pends
  <2>3. \A u \in Users : UnbilledBytes(u) = {}
    BY DEF InitStats, UnbilledBytes
  <2>4. WireInv
    <3>1. \A u \in Users : moved[u] = 0 /\ StatsMap[u] = 0 /\ reported[u] = 0 /\ refused[u].bytes = 0
      BY DEF InitStats, ZeroPerUser
    <3>2. \A u \in Users : IsFiniteSet(UnbilledBytes(u)) /\ Cardinality(UnbilledBytes(u)) = 0
      BY <2>3, FS_EmptySet
    <3> QED
      BY <3>1, <3>2 DEF WireInv
  <2>5. \A u \in Users : OnlineConns(u) = {}
    BY DEF InitStats, OnlineConns
  <2>6. OnlineInv
    BY <2>5, FS_EmptySet DEF InitStats, OnlineInv, ZeroPerUser
  <2>7. LinkInv
    BY DEF InitStats, LinkInv
  <2> QED
    BY <2>1, <2>2, <2>4, <2>6, <2>7 DEF StatsInv
<1>2. StatsInv /\ [NextStats]_statVars => StatsInv'
  BY StatsStep
<1>3. StatsInv => BilledOnce
  <2> SUFFICES ASSUME StatsInv, NEW u \in Users
               PROVE  /\ moved[u] = StatsMap[u] + reported[u] + refused[u].bytes + Cardinality(UnbilledBytes(u))
                      /\ refused[u].datagrams <= kicks
                      /\ OnlineMap[u] = Cardinality(OnlineConns(u))
    BY DEF BilledOnce
  <2>1. Pends(u) \in {0, 1} /\ refused[u].datagrams \in Nat /\ kicks \in Nat /\ refused[u].datagrams + Pends(u) <= kicks
    BY DEF StatsInv, StatsTypeOK, KickInv, Pends
  <2>2. refused[u].datagrams <= kicks
    BY <2>1
  <2> QED
    BY <2>2 DEF StatsInv, WireInv, OnlineInv
<1> QED
  BY <1>1, <1>2, <1>3, PTL DEF SpecStats

-----------------------------------------------------------------------------
(* ServerSetup: the redirect rules *)

FwObjects == {Command(t, b, n) : t \in Tools, b \in 1..Len(Binaries), n \in Nat \ {0}}
ChainOf(bin) == Obj("chain", bin, "none", 0)

SetupTypes ==
    /\ plan \in [tool : Tools, bin : Nat \ {0}, cmd : Nat \ {0}]
    /\ undo \in Seq(FwObjects) /\ \A i \in 1..Len(undo) : Undoable(undo[i])
    /\ setupAt \in {"off", "conn", "realm"} => undo = << >>
    /\ setupAt # "off" => exitHow = "running"
    /\ setupAt \notin {"giveUp", "close", "off"} => stuck = {}

\* The kernel: nothing is in a chain, or jumps to it, without the chain.
ChainFirst == \A r \in fwRules : r.what \in {"rule", "target"} => ChainOf(r.bin) \in fwRules

\* What this process has added will be undone, a chain after every rule that jumps to it,
\* unless a command that was to undo it has failed.
AddedIsUndone ==
    \A r \in fwRules \ rules0 : \/ \E i \in 1..Len(undo) : Covers(undo[i], r)
                               \/ \E o \in stuck : LeftBy(o, r)
JumpsGoFirst ==
    \A i \in 1..Len(undo) : undo[i].what = "chain" =>
        \A r \in fwRules : (r.what = "rule" /\ r.bin = undo[i].bin) =>
            r \in stuck \/ \E j \in (i + 1)..Len(undo) : undo[j] = r

\* In the course of the set-up the chain or table of the current binary is in place.
PreambleDone ==
    setupAt = "firewall" =>
        /\ \A i \in 1..Len(undo) : undo[i].what = "chain" => undo[i] \in fwRules
        /\ plan.cmd > 1 => \E i \in 1..Len(undo) : undo[i] = Command(plan.tool, plan.bin, 1)

SetupInv ==
    /\ SetupTypes /\ ChainFirst /\ PreambleDone /\ SetupRollsBack
    /\ setupAt # "off" => AddedIsUndone /\ JumpsGoFirst

\* What the commands of a tool make.
LEMMA CommandKinds ==
  ASSUME NEW t \in Tools, NEW b, NEW n \in Nat \ {0}
  PROVE  /\ Command(t, b, n).bin = Binaries[b]
         /\ t = "iptables" => /\ n = 1 => Command(t, b, n) = ChainOf(Binaries[b])
                              /\ n > 1 => Command(t, b, n).what \in {"target", "rule"}
         /\ t = "nft" => /\ n = 1 => Command(t, b, n).what = "table"
                         /\ n > 1 => Command(t, b, n).what \in {"hook", "nftrule"}
<1>1. CASE t = "iptables"
  <2>0. /\ Preamble(t, Binaries[b])[1] = Obj("chain", Binaries[b], "none", 0)
        /\ Preamble(t, Binaries[b])[2] = Obj("target", Binaries[b], "none", 0)
    BY <1>1 DEF Preamble
  <2>1. CASE n = 1
    <3>1. Command(t, b, n) = Obj("chain", Binaries[b], "none", 0)
      BY <1>1, <2>0, <2>1 DEF Command, Made
    <3> QED
      BY <1>1, <2>1, <3>1 DEF Obj, ChainOf
  <2>2. CASE n = 2
    <3>1. Command(t, b, n) = Obj("target", Binaries[b], "none", 0)
      BY <1>1, <2>0, <2>2 DEF Command, Made
    <3> QED
      BY <1>1, <2>2, <3>1 DEF Obj
  <2>3. CASE n > 2
    BY <1>1, <2>3 DEF Command, RuleOf, Made, Obj
  <2> QED
    BY <1>1, <2>1, <2>2, <2>3
<1>2. CASE t = "nft"
  <2>0. /\ Preamble(t, Binaries[b])[1] = Obj("table", Binaries[b], "none", 0)
        /\ Preamble(t, Binaries[b])[2] = Obj("hook", Binaries[b], "PREROUTING", 0)
        /\ Preamble(t, Binaries[b])[3] = Obj("hook", Binaries[b], "OUTPUT", 0)
    BY <1>2 DEF Preamble
  <2>1. CASE n = 1
    <3>1. Command(t, b, n) = Obj("table", Binaries[b], "none", 0)
      BY <1>2, <2>0, <2>1 DEF Command, Made
    <3> QED
      BY <1>2, <2>1, <3>1 DEF Obj
  <2>2. CASE n = 2 \/ n = 3
    <3>1. \E c : Command(t, b, n) = Obj("hook", Binaries[b], c, 0)
      BY <1>2, <2>0, <2>2 DEF Command, Made
    <3> QED
      BY <1>2, <2>2, <3>1 DEF Obj
  <2>3. CASE n > 3
    BY <1>2, <2>3 DEF Command, RuleOf, Made, Obj
  <2> QED
    BY <1>2, <2>1, <2>2, <2>3
<1> QED
  BY <1>1, <1>2 DEF Tools

LEMMA NothingPlanned ==
    /\ NoPlan \in [tool : Tools, bin : Nat \ {0}, cmd : Nat \ {0}]
    /\ << >> \in Seq(FwObjects) /\ \A i \in 1..Len(<< >>) : Undoable(<< >>[i])
  BY DEF NoPlan, Tools

LEMMA InitSetupInv ==
  ASSUME InitSetup
  PROVE  SetupInv
<1>1. SetupTypes
  BY DEF InitSetup, SetupTypes, NoPlan, Tools
<1> QED
  BY <1>1 DEF InitSetup, SetupInv, ChainFirst, PreambleDone, SetupRollsBack

\* A process that ends leaves the rules as they are.
LEMMA LeaveKeeps ==
  ASSUME SetupInv, NEW how \in {"fatal", "killed", "clean", "rolled back"}, Exit(how), fwRules' = fwRules,
         how \in {"clean", "rolled back"} => \A r \in fwRules \ rules0 : \E o \in stuck : LeftBy(o, r)
  PROVE  SetupInv'
<1>1. setupAt' = "off" /\ exitHow' = how /\ plan' = NoPlan /\ undo' = << >> /\ UNCHANGED <<rules0, stuck>>
  BY DEF Exit
<1>2. SetupTypes'
  BY <1>1, NothingPlanned DEF SetupTypes
<1> QED
  BY <1>1, <1>2 DEF SetupInv, ChainFirst, PreambleDone, SetupRollsBack

\* A step of a running process that neither touches the rules nor the plan.
LEMMA SetupQuiet ==
  ASSUME SetupInv, setupAt # "off", setupAt' \notin {"off", "conn", "realm", "firewall"},
         setupAt' \notin {"giveUp", "close"} => setupAt \notin {"giveUp", "close"},
         UNCHANGED <<exitHow, fwRules, rules0, undo, plan, stuck>>
  PROVE  SetupInv'
  BY DEF SetupInv, SetupTypes, ChainFirst, PreambleDone, SetupRollsBack, AddedIsUndone, JumpsGoFirst

LEMMA FatalKeeps ==
  ASSUME SetupInv, Fatal
  PROVE  SetupInv'
  BY LeaveKeeps DEF Fatal

\* A command that succeeds.
LEMMA CommandKeeps ==
  ASSUME SetupInv, setupAt = "firewall", plan.bin <= Len(Binaries),
         NEW o, o = Command(plan.tool, plan.bin, plan.cmd),
         ~(o.what = "chain" /\ o \in fwRules), fwRules' = fwRules \union {o},
         undo' = IF Undoable(o) THEN Append(undo, o) ELSE undo, plan' = NextCommand,
         UNCHANGED <<setupAt, exitHow, rules0, stuck>>
  PROVE  SetupInv'
<1> DEFINE N == Len(undo)
<1>0. SetupTypes /\ ChainFirst /\ PreambleDone /\ SetupRollsBack /\ AddedIsUndone /\ JumpsGoFirst /\ stuck = {}
  BY DEF SetupInv, SetupTypes
<1>1. plan.tool \in Tools /\ plan.bin \in Nat \ {0} /\ plan.cmd \in Nat \ {0}
  BY <1>0 DEF SetupTypes
<1>2. o \in FwObjects
  <2>1. plan.bin \in 1..Len(Binaries)
    BY <1>1, FirewallAssumption
  <2> QED
    BY <1>1, <2>1 DEF FwObjects
<1>3. /\ o.bin = Binaries[plan.bin]
      /\ plan.tool = "iptables" => /\ plan.cmd = 1 => o = ChainOf(o.bin) /\ o.what = "chain"
                                   /\ plan.cmd > 1 => o.what \in {"target", "rule"}
      /\ plan.tool = "nft" => /\ plan.cmd = 1 => o.what = "table"
                              /\ plan.cmd > 1 => o.what \in {"hook", "nftrule"}
  <2>1. ChainOf(Binaries[plan.bin]).what = "chain"
    BY DEF ChainOf, Obj
  <2> QED
    BY <1>1, <2>1, CommandKinds
<1>4. undo \in Seq(FwObjects) /\ N \in Nat
  BY <1>0 DEF SetupTypes
<1>5. /\ undo' \in Seq(FwObjects) /\ Len(undo') \in Nat /\ Len(undo') >= N
      /\ \A i \in 1..N : undo'[i] = undo[i]
      /\ Undoable(o) => Len(undo') = N + 1 /\ undo'[N + 1] = o
      /\ ~Undoable(o) => undo' = undo
  <2>1. CASE Undoable(o)
    BY <1>2, <1>4, <2>1
  <2>2. CASE ~Undoable(o)
    BY <1>4, <2>2
  <2> QED
    BY <2>1, <2>2
<1>6. \A i \in 1..Len(undo') : i \in 1..N \/ (Undoable(o) /\ i = N + 1 /\ undo'[i] = o)
  BY <1>4, <1>5
<1> HIDE DEF N
<1>7. plan' \in [tool : Tools, bin : Nat \ {0}, cmd : Nat \ {0}]
  <2>1. CASE plan.cmd < Commands(plan.tool)
    <3>1. plan' = [plan EXCEPT !.cmd = plan.cmd + 1]
      BY <2>1 DEF NextCommand
    <3> QED
      BY <1>0, <1>1, <3>1 DEF SetupTypes
  <2>2. CASE ~(plan.cmd < Commands(plan.tool))
    <3>1. plan' = [plan EXCEPT !.bin = plan.bin + 1, !.cmd = 1]
      BY <2>2 DEF NextCommand
    <3>2. plan.bin + 1 \in Nat \ {0} /\ 1 \in Nat \ {0}
      BY <1>1
    <3>3. plan \in [tool : Tools, bin : Nat \ {0}, cmd : Nat \ {0}]
      BY <1>0 DEF SetupTypes
    <3> QED
      BY <3>1, <3>2, <3>3
  <2> QED
    BY <2>1, <2>2
<1>8. SetupTypes'
  <2>1. \A i \in 1..Len(undo') : Undoable(undo'[i])
    BY <1>0, <1>5, <1>6 DEF SetupTypes, N
  <2> QED
    BY <1>0, <1>5, <1>7, <2>1 DEF SetupTypes
\* The chain or table of the binary is made before what belongs to it.
<1>9. plan.cmd > 1 => \E i \in 1..N : undo[i] = Command(plan.tool, plan.bin, 1) /\ undo[i].bin = o.bin
  BY <1>0, <1>1, <1>3, CommandKinds DEF PreambleDone, N
<1>10. o.what \in {"target", "rule"} =>
         /\ \E i \in 1..N : undo[i].what = "chain" /\ undo[i].bin = o.bin
         /\ ChainOf(o.bin) \in fwRules
  <2> SUFFICES ASSUME o.what \in {"target", "rule"}
               PROVE  /\ \E i \in 1..N : undo[i].what = "chain" /\ undo[i].bin = o.bin
                      /\ ChainOf(o.bin) \in fwRules
    OBVIOUS
  <2>1. plan.tool = "iptables" /\ plan.cmd > 1
    BY <1>1, <1>3 DEF Tools
  <2>2. PICK i \in 1..N : undo[i] = Command(plan.tool, plan.bin, 1) /\ undo[i].bin = o.bin
    BY <1>9, <2>1
  <2>3. Command(plan.tool, plan.bin, 1) = ChainOf(Binaries[plan.bin])
    BY <1>1, <2>1, CommandKinds
  <2>4. ChainOf(o.bin).what = "chain"
    BY DEF ChainOf, Obj
  <2>5. undo[i] = ChainOf(o.bin) /\ undo[i].what = "chain"
    BY <1>3, <2>2, <2>3, <2>4
  <2> QED
    BY <1>0, <2>2, <2>5 DEF PreambleDone, N
<1>11. o.what \in {"hook", "nftrule"} => \E i \in 1..N : undo[i].what = "table" /\ undo[i].bin = o.bin
  <2> SUFFICES ASSUME o.what \in {"hook", "nftrule"}
               PROVE  \E i \in 1..N : undo[i].what = "table" /\ undo[i].bin = o.bin
    OBVIOUS
  <2>1. plan.tool = "nft" /\ plan.cmd > 1
    BY <1>1, <1>3 DEF Tools
  <2>2. Command(plan.tool, plan.bin, 1).what = "table"
    BY <1>1, <2>1, CommandKinds
  <2> QED
    BY <1>9, <2>1, <2>2
<1>12. o.what \in {"chain", "table", "target", "rule", "hook", "nftrule"}
  BY <1>1, <1>3 DEF Tools
<1>13. ChainFirst'
  BY <1>0, <1>10 DEF ChainFirst
<1>14. PreambleDone'
  <2>1. \A i \in 1..Len(undo') : undo'[i].what = "chain" => undo'[i] \in fwRules'
    BY <1>0, <1>5, <1>6 DEF PreambleDone, N
  <2>2. ASSUME plan'.cmd > 1 PROVE \E i \in 1..Len(undo') : undo'[i] = Command(plan'.tool, plan'.bin, 1)
    <3>1. plan'.tool = plan.tool /\ plan'.bin = plan.bin
      BY <1>0, <1>1, <2>2 DEF NextCommand, SetupTypes
    <3>2. CASE plan.cmd = 1
      <4>1. Undoable(o)
        BY <1>1, <1>3, <3>2 DEF Tools, Undoable
      <4>2. N + 1 \in 1..Len(undo') /\ undo'[N + 1] = Command(plan.tool, plan.bin, 1)
        BY <1>4, <1>5, <3>2, <4>1 DEF N
      <4> QED
        BY <3>1, <4>2
    <3>3. CASE plan.cmd > 1
      <4>1. PICK i \in 1..N : undo[i] = Command(plan.tool, plan.bin, 1)
        BY <1>9, <3>3
      <4>2. i \in 1..Len(undo') /\ undo'[i] = undo[i]
        BY <1>4, <1>5 DEF N
      <4> QED
        BY <3>1, <4>1, <4>2
    <3> QED
      BY <1>1, <3>2, <3>3
  <2> QED
    BY <2>1, <2>2 DEF PreambleDone
<1>15. AddedIsUndone'
  <2> SUFFICES ASSUME NEW r \in fwRules' \ rules0'
               PROVE  \E i \in 1..Len(undo') : Covers(undo'[i], r)
    BY DEF AddedIsUndone
  <2>1. CASE r \in fwRules
    <3>1. PICK i \in 1..N : Covers(undo[i], r)
      BY <1>0, <2>1 DEF AddedIsUndone, N
    <3>2. i \in 1..Len(undo') /\ undo'[i] = undo[i]
      BY <1>4, <1>5 DEF N
    <3> QED
      BY <3>1, <3>2
  <2>2. CASE r = o /\ Undoable(o)
    <3>1. N + 1 \in 1..Len(undo') /\ undo'[N + 1] = r
      BY <1>4, <1>5, <2>2 DEF N
    <3> QED
      BY <3>1 DEF Covers
  <2>3. CASE r = o /\ ~Undoable(o)
    <3>1. o.what \in {"target", "hook", "nftrule"}
      BY <1>12, <2>3 DEF Undoable
    <3>2. \E i \in 1..N : Covers(undo[i], o)
      BY <1>10, <1>11, <3>1 DEF Covers
    <3> QED
      BY <1>5, <2>3, <3>2 DEF N
  <2> QED
    BY <2>1, <2>2, <2>3
<1>16. JumpsGoFirst'
  <2> SUFFICES ASSUME NEW i \in 1..Len(undo'), undo'[i].what = "chain",
                      NEW r \in fwRules', r.what = "rule", r.bin = undo'[i].bin
               PROVE  \E j \in (i + 1)..Len(undo') : undo'[j] = r
    BY DEF JumpsGoFirst
  <2>1. CASE i \in 1..N /\ r \in fwRules
    <3>1. PICK j \in (i + 1)..N : undo[j] = r
      BY <1>0, <1>5, <2>1 DEF JumpsGoFirst, N
    <3>2. j \in (i + 1)..Len(undo') /\ j \in 1..N
      BY <1>4, <1>5
    <3> QED
      BY <1>5, <3>1, <3>2
  <2>2. CASE i \in 1..N /\ r = o
    <3>1. Undoable(o)
      BY <2>2 DEF Undoable
    <3>2. N + 1 \in (i + 1)..Len(undo') /\ undo'[N + 1] = r
      BY <1>4, <1>5, <2>2, <3>1
    <3> QED
      BY <3>2
  <2>3. CASE i \notin 1..N
    <3>1. undo'[i] = o /\ o.what = "chain" /\ o \notin fwRules /\ r \in fwRules
      BY <1>6, <2>3
    <3>2. o = ChainOf(o.bin)
      BY <1>1, <1>3, <3>1 DEF Tools
    <3> QED
      BY <1>0, <3>1, <3>2 DEF ChainFirst
  <2> QED
    BY <2>1, <2>2, <2>3
<1>17. SetupRollsBack'
  BY <1>0 DEF SetupTypes, SetupRollsBack
<1> QED
  BY <1>8, <1>13, <1>14, <1>15, <1>16, <1>17 DEF SetupInv

\* What one undo function does: rules only go; what it covers is gone unless one of its
\* commands failed or, for a chain, a rule still jumps to it; a chain that something
\* is in or jumps to stays.
LEMMA UndoOneKeeps ==
  ASSUME NEW o, o.what \in {"table", "chain", "rule"}, UndoOne(o)
  PROVE  /\ fwRules' \subseteq fwRules /\ stuck \subseteq stuck'
         /\ \A r \in fwRules' : Covers(o, r) =>
               \/ o \in stuck'
               \/ r = o /\ o.what = "chain" /\ \E j \in fwRules : j.what = "rule" /\ j.bin = o.bin
         /\ \A c \in fwRules \ fwRules' : c.what = "chain" =>
               \A r \in fwRules' : r.what \in {"rule", "target"} => r.bin # c.bin
<1>1. CASE o.what = "chain"
  <2>1. PICK flushed, deleted \in BOOLEAN :
          LET k == {r \in fwRules : ~(flushed /\ r.what = "target" /\ r.bin = o.bin)} IN
          /\ fwRules' = {r \in k : ~(deleted /\ r = o /\ ~Refused(k, o.bin))}
          /\ stuck' = IF flushed /\ deleted THEN stuck ELSE stuck \union {o}
    BY <1>1 DEF UndoOne, FlushDelete
  <2> DEFINE k == {r \in fwRules : ~(flushed /\ r.what = "target" /\ r.bin = o.bin)}
  <2>2. /\ fwRules' = {r \in k : ~(deleted /\ r = o /\ ~Refused(k, o.bin))}
        /\ stuck' = IF flushed /\ deleted THEN stuck ELSE stuck \union {o}
    BY <2>1
  <2>3. ASSUME NEW r \in fwRules', Covers(o, r), o \notin stuck'
        PROVE  r = o /\ \E j \in fwRules : j.what = "rule" /\ j.bin = o.bin
    <3>1. flushed /\ deleted
      BY <2>2, <2>3
    <3>2. r = o
      BY <1>1, <2>2, <2>3, <3>1 DEF Covers
    <3>3. Refused(k, o.bin)
      BY <2>2, <2>3, <3>1, <3>2
    <3>4. PICK j \in k : j.bin = o.bin /\ j.what \in {"rule", "target"}
      BY <3>3 DEF Refused
    <3> QED
      BY <3>1, <3>2, <3>4
  <2>4. ASSUME NEW c \in fwRules \ fwRules', c.what = "chain",
               NEW r \in fwRules', r.what \in {"rule", "target"}, r.bin = c.bin
        PROVE  FALSE
    <3>1. c \in k /\ c = o /\ ~Refused(k, o.bin)
      BY <2>2, <2>4
    <3>2. r \in k
      BY <2>2, <2>4
    <3> QED
      BY <2>4, <3>1, <3>2 DEF Refused
  <2> QED
    BY <1>1, <2>2, <2>3, <2>4
<1>2. CASE o.what # "chain"
  <2>1. Delete(o)
    BY <1>2 DEF UndoOne
  <2>2. CASE stuck' = stuck \union {o} /\ UNCHANGED fwRules
    BY <2>2
  <2>3. CASE fwRules' = {r \in fwRules : ~Covers(o, r)} /\ UNCHANGED stuck
    BY <1>2, <2>3 DEF Covers
  <2> QED
    BY <2>1, <2>2, <2>3 DEF Delete
<1> QED
  BY <1>1, <1>2

\* An undo function runs: what it covers is gone, or known to be left.
LEMMA UndoKeeps ==
  ASSUME SetupInv, UndoLast
  PROVE  SetupInv'
<1> DEFINE N == Len(undo)
           o == undo[N]
<1>0. /\ SetupTypes /\ ChainFirst /\ PreambleDone /\ SetupRollsBack /\ AddedIsUndone /\ JumpsGoFirst
      /\ setupAt \in {"giveUp", "close"}
  BY DEF SetupInv, UndoLast
<1>1. /\ undo # << >> /\ UndoOne(o) /\ undo' = SubSeq(undo, 1, N - 1)
      /\ UNCHANGED <<setupAt, exitHow, rules0, plan>>
  BY DEF UndoLast
<1>2. undo \in Seq(FwObjects) /\ N \in Nat \ {0} /\ N \in 1..N /\ Undoable(o)
  BY <1>0, <1>1 DEF SetupTypes
<1>3. undo' \in Seq(FwObjects) /\ Len(undo') = N - 1 /\ \A i \in 1..(N - 1) : undo'[i] = undo[i]
  <2>1. N - 1 \in Nat /\ \A i \in 1..(N - 1) : undo[i] \in FwObjects
    BY <1>2
  <2> HIDE DEF N
  <2>2. /\ SubSeq(undo, 1, N - 1) \in Seq(FwObjects)
        /\ Len(SubSeq(undo, 1, N - 1)) = IF 1 <= N - 1 THEN (N - 1) - 1 + 1 ELSE 0
        /\ \A i \in 1..((N - 1) - 1 + 1) : SubSeq(undo, 1, N - 1)[i] = undo[1 + i - 1]
    BY <2>1, SubSeqProperties
  <2>3. \A i \in 1..(N - 1) : i \in 1..((N - 1) - 1 + 1) /\ 1 + i - 1 = i
    BY <1>2
  <2> QED
    BY <1>1, <1>2, <2>2, <2>3
<1>4. \A i \in 1..N : i \in 1..(N - 1) \/ undo[i] = o
  BY <1>2
<1>5. o.what = "chain" => \A r \in fwRules : (r.what = "rule" /\ r.bin = o.bin) => r \in stuck
  <2> SUFFICES ASSUME o.what = "chain", NEW r \in fwRules, r.what = "rule", r.bin = o.bin, r \notin stuck
               PROVE  FALSE
    OBVIOUS
  <2>1. \E j \in (N + 1)..N : undo[j] = r
    BY <1>0, <1>2 DEF JumpsGoFirst
  <2> QED
    BY <1>2, <2>1
<1> HIDE DEF N, o
<1>6. /\ fwRules' \subseteq fwRules /\ stuck \subseteq stuck'
      /\ \A r \in fwRules' : Covers(o, r) =>
            \/ o \in stuck'
            \/ r = o /\ o.what = "chain" /\ \E j \in fwRules : j.what = "rule" /\ j.bin = o.bin
      /\ \A c \in fwRules \ fwRules' : c.what = "chain" =>
            \A r \in fwRules' : r.what \in {"rule", "target"} => r.bin # c.bin
  BY <1>1, <1>2, UndoOneKeeps DEF Undoable
<1>7. \A r \in fwRules' : Covers(o, r) => \E x \in stuck' : LeftBy(x, r)
  <2> SUFFICES ASSUME NEW r \in fwRules', Covers(o, r) PROVE \E x \in stuck' : LeftBy(x, r)
    OBVIOUS
  <2>1. CASE o \in stuck'
    BY <2>1 DEF LeftBy
  <2>2. CASE r = o /\ o.what = "chain" /\ \E j \in fwRules : j.what = "rule" /\ j.bin = o.bin
    BY <1>5, <1>6, <2>2 DEF LeftBy
  <2> QED
    BY <1>6, <2>1, <2>2
<1>8. SetupTypes'
  <2>1. \A i \in 1..Len(undo') : Undoable(undo'[i])
    BY <1>0, <1>2, <1>3 DEF SetupTypes, N
  <2> QED
    BY <1>0, <1>1, <1>3, <2>1 DEF SetupTypes
<1>9. ChainFirst'
  <2> SUFFICES ASSUME NEW r \in fwRules', r.what \in {"rule", "target"}
               PROVE  ChainOf(r.bin) \in fwRules'
    BY DEF ChainFirst
  <2>1. ChainOf(r.bin) \in fwRules
    BY <1>0, <1>6 DEF ChainFirst
  <2>2. ChainOf(r.bin).what = "chain" /\ ChainOf(r.bin).bin = r.bin
    BY DEF ChainOf, Obj
  <2> QED
    BY <1>6, <2>1, <2>2
<1>10. AddedIsUndone'
  <2> SUFFICES ASSUME NEW r \in fwRules' \ rules0'
               PROVE  \/ \E i \in 1..Len(undo') : Covers(undo'[i], r)
                      \/ \E x \in stuck' : LeftBy(x, r)
    BY DEF AddedIsUndone
  <2>1. r \in fwRules \ rules0
    BY <1>1, <1>6
  <2>2. CASE \E x \in stuck : LeftBy(x, r)
    BY <1>6, <2>2
  <2>3. ASSUME NEW i \in 1..N, Covers(undo[i], r)
        PROVE  \/ \E k \in 1..Len(undo') : Covers(undo'[k], r)
               \/ \E x \in stuck' : LeftBy(x, r)
    <3>1. CASE i \in 1..(N - 1)
      BY <1>3, <2>3, <3>1
    <3>2. CASE undo[i] = o
      BY <1>7, <2>3, <3>2
    <3> QED
      BY <1>4, <3>1, <3>2
  <2> QED
    BY <1>0, <2>1, <2>2, <2>3 DEF AddedIsUndone, N
<1>11. JumpsGoFirst'
  <2> SUFFICES ASSUME NEW i \in 1..Len(undo'), undo'[i].what = "chain",
                      NEW r \in fwRules', r.what = "rule", r.bin = undo'[i].bin, r \notin stuck'
               PROVE  \E j \in (i + 1)..Len(undo') : undo'[j] = r
    BY DEF JumpsGoFirst
  <2>1. r \in fwRules /\ r \notin stuck /\ i \in 1..(N - 1) /\ i \in 1..N /\ undo'[i] = undo[i]
    BY <1>2, <1>3, <1>6
  <2>2. PICK j \in (i + 1)..N : undo[j] = r
    BY <1>0, <2>1 DEF JumpsGoFirst, N
  <2>3. undo[j] # o
    BY <1>6, <2>2 DEF Covers
  <2>4. j \in (i + 1)..(N - 1) /\ j \in 1..(N - 1)
    BY <1>2, <1>4, <2>1, <2>3
  <2> QED
    BY <1>3, <2>2, <2>4
<1>12. PreambleDone' /\ SetupRollsBack'
  BY <1>0, <1>1 DEF PreambleDone, SetupTypes, SetupRollsBack
<1> QED
  BY <1>8, <1>9, <1>10, <1>11, <1>12 DEF SetupInv

LEMMA SetupStep ==
  ASSUME SetupInv, [NextSetup]_setupVars
  PROVE  SetupInv'
<1>1. CASE Start
  <2>1. /\ setupAt = "off" /\ setupAt' = "conn" /\ exitHow' = "running" /\ rules0' = fwRules
        /\ stuck' = {} /\ UNCHANGED <<fwRules, plan, undo>>
    BY <1>1 DEF Start
  <2>2. undo' = << >> /\ Len(undo') = 0
    BY <2>1 DEF SetupInv, SetupTypes
  <2>3. SetupTypes' /\ ChainFirst'
    BY <2>1 DEF SetupInv, SetupTypes, ChainFirst
  <2>4. AddedIsUndone' /\ JumpsGoFirst'
    BY <2>1, <2>2 DEF AddedIsUndone, JumpsGoFirst
  <2> QED
    BY <2>1, <2>3, <2>4 DEF SetupInv, PreambleDone, SetupRollsBack
<1>2. CASE FillConn
  <2>1. CASE Fatal
    BY <2>1, FatalKeeps
  <2>2. CASE ~Fatal
    <3>1. /\ setupAt = "conn" /\ setupAt' \in {"obfs", "firewall", "realm"}
          /\ plan' = plan \/ (plan' \in [tool : Tools, bin : {1}, cmd : {1}])
          /\ setupAt' = "firewall" => plan' \in [tool : Tools, bin : {1}, cmd : {1}]
          /\ UNCHANGED <<exitHow, fwRules, rules0, undo, stuck>>
      BY <1>2, <2>2 DEF FillConn, ListenKinds
    <3>2. CASE setupAt' = "firewall"
      <4>1. plan' \in [tool : Tools, bin : Nat \ {0}, cmd : Nat \ {0}] /\ plan'.cmd = 1
        BY <3>1, <3>2
      <4>2. PreambleDone'
        <5>1. undo' = << >> /\ Len(undo') = 0 /\ ~(plan'.cmd > 1)
          BY <3>1, <4>1 DEF SetupInv, SetupTypes
        <5> QED
          BY <5>1 DEF PreambleDone
      <4> QED
        BY <3>1, <4>1, <4>2 DEF SetupInv, SetupTypes, ChainFirst, SetupRollsBack, AddedIsUndone, JumpsGoFirst
    <3>3. CASE setupAt' # "firewall"
      <4>1. plan' \in [tool : Tools, bin : Nat \ {0}, cmd : Nat \ {0}]
        BY <3>1 DEF SetupInv, SetupTypes
      <4> QED
        BY <3>1, <3>3, <4>1 DEF SetupInv, SetupTypes, ChainFirst, SetupRollsBack, AddedIsUndone, JumpsGoFirst, PreambleDone
    <3> QED
      BY <3>2, <3>3
  <2> QED
    BY <2>1, <2>2
<1>3. CASE FirewallCommand
  <2> DEFINE o == Command(plan.tool, plan.bin, plan.cmd)
  <2>1. CASE CloseRules("giveUp")
    BY <1>3, <2>1, SetupQuiet DEF CloseRules, FirewallCommand
  <2>2. CASE ~CloseRules("giveUp")
    <3>1. /\ setupAt = "firewall" /\ plan.bin <= Len(Binaries)
          /\ ~(o.what = "chain" /\ o \in fwRules) /\ fwRules' = fwRules \union {o}
          /\ undo' = (IF Undoable(o) THEN Append(undo, o) ELSE undo) /\ plan' = NextCommand
          /\ UNCHANGED <<setupAt, exitHow, rules0, stuck>>
      BY <1>3, <2>2 DEF FirewallCommand
    <3> HIDE DEF o
    <3>2. o = Command(plan.tool, plan.bin, plan.cmd)
      BY DEF o
    <3> QED
      BY <3>1, <3>2, CommandKeeps
  <2> QED
    BY <2>1, <2>2
<1>4. CASE FirewallDone
  BY <1>4, SetupQuiet DEF FirewallDone
<1>5. CASE UndoLast
  BY <1>5, UndoKeeps
<1>6. CASE UndoDone
  <2>1. setupAt # "off" /\ undo = << >> /\ fwRules' = fwRules
    BY <1>6 DEF UndoDone
  <2>2. \A r \in fwRules \ rules0 : \E o \in stuck : LeftBy(o, r)
    BY <2>1 DEF SetupInv, AddedIsUndone
  <2>3. \E how \in {"clean", "rolled back"} : Exit(how)
    BY <1>6 DEF UndoDone
  <2> QED
    BY <2>1, <2>2, <2>3, LeaveKeeps
<1>7. CASE FillRealmConn
  <2>1. CASE Exit("rolled back")
    <3>1. setupAt = "realm" /\ fwRules' = fwRules
      BY <1>7, <2>1 DEF FillRealmConn, Exit
    <3>2. undo = << >> /\ Len(undo) = 0
      BY <3>1 DEF SetupInv, SetupTypes
    <3>3. \A r \in fwRules \ rules0 : \E o \in stuck : LeftBy(o, r)
      BY <3>1, <3>2 DEF SetupInv, AddedIsUndone
    <3> QED
      BY <2>1, <3>1, <3>3, LeaveKeeps
  <2>2. CASE ~Exit("rolled back")
    BY <1>7, <2>2, SetupQuiet DEF FillRealmConn
  <2> QED
    BY <2>1, <2>2
<1>8. CASE WrapObfs
  BY <1>8, SetupQuiet DEF WrapObfs, CloseRules
<1>9. ASSUME NEW from \in {"tls", "hook", "outbound", "congestion", "bandwidth", "auth"},
             NEW to \in {"hook", "outbound", "congestion", "bandwidth", "auth", "logger"}, Fill(from, to)
      PROVE  SetupInv'
  <2>1. CASE Fatal
    BY <2>1, FatalKeeps
  <2>2. CASE ~Fatal
    BY <1>9, <2>2, SetupQuiet DEF Fill
  <2> QED
    BY <2>1, <2>2
<1>10. CASE FillTrafficLogger
  BY <1>10, SetupQuiet DEF FillTrafficLogger
<1>11. CASE FillMasqHandler
  BY <1>11, FatalKeeps, SetupQuiet DEF FillMasqHandler
<1>12. CASE RunHelpers \/ MimicStops \/ ServeFails
  BY <1>12, FatalKeeps DEF RunHelpers, MimicStops, ServeFails
<1>13. CASE StartMimic
  BY <1>13, FatalKeeps, SetupQuiet DEF StartMimic
<1>14. CASE WaitReady
  BY <1>14, FatalKeeps, SetupQuiet DEF WaitReady
<1>15. CASE Shutdown
  BY <1>15, SetupQuiet DEF Shutdown, CloseRules
<1>16. CASE Kill
  BY <1>16, LeaveKeeps DEF Kill
<1>17. CASE UNCHANGED setupVars
  <2>1. UNCHANGED <<setupAt, exitHow, fwRules, rules0, plan, undo, stuck>>
    BY <1>17 DEF setupVars
  <2>2. SetupTypes' /\ ChainFirst' /\ PreambleDone' /\ SetupRollsBack'
    BY <2>1 DEF SetupInv, SetupTypes, ChainFirst, PreambleDone, SetupRollsBack
  <2>3. setupAt' # "off" => AddedIsUndone' /\ JumpsGoFirst'
    BY <2>1 DEF SetupInv, AddedIsUndone, JumpsGoFirst
  <2> QED
    BY <2>2, <2>3 DEF SetupInv
<1> QED
  BY <1>1, <1>2, <1>3, <1>4, <1>5, <1>6, <1>7, <1>8, <1>9, <1>10, <1>11, <1>12, <1>13, <1>14, <1>15, <1>16, <1>17
  DEF NextSetup, FillTLSConfig, FillRequestHook, FillOutboundConfig, FillCongestionConfig, FillBandwidthConfig,
      FillAuthenticator

\* Whichever command of SetupUDPPortRedirect fails, and whatever a killed process has left
\* in the kernel, a server that gives up or shuts down in order leaves no table, chain or
\* rule that it did not find (firewall_linux.go: closerFuncs.Close), but for what a failing
\* undo command was to remove and a chain that a rule left so still jumps to.
THEOREM RulesAreRolledBack == SpecSetup => []SetupRollsBack
<1>1. InitSetup => SetupInv
  BY InitSetupInv
<1>2. SetupInv /\ [NextSetup]_setupVars => SetupInv'
  BY SetupStep
<1>3. SetupInv => SetupRollsBack
  BY DEF SetupInv
<1> QED
  BY <1>1, <1>2, <1>3, PTL DEF SpecSetup

-----------------------------------------------------------------------------
(* ACLEngine: a wildcard pattern *)

\* The parts j.. of the pattern match the parts i.. of the name.
Cuts(str, pattern, i, j, cut) ==
    /\ cut \in [j..(Len(pattern) + 1) -> 0..Len(str)]
    /\ cut[j] = i - 1 /\ cut[Len(pattern) + 1] = Len(str)
    /\ \A k \in j..Len(pattern) :
          IF pattern[k] = "*" THEN cut[k] <= cut[k + 1]
          ELSE cut[k + 1] = cut[k] + 1 /\ str[cut[k + 1]] = pattern[k]

MeansFrom(str, pattern, i, j) == \E cut : Cuts(str, pattern, i, j, cut)

\* One part more in front of a match.
LEMMA CutMore ==
  ASSUME NEW str \in Seq(STRING), NEW pattern \in Seq(STRING),
         NEW i \in 1..(Len(str) + 1), NEW j \in 1..Len(pattern),
         NEW h \in i..(Len(str) + 1), MeansFrom(str, pattern, h, j + 1),
         IF pattern[j] = "*" THEN TRUE ELSE h = i + 1 /\ str[i] = pattern[j]
  PROVE  MeansFrom(str, pattern, i, j)
<1> DEFINE n == Len(str)
           m == Len(pattern)
<1>0. n \in Nat /\ m \in Nat
  OBVIOUS
<1>1. PICK cut : Cuts(str, pattern, h, j + 1, cut)
  BY DEF MeansFrom
<1> DEFINE c == [k \in j..(m + 1) |-> IF k = j THEN i - 1 ELSE cut[k]]
<1>2. c[j] = i - 1 /\ \A k \in (j + 1)..(m + 1) : c[k] = cut[k]
  BY <1>0
<1>3. c \in [j..(m + 1) -> 0..n]
  BY <1>0, <1>1 DEF Cuts
<1>4. m + 1 \in (j + 1)..(m + 1) /\ j + 1 \in (j + 1)..(m + 1)
  BY <1>0
<1>5. c[m + 1] = n /\ c[j + 1] = h - 1
  BY <1>1, <1>2, <1>4 DEF Cuts
<1> HIDE DEF c
<1>6. ASSUME NEW k \in j..m
      PROVE  IF pattern[k] = "*" THEN c[k] <= c[k + 1]
             ELSE c[k + 1] = c[k] + 1 /\ str[c[k + 1]] = pattern[k]
  <2>1. CASE k = j
    BY <1>0, <1>2, <1>5, <2>1
  <2>2. CASE k # j
    <3>1. k \in (j + 1)..m /\ k \in (j + 1)..(m + 1) /\ k + 1 \in (j + 1)..(m + 1)
      BY <1>0, <2>2
    <3>2. c[k] = cut[k] /\ c[k + 1] = cut[k + 1]
      BY <1>2, <3>1
    <3> QED
      BY <1>1, <3>1, <3>2 DEF Cuts
  <2> QED
    BY <2>1, <2>2
<1>7. Cuts(str, pattern, i, j, c)
  BY <1>2, <1>3, <1>5, <1>6 DEF Cuts
<1> QED
  BY <1>7 DEF MeansFrom

\* One part less: where the rest of the pattern starts.
LEMMA CutLess ==
  ASSUME NEW str \in Seq(STRING), NEW pattern \in Seq(STRING),
         NEW i \in 1..(Len(str) + 1), NEW j \in 1..Len(pattern), MeansFrom(str, pattern, i, j)
  PROVE  \E h \in i..(Len(str) + 1) :
            /\ MeansFrom(str, pattern, h, j + 1)
            /\ pattern[j] # "*" => h = i + 1 /\ str[i] = pattern[j]
<1> DEFINE n == Len(str)
           m == Len(pattern)
<1>0. n \in Nat /\ m \in Nat
  OBVIOUS
<1>1. PICK cut : Cuts(str, pattern, i, j, cut)
  BY DEF MeansFrom
<1>2. PICK h : h = cut[j + 1] + 1
  OBVIOUS
<1>3. cut[j + 1] \in 0..n /\ cut[j] = i - 1
  <2>1. j + 1 \in j..(m + 1)
    BY <1>0
  <2> QED
    BY <1>1, <2>1 DEF Cuts
<1>4. IF pattern[j] = "*" THEN cut[j] <= cut[j + 1]
      ELSE cut[j + 1] = cut[j] + 1 /\ str[cut[j + 1]] = pattern[j]
  BY <1>1 DEF Cuts
<1>5. h \in i..(n + 1) /\ (pattern[j] # "*" => h = i + 1 /\ str[i] = pattern[j])
  <2>1. CASE pattern[j] = "*"
    BY <1>0, <1>2, <1>3, <1>4, <2>1
  <2>2. CASE pattern[j] # "*"
    <3>1. cut[j + 1] = i
      BY <1>3, <1>4, <2>2
    <3> QED
      BY <1>0, <1>2, <1>3, <1>4, <2>2, <3>1
  <2> QED
    BY <2>1, <2>2
<1> DEFINE c == [k \in (j + 1)..(m + 1) |-> cut[k]]
<1>6. c \in [(j + 1)..(m + 1) -> 0..n] /\ \A k \in (j + 1)..(m + 1) : c[k] = cut[k]
  BY <1>0, <1>1 DEF Cuts
<1> HIDE DEF c
<1>7. c[j + 1] = h - 1 /\ c[m + 1] = n
  <2>1. m + 1 \in (j + 1)..(m + 1) /\ j + 1 \in (j + 1)..(m + 1)
    BY <1>0
  <2>2. c[m + 1] = cut[m + 1] /\ c[j + 1] = cut[j + 1]
    BY <1>6, <2>1
  <2> QED
    BY <1>1, <1>2, <1>3, <2>2 DEF Cuts
<1>8. ASSUME NEW k \in (j + 1)..m
      PROVE  IF pattern[k] = "*" THEN c[k] <= c[k + 1]
             ELSE c[k + 1] = c[k] + 1 /\ str[c[k + 1]] = pattern[k]
  <2>1. k \in (j + 1)..(m + 1) /\ k + 1 \in (j + 1)..(m + 1) /\ k \in j..m
    BY <1>0
  <2>2. c[k] = cut[k] /\ c[k + 1] = cut[k + 1]
    BY <1>6, <2>1
  <2> QED
    BY <1>1, <2>1, <2>2 DEF Cuts
<1>9. Cuts(str, pattern, h, j + 1, c)
  BY <1>6, <1>7, <1>8 DEF Cuts
<1> QED
  BY <1>5, <1>9 DEF MeansFrom

\* What deepMatchRune tries is what a match can begin with.
LEMMA MeansStep ==
  ASSUME NEW str \in Seq(STRING), NEW pattern \in Seq(STRING),
         NEW i \in 1..(Len(str) + 1), NEW j \in 1..(Len(pattern) + 1)
  PROVE  MeansFrom(str, pattern, i, j) <=>
           IF j > Len(pattern) THEN i > Len(str)
           ELSE IF pattern[j] = "*"
             THEN MeansFrom(str, pattern, i, j + 1) \/ (i <= Len(str) /\ MeansFrom(str, pattern, i + 1, j))
           ELSE i <= Len(str) /\ str[i] = pattern[j] /\ MeansFrom(str, pattern, i + 1, j + 1)
<1> DEFINE n == Len(str)
           m == Len(pattern)
<1>0. n \in Nat /\ m \in Nat
  OBVIOUS
<1>1. CASE j = m + 1
  <2>1. MeansFrom(str, pattern, i, j) => i > n
    BY <1>0, <1>1 DEF MeansFrom, Cuts
  <2>2. ASSUME i > n PROVE MeansFrom(str, pattern, i, j)
    <3> DEFINE c == [k \in (m + 1)..(m + 1) |-> n]
    <3>1. c \in [(m + 1)..(m + 1) -> 0..n] /\ c[m + 1] = n
      BY <1>0
    <3>2. Cuts(str, pattern, i, j, c)
      BY <1>0, <1>1, <2>2, <3>1 DEF Cuts
    <3> QED
      BY <3>2 DEF MeansFrom
  <2> QED
    BY <1>0, <1>1, <2>1, <2>2
<1>2. CASE j \in 1..m /\ pattern[j] = "*"
  <2>1. ASSUME MeansFrom(str, pattern, i, j)
        PROVE  MeansFrom(str, pattern, i, j + 1) \/ (i <= n /\ MeansFrom(str, pattern, i + 1, j))
    <3>1. PICK h \in i..(n + 1) : MeansFrom(str, pattern, h, j + 1)
      BY <1>2, <2>1, CutLess
    <3>2. CASE h # i
      <4>1. i <= n /\ i + 1 \in 1..(n + 1) /\ h \in (i + 1)..(n + 1)
        BY <1>0, <3>2
      <4> QED
        BY <1>2, <3>1, <4>1, CutMore
    <3> QED
      BY <3>1, <3>2
  <2>2. ASSUME MeansFrom(str, pattern, i, j + 1) PROVE MeansFrom(str, pattern, i, j)
    <3>1. i \in i..(n + 1)
      BY <1>0
    <3> QED
      BY <1>2, <2>2, <3>1, CutMore
  <2>3. ASSUME i <= n, MeansFrom(str, pattern, i + 1, j) PROVE MeansFrom(str, pattern, i, j)
    <3>0. i + 1 \in 1..(n + 1)
      BY <1>0, <2>3
    <3>1. PICK h \in (i + 1)..(n + 1) : MeansFrom(str, pattern, h, j + 1)
      BY <1>2, <2>3, <3>0, CutLess
    <3>2. h \in i..(n + 1)
      BY <1>0
    <3> QED
      BY <1>2, <3>1, <3>2, CutMore
  <2> QED
    BY <1>0, <1>2, <2>1, <2>2, <2>3
<1>3. CASE j \in 1..m /\ pattern[j] # "*"
  <2>1. ASSUME MeansFrom(str, pattern, i, j)
        PROVE  i <= n /\ str[i] = pattern[j] /\ MeansFrom(str, pattern, i + 1, j + 1)
    <3>1. PICK h \in i..(n + 1) : MeansFrom(str, pattern, h, j + 1) /\ h = i + 1 /\ str[i] = pattern[j]
      BY <1>3, <2>1, CutLess
    <3> QED
      BY <1>0, <3>1
  <2>2. ASSUME i <= n, str[i] = pattern[j], MeansFrom(str, pattern, i + 1, j + 1)
        PROVE  MeansFrom(str, pattern, i, j)
    <3>1. i + 1 \in i..(n + 1)
      BY <1>0, <2>2
    <3> QED
      BY <1>3, <2>2, <3>1, CutMore
  <2> QED
    BY <1>0, <1>3, <2>1, <2>2
<1> QED
  BY <1>0, <1>1, <1>2, <1>3

Positions(str, pattern) == (1..(Len(str) + 1)) \X (1..(Len(pattern) + 1))

\* One step of deepMatchRune at x, with f for the calls it makes.
Tries(str, pattern, f, x) ==
    IF x[2] > Len(pattern) THEN x[1] > Len(str)
    ELSE IF pattern[x[2]] = "*"
      THEN f[<<x[1], x[2] + 1>>] \/ (x[1] <= Len(str) /\ f[<<x[1] + 1, x[2]>>])
    ELSE x[1] <= Len(str) /\ str[x[1]] = pattern[x[2]] /\ f[<<x[1] + 1, x[2] + 1>>]

\* The meaning is a function that calls itself the way deepMatchRune does.
LEMMA MeaningRecurs ==
  ASSUME NEW str \in Seq(STRING), NEW pattern \in Seq(STRING)
  PROVE  \E f : f = [x \in Positions(str, pattern) |-> Tries(str, pattern, f, x)]
<1> DEFINE n == Len(str)
           m == Len(pattern)
           P == Positions(str, pattern)
           g == [x \in P |-> MeansFrom(str, pattern, x[1], x[2])]
<1>0. n \in Nat /\ m \in Nat
  OBVIOUS
<1>1. \A i \in 1..(n + 1), j \in 1..(m + 1) : g[<<i, j>>] = MeansFrom(str, pattern, i, j)
  BY DEF Positions
<1> HIDE DEF g
<1>2. ASSUME NEW x \in P PROVE MeansFrom(str, pattern, x[1], x[2]) = Tries(str, pattern, g, x)
  <2>1. PICK i \in 1..(n + 1), j \in 1..(m + 1) : x[1] = i /\ x[2] = j
    BY DEF Positions
  <2>2. CASE j > m
    <3>1. MeansFrom(str, pattern, i, j) <=> i > n
      BY <1>0, <2>2, MeansStep
    <3>2. Tries(str, pattern, g, x) = (i > n)
      BY <1>0, <2>1, <2>2 DEF Tries
    <3>3. MeansFrom(str, pattern, i, j) \in BOOLEAN /\ (i > n) \in BOOLEAN
      BY DEF MeansFrom
    <3> QED
      BY <2>1, <3>1, <3>2, <3>3
  <2>3. CASE j <= m /\ pattern[j] = "*"
    <3>1. j + 1 \in 1..(m + 1)
      BY <1>0, <2>3
    <3>2. g[<<i, j + 1>>] = MeansFrom(str, pattern, i, j + 1)
      BY <1>1, <3>1
    <3>3. ASSUME i <= n PROVE g[<<i + 1, j>>] = MeansFrom(str, pattern, i + 1, j)
      <4>1. i + 1 \in 1..(n + 1)
        BY <1>0, <3>3
      <4> QED
        BY <1>1, <4>1
    <3>4. MeansFrom(str, pattern, i, j)
            <=> (MeansFrom(str, pattern, i, j + 1) \/ (i <= n /\ MeansFrom(str, pattern, i + 1, j)))
      BY <1>0, <2>3, MeansStep
    <3>5. Tries(str, pattern, g, x) = (g[<<i, j + 1>>] \/ (i <= n /\ g[<<i + 1, j>>]))
      BY <1>0, <2>1, <2>3 DEF Tries
    <3>6. MeansFrom(str, pattern, i, j) \in BOOLEAN /\ MeansFrom(str, pattern, i, j + 1) \in BOOLEAN
          /\ MeansFrom(str, pattern, i + 1, j) \in BOOLEAN
      BY DEF MeansFrom
    <3> QED
      BY <2>1, <3>2, <3>3, <3>4, <3>5, <3>6
  <2>4. CASE j <= m /\ pattern[j] # "*"
    <3>1. j + 1 \in 1..(m + 1)
      BY <1>0, <2>4
    <3>3. ASSUME i <= n PROVE g[<<i + 1, j + 1>>] = MeansFrom(str, pattern, i + 1, j + 1)
      <4>1. i + 1 \in 1..(n + 1)
        BY <1>0, <3>3
      <4> QED
        BY <1>1, <3>1, <4>1
    <3>4. MeansFrom(str, pattern, i, j)
            <=> (i <= n /\ str[i] = pattern[j] /\ MeansFrom(str, pattern, i + 1, j + 1))
      BY <1>0, <2>4, MeansStep
    <3>5. Tries(str, pattern, g, x) = (i <= n /\ str[i] = pattern[j] /\ g[<<i + 1, j + 1>>])
      BY <1>0, <2>1, <2>4 DEF Tries
    <3>6. MeansFrom(str, pattern, i, j) \in BOOLEAN /\ MeansFrom(str, pattern, i + 1, j + 1) \in BOOLEAN
      BY DEF MeansFrom
    <3> QED
      BY <2>1, <3>3, <3>4, <3>5, <3>6
  <2> QED
    BY <1>0, <2>2, <2>3, <2>4
<1>3. g = [x \in P |-> Tries(str, pattern, g, x)]
  BY <1>2, Zenon DEF g
<1> QED
  BY <1>3

\* deepMatchRune finds a match wherever there is one.
LEMMA DeepMatchMeans ==
  ASSUME NEW str \in Seq(STRING), NEW pattern \in Seq(STRING)
  PROVE  DeepMatch(str, pattern) <=> WildcardMeans(str, pattern)
<1> DEFINE n == Len(str)
           m == Len(pattern)
           P == Positions(str, pattern)
           f == CHOOSE g : g = [x \in P |-> Tries(str, pattern, g, x)]
<1>0. n \in Nat /\ m \in Nat
  OBVIOUS
<1>1. DeepMatch(str, pattern) = f[<<1, 1>>]
  BY Zenon DEF DeepMatch, Tries, Positions
<1>2. f = [x \in P |-> Tries(str, pattern, f, x)]
  BY MeaningRecurs, Zenon
<1> HIDE DEF f
<1>3. ASSUME NEW i \in 1..(n + 1), NEW j \in 1..(m + 1)
      PROVE  /\ j > m => f[<<i, j>>] = (i > n)
             /\ j <= m /\ pattern[j] = "*" =>
                  f[<<i, j>>] = (f[<<i, j + 1>>] \/ (i <= n /\ f[<<i + 1, j>>]))
             /\ j <= m /\ pattern[j] # "*" =>
                  f[<<i, j>>] = (i <= n /\ str[i] = pattern[j] /\ f[<<i + 1, j + 1>>])
  <2>1. <<i, j>> \in P /\ <<i, j>>[1] = i /\ <<i, j>>[2] = j
    BY DEF Positions
  <2>2. f[<<i, j>>] = Tries(str, pattern, f, <<i, j>>)
    BY <1>2, <2>1, Zenon
  <2> QED
    BY <1>0, <2>1, <2>2 DEF Tries
<1>4. ASSUME NEW i \in 1..(n + 1), NEW j \in 1..(m + 1), f[<<i, j>>] # MeansFrom(str, pattern, i, j)
      PROVE  FALSE
  <2> DEFINE Bad(k) == \E a \in 1..(n + 1), b \in 1..(m + 1) :
                          k = (n + 1 - a) + (m + 1 - b) /\ f[<<a, b>>] # MeansFrom(str, pattern, a, b)
             T == {k \in Nat : Bad(k)}
  <2>0. T \subseteq Nat /\ T # {}
    <3>1. (n + 1 - i) + (m + 1 - j) \in Nat
      BY <1>0
    <3> QED
      BY <1>4, <3>1
  <2>1. PICK k \in T : \A y \in T : k <= y
    BY <2>0, LeastNat
  <2>2. PICK a \in 1..(n + 1), b \in 1..(m + 1) :
           k = (n + 1 - a) + (m + 1 - b) /\ f[<<a, b>>] # MeansFrom(str, pattern, a, b)
    BY <2>1
  <2>3. ASSUME NEW c \in 1..(n + 1), NEW d \in 1..(m + 1), c + d > a + b
        PROVE  f[<<c, d>>] = MeansFrom(str, pattern, c, d)
    <3>1. (n + 1 - c) + (m + 1 - d) \in Nat /\ ~(k <= (n + 1 - c) + (m + 1 - d))
      BY <1>0, <2>2, <2>3
    <3> QED
      BY <2>1, <3>1
  <2> HIDE DEF T
  <2>4. \A c, d : MeansFrom(str, pattern, c, d) \in BOOLEAN
    BY DEF MeansFrom
  <2>5. CASE b > m
    <3>1. MeansFrom(str, pattern, a, b) <=> a > n
      BY <1>0, <2>5, MeansStep
    <3>2. f[<<a, b>>] = (a > n)
      BY <1>3, <2>5
    <3> QED
      BY <2>2, <2>4, <3>1, <3>2
  <2>6. CASE b <= m /\ pattern[b] = "*"
    <3>1. b + 1 \in 1..(m + 1)
      BY <1>0, <2>6
    <3>2. f[<<a, b + 1>>] = MeansFrom(str, pattern, a, b + 1)
      BY <2>3, <3>1
    <3>3. ASSUME a <= n PROVE f[<<a + 1, b>>] = MeansFrom(str, pattern, a + 1, b)
      <4>1. a + 1 \in 1..(n + 1)
        BY <1>0, <3>3
      <4> QED
        BY <2>3, <4>1
    <3>4. f[<<a, b>>] = (f[<<a, b + 1>>] \/ (a <= n /\ f[<<a + 1, b>>]))
      BY <1>0, <1>3, <2>6
    <3>5. MeansFrom(str, pattern, a, b)
            <=> (MeansFrom(str, pattern, a, b + 1) \/ (a <= n /\ MeansFrom(str, pattern, a + 1, b)))
      BY <1>0, <2>6, MeansStep
    <3> QED
      BY <2>2, <2>4, <3>2, <3>3, <3>4, <3>5
  <2>7. CASE b <= m /\ pattern[b] # "*"
    <3>1. b + 1 \in 1..(m + 1)
      BY <1>0, <2>7
    <3>3. ASSUME a <= n PROVE f[<<a + 1, b + 1>>] = MeansFrom(str, pattern, a + 1, b + 1)
      <4>1. a + 1 \in 1..(n + 1)
        BY <1>0, <3>3
      <4>2. (a + 1) + (b + 1) > a + b
        BY <1>0
      <4> QED
        BY <2>3, <3>1, <4>1, <4>2
    <3>4. f[<<a, b>>] = (a <= n /\ str[a] = pattern[b] /\ f[<<a + 1, b + 1>>])
      BY <1>0, <1>3, <2>7
    <3>5. MeansFrom(str, pattern, a, b)
            <=> (a <= n /\ str[a] = pattern[b] /\ MeansFrom(str, pattern, a + 1, b + 1))
      BY <1>0, <2>7, MeansStep
    <3> QED
      BY <2>2, <2>4, <3>3, <3>4, <3>5
  <2> QED
    BY <1>0, <2>5, <2>6, <2>7
<1>5. f[<<1, 1>>] = MeansFrom(str, pattern, 1, 1)
  <2>1. 1 \in 1..(n + 1) /\ 1 \in 1..(m + 1)
    BY <1>0
  <2> QED
    BY <1>4, <2>1
<1>6. MeansFrom(str, pattern, 1, 1) <=> WildcardMeans(str, pattern)
  <2>1. 1 - 1 = 0
    OBVIOUS
  <2> QED
    BY <2>1, Zenon DEF MeansFrom, Cuts, WildcardMeans
<1> QED
  BY <1>1, <1>5, <1>6

-----------------------------------------------------------------------------
(* ACLEngine: the nets of a country *)

NetsInOrder(s) == \A i, j \in DOMAIN s : i < j => s[i].ip <= s[j].ip

\* newGeoIPMatcher keeps every net, in order.
LEMMA SortedAll ==
  ASSUME NEW nets, IsFiniteSet(nets), \A n \in nets : n.ip \in Nat
  PROVE  /\ SortedNets(nets) \in Seq(nets) /\ NetsInOrder(SortedNets(nets))
         /\ \A n \in nets : \E i \in 1..Len(SortedNets(nets)) : SortedNets(nets)[i] = n
<1> DEFINE s == SortedNets(nets)
           k == Cardinality(nets)
           key == [n \in nets |-> n.ip]
<1>1. key \in [nets -> Nat]
  OBVIOUS
<1>2. PICK r \in SetToSeqs(nets) : \A i, j \in 1..k : i < j => key[r[i]] <= key[r[j]]
  BY <1>1, KeySort
<1>3. r \in [1..k -> nets]
  BY DEF SetToSeqs
<1>4. \A i \in 1..k : key[r[i]] = r[i].ip
  BY <1>3
<1>5. \A i, j \in DOMAIN r : i < j => r[i].ip <= r[j].ip
  BY <1>2, <1>3, <1>4
<1>6. s \in SetToSeqs(nets) /\ NetsInOrder(s)
  BY <1>5 DEF SortedNets, NetsInOrder
<1> HIDE DEF s
<1>7. s \in Seq(nets) /\ Len(s) = k /\ \A n \in nets : \E i \in 1..k : s[i] = n
  BY <1>6, ListHasAll
<1> QED
  BY <1>6, <1>7 DEF s

Spans(n) == (1..(n + 1)) \X (0..n)

\* One step of matchIP on a span, with f for the rest of the loop.
Probes(nets, ip, f, x) ==
    IF x[1] > x[2] THEN FALSE
    ELSE IF InNet(nets[(x[1] + x[2]) \div 2], ip) THEN TRUE
    ELSE IF nets[(x[1] + x[2]) \div 2].ip < ip THEN f[<<((x[1] + x[2]) \div 2) + 1, x[2]>>]
    ELSE f[<<x[1], ((x[1] + x[2]) \div 2) - 1>>]

Among(nets, ip, left, right) == \E k \in left..right : InNet(nets[k], ip)

\* In sorted nets that do not hold one another, the half that matchIP drops holds
\* no net of the address.
LEMMA HalfIsEnough ==
  ASSUME NEW nets, NetList(nets), NEW s \in Seq(nets), NetsInOrder(s), NEW ip \in Nat,
         NEW left \in 1..Len(s), NEW right \in left..Len(s),
         NEW mid \in left..right, ~InNet(s[mid], ip)
  PROVE  /\ s[mid].ip < ip => (Among(s, ip, left, right) <=> Among(s, ip, mid + 1, right))
         /\ ~(s[mid].ip < ip) => (Among(s, ip, left, right) <=> Among(s, ip, left, mid - 1))
<1> DEFINE n == Len(s)
<1>0. n \in Nat /\ left \in Nat /\ right \in Nat /\ mid \in Nat /\ DOMAIN s = 1..n
  OBVIOUS
<1>1. ASSUME NEW k \in left..right, InNet(s[k], ip), k < mid, s[mid].ip < ip PROVE FALSE
  <2>1. k \in DOMAIN s /\ mid \in DOMAIN s /\ s[k] \in nets /\ s[mid] \in nets
    BY <1>0, <1>1
  <2>2. s[k].ip <= s[mid].ip
    BY <1>1, <2>1 DEF NetsInOrder
  <2>3. PICK a \in Nat, b \in Nat, d \in Nat \ {0} : a = s[k].ip /\ b = s[mid].ip /\ d = s[k].size
    BY <2>1 DEF NetList
  <2>4. a <= b /\ b <= ip /\ a \div d = ip \div d
    BY <1>1, <2>2, <2>3 DEF InNet
  <2>5. b \div d = a \div d
    BY <2>4, SMT
  <2>6. InNet(s[k], s[mid].ip)
    BY <2>3, <2>5 DEF InNet, NoIP
  <2> QED
    BY <1>1, <2>1, <2>6 DEF NetList
<1>2. ASSUME NEW k \in left..right, InNet(s[k], ip), k > mid, ~(s[mid].ip < ip) PROVE FALSE
  <2>1. k \in DOMAIN s /\ mid \in DOMAIN s /\ s[k] \in nets /\ s[mid] \in nets
    BY <1>0, <1>2
  <2>2. s[mid].ip <= s[k].ip
    BY <1>0, <1>2, <2>1 DEF NetsInOrder
  <2>3. PICK a \in Nat, b \in Nat, d \in Nat \ {0} : a = s[k].ip /\ b = s[mid].ip /\ d = s[k].size
    BY <2>1 DEF NetList
  <2>4. b <= a /\ ip <= b /\ ip \div d = a \div d
    BY <1>2, <2>2, <2>3 DEF InNet
  <2>5. b \div d = a \div d
    <3>1. b \div d = ip \div d
      BY <2>4, SMT
    <3> QED
      BY <2>4, <3>1
  <2>6. InNet(s[k], s[mid].ip)
    BY <2>3, <2>5 DEF InNet, NoIP
  <2>7. s[k] = s[mid]
    BY <2>1, <2>6 DEF NetList
  <2> QED
    BY <1>2, <2>7
<1>3. ASSUME s[mid].ip < ip, Among(s, ip, left, right) PROVE Among(s, ip, mid + 1, right)
  <2>1. PICK k \in left..right : InNet(s[k], ip)
    BY <1>3 DEF Among
  <2>2. k # mid /\ ~(k < mid)
    BY <1>1, <1>3, <2>1
  <2>3. k \in (mid + 1)..right
    BY <1>0, <2>2
  <2> QED
    BY <2>1, <2>3 DEF Among
<1>4. ASSUME ~(s[mid].ip < ip), Among(s, ip, left, right) PROVE Among(s, ip, left, mid - 1)
  <2>1. PICK k \in left..right : InNet(s[k], ip)
    BY <1>4 DEF Among
  <2>2. k # mid /\ ~(k > mid)
    BY <1>2, <1>4, <2>1
  <2>3. k \in left..(mid - 1)
    BY <1>0, <2>2
  <2> QED
    BY <2>1, <2>3 DEF Among
<1>5. (mid + 1)..right \subseteq left..right /\ left..(mid - 1) \subseteq left..right
  BY <1>0
<1>6. (Among(s, ip, mid + 1, right) => Among(s, ip, left, right))
      /\ (Among(s, ip, left, mid - 1) => Among(s, ip, left, right))
  BY <1>5 DEF Among
<1> QED
  BY <1>3, <1>4, <1>6

\* Where the loop is after one more step.
LEMMA MidInside ==
  ASSUME NEW n \in Nat, NEW left \in 1..(n + 1), NEW right \in 0..n, left <= right
  PROVE  \E mid \in left..right : /\ mid = (left + right) \div 2
                                  /\ mid \in 1..n /\ mid + 1 \in 1..(n + 1) /\ mid - 1 \in 0..n
  OBVIOUS

\* What a span holds obeys one step of the loop.
LEMMA AmongStep ==
  ASSUME NEW nets, NetList(nets), NEW s \in Seq(nets), NetsInOrder(s), NEW ip \in Nat,
         NEW left \in 1..(Len(s) + 1), NEW right \in 0..Len(s)
  PROVE  /\ left > right => ~Among(s, ip, left, right)
         /\ left <= right =>
              \E mid \in left..right :
                 /\ mid = (left + right) \div 2
                 /\ mid \in 1..Len(s) /\ mid + 1 \in 1..(Len(s) + 1) /\ mid - 1 \in 0..Len(s)
                 /\ InNet(s[mid], ip) => Among(s, ip, left, right)
                 /\ ~InNet(s[mid], ip) /\ s[mid].ip < ip =>
                       (Among(s, ip, left, right) <=> Among(s, ip, mid + 1, right))
                 /\ ~InNet(s[mid], ip) /\ ~(s[mid].ip < ip) =>
                       (Among(s, ip, left, right) <=> Among(s, ip, left, mid - 1))
<1>0. Len(s) \in Nat
  OBVIOUS
<1>1. ASSUME left > right PROVE ~Among(s, ip, left, right)
  BY <1>0, <1>1 DEF Among
<1>2. CASE left <= right
  <2>1. PICK mid \in left..right : mid = (left + right) \div 2 /\ mid \in 1..Len(s)
                                   /\ mid + 1 \in 1..(Len(s) + 1) /\ mid - 1 \in 0..Len(s)
    BY <1>0, <1>2, MidInside
  <2>2. left \in 1..Len(s) /\ right \in left..Len(s)
    BY <1>0, <1>2
  <2>3. InNet(s[mid], ip) => Among(s, ip, left, right)
    BY DEF Among
  <2>4. ~InNet(s[mid], ip) => /\ s[mid].ip < ip => (Among(s, ip, left, right) <=> Among(s, ip, mid + 1, right))
                              /\ ~(s[mid].ip < ip) => (Among(s, ip, left, right) <=> Among(s, ip, left, mid - 1))
    BY <2>2, HalfIsEnough
  <2>5. ~(left > right)
    BY <1>0, <1>2
  <2> QED
    BY <2>1, <2>3, <2>4, <2>5, Zenon
<1> QED
  BY <1>0, <1>1, <1>2

LEMMA SearchRecurs ==
  ASSUME NEW nets, NetList(nets), NEW s \in Seq(nets), NetsInOrder(s), NEW ip \in Nat
  PROVE  \E f : f = [x \in Spans(Len(s)) |-> Probes(s, ip, f, x)]
<1> DEFINE n == Len(s)
           g == [x \in Spans(n) |-> Among(s, ip, x[1], x[2])]
<1>0. n \in Nat
  OBVIOUS
<1>1. \A i \in 1..(n + 1), j \in 0..n : g[<<i, j>>] = Among(s, ip, i, j)
  BY DEF Spans
<1> HIDE DEF g
<1>b. \A i, j : Among(s, ip, i, j) \in BOOLEAN
  BY DEF Among
<1>2. ASSUME NEW x \in Spans(n) PROVE Among(s, ip, x[1], x[2]) = Probes(s, ip, g, x)
  <2>1. PICK i \in 1..(n + 1), j \in 0..n : x[1] = i /\ x[2] = j
    BY DEF Spans
  <2>2. CASE i > j
    <3>1. ~Among(s, ip, i, j)
      BY <2>2, AmongStep
    <3>2. Probes(s, ip, g, x) = FALSE
      BY <2>1, <2>2 DEF Probes
    <3> QED
      BY <1>b, <2>1, <3>1, <3>2
  <2>3. CASE i <= j
    <3>1. PICK mid \in i..j :
                 /\ mid = (i + j) \div 2
                 /\ mid \in 1..n /\ mid + 1 \in 1..(n + 1) /\ mid - 1 \in 0..n
                 /\ InNet(s[mid], ip) => Among(s, ip, i, j)
                 /\ ~InNet(s[mid], ip) /\ s[mid].ip < ip =>
                       (Among(s, ip, i, j) <=> Among(s, ip, mid + 1, j))
                 /\ ~InNet(s[mid], ip) /\ ~(s[mid].ip < ip) =>
                       (Among(s, ip, i, j) <=> Among(s, ip, i, mid - 1))
      BY <2>3, AmongStep
    <3>2. Probes(s, ip, g, x) = IF InNet(s[mid], ip) THEN TRUE
                                ELSE IF s[mid].ip < ip THEN g[<<mid + 1, j>>] ELSE g[<<i, mid - 1>>]
      <4>1. ~(i > j) /\ mid = (i + j) \div 2
        BY <2>3, <3>1
      <4> QED
        BY <2>1, <4>1, Zenon DEF Probes
    <3>3. g[<<mid + 1, j>>] = Among(s, ip, mid + 1, j) /\ g[<<i, mid - 1>>] = Among(s, ip, i, mid - 1)
      BY <1>1, <3>1
    <3>4. Among(s, ip, i, j) = Probes(s, ip, g, x)
      <4>1. CASE InNet(s[mid], ip)
        BY <1>b, <3>1, <3>2, <4>1
      <4>2. CASE ~InNet(s[mid], ip) /\ s[mid].ip < ip
        BY <1>b, <3>1, <3>2, <3>3, <4>2
      <4>3. CASE ~InNet(s[mid], ip) /\ ~(s[mid].ip < ip)
        BY <1>b, <3>1, <3>2, <3>3, <4>3
      <4> QED
        BY <4>1, <4>2, <4>3
    <3> QED
      BY <2>1, <3>4
  <2> QED
    BY <1>0, <2>2, <2>3
<1>3. g = [x \in Spans(n) |-> Probes(s, ip, g, x)]
  BY <1>2, Zenon DEF g
<1> QED
  BY <1>3

\* The binary search finds a net of the address wherever it is.
LEMMA SearchFinds ==
  ASSUME NEW nets, NetList(nets), NEW s \in Seq(nets), NetsInOrder(s), NEW ip \in Nat
  PROVE  SearchNets(s, ip) <=> \E k \in 1..Len(s) : InNet(s[k], ip)
<1> DEFINE n == Len(s)
           f == CHOOSE g : g = [x \in Spans(n) |-> Probes(s, ip, g, x)]
<1>0. n \in Nat
  OBVIOUS
<1>1. SearchNets(s, ip) = f[<<1, n>>]
  BY Zenon DEF SearchNets, Probes, Spans
<1>2. f = [x \in Spans(n) |-> Probes(s, ip, f, x)]
  BY SearchRecurs, Zenon
<1> HIDE DEF f
<1>b. \A i, j : Among(s, ip, i, j) \in BOOLEAN
  BY DEF Among
<1>3. ASSUME NEW i \in 1..(n + 1), NEW j \in 0..n
      PROVE  f[<<i, j>>] = Probes(s, ip, f, <<i, j>>) /\ <<i, j>>[1] = i /\ <<i, j>>[2] = j
  <2>1. <<i, j>> \in Spans(n) /\ <<i, j>>[1] = i /\ <<i, j>>[2] = j
    BY DEF Spans
  <2>2. f[<<i, j>>] = Probes(s, ip, f, <<i, j>>)
    BY <1>2, <2>1, Zenon
  <2> QED
    BY <2>1, <2>2
<1>4. ASSUME NEW i \in 1..(n + 1), NEW j \in 0..n, f[<<i, j>>] # Among(s, ip, i, j) PROVE FALSE
  <2> DEFINE Bad(k) == \E a \in 1..(n + 1), b \in 0..n :
                          k = b - a + n + 1 /\ f[<<a, b>>] # Among(s, ip, a, b)
             T == {k \in Nat : Bad(k)}
  <2>0. T \subseteq Nat /\ T # {}
    <3>1. j - i + n + 1 \in Nat
      BY <1>0
    <3> QED
      BY <1>4, <3>1
  <2>1. PICK k \in T : \A y \in T : k <= y
    BY <2>0, LeastNat
  <2>2. PICK a \in 1..(n + 1), b \in 0..n : k = b - a + n + 1 /\ f[<<a, b>>] # Among(s, ip, a, b)
    BY <2>1
  <2>3. ASSUME NEW c \in 1..(n + 1), NEW d \in 0..n, d - c < b - a
        PROVE  f[<<c, d>>] = Among(s, ip, c, d)
    <3>0. k = b - a + n + 1
      BY <2>2
    <3>1. d - c + n + 1 \in Nat /\ ~(k <= d - c + n + 1)
      BY <1>0, <2>3, <3>0
    <3> QED
      BY <2>1, <3>1
  <2> HIDE DEF T
  <2>4. CASE a > b
    <3>1. ~Among(s, ip, a, b)
      BY <2>4, AmongStep
    <3>2. f[<<a, b>>] = FALSE
      BY <1>3, <2>4 DEF Probes
    <3> QED
      BY <1>b, <2>2, <3>1, <3>2
  <2>5. CASE a <= b
    <3>1. PICK mid \in a..b :
                 /\ mid = (a + b) \div 2
                 /\ mid \in 1..n /\ mid + 1 \in 1..(n + 1) /\ mid - 1 \in 0..n
                 /\ InNet(s[mid], ip) => Among(s, ip, a, b)
                 /\ ~InNet(s[mid], ip) /\ s[mid].ip < ip =>
                       (Among(s, ip, a, b) <=> Among(s, ip, mid + 1, b))
                 /\ ~InNet(s[mid], ip) /\ ~(s[mid].ip < ip) =>
                       (Among(s, ip, a, b) <=> Among(s, ip, a, mid - 1))
      BY <2>5, AmongStep
    <3>2. f[<<a, b>>] = IF InNet(s[mid], ip) THEN TRUE
                        ELSE IF s[mid].ip < ip THEN f[<<mid + 1, b>>] ELSE f[<<a, mid - 1>>]
      <4>1. f[<<a, b>>] = Probes(s, ip, f, <<a, b>>) /\ <<a, b>>[1] = a /\ <<a, b>>[2] = b
        BY <1>3
      <4>2. ~(a > b) /\ mid = (a + b) \div 2
        BY <2>5, <3>1
      <4> QED
        BY <4>1, <4>2, Zenon DEF Probes
    <3>3. f[<<mid + 1, b>>] = Among(s, ip, mid + 1, b) /\ f[<<a, mid - 1>>] = Among(s, ip, a, mid - 1)
      <4>1. b - (mid + 1) < b - a /\ (mid - 1) - a < b - a
        OBVIOUS
      <4> QED
        BY <2>3, <3>1, <4>1
    <3>4. f[<<a, b>>] = Among(s, ip, a, b)
      <4>1. CASE InNet(s[mid], ip)
        BY <1>b, <3>1, <3>2, <4>1
      <4>2. CASE ~InNet(s[mid], ip) /\ s[mid].ip < ip
        BY <1>b, <3>1, <3>2, <3>3, <4>2
      <4>3. CASE ~InNet(s[mid], ip) /\ ~(s[mid].ip < ip)
        BY <1>b, <3>1, <3>2, <3>3, <4>3
      <4> QED
        BY <4>1, <4>2, <4>3
    <3> QED
      BY <2>2, <3>4
  <2> QED
    BY <1>0, <2>4, <2>5
<1>5. f[<<1, n>>] = Among(s, ip, 1, n)
  <2>1. 1 \in 1..(n + 1) /\ n \in 0..n
    BY <1>0
  <2> QED
    BY <1>4, <2>1
<1> QED
  BY <1>1, <1>5 DEF Among

\* The nets searched are the nets listed.
LEMMA GeoFinds ==
  ASSUME NEW nets, NetList(nets), NEW ip \in Nat \cup {NoIP}
  PROVE  (ip # NoIP /\ SearchNets(SortedNets(nets), ip)) <=> \E n \in nets : InNet(n, ip)
<1>1. CASE ip = NoIP
  BY <1>1 DEF InNet
<1>2. CASE ip # NoIP
  <2> DEFINE s == SortedNets(nets)
  <2>1. ip \in Nat
    BY <1>2
  <2>2. s \in Seq(nets) /\ NetsInOrder(s) /\ \A n \in nets : \E i \in 1..Len(s) : s[i] = n
    BY SortedAll DEF NetList
  <2> HIDE DEF s
  <2>3. SearchNets(s, ip) <=> \E k \in 1..Len(s) : InNet(s[k], ip)
    BY <2>1, <2>2, SearchFinds
  <2>4. \A k \in 1..Len(s) : s[k] \in nets
    BY <2>2
  <2>5. (\E k \in 1..Len(s) : InNet(s[k], ip)) <=> \E n \in nets : InNet(n, ip)
    BY <2>2, <2>4, Zenon
  <2> QED
    BY <1>2, <2>3, <2>5 DEF s
<1> QED
  BY <1>1, <1>2

-----------------------------------------------------------------------------
(* ACLEngine: a host and a rule *)

\* The dots of the name reach every root the name ends with.
LEMMA RootsAtDots ==
  ASSUME NEW name \in Seq(STRING), NEW value \in Seq(STRING)
  PROVE  HasSuffix(name, value) <=>
           (name = value \/ \E i \in 1..Len(name) : name[i] = "." /\ SubSeq(name, i + 1, Len(name)) = value)
<1> DEFINE n == Len(name)
           v == Len(value)
<1>0. n \in Nat /\ v \in Nat
  OBVIOUS
<1>1. ASSUME n - v > 0, name[n - v] = ".", SubSeq(name, (n - v) + 1, n) = value
      PROVE  \E i \in 1..n : name[i] = "." /\ SubSeq(name, i + 1, n) = value
  <2>1. n - v \in 1..n
    BY <1>0, <1>1
  <2> QED
    BY <1>1, <2>1
<1>2. ASSUME NEW i \in 1..n, name[i] = ".", SubSeq(name, i + 1, n) = value
      PROVE  n - v > 0 /\ name[n - v] = "." /\ SubSeq(name, (n - v) + 1, n) = value
  <2>1. Len(SubSeq(name, i + 1, n)) = n - i
    BY <1>0
  <2>2. n - v = i
    BY <1>0, <1>2, <2>1
  <2>3. i > 0
    BY <1>0
  <2> QED
    BY <1>2, <2>2, <2>3, Zenon
<1> QED
  BY <1>1, <1>2 DEF HasSuffix

\* Looking the name up in the index is scanning the list.
LEMMA IndexIsScan ==
  ASSUME NEW m, NEW name \in Seq(STRING), \A d \in m.domains : d.type = "root" => d.value \in Seq(STRING)
  PROVE  GeositeMatch(m, name) <=>
            \E d \in m.domains : /\ AttrsAllow(m, d)
                                 /\ \/ d.type = "full" /\ name = d.value
                                    \/ d.type = "root" /\ HasSuffix(name, d.value)
                                    \/ d.type \in {"plain", "regex"} /\ ResidualMatch(d, name)
<1> DEFINE ix == GeositeIndex(m)
           OK(d) == d \in m.domains /\ AttrsAllow(m, d)
<1>1. \A x : x \in ix.full <=> \E d : OK(d) /\ d.type = "full" /\ x = d.value
  BY DEF GeositeIndex
<1>2. \A x : x \in ix.root <=> \E d : OK(d) /\ d.type = "root" /\ x = d.value
  BY DEF GeositeIndex
<1>3. \A d : d \in ix.residual <=> OK(d) /\ d.type \in {"plain", "regex"}
  BY DEF GeositeIndex
<1>4. (name \in ix.root \/ \E i \in 1..Len(name) : name[i] = "." /\ SubSeq(name, i + 1, Len(name)) \in ix.root)
        <=> \E d : OK(d) /\ d.type = "root" /\ HasSuffix(name, d.value)
  <2>1. ASSUME NEW d, OK(d), d.type = "root"
        PROVE  HasSuffix(name, d.value) <=>
                 (name = d.value \/ \E i \in 1..Len(name) : name[i] = "." /\ SubSeq(name, i + 1, Len(name)) = d.value)
    BY <2>1, RootsAtDots
  <2> HIDE DEF ix, OK
  <2>2. ASSUME NEW x PROVE x \in ix.root <=> \E d : OK(d) /\ d.type = "root" /\ x = d.value
    BY <1>2
  <2>3. ASSUME NEW i \in 1..Len(name), name[i] = ".", SubSeq(name, i + 1, Len(name)) \in ix.root
        PROVE  \E d : OK(d) /\ d.type = "root" /\ HasSuffix(name, d.value)
    <3>1. PICK d : OK(d) /\ d.type = "root" /\ SubSeq(name, i + 1, Len(name)) = d.value
      BY <2>3, <2>2, Zenon
    <3> QED
      BY <2>1, <2>3, <3>1, Zenon
  <2>4. ASSUME name \in ix.root PROVE \E d : OK(d) /\ d.type = "root" /\ HasSuffix(name, d.value)
    BY <2>1, <2>2, <2>4, Zenon
  <2>5. ASSUME NEW d, OK(d), d.type = "root", HasSuffix(name, d.value)
        PROVE  \/ name \in ix.root
               \/ \E i \in 1..Len(name) : name[i] = "." /\ SubSeq(name, i + 1, Len(name)) \in ix.root
    <3>1. d.value \in ix.root
      BY <2>2, <2>5, Zenon
    <3> QED
      BY <2>1, <2>5, <3>1, Zenon
  <2> QED
    BY <2>3, <2>4, <2>5, Zenon
<1>5. GeositeMatch(m, name) <=> \/ name \in ix.full
                                \/ \/ name \in ix.root
                                   \/ \E i \in 1..Len(name) : name[i] = "." /\ SubSeq(name, i + 1, Len(name)) \in ix.root
                                \/ \E d \in ix.residual : ResidualMatch(d, name)
  BY DEF GeositeMatch
<1> HIDE DEF ix
<1> QED
  BY <1>1, <1>3, <1>4, <1>5, Zenon

\* A host that a request can have, once its name is normalised.
HostOK(h) == h.name \in Seq(STRING) /\ h.v4 \in Nat \cup {NoIP} /\ h.v6 \in Nat \cup {NoIP}

LEMMA NormalOK == ASSUME NEW req \in AclRequests PROVE HostOK(Normalize(req.host))
<1> DEFINE name == req.host.name
           S == {k \in 0..Len(name) : \A i \in (k + 1)..Len(name) : name[i] = "."}
<1>1. name \in Seq(STRING) /\ Len(name) \in Nat
  BY ACLAssumption
<1>2. Len(name) \in S
  BY <1>1
<1>3. S \subseteq Nat /\ S # {}
  BY <1>1, <1>2
<1>4. Min(S) \in S
  BY <1>3, MinOfNats
<1>5. Min(S) \in 0..Len(name)
  BY <1>4
<1> HIDE DEF S
<1>6. SubSeq(name, 1, Min(S)) \in Seq(STRING)
  BY <1>1, <1>5
<1>7. Normalize(req.host) = [name |-> SubSeq(name, 1, Min(S)), v4 |-> req.host.v4, v6 |-> req.host.v6]
  BY DEF Normalize, S
<1> QED
  BY <1>6, <1>7, ACLAssumption DEF HostOK

\* Every matcher means what a scan of its list means.
LEMMA MatchersMean ==
  ASSUME NEW t \in TextRules, NEW h, HostOK(h)
  PROVE  HostMatch(t.address, h) <=> HostMeans(t.address, h)
<1> DEFINE m == t.address
<1>1. CASE m.kind = "geoip"
  <2>1. NetList(m.n4) /\ NetList(m.n6) /\ m.inverse \in BOOLEAN
    BY <1>1, ACLAssumption
  <2>2. (h.v4 # NoIP /\ SearchNets(SortedNets(m.n4), h.v4)) <=> \E n \in m.n4 : InNet(n, h.v4)
    BY <2>1, GeoFinds DEF HostOK
  <2>3. (h.v6 # NoIP /\ SearchNets(SortedNets(m.n6), h.v6)) <=> \E n \in m.n6 : InNet(n, h.v6)
    BY <2>1, GeoFinds DEF HostOK
  <2> DEFINE found == \/ \E n \in m.n4 : InNet(n, h.v4)
                      \/ \E n \in m.n6 : InNet(n, h.v6)
  <2>4. GeoIPMatch(m, h) = IF found THEN ~m.inverse ELSE m.inverse
    BY <2>2, <2>3, Zenon DEF GeoIPMatch
  <2>5. HostMatch(m, h) = GeoIPMatch(m, h)
    BY <1>1 DEF HostMatch
  <2>6. HostMeans(m, h) = (found # m.inverse)
    BY <1>1 DEF HostMeans
  <2>7. found \in BOOLEAN
    OBVIOUS
  <2> HIDE DEF found
  <2> QED
    BY <2>1, <2>4, <2>5, <2>6, <2>7
<1>2. CASE m.kind = "wildcard"
  <2>1. m.name \in Seq(STRING)
    BY <1>2, ACLAssumption
  <2>2. DeepMatch(h.name, m.name) <=> WildcardMeans(h.name, m.name)
    BY <2>1, DeepMatchMeans DEF HostOK
  <2>3. HostMatch(m, h) = DeepMatch(h.name, m.name)
    BY <1>2 DEF HostMatch
  <2>4. HostMeans(m, h) = WildcardMeans(h.name, m.name)
    BY <1>2 DEF HostMeans
  <2> QED
    BY <2>2, <2>3, <2>4
<1>3. CASE m.kind = "geosite"
  <2>1. \A d \in m.domains : d.type = "root" => d.value \in Seq(STRING)
    BY <1>3, ACLAssumption
  <2>2. GeositeMatch(m, h.name) <=>
            \E d \in m.domains : /\ AttrsAllow(m, d)
                                 /\ \/ d.type = "full" /\ h.name = d.value
                                    \/ d.type = "root" /\ HasSuffix(h.name, d.value)
                                    \/ d.type \in {"plain", "regex"} /\ ResidualMatch(d, h.name)
    BY <2>1, IndexIsScan DEF HostOK
  <2>3. HostMatch(m, h) = GeositeMatch(m, h.name)
    BY <1>3 DEF HostMatch
  <2> QED
    BY <1>3, <2>2, <2>3 DEF HostMeans, GeositeMatch
<1>4. CASE m.kind \notin {"geoip", "wildcard", "geosite"}
  BY <1>4 DEF HostMeans
<1> QED
  BY <1>1, <1>2, <1>3, <1>4

-----------------------------------------------------------------------------
(* ACLEngine: the cache *)

\* What the engine has to remember: for the key of a request, the result of the
\* first rule.
Remembers(rs, e) ==
    \E req \in AclRequests :
       LET host == Normalize(req.host)
       IN /\ e.key = KeyOf(host, req.proto, req.port)
          /\ e.result = Result(rs, FirstRule(rs, host, req.proto, req.port))

\* The rules are compiled lines, the cache holds nothing but results of these
\* rules, and nothing is asked before they are compiled.
AclInv ==
    /\ \A i \in DOMAIN rules : \E t \in TextRules : Compilable(t) /\ rules[i] = CompiledRule(t)
    /\ \E n \in Nat : DOMAIN rules = 1..n
    /\ \E E : aclCache \in Seq(E) /\ \A e \in E : Remembers(rules, e)
    /\ aclState = "new" => aclCache = <<>> /\ answer = NoAnswer
    /\ FirstRuleWins

LEMMA KnownOut ==
  ASSUME NEW t \in TextRules, Compilable(t)
  PROVE  CompiledRule(t).out # NoOutbound /\ DefaultOutbound # NoOutbound
<1>1. \A i \in 1..Len(Outs) : Outs[i] \in ToSet(Outs)
  BY ACLAssumption DEF ToSet
<1>2. DefaultOutbound # NoOutbound
  <2>1. CASE Outs # <<>>
    <3>1. 1 \in 1..Len(Outs)
      BY <2>1, ACLAssumption
    <3> QED
      BY <1>1, <3>1, ACLAssumption DEF DefaultOutbound, NoOutbound
  <2> QED
    BY <2>1 DEF DefaultOutbound, NoOutbound
<1>3. t.out # NoOutbound
  BY ACLAssumption DEF Compilable, KnownOutbounds, NoOutbound
<1> QED
  BY <1>2, <1>3 DEF CompiledRule, OutboundOf

\* Ports of a compiled rule are numbers.
LEMMA PortsOK ==
  ASSUME NEW t \in TextRules
  PROVE  CompiledRule(t).start \in Nat /\ CompiledRule(t).end \in Nat /\ CompiledRule(t).host = t.address
<1>1. t.ports \in Seq(Nat)
  BY ACLAssumption
<1>2. CASE t.ports = <<>>
  BY <1>2 DEF CompiledRule, ParseProtoPort
<1>3. CASE t.ports # <<>>
  <2>1. 1 \in 1..Len(t.ports) /\ Len(t.ports) \in 1..Len(t.ports)
    BY <1>1, <1>3
  <2>2. t.ports[1] \in Nat /\ t.ports[Len(t.ports)] \in Nat
    BY <1>1, <2>1
  <2> QED
    BY <1>3, <2>2 DEF CompiledRule, ParseProtoPort, Last
<1> QED
  BY <1>2, <1>3

\* A rule matches a request when its three parts mean it.
LEMMA RuleMeans ==
  ASSUME NEW t \in TextRules, NEW req \in AclRequests
  PROVE  LET r == CompiledRule(t)
             host == Normalize(req.host)
         IN RuleMatch(r, host, req.proto, req.port) <=>
              /\ r.proto \in {"both", req.proto}
              /\ r.start = 0 \/ req.port \in r.start..r.end
              /\ HostMeans(r.host, host)
<1> DEFINE r == CompiledRule(t)
           host == Normalize(req.host)
<1>1. HostOK(host)
  BY NormalOK
<1>2. r.start \in Nat /\ r.end \in Nat /\ r.host = t.address
  BY PortsOK
<1>3. HostMatch(r.host, host) <=> HostMeans(r.host, host)
  BY <1>1, <1>2, MatchersMean
<1>4. req.port \in Nat
  BY ACLAssumption
<1> HIDE DEF r, host
<1>5. RuleMatch(r, host, req.proto, req.port) <=>
              /\ r.proto \in {"both", req.proto}
              /\ r.start = 0 \/ req.port \in r.start..r.end
              /\ HostMeans(r.host, host)
  BY <1>2, <1>3, <1>4 DEF RuleMatch
<1> QED
  BY <1>5 DEF r, host

\* The first hit of a request, in the cache or among the rules.
LEMMA FirstHit ==
  ASSUME NEW n \in Nat, NEW hits \in SUBSET (1..n), hits # {}
  PROVE  Min(hits) \in hits
<1>1. hits \subseteq Nat
  OBVIOUS
<1> QED
  BY <1>1, MinOfNats

\* What handle takes for a result is the result of the first rule.
LEMMA ResultIsFirst ==
  ASSUME AclInv, NEW req \in AclRequests
  PROVE  LET host == Normalize(req.host)
             key == KeyOf(host, req.proto, req.port)
             hits == {i \in DOMAIN aclCache : aclCache[i].key = key}
         IN /\ hits # {} => Min(hits) \in hits
            /\ hits # {} => aclCache[Min(hits)].result = Result(rules, FirstRule(rules, host, req.proto, req.port))
<1> DEFINE host == Normalize(req.host)
           key == KeyOf(host, req.proto, req.port)
           hits == {i \in DOMAIN aclCache : aclCache[i].key = key}
<1> SUFFICES ASSUME hits # {}
             PROVE  /\ Min(hits) \in hits
                    /\ aclCache[Min(hits)].result = Result(rules, FirstRule(rules, host, req.proto, req.port))
  OBVIOUS
<1>1. PICK E : aclCache \in Seq(E) /\ \A e \in E : Remembers(rules, e)
  BY DEF AclInv
<1>2. Min(hits) \in hits
  <2>1. hits \in SUBSET (1..Len(aclCache)) /\ Len(aclCache) \in Nat
    BY <1>1
  <2> QED
    BY <2>1, FirstHit
<1>3. PICK i \in DOMAIN aclCache : i = Min(hits) /\ aclCache[i].key = key
  BY <1>2
<1>4. aclCache[i] \in E
  BY <1>1
<1>5. PICK old \in AclRequests :
         /\ aclCache[i].key = KeyOf(Normalize(old.host), old.proto, old.port)
         /\ aclCache[i].result = Result(rules, FirstRule(rules, Normalize(old.host), old.proto, old.port))
  BY <1>1, <1>4 DEF Remembers
<1>6. Normalize(old.host) = host /\ old.proto = req.proto /\ old.port = req.port
  BY <1>3, <1>5 DEF KeyOf
<1> QED
  BY <1>2, <1>3, <1>5, <1>6

\* The cache that handle leaves: the entry, and some of what was there.
LEMMA CacheKept ==
  ASSUME NEW E, aclCache \in Seq(E), NEW entry \in E, NEW hits \in SUBSET (DOMAIN aclCache)
  PROVE  Remember(entry, hits) \in Seq(E)
<1> DEFINE n == Len(aclCache)
<1>0. n \in Nat /\ DOMAIN aclCache = 1..n /\ <<entry>> \in Seq(E)
  OBVIOUS
<1>1. CASE hits # {}
  <2>1. Min(hits) \in 1..n
    BY <1>0, <1>1, FirstHit
  <2>2. PICK k \in 1..n : k = Min(hits)
    BY <2>1
  <2>3. SubSeq(aclCache, 1, k - 1) \in Seq(E) /\ SubSeq(aclCache, k + 1, n) \in Seq(E)
    BY <1>0
  <2>4. RemoveAt(aclCache, k) \in Seq(E)
    BY <2>3 DEF RemoveAt
  <2> QED
    BY <1>0, <1>1, <2>2, <2>4 DEF Remember
<1>2. CASE hits = {}
  <2>1. <<entry>> \o aclCache \in Seq(E) /\ Len(<<entry>> \o aclCache) = 1 + n
    BY <1>0
  <2>2. PICK k \in 0..(1 + n) : k = Min({CacheSize, 1 + n})
    BY <1>0, ACLAssumption DEF Min
  <2>3. PICK s : s = <<entry>> \o aclCache
    OBVIOUS
  <2>4. SubSeq(s, 1, k) \in Seq(E)
    <3>1. s \in Seq(E) /\ k \in 0..Len(s)
      BY <1>0, <2>1, <2>3
    <3> QED
      BY <3>1
  <2> QED
    BY <1>2, <2>2, <2>3, <2>4 DEF Remember
<1> QED
  BY <1>1, <1>2

-----------------------------------------------------------------------------
(* ACLEngine: the steps *)

\* The rules a request means, as FirstRuleWins has them.
Meant(rs, req) ==
    {i \in DOMAIN rs : /\ rs[i].proto \in {"both", req.proto}
                       /\ rs[i].start = 0 \/ req.port \in rs[i].start..rs[i].end
                       /\ HostMeans(rs[i].host, Normalize(req.host))}

LEMMA MeantAreMatched ==
  ASSUME AclInv, NEW req \in AclRequests
  PROVE  Meant(rules, req)
           = {i \in DOMAIN rules : RuleMatch(rules[i], Normalize(req.host), req.proto, req.port)}
<1>1. ASSUME NEW i \in DOMAIN rules
      PROVE  RuleMatch(rules[i], Normalize(req.host), req.proto, req.port) <=>
                /\ rules[i].proto \in {"both", req.proto}
                /\ rules[i].start = 0 \/ req.port \in rules[i].start..rules[i].end
                /\ HostMeans(rules[i].host, Normalize(req.host))
  <2>1. PICK t \in TextRules : rules[i] = CompiledRule(t)
    BY DEF AclInv
  <2> QED
    BY <2>1, RuleMeans
<1> QED
  BY <1>1, Zenon DEF Meant

LEMMA HandleKeeps ==
  ASSUME AclInv, NEW req \in AclRequests, Handle(req)
  PROVE  AclInv'
<1>1. PICK host : host = Normalize(req.host)
  OBVIOUS
<1>2. PICK i : i = FirstRule(rules, host, req.proto, req.port)
  OBVIOUS
<1>3. PICK hits : hits = {k \in DOMAIN aclCache : aclCache[k].key = KeyOf(host, req.proto, req.port)}
  OBVIOUS
<1>4. PICK result : result = Result(rules, i)
  OBVIOUS
<1>5. PICK entry : entry = [key |-> KeyOf(host, req.proto, req.port), result |-> result]
  OBVIOUS
<1>6. hits # {} => aclCache[Min(hits)].result = result
  BY <1>1, <1>2, <1>3, <1>4, ResultIsFirst
<1>7. /\ aclState = "ready" /\ aclState' = "ready" /\ rules' = rules
      /\ aclCache' = Remember(entry, hits)
      /\ answer' = [req |-> req,
                    out |-> IF result.out = NoOutbound THEN DefaultOutbound ELSE result.out,
                    host |-> IF result.out # NoOutbound /\ result.hijack # NoHijack THEN result.hijack ELSE req.host]
  <2>1. (IF hits # {} THEN aclCache[Min(hits)].result ELSE Result(rules, i)) = result
    BY <1>4, <1>6
  <2>2. /\ aclState = "ready"
        /\ aclCache' = Remember([key |-> KeyOf(host, req.proto, req.port),
                                 result |-> IF hits # {} THEN aclCache[Min(hits)].result ELSE Result(rules, i)], hits)
        /\ answer' = [req |-> req,
                      out |-> IF result.out = NoOutbound THEN DefaultOutbound ELSE result.out,
                      host |-> IF result.out # NoOutbound /\ result.hijack # NoHijack THEN result.hijack ELSE req.host]
        /\ UNCHANGED <<rules, aclState>>
    BY <1>1, <1>2, <1>3, <2>1, Zenon DEF Handle
  <2> QED
    BY <1>5, <2>1, <2>2
<1>8. (\E E : aclCache \in Seq(E) /\ \A e \in E : Remembers(rules, e))'
  <2>1. PICK E : aclCache \in Seq(E) /\ \A e \in E : Remembers(rules, e)
    BY DEF AclInv
  <2>2. PICK F : F = E \cup {entry}
    OBVIOUS
  <2>3. Remembers(rules, entry)
    BY <1>1, <1>2, <1>4, <1>5 DEF Remembers
  <2>4. aclCache \in Seq(F) /\ entry \in F /\ \A e \in F : Remembers(rules, e)
    BY <2>1, <2>2, <2>3
  <2>5. hits \in SUBSET (DOMAIN aclCache)
    BY <1>3
  <2>6. Remember(entry, hits) \in Seq(F)
    BY <2>4, <2>5, CacheKept
  <2>7. aclCache' \in Seq(F) /\ \A e \in F : Remembers(rules, e)'
    BY <1>7, <2>4, <2>6 DEF Remembers
  <2> QED
    BY <2>7
<1>9. FirstRuleWins'
  <2>1. PICK M : M = Meant(rules, req)
    OBVIOUS
  <2>2. M = {k \in DOMAIN rules : RuleMatch(rules[k], host, req.proto, req.port)}
    BY <1>1, <2>1, MeantAreMatched
  <2>3. i = IF M = {} THEN 0 ELSE Min(M)
    BY <1>2, <2>2 DEF FirstRule
  <2>4. M = {} => result = NoMatch
    BY <1>4, <2>3 DEF Result
  <2>5. M # {} => result.out = rules[i].out /\ result.hijack = rules[i].hijack /\ result.out # NoOutbound
                  /\ result = Result(rules, i)
    <3> SUFFICES ASSUME M # {}
                 PROVE  result.out = rules[i].out /\ result.hijack = rules[i].hijack /\ result.out # NoOutbound
                        /\ result = Result(rules, i)
      OBVIOUS
    <3>1. PICK n \in Nat : DOMAIN rules = 1..n
      BY DEF AclInv
    <3>2. i \in DOMAIN rules /\ i # 0
      <4>1. M \in SUBSET (1..n)
        BY <2>2, <3>1
      <4>2. Min(M) \in M
        BY <4>1, FirstHit
      <4>3. i = Min(M)
        BY <2>3, Zenon
      <4>4. i \in 1..n
        BY <4>1, <4>2, <4>3
      <4> QED
        BY <3>1, <4>4
    <3>3. PICK t \in TextRules : Compilable(t) /\ rules[i] = CompiledRule(t)
      BY <3>2 DEF AclInv
    <3>4. result = [out |-> rules[i].out, hijack |-> rules[i].hijack]
      BY <1>4, <3>2 DEF Result
    <3> QED
      BY <1>4, <3>3, <3>4, KnownOut
  <2>6. /\ answer'.req = req
        /\ answer'.out = IF M = {} THEN DefaultOutbound ELSE result.out
        /\ answer'.host = IF result.hijack # NoHijack THEN result.hijack ELSE req.host
    <3>1. CASE M = {}
      BY <1>7, <2>4, <3>1 DEF NoMatch
    <3>2. CASE M # {}
      BY <1>7, <2>5, <3>2
    <3> QED
      BY <3>1, <3>2
  <2>7. result = Result(rules, IF M = {} THEN 0 ELSE Min(M))
    BY <1>4, <2>3
  <2> QED
    BY <1>7, <2>1, <2>6, <2>7, Zenon DEF FirstRuleWins, Meant
<1> QED
  BY <1>7, <1>8, <1>9 DEF AclInv

LEMMA CompileKeeps ==
  ASSUME AclInv, NEW n \in Nat, NEW lines \in [1..n -> TextRules], Compile(lines)
  PROVE  AclInv'
<1>1. aclState = "new" /\ aclCache = <<>> /\ answer = NoAnswer /\ aclCache' = <<>> /\ answer' = NoAnswer
      /\ aclState' # "new"
  BY DEF AclInv, Compile
<1>2. (\A i \in DOMAIN rules : \E t \in TextRules : Compilable(t) /\ rules[i] = CompiledRule(t))'
      /\ (\E k \in Nat : DOMAIN rules = 1..k)'
  <2>1. CASE \A i \in DOMAIN lines : Compilable(lines[i])
    <3>1. DOMAIN lines = 1..n /\ rules' = [i \in 1..n |-> CompiledRule(lines[i])]
      BY <2>1 DEF Compile
    <3>2. \A i \in 1..n : lines[i] \in TextRules /\ Compilable(lines[i])
      BY <2>1
    <3> QED
      BY <3>1, <3>2 DEF Compilable, CompiledRule
  <2>2. CASE ~ \A i \in DOMAIN lines : Compilable(lines[i])
    BY <2>2 DEF Compile, AclInv
  <2> QED
    BY <2>1, <2>2
<1>3. (\E E : aclCache \in Seq(E) /\ \A e \in E : Remembers(rules, e))'
  <2>1. aclCache' \in Seq({}) /\ \A e \in {} : Remembers(rules, e)'
    BY <1>1
  <2> QED
    BY <2>1
<1>4. FirstRuleWins'
  BY <1>1 DEF FirstRuleWins, NoAnswer
<1> QED
  BY <1>1, <1>2, <1>3, <1>4 DEF AclInv

LEMMA AclStep == AclInv /\ [NextACL]_aclVars => AclInv'
<1> SUFFICES ASSUME AclInv, [NextACL]_aclVars PROVE AclInv'
  OBVIOUS
<1>1. CASE \E n \in 0..MaxRules : \E lines \in [1..n -> TextRules] : Compile(lines)
  <2>1. PICK n \in 0..MaxRules : \E lines \in [1..n -> TextRules] : Compile(lines)
    BY <1>1
  <2>2. n \in Nat
    BY ACLAssumption
  <2> QED
    BY <2>1, <2>2, CompileKeeps
<1>2. CASE \E req \in AclRequests : Handle(req)
  BY <1>2, HandleKeeps
<1>3. CASE UNCHANGED aclVars
  BY <1>3 DEF aclVars, AclInv, Remembers, FirstRuleWins
<1> QED
  BY <1>1, <1>2, <1>3 DEF NextACL

\* Every request is answered by the first rule that its host, protocol and port satisfy, by
\* the default outbound if none does, whatever the cache has kept or lost, and index, binary
\* search and recursive wildcard match mean what a scan of their lists means: aclEngine.handle
\* with compiledRuleSetImpl.Match, for every rule file, every sequence of requests and every
\* size of the cache, as long as no net of a country holds another.
THEOREM FirstRuleAnswers == SpecACL => []FirstRuleWins
<1>1. InitACL => AclInv
  <2> SUFFICES ASSUME InitACL PROVE AclInv
    OBVIOUS
  <2>1. rules = <<>> /\ aclCache = <<>> /\ answer = NoAnswer /\ aclState = "new"
    BY DEF InitACL
  <2>2. DOMAIN rules = {} /\ \E n \in Nat : DOMAIN rules = 1..n
    <3>1. 0 \in Nat /\ DOMAIN rules = 1..0
      BY <2>1
    <3> QED
      BY <3>1
  <2>3. \E E : aclCache \in Seq(E) /\ \A e \in E : Remembers(rules, e)
    <3>1. aclCache \in Seq({}) /\ \A e \in {} : Remembers(rules, e)
      BY <2>1
    <3> QED
      BY <3>1
  <2>4. FirstRuleWins
    BY <2>1 DEF FirstRuleWins, NoAnswer
  <2> QED
    BY <2>1, <2>2, <2>3, <2>4 DEF AclInv
<1>2. AclInv /\ [NextACL]_aclVars => AclInv'
  BY AclStep
<1>3. AclInv => FirstRuleWins
  BY DEF AclInv
<1> QED
  BY <1>1, <1>2, <1>3, PTL DEF SpecACL
============================================================================
