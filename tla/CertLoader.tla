----------------------------- MODULE CertLoader -----------------------------
(***************************************************************************)
(* LocalCertificateLoader of app/internal/utils: TLS handshakes share one   *)
(* cached certificate and reload it when the modification time of either    *)
(* file differs from the cached one.  A renewal writes the two files one    *)
(* after the other while handshakes are under way; files may also be away   *)
(* for a moment.  A file is the number of its last version, which also      *)
(* serves as its modification time, and a key fits the certificate of the   *)
(* same version.                                                            *)
(***************************************************************************)
EXTENDS Naturals

CONSTANTS Handshakes,   \* calls of GetCertificate
          Renewals      \* bound: how often the files are renewed

NoCache == [gen |-> 0, cert |-> 0, certMod |-> 0, keyMod |-> 0]

VARIABLES certFile, keyFile,    \* versions on disk
          away,                 \* the files cannot be read for now
          certCache,            \* l.cache; gen tells one pointer from another
          cacheGen,             \* caches stored so far
          certLock,             \* l.lock: who holds it
          hs                    \* per handshake: where it is and its local variables

certVars == <<certFile, keyFile, away, certCache, cacheGen, certLock, hs>>

InitCert ==
    /\ certFile = 1 /\ keyFile = 1
    /\ away = FALSE
    /\ certCache = NoCache
    /\ cacheGen = 0
    /\ certLock = "free"
    /\ hs = [h \in Handshakes |-> [at |-> "start", cache |-> NoCache, new |-> NoCache, served |-> 0]]

\* Environment: the operator replaces the certificate, then the key; a file system error comes and goes.
RenewCert == certFile = keyFile /\ certFile <= Renewals /\ certFile' = certFile + 1
             /\ UNCHANGED <<keyFile, away, certCache, cacheGen, certLock, hs>>

RenewKey == keyFile < certFile /\ keyFile' = certFile
            /\ UNCHANGED <<certFile, away, certCache, cacheGen, certLock, hs>>

ToggleAway == away' = ~away /\ UNCHANGED <<certFile, keyFile, certCache, cacheGen, certLock, hs>>

\* The handshake h moves on; it leaves the lock as given.
Step(h, rec, lock) ==
    /\ hs' = [hs EXCEPT ![h] = rec]
    /\ certLock' = lock
    /\ UNCHANGED <<certFile, keyFile, away>>

Serve(h, version, lock) ==
    Step(h, [hs[h] EXCEPT !.at = "done", !.served = version], lock) /\ UNCHANGED <<certCache, cacheGen>>

\* checkModTime
Stat(c) == [c EXCEPT !.certMod = certFile, !.keyMod = keyFile]

\* cache := l.cache.Load()
LoadCache(h) ==
    /\ hs[h].at = "start"
    /\ Step(h, [hs[h] EXCEPT !.at = "stat", !.cache = certCache], certLock)
    /\ UNCHANGED <<certCache, cacheGen>>

\* The comparison with the modification times: a failing stat or unchanged files serve the cache.
CheckModTime(h) ==
    /\ hs[h].at = "stat"
    /\ LET c == hs[h].cache
           current == c # NoCache /\ c.certMod = certFile /\ c.keyMod = keyFile
       IN IF away \/ current
          THEN Serve(h, c.cert, certLock)
          ELSE Step(h, [hs[h] EXCEPT !.at = "lock"], certLock) /\ UNCHANGED <<certCache, cacheGen>>

\* TryLock with a cache, Lock without one.
TakeLock(h) ==
    /\ hs[h].at = "lock"
    /\ IF certLock = "free"
       THEN Step(h, [hs[h] EXCEPT !.at = "recheck"], h) /\ UNCHANGED <<certCache, cacheGen>>
       ELSE hs[h].cache # NoCache /\ Serve(h, hs[h].cache.cert, certLock)

\* Another goroutine updated the cache in the meantime.
Recheck(h) ==
    /\ hs[h].at = "recheck"
    /\ IF certCache.gen # hs[h].cache.gen
       THEN Serve(h, certCache.cert, "free")
       ELSE Step(h, [hs[h] EXCEPT !.at = "make"], certLock) /\ UNCHANGED <<certCache, cacheGen>>

\* The pair is complete when the key fits the certificate.
Fits(c) == c.cert = keyFile

\* makeCache, first half: the modification times.
MakeStat(h) ==
    /\ hs[h].at = "make"
    /\ IF away THEN Serve(h, hs[h].cache.cert, "free")
       ELSE /\ Step(h, [hs[h] EXCEPT !.at = "load", !.new = Stat(NoCache)], certLock)
            /\ UNCHANGED <<certCache, cacheGen>>

\* A makeCache that notes the modification times only after it has read the files.
LoadKeyThenStat(h) ==
    /\ hs[h].at = "key"
    /\ IF away \/ ~Fits(hs[h].new)
       THEN Serve(h, hs[h].cache.cert, "free")
       ELSE /\ cacheGen' = cacheGen + 1
            /\ certCache' = [Stat(hs[h].new) EXCEPT !.gen = cacheGen + 1]
            /\ Step(h, [hs[h] EXCEPT !.at = "done", !.served = hs[h].new.cert], "free")

\* makeCache, second half: LoadX509KeyPair reads the certificate ...
LoadCert(h) ==
    /\ hs[h].at = "load"
    /\ IF away THEN Serve(h, hs[h].cache.cert, "free")
       ELSE /\ Step(h, [hs[h] EXCEPT !.at = "key", !.new.cert = certFile], certLock)
            /\ UNCHANGED <<certCache, cacheGen>>

\* ... then the key; when they fit, the new cache is stored and served, otherwise the old one.
LoadKey(h) ==
    /\ hs[h].at = "key"
    /\ IF away \/ ~Fits(hs[h].new)
       THEN Serve(h, hs[h].cache.cert, "free")
       ELSE /\ cacheGen' = cacheGen + 1
            /\ certCache' = [hs[h].new EXCEPT !.gen = cacheGen + 1]
            /\ Step(h, [hs[h] EXCEPT !.at = "done", !.served = hs[h].new.cert], "free")

NextCert ==
    \/ RenewCert \/ RenewKey \/ ToggleAway
    \/ \E h \in Handshakes : \/ LoadCache(h) \/ CheckModTime(h) \/ TakeLock(h) \/ Recheck(h)
                             \/ MakeStat(h) \/ LoadCert(h) \/ LoadKey(h)

SpecCert == InitCert /\ [][NextCert]_certVars

----------------------------------------------------------------------------

\* A cached certificate that passes for up to date (both modification times agree with the
\* files) is the certificate on disk: a renewal between the stat and the load never leaves an
\* old certificate behind that no later handshake would reload.
UpToDateIsCurrent ==
    certCache # NoCache /\ certCache.certMod = certFile /\ certCache.keyMod = keyFile
        => certCache.cert = certFile
============================================================================
