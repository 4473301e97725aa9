------------------------------ MODULE Sniffer ------------------------------
(***************************************************************************)
(* The request hook of extras/sniff: TCP reads the first bytes of a proxy   *)
(* stream to learn the host name the client really wants, and gives back    *)
(* every byte it took so that the server can replay them to the target; UDP *)
(* puts the CRYPTO frames of a QUIC Initial packet together.  A byte of the *)
(* stream is its position: whether the bytes look like HTTP, like TLS or    *)
(* like neither is chosen at the start, and the stream may stop (end, error *)
(* or the read deadline) after any byte.                                    *)
(***************************************************************************)
EXTENDS Naturals, Sequences, SequencesExt, FiniteSets

CONSTANTS MaxStream,    \* longest stream, in bytes
          TLSBody,      \* the content length a TLS record announces
          MaxHeader,    \* sniffMaxHTTPHeaderBytes
          HelloLen,     \* length of a QUIC ClientHello, below maxCryptoPayloadLen
          MaxFrames     \* bound on the CRYPTO frames of a packet

ASSUME SniffAssumption ==
    MaxStream \in Nat /\ TLSBody \in Nat /\ MaxHeader \in Nat /\ HelloLen \in Nat /\ MaxFrames \in Nat

VARIABLES sniffAt,      \* where TCP is
          stream,       \* [look, bytes]: what the client sends
          taken,        \* bytes read from the stream so far
          pre,          \* the local variable pre
          teeBuf,       \* teeReader.buf
          putback,      \* the buffer TCP returned
          sniffHost,    \* the host of *reqAddr: a kind of address, or "sniffed"
          sniffDeadline,     \* whether a read deadline is set on the stream
          frames        \* the CRYPTO frames of the packet given to UDP

sniffVars == <<sniffAt, stream, taken, pre, teeBuf, putback, sniffHost,
               sniffDeadline, frames>>

Looks == {"http", "tls", "other"}

Addresses == {"internal", "broken", "ip", "domain"}

Bytes(n) == [i \in 1..n |-> i]

\* Check: internal addresses, unparsable ones, ports outside the configured set and, unless
\* RewriteDomain is set, domain names are not sniffed.
Check(kind, rewriteDomain, inPorts) ==
    /\ kind \in {"ip", "domain"}
    /\ kind = "domain" => rewriteDomain
    /\ inPorts

InitSniff ==
    /\ sniffAt = "idle"
    /\ stream = [look |-> "other", bytes |-> 0]
    /\ taken = 0
    /\ pre = << >>
    /\ teeBuf = << >>
    /\ putback = << >>
    /\ sniffHost = "none"
    /\ sniffDeadline = FALSE
    /\ frames = << >>

\* io.ReadFull of n bytes after what was taken: all of them, or what there is.
ReadFull(n) == (taken + 1)..(IF taken + n <= stream.bytes THEN taken + n ELSE stream.bytes)

Took(n) == [i \in 1..Cardinality(ReadFull(n)) |-> taken + i]

\* handleTCPRequest and Run ask Check before they hand the request to the hook.
Checked(kind) == \E rewriteDomain, inPorts \in BOOLEAN : Check(kind, rewriteDomain, inPorts)

StartTCP ==
    /\ sniffAt = "idle"
    /\ \E look \in Looks, n \in 0..MaxStream : stream' = [look |-> look, bytes |-> n]
    /\ \E kind \in Addresses : Checked(kind) /\ sniffHost' = kind
    /\ sniffAt' = "pre"
    /\ sniffDeadline' = TRUE
    /\ UNCHANGED <<taken, pre, teeBuf, putback, frames>>

\* Every return runs the deferred SetReadDeadline(time.Time{}).
SniffReturn(buf) ==
    /\ sniffAt' = "done"
    /\ putback' = buf
    /\ sniffDeadline' = FALSE

\* The first three bytes decide the protocol; fewer are given back as they are.
ReadPre ==
    /\ sniffAt = "pre"
    /\ LET got == Took(3) IN
       /\ taken' = Len(got)
       /\ IF Len(got) < 3 \/ stream.look = "other"
          THEN SniffReturn(got) /\ UNCHANGED pre
          ELSE pre' = got /\ sniffAt' = stream.look /\ UNCHANGED <<putback, sniffDeadline>>
    /\ UNCHANGED <<stream, teeBuf, sniffHost, frames>>

\* A teeReader that remembers what it read from the stream but not the bytes of Pre.
TeeReadStreamOnly ==
    /\ sniffAt = "http"
    /\ Len(teeBuf) < MaxHeader
    /\ pre' = << >>
    /\ \E n \in 1..(MaxHeader - Len(teeBuf)) :
         /\ taken + n <= stream.bytes
         /\ teeBuf' = teeBuf \o [i \in 1..n |-> taken + i]
         /\ taken' = taken + n
    /\ UNCHANGED <<sniffAt, stream, putback, sniffHost, sniffDeadline, frames>>

\* teeReader.Read: first what is left of Pre (the buffer of bufio.Reader holds it all), then
\* the stream; both are remembered.
TeeRead ==
    /\ sniffAt = "http"
    /\ Len(teeBuf) < MaxHeader
    /\ \/ /\ pre # << >>
          /\ teeBuf' = teeBuf \o pre
          /\ pre' = << >>
          /\ UNCHANGED taken
       \/ /\ pre = << >>
          /\ \E n \in 1..(MaxHeader - Len(teeBuf)) :
               /\ taken + n <= stream.bytes
               /\ teeBuf' = teeBuf \o [i \in 1..n |-> taken + i]
               /\ taken' = taken + n
          /\ UNCHANGED pre
    /\ UNCHANGED <<sniffAt, stream, putback, sniffHost, sniffDeadline, frames>>

\* The name found replaces the host of *reqAddr; the port must be there to be kept.
Rewrite(buf) ==
    IF sniffHost # "broken"
    THEN SniffReturn(buf) /\ sniffHost' = "sniffed"
    ELSE /\ sniffAt' = "failed"
         /\ sniffDeadline' = FALSE
         /\ UNCHANGED <<putback, sniffHost>>

\* http.ReadRequest returns a request with or without a Host, or fails, at any point.
EndHTTP ==
    /\ sniffAt = "http"
    /\ teeBuf # << >>
    /\ \/ Rewrite(pre \o teeBuf)
       \/ SniffReturn(pre \o teeBuf) /\ UNCHANGED sniffHost
    /\ UNCHANGED <<stream, taken, pre, teeBuf, frames>>

\* The two length bytes of the record and then its content.
ReadTLS ==
    /\ sniffAt = "tls"
    /\ LET got == Took(2 + TLSBody) IN
       /\ taken' = taken + Len(got)
       /\ pre' = pre \o got
       /\ \/ SniffReturn(pre') /\ UNCHANGED sniffHost
          \/ Len(got) = 2 + TLSBody /\ Rewrite(pre')
    /\ UNCHANGED <<stream, teeBuf, frames>>

----------------------------------------------------------------------------

\* A frame is [offset, len]; the frames of one packet are slices of the ClientHello, of at
\* least a byte each.
Slices == {f \in [offset : 0..(HelloLen - 1), len : 1..HelloLen] : f.offset + f.len <= HelloLen}

Earlier(f, g) == f.offset < g.offset

\* sort.Slice: the frames in an order in which none comes after a later one.
SortFrames(fs) ==
    LET order == CHOOSE p \in SetToSeqs(DOMAIN fs) :
                    \A i, j \in DOMAIN fs : i < j => ~Earlier(fs[p[j]], fs[p[i]])
    IN [i \in DOMAIN fs |-> fs[order[i]]]

Covered(f) == (f.offset + 1)..(f.offset + f.len)

\* assembleCryptoFrames: one frame alone is returned as it is; several are sorted, must follow
\* one another, and are copied to their offsets (a gap before the first reads as zeros).
AssembleCryptoFrames(fs) ==
    LET sorted == SortFrames(fs)
        last   == sorted[Len(sorted)]
        bytes  == UNION {Covered(fs[i]) : i \in DOMAIN fs}
    IN CASE Len(fs) = 0 -> << >>
         [] Len(fs) = 1 -> [i \in 1..fs[1].len |-> fs[1].offset + i]
         [] \E i \in 2..Len(fs) : sorted[i].offset # sorted[i-1].offset + sorted[i-1].len -> << >>
         [] OTHER -> [i \in 1..(last.offset + last.len) |-> IF i \in bytes THEN i ELSE 0]

\* UDP: the payload must start with the first byte of a ClientHello (type 1, here position 1)
\* and parse as one; then the host is rewritten.
SniffUDP ==
    /\ sniffAt = "idle"
    /\ \E n \in 0..MaxFrames : frames' \in [1..n -> Slices]
    /\ \E kind \in Addresses :
         /\ Checked(kind)
         /\ IF AssembleCryptoFrames(frames') # Bytes(HelloLen)
            THEN sniffAt' = "udp" /\ sniffHost' = kind
            ELSE IF kind # "broken"
            THEN sniffAt' = "udp" /\ sniffHost' = "sniffed"
            ELSE sniffAt' = "failed" /\ sniffHost' = kind
    /\ UNCHANGED <<stream, taken, pre, teeBuf, putback, sniffDeadline>>

NextSniff ==
    \/ StartTCP
    \/ ReadPre
    \/ TeeRead
    \/ EndHTTP
    \/ ReadTLS
    \/ SniffUDP

SpecSniff == InitSniff /\ [][NextSniff]_sniffVars

----------------------------------------------------------------------------

\* What TCP gives back followed by what is still in the stream is exactly what the client
\* sent: sniffing loses, repeats and reorders no byte wherever the stream stops and whichever
\* protocol it looks like; no read deadline is left behind for the relay; and an address that
\* passed Check never makes the hook fail after it has taken bytes.
StreamIntact ==
    /\ sniffAt # "failed"
    /\ sniffAt = "done" =>
         /\ putback \o [i \in 1..(stream.bytes - taken) |-> taken + i] = Bytes(stream.bytes)
         /\ ~sniffDeadline

\* The name in a QUIC ClientHello is found exactly when the frames of the packet, in any
\* order, cover it without gap or overlap.
HelloFoundInAnyOrder ==
    sniffAt = "udp" =>
        (sniffHost = "sniffed" <=>
            /\ UNION {Covered(frames[i]) : i \in DOMAIN frames} = 1..HelloLen
            /\ \A i, j \in DOMAIN frames : i # j => Covered(frames[i]) \cap Covered(frames[j]) = {})

\* Sniffing costs a connection nothing and sees a ClientHello however it is cut (sniff.go).
SniffingIsHarmless == StreamIntact /\ HelloFoundInAnyOrder
============================================================================
