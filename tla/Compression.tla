------------------------------ MODULE Compression ------------------------------
(***************************************************************************)
(* The response writer of internal/api/compression.go, which stands        *)
(* between every handler of the server and the client.  It holds a         *)
(* response back until it knows whether compressing it is worth it, and    *)
(* must then be indistinguishable, once decoded, from the plain writer.    *)
(*                                                                         *)
(* A handler is any sequence of WriteHeader, Write and Flush, with headers *)
(* it sets before.  Bytes are counted in units of half the minimal size of *)
(* a compressed response; a unit is the number of its place in what the    *)
(* handler wrote.  A connection that breaks is left out.                   *)
(***************************************************************************)
EXTENDS Integers, Sequences, FiniteSets, SequencesExt

CONSTANTS
    MinimumSize,   \* minimumCompressedResponseSize, in units
    MaxUnits,      \* bound: units that a handler writes
    MaxOptions,    \* bound: options of an Accept-Encoding header
    None

ASSUME SizesAssumption ==
    MinimumSize \in Nat \ {0} /\ MaxUnits \in Nat /\ MaxOptions \in Nat

Options  == [encoding : {"gzip", "*", "br"}, quality : {0, 1}]
Requests == [plain : BOOLEAN,   \* a HEAD request, or one of a Range
             accept : UNION {[1..n -> Options] : n \in 0..MaxOptions}]

\* What a handler sets: "" is absent, "other" a type that is not compressible.
Headers == [type : {"", "text", "other"}, encoding : {"", "br"},
            length : BOOLEAN, noTransform : BOOLEAN]

Statuses == {"ok", "error", "empty"}   \* "empty": 204 and 304

HeaderMaps == [type : {"", "text", "other"}, encoding : {"", "br", "gzip"},
               length : BOOLEAN, noTransform : BOOLEAN]

Answers == [status : Statuses, header : HeaderMaps, vary : BOOLEAN]

ASSUME NothingAssumption == None \notin Statuses /\ None \notin Answers

VARIABLES
    request,     \* what the client sent
    header,      \* the header map
    status, wroteHeader, committed, compressed,   \* the writer's fields
    buffer,      \* what it holds back
    zipped,      \* what its gzip.Writer holds back
    sent,        \* the status and header on the wire, or None
    received,    \* the units the client can decode
    written,     \* history: units written by the handler
    wanted,      \* history: the status the plain writer would send, or None
    phase        \* "handler", "flushed" (right after a Flush) or "closed"

fields == <<status, wroteHeader, committed, compressed, buffer>>
wire   == <<zipped, sent, received>>
vars   == <<request, header, status, wroteHeader, committed, compressed, buffer,
            zipped, sent, received, written, wanted, phase>>

-----------------------------------------------------------------------------
(* Decisions. *)

\* The first option for gzip decides, or else the last wildcard.
AcceptsGzip(accept) ==
    LET of(e) == {k \in DOMAIN accept : accept[k].encoding = e} IN
    IF of("gzip") # {} THEN accept[Min(of("gzip"))].quality > 0
    ELSE of("*") # {} /\ accept[Max(of("*"))].quality > 0

\* Whether compressResponses puts the compressing writer in between.
Compresses == ~request.plain /\ AcceptsGzip(request.accept)

ResponseCanBeCompressed(st, h) ==
    /\ st # "empty"
    /\ h.encoding = "" /\ ~h.noTransform /\ h.type = "text"

\* commit(allowCompression) with `body` in the buffer: `head` is what goes on
\* the wire, and the body follows it, through the gzip.Writer or as it is.
CommitWith(allow, body, keeps) ==
    \E type \in IF header.type = "" /\ body # <<>> THEN {"text", "other"} ELSE {header.type} :
        LET h    == [header EXCEPT !.type = type]
            zips == allow /\ Len(body) >= MinimumSize /\ ResponseCanBeCompressed(status', h)
        IN  /\ header' = IF zips THEN [h EXCEPT !.encoding = "gzip", !.length = @ /\ keeps] ELSE h
            /\ committed' = TRUE /\ compressed' = zips
            /\ buffer' = <<>>
            /\ sent' = [status |-> status', header |-> header', vary |-> TRUE]

\* Fault: the length of the plain body is left in the header.
CommitKeepingLength(allow, body) == CommitWith(allow, body, TRUE)

Commit(allow, body) == CommitWith(allow, body, FALSE)

\* Bytes on their way to the client.
Passes(body) ==
    IF compressed' THEN zipped' = zipped \o body /\ UNCHANGED received
    ELSE received' = received \o body /\ UNCHANGED zipped

-----------------------------------------------------------------------------
Init ==
    /\ request \in Requests
    /\ header \in Headers
    /\ status = "ok" /\ wroteHeader = FALSE /\ committed = FALSE /\ compressed = FALSE
    /\ buffer = <<>> /\ zipped = <<>> /\ sent = None /\ received = <<>>
    /\ written = 0 /\ wanted = None /\ phase = "handler"

Wants(st) == wanted' = IF wanted = None THEN st ELSE wanted

\* The first status counts; nothing is sent yet.
WriteHeader(st) ==
    /\ phase # "closed" /\ Compresses
    /\ wroteHeader' = TRUE
    /\ status' = IF wroteHeader THEN status ELSE st
    /\ Wants(st)
    /\ phase' = "handler"
    /\ UNCHANGED <<request, header, committed, compressed, buffer, wire, written>>

\* A response with no body is not written to.
MayWrite == status # "empty" /\ wanted # "empty"

Write(n) ==
    /\ phase # "closed" /\ Compresses /\ MayWrite
    /\ written + n <= MaxUnits
    /\ written' = written + n
    /\ wroteHeader' = TRUE /\ UNCHANGED <<status, request>>
    /\ LET body == [k \in 1..n |-> written + k] IN
        IF committed
        THEN UNCHANGED <<header, committed, compressed, buffer, sent>> /\ Passes(body)
        ELSE IF Len(buffer) + n < MinimumSize
        THEN buffer' = buffer \o body /\ UNCHANGED <<header, committed, compressed, wire>>
        ELSE Commit(TRUE, buffer \o body) /\ Passes(buffer \o body)
    /\ Wants("ok")
    /\ phase' = "handler"

\* Fault: Flush does not send what is held back.
FlushOnlyCommitted ==
    /\ phase # "closed" /\ Compresses
    /\ UNCHANGED <<request, header, fields, written>>
    /\ IF committed
       THEN received' = received \o zipped /\ zipped' = <<>> /\ UNCHANGED sent
       ELSE UNCHANGED wire
    /\ Wants("ok")
    /\ phase' = "flushed"

\* What is held back is sent, uncompressed if it was not committed before.
Flush ==
    /\ phase # "closed" /\ Compresses
    /\ UNCHANGED <<request, status, wroteHeader, written>>
    /\ IF committed
       THEN /\ received' = received \o zipped /\ zipped' = <<>>
            /\ UNCHANGED <<header, committed, compressed, buffer, sent>>
       ELSE Commit(FALSE, buffer) /\ Passes(buffer)
    /\ Wants("ok")
    /\ phase' = "flushed"

\* The handler returns: close() commits what is left, and ends the gzip stream.
Return ==
    /\ phase # "closed" /\ Compresses
    /\ UNCHANGED <<request, status, wroteHeader, written>>
    /\ zipped' = <<>>
    /\ IF committed
       THEN received' = received \o zipped
            /\ UNCHANGED <<header, committed, compressed, buffer, sent>>
       ELSE Commit(TRUE, buffer) /\ received' = received \o buffer
    /\ Wants("ok")
    /\ phase' = "closed"

-----------------------------------------------------------------------------
(* varyResponseWriter: every call passes through, and adds the Vary header. *)

Through(st, n, next) ==
    /\ phase # "closed" /\ ~Compresses /\ written + n <= MaxUnits
    /\ sent' = IF sent # None THEN sent
               ELSE [status |-> st, header |-> header, vary |-> TRUE]
    /\ written' = written + n
    /\ received' = received \o [k \in 1..n |-> written + k]
    /\ Wants(st)
    /\ phase' = next
    /\ UNCHANGED <<request, header, fields, zipped>>

ThroughWriteHeader(st) == Through(st, 0, "handler")
ThroughWrite(n)        == MayWrite /\ Through("ok", n, "handler")
ThroughFlush           == Through("ok", 0, "flushed")
ThroughReturn          == Through("ok", 0, "closed")

-----------------------------------------------------------------------------
Next ==
    \/ \E st \in Statuses : WriteHeader(st) \/ ThroughWriteHeader(st)
    \/ \E n \in 1..MaxUnits : Write(n) \/ ThroughWrite(n)
    \/ Flush \/ Return \/ ThroughFlush \/ ThroughReturn

Spec == Init /\ [][Next]_vars

-----------------------------------------------------------------------------
(* Properties. *)

Units == 1..MaxUnits

\* Every variable has its type.
TypeOK ==
    /\ request \in Requests
    /\ header \in HeaderMaps
    /\ status \in Statuses /\ wanted \in Statuses \cup {None}
    /\ wroteHeader \in BOOLEAN /\ committed \in BOOLEAN /\ compressed \in BOOLEAN
    /\ buffer \in Seq(Units) /\ zipped \in Seq(Units) /\ received \in Seq(Units)
    /\ sent \in Answers \cup {None}
    /\ written \in 0..MaxUnits
    /\ phase \in {"handler", "flushed", "closed"}

\* The client decodes exactly what the handler wrote, in order and with the
\* status of the plain writer: all of it after a Flush and at the end, whenever
\* the writer decided to compress or not to.
ClientReadsWhatWasWritten ==
    /\ IsPrefix(received, [k \in 1..written |-> k])
    /\ phase \in {"flushed", "closed"} =>
        Len(received) = written /\ sent # None /\ sent.status = wanted

Accepts(accept) ==
    LET of(e) == {k \in DOMAIN accept : accept[k].encoding = e} IN
    \/ \E k \in of("gzip") : accept[k].quality > 0
    \/ of("gzip") = {} /\ \E k \in of("*") : accept[k].quality > 0

\* The header tells how to decode the body: gzip only if the body is, for a
\* client that accepts it, without the length of the plain body, and never on
\* top of another encoding; a cache is told that the answer varies.
HeaderFitsBody ==
    sent # None =>
        /\ sent.vary
        /\ sent.header.encoding = "gzip" <=> compressed
        /\ compressed => Accepts(request.accept) /\ ~request.plain /\ ~sent.header.length
                         /\ sent.status # "empty" /\ ~sent.header.noTransform

-----------------------------------------------------------------------------
(* The inductive invariant behind them. *)

\* The n units that follow unit `from`.
Span(from, n) == [k \in 1..n |-> from + k]

\* What was written is with the client, in the gzip.Writer or in the buffer, in
\* this order.
BytesInv ==
    /\ received = Span(0, Len(received))
    /\ zipped = Span(Len(received), Len(zipped))
    /\ buffer = Span(Len(received) + Len(zipped), Len(buffer))
    /\ Len(received) + Len(zipped) + Len(buffer) = written

\* Nothing passes before the commit, and nothing is held back by the buffer
\* after it, nor by anyone after a Flush or the end.
CommitInv ==
    IF Compresses
    THEN /\ committed <=> sent # None
         /\ committed => buffer = <<>>
         /\ ~committed => ~compressed /\ received = <<>>
         /\ ~compressed => zipped = <<>>
         /\ phase \in {"flushed", "closed"} => committed /\ zipped = <<>>
    ELSE /\ ~committed /\ ~compressed /\ buffer = <<>> /\ zipped = <<>>
         /\ wanted # None => sent # None

\* The status that will be sent is the one the plain writer has sent.
StatusInv ==
    /\ wanted = None => sent = None /\ ~wroteHeader /\ status = "ok" /\ phase = "handler"
    /\ sent # None => sent.status = wanted
    /\ Compresses /\ ~committed /\ wanted # None => wroteHeader /\ status = wanted

\* The header is the handler's until the commit.
HeadInv == (~committed => header \in Headers) /\ HeaderFitsBody

IInv == TypeOK /\ BytesInv /\ CommitInv /\ StatusInv /\ HeadInv

=============================================================================
