-------------------------- MODULE CompressionProofs --------------------------
(***************************************************************************)
(* Proofs about Compression: for responses and thresholds of any size and  *)
(* any Accept-Encoding header, the client decodes what the handler wrote,  *)
(* and the header tells it how.                                            *)
(***************************************************************************)
EXTENDS Compression, SequenceTheorems, WellFoundedInduction, TLAPS

USE SizesAssumption, NothingAssumption

-----------------------------------------------------------------------------
(* Runs of units. *)

LEMMA SpanFacts ==
    ASSUME NEW from \in Nat, NEW n \in Nat
    PROVE  /\ Span(from, n) \in Seq(Nat) /\ Len(Span(from, n)) = n
           /\ from + n <= MaxUnits => Span(from, n) \in Seq(Units)
BY DEF Span, Units

LEMMA SpanEmpty ==
    ASSUME NEW from \in Nat
    PROVE  Span(from, 0) = <<>>
BY DEF Span

(* A run that follows another one continues it. *)
LEMMA SpanJoin ==
    ASSUME NEW from \in Nat, NEW m \in Nat, NEW n \in Nat
    PROVE  Span(from, m) \o Span(from + m, n) = Span(from, m + n)
<1> DEFINE s == Span(from, m)
           t == Span(from + m, n)
<1>1. /\ s \in Seq(Nat) /\ t \in Seq(Nat) /\ Len(s) = m /\ Len(t) = n
      /\ Span(from, m + n) \in Seq(Nat) /\ Len(Span(from, m + n)) = m + n
  BY SpanFacts
<1>2. /\ s \o t \in Seq(Nat) /\ Len(s \o t) = m + n
      /\ \A k \in 1..(m + n) : (s \o t)[k] = IF k <= m THEN s[k] ELSE t[k - m]
  <2> HIDE DEF s, t
  <2> QED
    BY <1>1, ConcatProperties
<1>3. /\ \A k \in 1..m : s[k] = from + k
      /\ \A k \in 1..n : t[k] = from + m + k
      /\ \A k \in 1..(m + n) : Span(from, m + n)[k] = from + k
  BY DEF Span
<1> HIDE DEF s, t
<1>4. \A k \in 1..(m + n) : (s \o t)[k] = Span(from, m + n)[k]
  <2> TAKE k \in 1..(m + n)
  <2>1. CASE k <= m
    BY <1>2, <1>3, <2>1
  <2>2. CASE ~(k <= m)
    <3>1. k - m \in 1..n
      BY <2>2
    <3> QED
      BY <1>2, <1>3, <2>2, <3>1
  <2> QED
    BY <2>1, <2>2
<1>5. s \o t = Span(from, m + n)
  BY <1>1, <1>2, <1>4, SeqEqual
<1> QED
  BY <1>5 DEF s, t

(* What the handler writes next. *)
LEMMA BodyIsSpan ==
    ASSUME NEW n \in Nat, written \in Nat
    PROVE  [k \in 1..n |-> written + k] = Span(written, n)
BY DEF Span

(* A beginning of what was written. *)
LEMMA SpanPrefix ==
    ASSUME NEW m \in Nat, NEW n \in Nat, m <= n
    PROVE  IsPrefix(Span(0, m), [k \in 1..n |-> k])
<1>1. /\ Span(0, m) \in Seq(Nat) /\ Len(Span(0, m)) = m
      /\ Span(0, n) \in Seq(Nat) /\ Len(Span(0, n)) = n
  BY SpanFacts
<1>2. [k \in 1..n |-> k] = Span(0, n)
  BY DEF Span
<1>3. SubSeq(Span(0, m), 1, m) = SubSeq(Span(0, n), 1, m)
  BY DEF Span
<1> QED
  BY <1>1, <1>2, <1>3 DEF IsPrefix

-----------------------------------------------------------------------------
(* The negotiation. *)

LEMMA MinIsMember ==
    ASSUME NEW S \in SUBSET Nat, S # {}
    PROVE  Min(S) \in S
<1>1. PICK x \in S : \A y \in S : ~(<<y, x>> \in OpToRel(<, Nat))
  BY NatLessThanWellFounded, WFMin
<1>2. ASSUME NEW y \in S  PROVE x <= y
  <2>1. x \in Nat /\ y \in Nat
    OBVIOUS
  <2>2. y < x => <<y, x>> \in OpToRel(<, Nat)
    BY <2>1, Zenon DEF OpToRel
  <2>3. ~(y < x)
    BY <1>1, <2>2, Zenon
  <2> QED
    BY <2>1, <2>3
<1> QED
  BY <1>2 DEF Min

(* The greatest of the numbers up to n is n minus the least distance to n. *)
LEMMA MaxIsMember ==
    ASSUME NEW n \in Nat, NEW S \in SUBSET (1..n), S # {}
    PROVE  Max(S) \in S
<1> DEFINE D == {n - x : x \in S}
<1>0. \A x \in S : x \in Int /\ x <= n /\ n - x \in Nat
  OBVIOUS
<1>1. D \in SUBSET Nat /\ D # {}
  BY <1>0
<1>2. PICK d \in D : \A e \in D : ~(<<e, d>> \in OpToRel(<, Nat))
  BY <1>1, NatLessThanWellFounded, WFMin
<1>3. ASSUME NEW e \in D  PROVE d <= e
  <2>1. d \in Nat /\ e \in Nat
    BY <1>1
  <2>2. e < d => <<e, d>> \in OpToRel(<, Nat)
    BY <2>1, Zenon DEF OpToRel
  <2>3. ~(e < d)
    BY <1>2, <2>2, Zenon
  <2> QED
    BY <2>1, <2>3
<1>4. PICK x \in S : d = n - x
  OBVIOUS
<1>5. \A y \in S : x >= y
  <2> TAKE y \in S
  <2>1. n - x <= n - y
    BY <1>3, <1>4
  <2>2. x \in Int /\ y \in Int
    BY <1>0
  <2> QED
    BY <2>1, <2>2
<1> QED
  BY <1>4, <1>5 DEF Max

(* A response is compressed only for a client that takes it. *)
LEMMA NegotiatedIsAccepted ==
    ASSUME request \in Requests, Compresses
    PROVE  Accepts(request.accept) /\ ~request.plain
<1> DEFINE accept == request.accept
           of(e) == {k \in DOMAIN accept : accept[k].encoding = e}
<1>1. PICK n \in 0..MaxOptions : accept \in [1..n -> Options]
  BY DEF Requests
<1>2. n \in Nat /\ of("gzip") \in SUBSET (1..n) /\ of("*") \in SUBSET (1..n)
  <2>1. n \in Nat
    OBVIOUS
  <2>2. DOMAIN accept = 1..n
    BY <1>1
  <2> HIDE DEF accept
  <2> QED
    BY <2>1, <2>2
<1>3. AcceptsGzip(accept)
  BY DEF Compresses
<1> HIDE DEF accept
<1>4. CASE of("gzip") # {}
  <2>1. Min(of("gzip")) \in of("gzip")
    BY <1>2, <1>4, MinIsMember
  <2> QED
    BY <1>3, <1>4, <2>1 DEF AcceptsGzip, Accepts, Compresses, accept
<1>5. CASE of("gzip") = {}
  <2>1. of("*") # {} /\ accept[Max(of("*"))].quality > 0
    BY <1>3, <1>5 DEF AcceptsGzip
  <2>2. Max(of("*")) \in of("*")
    BY <1>2, <2>1, MaxIsMember
  <2> QED
    BY <1>5, <2>1, <2>2 DEF Accepts, Compresses, accept
<1> QED
  BY <1>4, <1>5

-----------------------------------------------------------------------------
(* What leaves the writer. *)

\* The bytes that follow those that went before, through gzip or as they are.
LEMMA PassedBytes ==
    ASSUME NEW body, NEW n \in Nat, Passes(body), TypeOK, BytesInv,
           body = Span(Len(received) + Len(zipped), n),
           Len(received) + Len(zipped) + n <= MaxUnits,
           ~compressed' => zipped = <<>>
    PROVE  /\ received' \in Seq(Units) /\ zipped' \in Seq(Units)
           /\ received' = Span(0, Len(received'))
           /\ zipped' = Span(Len(received'), Len(zipped'))
           /\ Len(received') + Len(zipped') = Len(received) + Len(zipped) + n
           /\ ~compressed' => zipped' = <<>>
           /\ compressed' => received' = received
<1> DEFINE r == Len(received)
           z == Len(zipped)
<1>1. r \in Nat /\ z \in Nat /\ received = Span(0, r) /\ zipped = Span(r, z)
  BY DEF TypeOK, BytesInv
<1>2. CASE compressed'
  <2>1. zipped' = Span(r, z) \o Span(r + z, n) /\ received' = received
    BY <1>1, <1>2 DEF Passes
  <2>2. zipped' = Span(r, z + n)
    <3>1. r \in Nat /\ z \in Nat
      BY <1>1
    <3> HIDE DEF r, z
    <3>2. Span(r, z) \o Span(r + z, n) = Span(r, z + n)
      BY ONLY <3>1, n \in Nat, SpanJoin
    <3> QED
      BY ONLY <2>1, <3>2
  <2>3. zipped' \in Seq(Units) /\ Len(zipped') = z + n
    <3> HIDE DEF r, z
    <3> QED
      BY <1>1, <2>2, SpanFacts DEF r, z
  <2>4. received' \in Seq(Units) /\ Len(received') = r
    BY <2>1 DEF TypeOK
  <2> HIDE DEF r, z
  <2>5. received' = Span(0, Len(received')) /\ zipped' = Span(Len(received'), Len(zipped'))
    BY <1>1, <2>1, <2>2, <2>3, <2>4
  <2>6. Len(received') + Len(zipped') = r + z + n
    BY <1>1, <2>3, <2>4
  <2>7. compressed' /\ received' = received
    BY <1>2, <2>1
  <2> QED
    BY <2>3, <2>4, <2>5, <2>6, <2>7 DEF r, z
<1>3. CASE ~compressed'
  <2>1. z = 0 /\ zipped' = <<>>
    BY <1>3 DEF Passes
  <2>2. received' = Span(0, r) \o Span(0 + r, n)
    BY <1>1, <1>3, <2>1 DEF Passes
  <2>3. received' = Span(0, r + n)
    <3>1. 0 + r = r /\ 0 \in Nat
      BY <1>1
    <3> HIDE DEF r, z
    <3> QED
      BY <1>1, <2>2, <3>1, SpanJoin, Zenon
  <2>4. received' \in Seq(Units) /\ Len(received') = r + n
    <3>1. 0 + (r + n) <= MaxUnits
      BY <1>1, <2>1
    <3> HIDE DEF r, z
    <3> QED
      BY <1>1, <2>3, <3>1, SpanFacts DEF r, z
  <2>5. zipped' = Span(Len(received'), Len(zipped'))
    BY <1>1, <2>1, <2>4, SpanEmpty
  <2> QED
    BY <1>1, <1>3, <2>1, <2>3, <2>4, <2>5
<1> QED
  BY <1>2, <1>3

\* The header and the status are sent once, and tell how the body is encoded.
LEMMA CommitHeader ==
    ASSUME IInv, Compresses, ~committed, NEW allow \in BOOLEAN, NEW body, Commit(allow, body),
           request' = request, status' = status
    PROVE  /\ header' \in HeaderMaps /\ committed' = TRUE /\ compressed' \in BOOLEAN
           /\ buffer' = <<>>
           /\ sent' \in Answers /\ sent' # None /\ sent'.status = status
           /\ HeaderFitsBody'
<1> USE DEF IInv
<1>1. header \in Headers /\ status \in Statuses /\ request \in Requests
  BY DEF HeadInv, TypeOK
<1>2. PICK type \in IF header.type = "" /\ body # <<>> THEN {"text", "other"} ELSE {header.type} :
        LET h    == [header EXCEPT !.type = type]
            zips == allow /\ Len(body) >= MinimumSize /\ ResponseCanBeCompressed(status', h)
        IN  /\ header' = IF zips THEN [h EXCEPT !.encoding = "gzip", !.length = @ /\ FALSE] ELSE h
            /\ committed' = TRUE /\ compressed' = zips
            /\ buffer' = <<>>
            /\ sent' = [status |-> status', header |-> header', vary |-> TRUE]
  BY Zenon DEF Commit, CommitWith
<1> DEFINE h == [header EXCEPT !.type = type]
<1>3. type \in {"", "text", "other"}
  BY <1>1, <1>2 DEF Headers
<1>4. h \in Headers /\ h.encoding = header.encoding /\ h.noTransform = header.noTransform
  BY <1>1, <1>3 DEF Headers
<1>5. \/ /\ compressed' = FALSE /\ header' = h
      \/ /\ compressed' = TRUE /\ header' = [h EXCEPT !.encoding = "gzip", !.length = FALSE]
         /\ ResponseCanBeCompressed(status, h)
  <2>1. h.length \in BOOLEAN
    BY <1>4 DEF Headers
  <2> QED
    BY <1>2, <2>1
<1> HIDE DEF h
<1>6. /\ header' \in HeaderMaps
      /\ header'.encoding = "gzip" <=> compressed'
      /\ compressed' => ~header'.length /\ ~header'.noTransform /\ status # "empty"
  BY <1>4, <1>5 DEF Headers, HeaderMaps, ResponseCanBeCompressed
<1>7. sent' = [status |-> status, header |-> header', vary |-> TRUE]
  BY <1>2
<1>8. sent' \in Answers
  BY <1>1, <1>6, <1>7 DEF Answers
<1>9. HeaderFitsBody'
  <2>1. Accepts(request'.accept) /\ ~request'.plain
    BY <1>1, NegotiatedIsAccepted
  <2> QED
    BY <1>6, <1>7, <2>1 DEF HeaderFitsBody, Accepts
<1>10. committed' = TRUE /\ buffer' = <<>> /\ compressed' \in BOOLEAN
  BY <1>2, <1>5
<1>11. sent'.status = status /\ sent' # None
  BY <1>7, <1>8
<1> QED
  BY <1>6, <1>8, <1>9, <1>10, <1>11

\* What has been sent stays as it is.
LEMMA SentStays ==
    ASSUME HeadInv, UNCHANGED <<request, header, committed, compressed, sent>>
    PROVE  HeadInv'
BY DEF HeadInv, HeaderFitsBody, Accepts

LEMMA InitHolds == Init => IInv
<1> SUFFICES ASSUME Init PROVE IInv
  OBVIOUS
<1>1. TypeOK
  <2>1. header \in HeaderMaps
    BY DEF Init, Headers, HeaderMaps
  <2>2. <<>> \in Seq(Units) /\ 0 \in 0..MaxUnits
    OBVIOUS
  <2> QED
    BY <2>1, <2>2 DEF Init, TypeOK, Statuses
<1>2. BytesInv
  BY SpanEmpty DEF Init, BytesInv
<1>3. CommitInv /\ StatusInv /\ HeadInv
  BY DEF Init, CommitInv, StatusInv, HeadInv, HeaderFitsBody
<1> QED
  BY <1>1, <1>2, <1>3 DEF IInv

LEMMA WriteHeaderStep ==
    ASSUME IInv, NEW st \in Statuses, WriteHeader(st)
    PROVE  IInv'
<1> USE DEF IInv, WriteHeader, wire, Wants
<1>1. TypeOK'
  BY DEF TypeOK
<1>2. BytesInv'
  BY DEF BytesInv
<1>3. CommitInv'
  BY DEF CommitInv, Compresses
<1>4. StatusInv'
  BY DEF StatusInv, CommitInv, Compresses
<1>5. HeadInv'
  BY SentStays
<1> QED
  BY <1>1, <1>2, <1>3, <1>4, <1>5

\* A write is kept in the buffer, or passes together with what the buffer held.
LEMMA WriteStep ==
    ASSUME IInv, NEW n \in 1..MaxUnits, Write(n)
    PROVE  IInv'
<1> USE DEF IInv
<1> DEFINE body == [k \in 1..n |-> written + k]
           r == Len(received)
           z == Len(zipped)
           b == Len(buffer)
<1>1. /\ n \in Nat /\ r \in Nat /\ z \in Nat /\ b \in Nat /\ written \in Nat
      /\ r + z + b = written /\ written + n <= MaxUnits
      /\ Compresses /\ Compresses'
  BY DEF TypeOK, BytesInv, Write, Compresses
<1>2. body = Span(r + z + b, n)
  BY <1>1, BodyIsSpan
<1>3. /\ request' = request /\ status' = status /\ wroteHeader' = TRUE /\ phase' = "handler"
      /\ written' = written + n
      /\ wanted' = IF wanted = None THEN "ok" ELSE wanted
  BY DEF Write, Wants
<1>4. \/ committed /\ UNCHANGED <<header, committed, compressed, buffer, sent>> /\ Passes(body)
      \/ ~committed /\ buffer' = buffer \o body /\ UNCHANGED <<header, committed, compressed, wire>>
      \/ ~committed /\ Commit(TRUE, buffer \o body) /\ Passes(buffer \o body)
  BY DEF Write
<1> HIDE DEF body
<1>5. StatusInv'
  <2>1. \/ sent' # None /\ sent'.status = status /\ committed' /\ ~committed
        \/ sent' = sent /\ committed' = committed
    BY <1>1, <1>3, <1>4, CommitHeader DEF wire
  <2> QED
    BY <1>1, <1>3, <2>1 DEF StatusInv, CommitInv, Statuses
<1>6. CASE committed /\ UNCHANGED <<header, committed, compressed, buffer, sent>> /\ Passes(body)
  <2>1. b = 0 /\ body = Span(r + z, n)
    <3>1. buffer = <<>>
      BY <1>1, <1>6 DEF CommitInv
    <3>2. b = 0
      BY <3>1
    <3> HIDE DEF r, z, b
    <3> QED
      BY <1>1, <1>2, <3>2
  <2>2. ~compressed' => zipped = <<>>
    BY <1>1, <1>6 DEF CommitInv
  <2>3. /\ received' \in Seq(Units) /\ zipped' \in Seq(Units)
        /\ received' = Span(0, Len(received')) /\ zipped' = Span(Len(received'), Len(zipped'))
        /\ Len(received') + Len(zipped') = r + z + n
        /\ ~compressed' => zipped' = <<>>
    BY <1>1, <1>6, <2>1, <2>2, PassedBytes
  <2>4. TypeOK'
    BY <1>1, <1>3, <1>6, <2>3 DEF TypeOK, Statuses
  <2>5. BytesInv'
    <3>1. buffer' = <<>> /\ Len(buffer') = 0
      BY <1>1, <1>6 DEF CommitInv
    <3>2. Len(received') + Len(zipped') \in Nat
      BY <1>1, <2>3
    <3> QED
      BY <1>1, <1>3, <2>1, <2>3, <3>1, <3>2, SpanEmpty DEF BytesInv
  <2>6. CommitInv'
    BY <1>1, <1>3, <1>6, <2>3 DEF CommitInv
  <2>7. HeadInv'
    BY <1>3, <1>6, SentStays
  <2> QED
    BY <1>5, <2>4, <2>5, <2>6, <2>7
<1>7. CASE ~committed
  <2> DEFINE held == buffer \o body
  <2>1. z = 0 /\ zipped = <<>> /\ received = <<>>
    BY <1>1, <1>7 DEF CommitInv
  <2>2. held = Span(r + z, b + n)
    <3>1. buffer = Span(r + z, b) /\ r + z \in Nat
      BY <1>1 DEF BytesInv
    <3> HIDE DEF r, z, b
    <3>2. Span(r + z, b) \o Span(r + z + b, n) = Span(r + z, b + n)
      BY ONLY <1>1, <3>1, SpanJoin
    <3> QED
      BY ONLY <1>2, <3>1, <3>2
  <2>3. held \in Seq(Units) /\ Len(held) = b + n
    <3> HIDE DEF r, z, b, held
    <3>1. r + z \in Nat /\ b + n \in Nat /\ (r + z) + (b + n) <= MaxUnits
      BY <1>1
    <3> QED
      BY ONLY <2>2, <3>1, SpanFacts
  <2> HIDE DEF held
  <2>4. CASE buffer' = held /\ UNCHANGED <<header, committed, compressed, wire>>
    <3>1. TypeOK'
      BY <1>1, <1>3, <2>3, <2>4 DEF TypeOK, wire, Statuses
    <3>2. BytesInv'
      BY <1>1, <1>3, <2>2, <2>3, <2>4 DEF BytesInv, wire
    <3>3. CommitInv'
      BY <1>1, <1>3, <1>7, <2>4 DEF CommitInv, wire
    <3>4. HeadInv'
      BY <1>3, <2>4, SentStays DEF wire
    <3> QED
      BY <1>5, <3>1, <3>2, <3>3, <3>4
  <2>5. CASE Commit(TRUE, held) /\ Passes(held)
    <3>1. /\ header' \in HeaderMaps /\ committed' = TRUE /\ compressed' \in BOOLEAN
          /\ buffer' = <<>> /\ sent' \in Answers /\ sent' # None /\ HeaderFitsBody'
      BY <1>1, <1>3, <1>7, <2>5, CommitHeader
    <3>2. /\ received' \in Seq(Units) /\ zipped' \in Seq(Units)
          /\ received' = Span(0, Len(received')) /\ zipped' = Span(Len(received'), Len(zipped'))
          /\ Len(received') + Len(zipped') = r + z + (b + n)
          /\ ~compressed' => zipped' = <<>>
      <4>1. b + n \in Nat /\ r + z + (b + n) <= MaxUnits
        BY <1>1
      <4> QED
        BY <2>1, <2>2, <2>5, <4>1, PassedBytes
    <3>3. TypeOK'
      BY <1>1, <1>3, <3>1, <3>2 DEF TypeOK, Statuses
    <3>4. BytesInv'
      <4>1. buffer' = <<>> /\ Len(buffer') = 0 /\ Len(received') + Len(zipped') \in Nat
        BY <1>1, <3>1, <3>2
      <4> QED
        BY <1>1, <1>3, <3>2, <4>1, SpanEmpty DEF BytesInv
    <3>5. CommitInv'
      BY <1>1, <1>3, <3>1, <3>2 DEF CommitInv
    <3>6. HeadInv'
      BY <3>1 DEF HeadInv
    <3> QED
      BY <1>5, <3>3, <3>4, <3>5, <3>6
  <2> QED
    BY <1>4, <1>7, <2>4, <2>5 DEF held
<1> QED
  BY <1>4, <1>6, <1>7

\* What is let go of is received after what was received before.
LEMMA ReleasedBytes ==
    ASSUME TypeOK, BytesInv, NEW s, NEW k \in Nat, s = Span(Len(received), k),
           Len(received) + k <= MaxUnits, received' = received \o s
    PROVE  /\ received' \in Seq(Units) /\ Len(received') = Len(received) + k
           /\ received' = Span(0, Len(received'))
<1> DEFINE r == Len(received)
<1>1. r \in Nat /\ received = Span(0, r) /\ 0 + r = r
  BY DEF TypeOK, BytesInv
<1>2. r + k \in Nat /\ 0 + (r + k) <= MaxUnits
  BY <1>1
<1> HIDE DEF r
<1>3. Span(0, r) \o Span(0 + r, k) = Span(0, r + k)
  BY ONLY <1>1, k \in Nat, SpanJoin
<1>4. received' = Span(0, r + k)
  BY <1>1, <1>3 DEF r
<1>5. received' \in Seq(Units) /\ Len(received') = r + k
  BY ONLY <1>2, <1>4, SpanFacts
<1> QED
  BY <1>4, <1>5 DEF r

\* A Flush, and the end of the handler: `sends` is what follows the commit.
LEMMA FlushStep ==
    ASSUME IInv, Flush \/ Return
    PROVE  IInv'
<1> USE DEF IInv
<1> DEFINE r == Len(received)
           z == Len(zipped)
           b == Len(buffer)
<1>1. /\ r \in Nat /\ z \in Nat /\ b \in Nat /\ written \in Nat /\ written <= MaxUnits
      /\ r + z + b = written /\ Compresses /\ Compresses'
      /\ zipped = Span(r, z) /\ buffer = Span(r + z, b)
  <2>1. Compresses /\ Compresses'
    BY DEF Flush, Return, Compresses
  <2>2. zipped = Span(r, z) /\ buffer = Span(r + z, b) /\ r + z + b = written
    BY DEF BytesInv
  <2>3. r \in Nat /\ z \in Nat /\ b \in Nat /\ written \in Nat /\ written <= MaxUnits
    BY DEF TypeOK
  <2> QED
    BY <2>1, <2>2, <2>3
<1>2. /\ UNCHANGED <<request, status, wroteHeader, written>>
      /\ phase' \in {"flushed", "closed"}
      /\ wanted' = IF wanted = None THEN "ok" ELSE wanted
  BY DEF Flush, Return, Wants
<1>3. CASE committed
  <2>1. /\ received' = received \o zipped /\ zipped' = <<>>
        /\ UNCHANGED <<header, committed, compressed, buffer, sent>>
    BY <1>3 DEF Flush, Return
  <2>2. buffer = <<>> /\ b = 0
    BY <1>1, <1>3 DEF CommitInv
  <2>3. received' \in Seq(Units) /\ Len(received') = r + z /\ received' = Span(0, Len(received'))
    <3>1. r + z <= MaxUnits
      BY <1>1, <2>2
    <3> QED
      BY <1>1, <2>1, <3>1, ReleasedBytes
  <2>4. TypeOK'
    BY <1>2, <2>1, <2>3 DEF TypeOK, Statuses
  <2>5. BytesInv'
    <3>1. zipped' = Span(Len(received'), 0) /\ buffer' = Span(Len(received') + 0, 0)
      BY <1>1, <2>1, <2>2, <2>3, SpanEmpty
    <3>2. Len(zipped') = 0 /\ Len(buffer') = 0
      BY <2>1, <2>2
    <3> QED
      BY <1>1, <1>2, <2>2, <2>3, <3>1, <3>2 DEF BytesInv
  <2>6. CommitInv' /\ StatusInv'
    BY <1>1, <1>2, <1>3, <2>1 DEF CommitInv, StatusInv, Statuses
  <2>7. HeadInv'
    BY <1>2, <2>1, SentStays
  <2> QED
    BY <2>4, <2>5, <2>6, <2>7
<1>4. CASE ~committed
  <2>1. zipped = <<>> /\ z = 0 /\ received = <<>> /\ buffer = Span(r, b) /\ r + b = written
    <3>1. zipped = <<>> /\ received = <<>>
      BY <1>1, <1>4 DEF CommitInv
    <3>2. z = 0
      BY <3>1
    <3> HIDE DEF r, z, b
    <3> QED
      BY <1>1, <3>1, <3>2
  <2>2. PICK allow \in BOOLEAN :
          /\ Commit(allow, buffer)
          /\ \/ Passes(buffer) /\ ~allow
             \/ received' = received \o buffer /\ zipped' = <<>>
    BY <1>4 DEF Flush, Return
  <2>3. /\ header' \in HeaderMaps /\ committed' = TRUE /\ compressed' \in BOOLEAN
        /\ buffer' = <<>> /\ sent' \in Answers /\ sent' # None /\ sent'.status = status
        /\ HeaderFitsBody'
    BY <1>1, <1>2, <1>4, <2>2, CommitHeader
  <2>4. received' = received \o buffer /\ zipped' = <<>>
    <3>1. CASE Passes(buffer) /\ ~allow
      <4>1. ~compressed'
        BY <2>2, <3>1 DEF Commit, CommitWith
      <4> QED
        BY <2>1, <3>1, <4>1 DEF Passes
    <3> QED
      BY <2>2, <3>1
  <2>5. received' \in Seq(Units) /\ Len(received') = r + b /\ received' = Span(0, Len(received'))
    BY <1>1, <2>1, <2>4, ReleasedBytes
  <2>6. TypeOK'
    BY <1>2, <2>3, <2>4, <2>5 DEF TypeOK, Statuses
  <2>7. BytesInv'
    <3>1. zipped' = Span(Len(received'), 0) /\ buffer' = Span(Len(received') + 0, 0)
      BY <1>1, <2>3, <2>4, <2>5, SpanEmpty
    <3>2. Len(zipped') = 0 /\ Len(buffer') = 0
      BY <2>3, <2>4
    <3> QED
      BY <1>1, <1>2, <2>1, <2>5, <3>1, <3>2 DEF BytesInv
  <2>8. CommitInv'
    BY <1>1, <1>2, <2>3, <2>4 DEF CommitInv
  <2>9. StatusInv'
    BY <1>1, <1>2, <1>4, <2>3 DEF StatusInv, Statuses
  <2>10. HeadInv'
    BY <2>3 DEF HeadInv
  <2> QED
    BY <2>6, <2>7, <2>8, <2>9, <2>10
<1> QED
  BY <1>3, <1>4

\* The plain writer.
LEMMA ThroughStep ==
    ASSUME IInv, NEW st \in Statuses, NEW n \in Nat, NEW next \in {"handler", "flushed", "closed"},
           Through(st, n, next)
    PROVE  IInv'
<1> USE DEF IInv, Through, fields
<1> DEFINE r == Len(received)
<1>1. /\ r \in Nat /\ written = r /\ r + n <= MaxUnits
      /\ ~Compresses /\ ~Compresses'
      /\ zipped = <<>> /\ buffer = <<>> /\ ~committed /\ ~compressed
  BY DEF TypeOK, BytesInv, CommitInv, Compresses
<1>2. received' = received \o Span(r, n)
  BY <1>1, BodyIsSpan DEF TypeOK
<1>3. received' \in Seq(Units) /\ Len(received') = r + n /\ received' = Span(0, Len(received'))
  BY <1>1, <1>2, ReleasedBytes
<1>4. header \in Headers
  BY <1>1 DEF HeadInv
<1>5. sent' \in Answers /\ sent' # None
  <2>1. [status |-> st, header |-> header, vary |-> TRUE] \in Answers
    BY <1>4 DEF Answers, Headers, HeaderMaps
  <2> QED
    BY <2>1 DEF TypeOK
<1>6. TypeOK'
  BY <1>1, <1>3, <1>5 DEF TypeOK, Wants
<1>7. BytesInv'
  <2>1. zipped' = Span(Len(received'), 0) /\ buffer' = Span(Len(received') + 0, 0)
    <3>1. Len(received') \in Nat /\ Len(received') + 0 \in Nat
      BY <1>1, <1>3
    <3>2. Span(Len(received'), 0) = <<>> /\ Span(Len(received') + 0, 0) = <<>>
      BY ONLY <3>1, SpanEmpty
    <3> QED
      BY <1>1, <3>2
  <2>2. Len(zipped') = 0 /\ Len(buffer') = 0
    BY <1>1
  <2> QED
    BY <1>1, <1>3, <2>1, <2>2 DEF BytesInv
<1>8. CommitInv'
  BY <1>1, <1>5 DEF CommitInv
<1>9. StatusInv'
  BY <1>1, <1>5 DEF StatusInv, CommitInv, Wants
<1>10. HeadInv'
  BY <1>1, <1>4 DEF HeadInv, HeaderFitsBody, Headers
<1> QED
  BY <1>6, <1>7, <1>8, <1>9, <1>10

-----------------------------------------------------------------------------
(* The theorems. *)

\* The invariant holds in every reachable state.
THEOREM Inductive == Spec => []IInv
<1>1. IInv /\ [Next]_vars => IInv'
  <2> SUFFICES ASSUME IInv, [Next]_vars PROVE IInv'
    OBVIOUS
  <2>1. ASSUME NEW st \in Statuses, ThroughWriteHeader(st)
        PROVE  IInv'
    BY <2>1, ThroughStep DEF ThroughWriteHeader
  <2>2. ASSUME NEW n \in 1..MaxUnits, ThroughWrite(n)
        PROVE  IInv'
    BY <2>2, ThroughStep DEF ThroughWrite, Statuses
  <2>3. CASE ThroughFlush \/ ThroughReturn
    BY <2>3, ThroughStep DEF ThroughFlush, ThroughReturn, Statuses
  <2>4. CASE UNCHANGED vars
    <3>1. TypeOK' /\ BytesInv'
      BY <2>4 DEF IInv, TypeOK, BytesInv, vars
    <3>2. CommitInv' /\ StatusInv' /\ HeadInv'
      BY <2>4, SentStays DEF IInv, CommitInv, Compresses, StatusInv, vars
    <3> QED
      BY <3>1, <3>2 DEF IInv
  <2> QED
    BY <2>1, <2>2, <2>3, <2>4, WriteHeaderStep, WriteStep, FlushStep DEF Next
<1> QED
  BY InitHolds, <1>1, PTL DEF Spec

\* Every field of the writer, and what is on the wire, keeps its type.
THEOREM TypeCorrect == Spec => []TypeOK
<1>1. IInv => TypeOK
  BY DEF IInv
<1> QED
  BY Inductive, <1>1, PTL

\* Whatever is written and flushed, the client has a beginning of it, and all of
\* it after a Flush and at the end (compressionResponseWriter).
THEOREM ResponsesArrive == Spec => []ClientReadsWhatWasWritten
<1>1. IInv => ClientReadsWhatWasWritten
  <2> SUFFICES ASSUME IInv PROVE ClientReadsWhatWasWritten
    OBVIOUS
  <2> USE DEF IInv
  <2>1. /\ Len(received) \in Nat /\ Len(zipped) \in Nat /\ Len(buffer) \in Nat /\ written \in Nat
        /\ Len(received) + Len(zipped) + Len(buffer) = written /\ received = Span(0, Len(received))
    BY DEF TypeOK, BytesInv
  <2>2. IsPrefix(received, [k \in 1..written |-> k])
    <3>1. Len(received) <= written
      BY <2>1
    <3> QED
      BY <2>1, <3>1, SpanPrefix
  <2>3. phase \in {"flushed", "closed"} => zipped = <<>> /\ buffer = <<>> /\ sent # None
    BY DEF CommitInv, StatusInv
  <2>4. phase \in {"flushed", "closed"} => Len(received) = written
    BY <2>1, <2>3
  <2> QED
    BY <2>2, <2>3, <2>4 DEF ClientReadsWhatWasWritten, StatusInv
<1> QED
  BY Inductive, <1>1, PTL

\* The header tells how to decode the body, for any Accept-Encoding header
\* (commit, responseCanBeCompressed and acceptsGzip).
THEOREM HeadersFit == Spec => []HeaderFitsBody
<1>1. IInv => HeaderFitsBody
  BY DEF IInv, HeadInv
<1> QED
  BY Inductive, <1>1, PTL

=============================================================================
