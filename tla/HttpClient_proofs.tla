--------------------------- MODULE HttpClient_proofs ---------------------------
(* makeRequest returns a status its callers expect, and what arrives whole is *)
(* decoded for what it says, for any number of polls.                         *)
EXTENDS HttpClient, SequenceTheorems, TLAPS

Units == {"H1", "H2", "B1", "B2"}

-----------------------------------------------------------------------------
(* Sequences that are short *)

\* A sequence without elements is the empty one, and one with an element is not.
LEMMA EmptyOrNot ==
    ASSUME NEW S, NEW s \in Seq(S)
    PROVE  s = <<>> <=> Len(s) = 0
  OBVIOUS

\* A sequence of one element.
LEMMA OfOne ==
    ASSUME NEW S, NEW s \in Seq(S), Len(s) = 1
    PROVE  s = <<s[1]>>
  OBVIOUS

\* A sequence of two elements.
LEMMA OfTwo ==
    ASSUME NEW S, NEW s \in Seq(S), Len(s) = 2
    PROVE  s = <<s[1], s[2]>>
  OBVIOUS

-----------------------------------------------------------------------------
(* What a read finds *)

\* The body of the reply, unit by unit.
LEMMA BodyUnits ==
    /\ Body \in Seq(Units)
    /\ reply.hasBody => Len(Body) = 2 /\ Body[1] = "B1" /\ Body[2] = "B2"
    /\ ~reply.hasBody => Len(Body) = 0
  <1>1. CASE reply.hasBody
    <2>1. Body = <<"B1", "B2">>
      BY <1>1 DEF Body
    <2> QED  BY <1>1, <2>1 DEF Units
  <1>2. CASE ~reply.hasBody
    BY <1>2 DEF Body
  <1> QED  BY <1>1, <1>2

\* The reply, unit by unit.
LEMMA WireUnits ==
    /\ Wire \in Seq(Units) /\ Wire[1] = "H1" /\ Wire[2] = "H2"
    /\ reply.hasBody => Len(Wire) = 4 /\ Wire[3] = "B1" /\ Wire[4] = "B2"
    /\ ~reply.hasBody => Len(Wire) = 2
  <1>1. Header \in Seq(Units) /\ Len(Header) = 2 /\ Header[1] = "H1" /\ Header[2] = "H2"
    BY DEF Header, Units
  <1>2. /\ Wire \in Seq(Units) /\ Len(Wire) = Len(Header) + Len(Body)
        /\ \A i \in 1 .. Len(Header) + Len(Body) :
              Wire[i] = IF i <= Len(Header) THEN Header[i] ELSE Body[i - Len(Header)]
    BY <1>1, BodyUnits, ConcatProperties DEF Wire
  <1>3. Wire \in Seq(Units) /\ Wire[1] = "H1" /\ Wire[2] = "H2"
    <2>1. Len(Body) \in Nat
      BY BodyUnits
    <2> QED  BY <1>1, <1>2, <2>1
  <1>4. CASE reply.hasBody
    <2>1. Len(Body) = 2 /\ Body[1] = "B1" /\ Body[2] = "B2"
      BY <1>4, BodyUnits
    <2>2. Len(Wire) = 4
      BY <1>1, <1>2, <2>1
    <2>3. Wire[3] = Body[1]
      <3>1. 3 \in 1 .. Len(Header) + Len(Body)
        BY <1>1, <2>1
      <3>2. Wire[3] = Body[3 - Len(Header)]
        BY <1>1, <1>2, <3>1
      <3> QED  BY <1>1, <3>2
    <2>4. Wire[4] = Body[2]
      <3>1. 4 \in 1 .. Len(Header) + Len(Body)
        BY <1>1, <2>1
      <3>2. Wire[4] = Body[4 - Len(Header)]
        BY <1>1, <1>2, <3>1
      <3> QED  BY <1>1, <3>2
    <2> QED  BY <1>3, <1>4, <2>1, <2>2, <2>3, <2>4
  <1>5. CASE ~reply.hasBody
    BY <1>1, <1>2, <1>3, <1>5, BodyUnits
  <1> QED  BY <1>4, <1>5

\* The units of the header stand at its places only.
LEMMA HeaderPlaces ==
    ASSUME NEW i \in 1..Len(Wire)
    PROVE  /\ Wire[i] = "H1" <=> i = 1
           /\ Wire[i] = "H2" <=> i = 2
           /\ i = 3 => Wire[i] = "B1"
           /\ i = 4 => Wire[i] = "B2"
           /\ i \in Nat /\ i <= Len(Wire) /\ i <= 4
  <1>1. CASE reply.hasBody
    <2>1. Len(Wire) = 4
      BY <1>1, WireUnits
    <2>2. i \in {1, 2, 3, 4}
      BY <2>1
    <2> QED  BY <1>1, <2>1, <2>2, WireUnits
  <1>2. CASE ~reply.hasBody
    <2>1. Len(Wire) = 2
      BY <1>2, WireUnits
    <2>2. i \in {1, 2}
      BY <2>1
    <2> QED  BY <1>2, <2>1, <2>2, WireUnits
  <1> QED  BY <1>1, <1>2

\* Read into an empty buffer, n units after the first d.
LEMMA FreshRead ==
    ASSUME NEW d \in Nat, NEW n \in Nat, n >= 1, d + n <= Len(Wire)
    PROVE  LET io == SubSeq(Wire, d + 1, d + n)
           IN  /\ io \in Seq(Units) /\ Len(io) = n
               /\ \A i \in 1..n : io[i] = Wire[d + i]
               /\ HasHeaderEnd(io) <=> d < 2 /\ d + n >= 2
               /\ io[1] = "H1" <=> d = 0
               /\ ~HasHeaderEnd(io) => Content(io) = io
               /\ HasHeaderEnd(io) =>
                     /\ Content(io) \in Seq(Units) /\ Len(Content(io)) = d + n - 2
                     /\ \A i \in 1 .. d + n - 2 : Content(io)[i] = Wire[2 + i]
  <1> DEFINE io == SubSeq(Wire, d + 1, d + n)
  <1>1. Wire \in Seq(Units) /\ Len(Wire) \in Nat
    BY WireUnits, LenProperties
  <1>2. io \in Seq(Units) /\ Len(io) = n /\ \A i \in 1..n : io[i] = Wire[d + i]
    <2>1. \A i \in d + 1 .. d + n : Wire[i] \in Units
      BY <1>1, ElementOfSeq
    <2>2. /\ io \in Seq(Units)
          /\ Len(io) = IF d + 1 <= d + n THEN d + n - (d + 1) + 1 ELSE 0
          /\ \A i \in 1 .. d + n - (d + 1) + 1 : io[i] = Wire[d + 1 + i - 1]
      BY <2>1, SubSeqProperties
    <2> QED  BY <2>2
  <1> HIDE DEF io
  <1>3. DOMAIN io = 1..n
    BY <1>2, LenProperties
  <1>4. ASSUME NEW i \in 1..n
        PROVE  (io[i] = "H2" <=> d + i = 2) /\ (io[i] = "H1" <=> d + i = 1)
    <2>1. d + i \in 1..Len(Wire)
      BY <1>1
    <2> QED  BY <1>2, <2>1, HeaderPlaces
  <1>5. HasHeaderEnd(io) <=> d < 2 /\ d + n >= 2
    <2>1. ASSUME HasHeaderEnd(io) PROVE d < 2 /\ d + n >= 2
      BY <1>3, <1>4, <2>1 DEF HasHeaderEnd
    <2>2. ASSUME d < 2, d + n >= 2 PROVE HasHeaderEnd(io)
      <3>1. 2 - d \in 1..n /\ d + (2 - d) = 2
        BY <2>2
      <3> QED  BY <1>3, <1>4, <3>1 DEF HasHeaderEnd
    <2> QED  BY <2>1, <2>2
  <1>6. io[1] = "H1" <=> d = 0
    <2>1. 1 \in 1..n
      OBVIOUS
    <2> QED  BY <1>4, <2>1
  <1>7. ASSUME HasHeaderEnd(io)
        PROVE  /\ Content(io) \in Seq(Units) /\ Len(Content(io)) = d + n - 2
               /\ \A i \in 1 .. d + n - 2 : Content(io)[i] = Wire[2 + i]
    <2> DEFINE k == RequestLen(io)
    <2>1. k \in 1..n /\ io[k] = "H2"
      BY <1>3, <1>7 DEF HasHeaderEnd, RequestLen
    <2>2. k = 2 - d /\ d + n >= 2 /\ d < 2
      BY <1>4, <1>5, <1>7, <2>1
    <2>3. Content(io) = SubSeq(io, k + 1, Len(io))
      BY <1>7 DEF Content
    <2> HIDE DEF k
    <2>4. \A i \in k + 1 .. n : io[i] \in Units
      BY <1>2, <2>1, ElementOfSeq
    <2>5. /\ SubSeq(io, k + 1, n) \in Seq(Units)
          /\ Len(SubSeq(io, k + 1, n)) = IF k + 1 <= n THEN n - (k + 1) + 1 ELSE 0
          /\ \A i \in 1 .. n - (k + 1) + 1 : SubSeq(io, k + 1, n)[i] = io[k + 1 + i - 1]
      BY <2>1, <2>4, SubSeqProperties
    <2>6. \A i \in 1 .. d + n - 2 : io[k + i] = Wire[2 + i]
      BY <1>2, <2>2
    <2> DEFINE c == SubSeq(io, k + 1, n)
    <2>7. Content(io) = c
      BY <1>2, <2>3
    <2> HIDE DEF c
    <2>8. c \in Seq(Units) /\ Len(c) = d + n - 2
      BY <2>1, <2>2, <2>5 DEF c
    <2>9. \A i \in 1 .. d + n - 2 : c[i] = io[k + i]
      BY <2>1, <2>2, <2>5 DEF c
    <2> QED  BY <2>6, <2>7, <2>8, <2>9
  <1>8. ~HasHeaderEnd(io) => Content(io) = io
    BY DEF Content
  <1> QED  BY <1>2, <1>5, <1>6, <1>7, <1>8 DEF io

-----------------------------------------------------------------------------
(* The invariant *)

\* The buffer holds the body as far as it has been read, once the header is off it.
BufferInv ==
    /\ parsed => /\ reply.declared /\ reply.hasBody
                 /\ \/ delivered = 2 /\ buf = <<>>
                    \/ delivered = 3 /\ buf = <<"B1">>
    /\ ~parsed => buf = <<>>

\* A header that came in one read announces the body that is still to be read, and
\* nothing is read before the request is sent.
AnnouncedInv ==
    /\ sock \in {"up", "answered"} /\ reply.declared /\ reply.hasBody
          /\ 1 \notin cuts /\ delivered \in {2, 3}
       => parsed
    /\ sock \in {"connecting", "sent"} => delivered = 0
    /\ pc = "start" => sock = "connecting"

\* What the request knows, and what it knows of a reply that arrived completely.
KnownInv ==
    /\ delivered = 0 => status = TimedOut /\ ~done
    /\ done => ~status.timeout
    /\ delivered = Len(Wire) => done
    /\ delivered = Len(Wire) /\ 1 \notin cuts /\ (reply.declared \/ 3 \notin cuts)
          => status = Answered(Truth)

IInv ==
    /\ TypeOK
    /\ BufferInv
    /\ AnnouncedInv
    /\ status \in RequestResults(action)
    /\ KnownInv

-----------------------------------------------------------------------------
(* What a read makes of the buffer *)

\* The buffer when n units have been read.
Io(n) == buf \o SubSeq(Wire, delivered + 1, delivered + n)

\* The reply is two units long, or four.
LEMMA WireLength ==
    ASSUME TypeOK
    PROVE  /\ delivered \in Nat /\ delivered <= Len(Wire)
           /\ reply.hasBody \in BOOLEAN /\ reply.declared \in BOOLEAN
           /\ reply.hasBody => Len(Wire) = 4
           /\ ~reply.hasBody => Len(Wire) = 2
           /\ Len(Wire) \in {2, 4}
  <1>1. reply \in RepliesTo(action)
    BY DEF TypeOK
  <1>2. reply.hasBody \in BOOLEAN /\ reply.declared \in BOOLEAN
    BY <1>1 DEF RepliesTo
  <1>3. Len(Wire) \in {2, 4}
    BY <1>2, WireUnits
  <1>4. delivered \in 0..Len(Wire)
    BY DEF TypeOK
  <1> QED  BY <1>2, <1>3, <1>4, WireUnits

\* A read into an empty buffer.
LEMMA IoOfEmpty ==
    ASSUME TypeOK, buf = <<>>, NEW n \in Nat, n >= 1, delivered + n <= Len(Wire)
    PROVE  /\ Io(n) \in Seq(Units) /\ Len(Io(n)) = n
           /\ \A i \in 1..n : Io(n)[i] = Wire[delivered + i]
           /\ HasHeaderEnd(Io(n)) <=> delivered < 2 /\ delivered + n >= 2
           /\ Io(n)[1] = "H1" <=> delivered = 0
           /\ ~HasHeaderEnd(Io(n)) => Content(Io(n)) = Io(n)
           /\ HasHeaderEnd(Io(n)) =>
                 /\ Content(Io(n)) \in Seq(Units) /\ Len(Content(Io(n))) = delivered + n - 2
                 /\ \A i \in 1 .. delivered + n - 2 : Content(Io(n))[i] = Wire[2 + i]
  <1> DEFINE io == SubSeq(Wire, delivered + 1, delivered + n)
  <1>1. delivered \in Nat
    BY WireLength
  <1>2. io \in Seq(Units)
    BY <1>1, FreshRead
  <1> HIDE DEF io
  <1>3. Io(n) = io
    BY <1>2, ConcatEmptySeq DEF Io, io
  <1> QED  BY <1>1, <1>3, FreshRead DEF io

\* The rest of the body completes it.
LEMMA IoOfRest ==
    ASSUME TypeOK, reply.hasBody, delivered = 3, buf = <<"B1">>
    PROVE  /\ Io(1) = <<"B1", "B2">> /\ Io(1) = Body
           /\ ~HasHeaderEnd(Io(1)) /\ Content(Io(1)) = Io(1)
  <1> DEFINE io == SubSeq(Wire, 4, 4)
  <1>1. Len(Wire) = 4 /\ Wire[4] = "B2" /\ Wire \in Seq(Units)
    BY WireUnits
  <1>2. io \in Seq(Units) /\ Len(io) = 1 /\ io[1] = Wire[4]
    <2>1. \A i \in 4..4 : Wire[i] \in Units
      BY <1>1 DEF Units
    <2>2. /\ io \in Seq(Units) /\ Len(io) = IF 4 <= 4 THEN 4 - 4 + 1 ELSE 0
          /\ \A i \in 1 .. 4 - 4 + 1 : io[i] = Wire[4 + i - 1]
      BY <2>1, SubSeqProperties
    <2>3. 1 \in 1 .. 4 - 4 + 1 /\ 4 + 1 - 1 = 4
      OBVIOUS
    <2> HIDE DEF io
    <2> QED  BY <2>2, <2>3
  <1> HIDE DEF io
  <1>3. io = <<"B2">>
    BY <1>1, <1>2, OfOne
  <1>4. Io(1) = <<"B1">> \o io
    BY DEF Io, io
  <1>5. Io(1) = <<"B1", "B2">>
    BY <1>3, <1>4
  <1>6. ~HasHeaderEnd(Io(1))
    BY <1>5 DEF HasHeaderEnd
  <1> QED  BY <1>5, <1>6 DEF Content, Body

\* The beginning of the body is left in the buffer only while it is announced.
LEMMA NotHandedOver ==
    ASSUME TypeOK, BufferInv, NEW n \in Nat, n >= 1, delivered + n <= Len(Wire),
           ~HandedOver(Io(n))
    PROVE  /\ reply.declared /\ reply.hasBody
           /\ \/ delivered + n = 2 /\ Content(Io(n)) = <<>>
              \/ delivered + n = 3 /\ Content(Io(n)) = <<"B1">>
  <1> DEFINE c == Content(Io(n))
  <1>1. Len(c) >= 0 => ContentLength(Io(n)) # 0
    BY DEF HandedOver
  <1>2. CASE buf # <<>>
    <2>1. reply.hasBody /\ delivered = 3 /\ buf = <<"B1">> /\ n = 1
      <3>1. reply.hasBody /\ delivered = 3 /\ buf = <<"B1">>
        BY <1>2 DEF BufferInv
      <3>2. Len(Wire) = 4
        BY <3>1, WireLength
      <3>3. 3 + n <= 4
        BY <3>1, <3>2
      <3>4. n = 1
        BY <3>3
      <3> QED  BY <3>1, <3>4
    <2>2. c = <<"B1", "B2">>
      BY <2>1, IoOfRest
    <2>3. Len(c) = 2 /\ Len(Body) = 2
      BY <2>1, <2>2, BodyUnits
    <2> QED  BY <2>3 DEF HandedOver, ContentLength
  <1>3. CASE buf = <<>>
    <2>1. Len(c) \in Nat
      BY <1>3, IoOfEmpty, WireLength
    <2>2. Framed(Io(n)) /\ reply.declared /\ ~(Len(c) >= Len(Body))
      BY <2>1 DEF HandedOver, ContentLength
    <2>3. reply.hasBody /\ Len(Body) = 2 /\ Len(Wire) = 4
      BY <2>1, <2>2, BodyUnits, WireLength
    <2>4. Len(c) \in {0, 1}
      <3>1. ~(Len(c) >= 2)
        BY <2>2, <2>3
      <3>2. PICK k \in Nat : k = Len(c)
        BY <2>1
      <3>3. k \in {0, 1}
        BY <3>1, <3>2
      <3> QED  BY <3>2, <3>3
    <2>5. CASE parsed
      <3>1. delivered = 2
        BY <1>3, <2>5 DEF BufferInv
      <3>2. c = Io(n) /\ Len(c) = n /\ c \in Seq(Units) /\ c[1] = Wire[3]
        BY <1>3, <3>1, IoOfEmpty
      <3>3. n = 1 /\ c = <<"B1">>
        BY <2>3, <2>4, <3>2, OfOne, WireUnits
      <3> QED  BY <2>2, <2>3, <3>1, <3>3
    <2>6. CASE ~parsed
      <3>1. HasHeaderEnd(Io(n)) /\ Io(n)[1] = "H1"
        BY <2>2, <2>6 DEF Framed
      <3>2. /\ delivered = 0 /\ n >= 2 /\ c \in Seq(Units) /\ Len(c) = n - 2
            /\ \A i \in 1 .. n - 2 : c[i] = Wire[2 + i]
        BY <1>3, <3>1, IoOfEmpty
      <3>3. CASE Len(c) = 0
        BY <2>2, <2>3, <3>2, <3>3, EmptyOrNot
      <3>4. CASE Len(c) = 1
        <4>1. n - 2 = 1 /\ n = 3
          <5>1. n - 2 = 1
            BY <3>2, <3>4
          <5> QED  BY <5>1
        <4>2. c[1] = Wire[2 + 1] /\ 2 + 1 = 3
          BY <3>2, <4>1
        <4>3. c[1] = "B1"
          BY <2>3, <4>2, WireUnits
        <4> QED  BY <2>2, <2>3, <3>2, <3>4, <4>1, <4>3, OfOne
      <3> QED  BY <2>4, <3>3, <3>4
    <2> QED  BY <2>5, <2>6
  <1> QED  BY <1>2, <1>3

\* A reply that is read to its end, with its header in one read and its body
\* announced or in one read, leaves its body to be decoded.
LEMMA WholeRead ==
    ASSUME IInv, NEW n \in Nat, n >= 1, delivered + n = Len(Wire),
           sock \in {"up", "answered"}, delivered # 1, 1 \notin cuts,
           reply.declared \/ (delivered # 3 /\ 3 \notin cuts)
    PROVE  Content(Io(n)) = Body /\ (reply.hasBody \/ delivered = 0)
  <1> DEFINE c == Content(Io(n))
  <1>1. /\ TypeOK /\ BufferInv /\ AnnouncedInv
        /\ delivered \in Nat /\ reply.hasBody \in BOOLEAN /\ delivered + n <= Len(Wire)
    BY WireLength DEF IInv
  <1>2. CASE reply.hasBody
    <2>1. Len(Wire) = 4
      BY <1>2, WireUnits
    <2>2. delivered + n = 4
      BY <2>1
    <2>3. delivered \in {0, 2, 3} /\ n = 4 - delivered
      BY <1>1, <2>2
    <2>4. CASE delivered = 3
      <3>1. parsed /\ buf = <<"B1">>
        BY <1>1, <1>2, <2>4 DEF AnnouncedInv, BufferInv
      <3>2. n = 1
        BY <2>3, <2>4
      <3> QED  BY <1>1, <1>2, <2>4, <3>1, <3>2, IoOfRest
    <2>5. CASE delivered = 2
      <3>1. buf = <<>> /\ n = 2
        BY <1>1, <2>3, <2>5 DEF BufferInv
      <3>2. /\ c = Io(n) /\ c \in Seq(Units) /\ Len(c) = 2
            /\ c[1] = Wire[3] /\ c[2] = Wire[4]
        <4>1. c = Io(n) /\ c \in Seq(Units) /\ Len(c) = n
          <5>1. ~HasHeaderEnd(Io(n))
            BY <1>1, <2>5, <3>1, IoOfEmpty
          <5>2. Io(n) \in Seq(Units) /\ Len(Io(n)) = n /\ c = Io(n)
            BY <1>1, <3>1, <5>1, IoOfEmpty
          <5> HIDE DEF c
          <5> QED  BY <5>2
        <4>2. \A i \in 1..2 : Io(n)[i] = Wire[2 + i]
          BY <1>1, <2>5, <3>1, IoOfEmpty
        <4> HIDE DEF c
        <4>3. Io(n)[1] = Wire[2 + 1] /\ Io(n)[2] = Wire[2 + 2] /\ 2 + 1 = 3 /\ 2 + 2 = 4
          BY <4>2
        <4> QED  BY <3>1, <4>1, <4>3
      <3>3. c = <<"B1", "B2">>
        BY <1>2, <3>2, OfTwo, WireUnits
      <3> QED  BY <1>2, <3>3 DEF Body
    <2>6. CASE delivered = 0
      <3>1. buf = <<>> /\ n = 4
        BY <1>1, <2>3, <2>6 DEF BufferInv
      <3>2. /\ c \in Seq(Units) /\ Len(c) = 2
            /\ \A i \in 1..2 : c[i] = Wire[2 + i]
        <4>1. HasHeaderEnd(Io(n))
          BY <1>1, <2>6, <3>1, IoOfEmpty
        <4>2. delivered + n - 2 = 2
          BY <2>6, <3>1
        <4> QED  BY <1>1, <3>1, <4>1, <4>2, IoOfEmpty
      <3> HIDE DEF c
      <3>3. c[1] = Wire[3] /\ c[2] = Wire[4]
        BY <3>2
      <3>4. c = <<"B1", "B2">>
        BY <1>2, <3>2, <3>3, OfTwo, WireUnits
      <3> QED  BY <1>2, <3>4 DEF Body, c
    <2> QED  BY <1>2, <2>3, <2>4, <2>5, <2>6
  <1>3. CASE ~reply.hasBody
    <2>1. Len(Wire) = 2
      BY <1>3, WireUnits
    <2>2. delivered + n = 2
      BY <2>1
    <2>3. delivered = 0 /\ n = 2
      BY <1>1, <2>2
    <2>4. buf = <<>>
      BY <1>1, <1>3 DEF BufferInv
    <2>5. c \in Seq(Units) /\ Len(c) = 0
      BY <1>1, <2>3, <2>4, IoOfEmpty
    <2>6. c = <<>>
      BY <2>5, EmptyOrNot
    <2> QED  BY <1>3, <2>3, <2>6 DEF Body
  <1> QED  BY <1>1, <1>2, <1>3

\* While the body is announced and not there, nothing is handed over.
LEMMA AnnouncedRead ==
    ASSUME IInv, NEW n \in Nat, n >= 1, delivered + n \in {2, 3},
           sock \in {"up", "answered"}, reply.declared, reply.hasBody,
           delivered # 1, 1 \notin cuts
    PROVE  ~HandedOver(Io(n))
  <1> DEFINE c == Content(Io(n))
  <1>1. TypeOK /\ BufferInv /\ AnnouncedInv /\ delivered \in Nat /\ Len(Wire) = 4 /\ Len(Body) = 2
    BY WireLength, BodyUnits DEF IInv
  <1>2. delivered + n <= Len(Wire)
    BY <1>1
  <1>3. delivered \in {0, 2}
    BY <1>1
  <1>4. buf = <<>>
    BY <1>3 , <1>1 DEF BufferInv
  <1>5. Framed(Io(n)) /\ Len(c) \in {0, 1}
    <2>1. CASE delivered = 0
      <3>1. n >= 2 /\ n \in {2, 3}
        BY <2>1
      <3>2. HasHeaderEnd(Io(n)) /\ Io(n)[1] = "H1" /\ Len(c) = n - 2
        BY <1>1, <1>2, <1>4, <2>1, <3>1, IoOfEmpty
      <3> QED  BY <3>1, <3>2 DEF Framed
    <2>2. CASE delivered = 2
      <3>1. n = 1 /\ parsed
        BY <1>1, <2>2 DEF AnnouncedInv
      <3>2. ~HasHeaderEnd(Io(n)) /\ Len(Io(n)) = n /\ c = Io(n)
        BY <1>1, <1>2, <1>4, <2>2, IoOfEmpty
      <3> QED  BY <3>1, <3>2 DEF Framed
    <2> QED  BY <1>3, <2>1, <2>2
  <1>6. ContentLength(Io(n)) = 2
    BY <1>1, <1>5 DEF ContentLength
  <1>7. ~(Len(c) >= 2)
    <2> HIDE DEF c
    <2>1. CASE Len(c) = 0
      BY <2>1
    <2>2. CASE Len(c) = 1
      BY <2>2
    <2> QED  BY <1>5, <2>1, <2>2
  <1> QED  BY <1>6, <1>7 DEF HandedOver

-----------------------------------------------------------------------------
(* What is decoded *)

\* No result but a timeout changes the playback the callers of a request expect.
LEMMA PlaybackStays ==
    ASSUME action \in Actions, status \in RequestResults(action)
    PROVE  /\ status.playback \in Playback
           /\ Answered(status.playback) \in RequestResults(action)
           /\ action = "STOP" => status.playback = "STOPPED"
  BY DEF Actions, RequestResults, Replies, TimedOut, Answered, Playback

\* Whatever is decoded, the callers of the request expect.
LEMMA DecodedIsExpected ==
    ASSUME TypeOK, status \in RequestResults(action), NEW content,
           NEW p \in Decode(content, status.playback)
    PROVE  Answered(p) \in RequestResults(action) /\ Answered(p) \in Status
  <1>1. action \in Actions /\ reply.state \in Truths(action)
    BY DEF TypeOK, RepliesTo
  <1>2. /\ status.playback \in Playback
        /\ Answered(status.playback) \in RequestResults(action)
    BY <1>1, PlaybackStays
  <1>3. Answered(p) \in RequestResults(action)
    <2>1. CASE action = "STATUS"
      <3>1. p \in Playback
        BY <1>1, <1>2, <2>1 DEF Decode, DecodeStatus, Truths, Playback, Active
      <3> QED  BY <2>1, <3>1 DEF RequestResults, Replies
    <2>2. CASE action = "PLAY"
      <3>1. p \in {status.playback, "STOPPED", "LOADING"}
        BY <2>2 DEF Decode, DecodePlay
      <3> QED  BY <1>2, <2>2, <3>1 DEF RequestResults, Replies
    <2>3. CASE action = "PAUSE"
      <3>1. p \in {status.playback, "PAUSED"}
        BY <2>3 DEF Decode
      <3> QED  BY <1>2, <2>3, <3>1 DEF RequestResults, Replies
    <2>4. CASE action = "RESUME"
      <3>1. p \in {status.playback, "PLAYING"}
        BY <2>4 DEF Decode
      <3> QED  BY <1>2, <2>4, <3>1 DEF RequestResults, Replies
    <2>5. CASE action = "STOP"
      <3>1. p = status.playback
        BY <2>5 DEF Decode
      <3> QED  BY <1>2, <3>1
    <2> QED  BY <1>1, <2>1, <2>2, <2>3, <2>4, <2>5 DEF Actions
  <1>4. RequestResults(action) \subseteq Status
    <2>1. ASSUME NEW P \in SUBSET Playback PROVE Replies(P) \subseteq Status
      <3>1. TimedOut \in Status
        BY DEF TimedOut, Status, Playback
      <3>2. \A q \in P : Answered(q) \in Status
        BY DEF Answered, Status
      <3> QED  BY <3>1, <3>2 DEF Replies
    <2>2. \E P \in SUBSET Playback : RequestResults(action) = Replies(P)
      BY <1>1 DEF Actions, RequestResults, Playback
    <2> QED  BY <2>1, <2>2
  <1> QED  BY <1>3, <1>4

\* A whole body means one thing.
LEMMA DecodeIsTruth ==
    ASSUME TypeOK, NEW q, q = "STOPPED" \/ (reply.hasBody /\ action # "STOP"),
           NEW p \in Decode(Body, q)
    PROVE  p = Truth
  <1>1. PICK t \in Playback : Decode(Body, q) = {t} /\ Decode(Body, "STOPPED") = {t}
    <2>1. action \in Actions /\ reply.state \in Truths(action) /\ reply.hasBody \in BOOLEAN
      BY DEF TypeOK, RepliesTo
    <2>2. CASE reply.hasBody
      <3>1. Body = <<"B1", "B2">> /\ Body # <<>> /\ Body[1] = "B1"
        BY <2>2 DEF Body
      <3>2. CASE action = "STATUS"
        BY <2>1, <3>1, <3>2 DEF Decode, DecodeStatus, Truths
      <3>3. CASE action = "PLAY"
        BY <2>1, <3>1, <3>3 DEF Decode, DecodePlay, Playback
      <3>4. CASE action = "PAUSE"
        BY <3>1, <3>4 DEF Decode, Playback
      <3>5. CASE action = "RESUME"
        BY <3>1, <3>5 DEF Decode, Playback
      <3>6. CASE action = "STOP"
        BY <3>6 DEF Decode, Playback
      <3> QED  BY <2>1, <3>2, <3>3, <3>4, <3>5, <3>6 DEF Actions
    <2>3. CASE ~reply.hasBody
      <3>1. Body = <<>> /\ q = "STOPPED"
        BY <2>3 DEF Body
      <3> QED  BY <2>1, <3>1 DEF Decode, DecodeStatus, DecodePlay, Playback, Actions
    <2> QED  BY <2>1, <2>2, <2>3
  <1> QED  BY <1>1 DEF Truth

-----------------------------------------------------------------------------
(* The steps keep the invariant *)

\* What the box answers does not change while it answers.
LEMMA SameReply ==
    ASSUME UNCHANGED <<action, reply>>
    PROVE  Wire' = Wire /\ Truth' = Truth /\ Body' = Body
  BY DEF Wire, Header, Body, Truth, Decode, DecodeStatus, DecodePlay

\* Steps that neither read nor decode.
LEMMA QuietKeeps ==
    ASSUME IInv, UNCHANGED <<action, reply, delivered, buf, parsed, done, status, cuts>>
    PROVE  /\ BufferInv' /\ KnownInv' /\ status' \in RequestResults(action')
           /\ sock' \in {"up", "answered"} /\ sock \in {"sent", "up", "answered"}
                 /\ reply'.declared /\ reply'.hasBody
                 /\ 1 \notin cuts' /\ delivered' \in {2, 3}
              => parsed'
  <1>1. Wire' = Wire /\ Truth' = Truth
    BY SameReply
  <1> QED  BY <1>1 DEF IInv, BufferInv, KnownInv, AnnouncedInv

\* The types, part by part.
LEMMA TypesKept ==
    ASSUME TypeOK, UNCHANGED <<action, reply>>,
           pc' \in {"start", "loop", "polling", "destroying", "returned"},
           seconds' \in 0..Timeout,
           sock' \in {"connecting", "sent", "up", "answered", "failed", "gone"},
           delivered' \in 0..Len(Wire), buf' \in Seq(Units),
           parsed' \in BOOLEAN, done' \in BOOLEAN, status' \in Status,
           cuts' \subseteq 1..Len(Wire)
    PROVE  TypeOK'
  <1>1. Wire' = Wire
    BY SameReply
  <1>2. reply' \in RepliesTo(action')
    BY DEF TypeOK
  <1> QED  BY <1>1, <1>2 DEF TypeOK, Units

LEMMA QuietTypes ==
    ASSUME TypeOK, UNCHANGED <<action, reply, delivered, buf, parsed, done, status, cuts>>,
           pc' \in {"start", "loop", "polling", "destroying", "returned"},
           seconds' \in 0..Timeout,
           sock' \in {"connecting", "sent", "up", "answered", "failed", "gone"}
    PROVE  TypeOK'
  <1>1. Wire' = Wire
    BY SameReply
  <1> QED  BY <1>1 DEF TypeOK, RepliesTo, Truths

\* Everything but a read and the end of a connection is quiet.
LEMMA QuietStepKeeps ==
    ASSUME IInv,
           Connect \/ PollStart \/ LastPoll \/ Connected \/ Refused \/ Eof \/ Done
               \/ UNCHANGED vars
    PROVE  IInv'
  <1>1. /\ UNCHANGED <<action, reply, delivered, buf, parsed, done, status, cuts>>
        /\ pc' \in {"start", "loop", "polling", "destroying", "returned"}
        /\ sock' \in {"connecting", "sent", "up", "answered", "failed", "gone"}
        /\ sock' \in {"up", "answered"} => sock \in {"sent", "up", "answered"}
        /\ sock' \in {"connecting", "sent"} => sock \in {"connecting", "sent"}
        /\ pc' = "start" => pc = "start" /\ sock' = sock
    BY DEF Connect, MgConnect, Sockets, PollStart, LastPoll, Connected, Refused, ConnectEnds,
           InPoll, Eof, Done, vars, IInv, TypeOK, AnnouncedInv
  <1>2. seconds' \in 0..Timeout
    <2>1. seconds \in 0..Timeout
      BY DEF IInv, TypeOK
    <2>2. seconds' = seconds \/ (seconds < Timeout /\ seconds' = seconds + 1)
      BY DEF Connect, PollStart, LastPoll, Connected, Refused, ConnectEnds, Eof, Done, vars
    <2> QED  BY <2>1, <2>2, TimeoutNat
  <1>3. TypeOK'
    BY <1>1, <1>2, QuietTypes DEF IInv
  <1>4. AnnouncedInv'
    BY <1>1, QuietKeeps DEF AnnouncedInv, IInv
  <1> QED  BY <1>1, <1>3, <1>4, QuietKeeps DEF IInv

\* The end of a connection hands over what there is of a body.
LEMMA CloseConnKeeps ==
    ASSUME IInv, CloseConn, UNCHANGED <<action, reply, seconds, delivered, cuts>>,
           pc' \in {"loop", "returned"}
    PROVE  IInv'
  <1>1. Wire' = Wire /\ Truth' = Truth /\ sock' = "gone"
    BY SameReply DEF CloseConn
  <1>2. AnnouncedInv'
    BY <1>1 DEF AnnouncedInv
  <1>3. CASE UNCHANGED <<done, status, buf, parsed>>
    <2>1. TypeOK'
      BY <1>1, <1>3, QuietTypes DEF IInv, TypeOK
    <2> QED  BY <1>2, <1>3, <2>1, QuietKeeps DEF IInv
  <1>4. CASE buf # <<>> /\ Reply(Append(buf, "beyond"))
    <2>1. reply.hasBody /\ delivered = 3 /\ Len(Wire) = 4
      BY <1>4, WireUnits DEF IInv, BufferInv
    <2>2. /\ done' = TRUE /\ buf' = <<>> /\ parsed' = FALSE
          /\ \E p \in Decode(Append(buf, "beyond"), status.playback) : status' = Answered(p)
      BY <1>4 DEF Reply
    <2>3. status' \in RequestResults(action) /\ status' \in Status
      BY <2>2, DecodedIsExpected DEF IInv
    <2>4. ~status'.timeout
      BY <2>2 DEF Answered
    <2>5. TypeOK'
      <3>1. done' \in BOOLEAN /\ parsed' \in BOOLEAN /\ buf' \in Seq(Units)
        <4>1. done' \in BOOLEAN
          BY <2>2
        <4>2. parsed' \in BOOLEAN
          BY <2>2
        <4>3. buf' \in Seq(Units)
          BY <2>2, EmptySeq
        <4> QED  BY <4>1, <4>2, <4>3
      <3> QED  BY <1>1, <2>3, <3>1, TypesKept DEF IInv, TypeOK
    <2>6. BufferInv' /\ KnownInv'
      BY <1>1, <2>1, <2>2, <2>4 DEF BufferInv, KnownInv
    <2> QED  BY <1>2, <2>3, <2>5, <2>6 DEF IInv
  <1> QED  BY <1>3, <1>4 DEF CloseConn

LEMMA PollEndKeeps ==
    ASSUME IInv, PollEnd
    PROVE  IInv'
  <1>1. CASE Flagged /\ CloseConn
    BY <1>1, CloseConnKeeps DEF PollEnd
  <1>2. CASE /\ sock' = IF sock = "sent" THEN "up" ELSE sock
             /\ UNCHANGED <<done, status, buf, parsed>>
    <2>1. /\ UNCHANGED <<action, reply, delivered, buf, parsed, done, status, cuts, seconds>>
          /\ pc' = "loop"
      BY <1>2 DEF PollEnd
    <2>2. TypeOK'
      BY <1>2, <2>1, QuietTypes DEF IInv, TypeOK
    <2>3. AnnouncedInv'
      BY <1>2, <2>1 DEF IInv, AnnouncedInv
    <2> QED  BY <2>1, <2>2, <2>3, QuietKeeps DEF IInv
  <1> QED  BY <1>1, <1>2 DEF PollEnd

LEMMA DestroyKeeps ==
    ASSUME IInv, Destroy
    PROVE  IInv'
  BY CloseConnKeeps DEF Destroy

LEMMA ReceiveKeeps ==
    ASSUME IInv, NEW n \in 1..Len(Wire), Receive(n)
    PROVE  IInv'
  <1>1. /\ sock \in {"up", "answered"} /\ delivered + n <= Len(Wire)
        /\ delivered' = delivered + n /\ cuts' = cuts \cup ({delivered} \ {0})
        /\ UNCHANGED <<action, reply, pc, seconds>>
    BY DEF Receive
  <1>2. \/ /\ HandedOver(Io(n)) /\ Reply(Content(Io(n))) /\ sock' = "answered"
        \/ /\ ~HandedOver(Io(n)) /\ buf' = Content(Io(n)) /\ parsed' = TRUE
           /\ UNCHANGED <<sock, done, status>>
    BY DEF Receive, Io
  <1>3. /\ TypeOK /\ BufferInv /\ AnnouncedInv /\ KnownInv
        /\ n \in Nat /\ n >= 1 /\ delivered \in Nat /\ Len(Wire) \in {2, 4}
        /\ reply.hasBody => Len(Wire) = 4
        /\ reply.declared \in BOOLEAN /\ reply.hasBody \in BOOLEAN
    BY WireLength DEF IInv
  <1>4. Wire' = Wire /\ Truth' = Truth
    BY <1>1, SameReply
  <1>5. delivered' \in 0..Len(Wire) /\ cuts' \subseteq 1..Len(Wire) /\ delivered' # 0
    <2>1. delivered' \in Nat /\ delivered' <= Len(Wire) /\ delivered' # 0
      BY <1>1, <1>3
    <2>2. delivered \in 0..Len(Wire) /\ cuts \subseteq 1..Len(Wire)
      BY <1>3 DEF TypeOK
    <2>3. delivered # 0 => delivered \in 1..Len(Wire)
      BY <1>3, <2>2
    <2> QED  BY <1>1, <1>3, <2>1, <2>2, <2>3
  <1>6. CASE /\ ~HandedOver(Io(n)) /\ buf' = Content(Io(n)) /\ parsed' = TRUE
             /\ UNCHANGED <<sock, done, status>>
    <2>1. /\ reply.declared /\ reply.hasBody
          /\ \/ delivered' = 2 /\ buf' = <<>>
             \/ delivered' = 3 /\ buf' = <<"B1">>
      BY <1>1, <1>3, <1>6, NotHandedOver
    <2>2. buf' \in Seq(Units) /\ parsed' \in BOOLEAN
      <3>1. <<>> \in Seq(Units) /\ <<"B1">> \in Seq(Units)
        BY DEF Units
      <3>2. buf' \in Seq(Units)
        BY <2>1, <3>1
      <3>3. parsed' \in BOOLEAN
        BY <1>6
      <3> QED  BY <3>2, <3>3
    <2>3. TypeOK'
      BY <1>1, <1>3, <1>5, <1>6, <2>2, TypesKept DEF TypeOK
    <2>4. BufferInv'
      BY <1>1, <1>6, <2>1 DEF BufferInv
    <2>5. AnnouncedInv'
      BY <1>1, <1>3, <1>6 DEF AnnouncedInv
    <2>6. KnownInv'
      <3>1. delivered' # Len(Wire)
        <4>1. Len(Wire) = 4 /\ delivered' \in {2, 3}
          BY <1>3, <2>1
        <4>2. delivered' # 4
          BY <4>1
        <4> QED  BY <4>1, <4>2
      <3> QED  BY <1>3, <1>4, <1>5, <1>6, <3>1 DEF KnownInv
    <2> QED  BY <1>1, <1>6, <2>3, <2>4, <2>5, <2>6 DEF IInv
  <1>7. CASE HandedOver(Io(n)) /\ Reply(Content(Io(n))) /\ sock' = "answered"
    <2>1. done' = TRUE /\ buf' = <<>> /\ parsed' = FALSE
      BY <1>7 DEF Reply
    <2>2. PICK p \in Decode(Content(Io(n)), status.playback) : status' = Answered(p)
      BY <1>7 DEF Reply
    <2>3. status' \in RequestResults(action) /\ status' \in Status /\ ~status'.timeout
      BY <2>2, DecodedIsExpected DEF IInv, Answered
    <2>4. TypeOK'
      <3>1. done' \in BOOLEAN /\ parsed' \in BOOLEAN /\ buf' \in Seq(Units)
        <4>1. done' \in BOOLEAN
          BY <2>1
        <4>2. parsed' \in BOOLEAN
          BY <2>1
        <4>3. buf' \in Seq(Units)
          BY <2>1, EmptySeq
        <4> QED  BY <4>1, <4>2, <4>3
      <3> QED  BY <1>1, <1>3, <1>5, <1>7, <2>3, <3>1, TypesKept DEF TypeOK
    <2>5. BufferInv'
      BY <2>1 DEF BufferInv
    <2>6. ASSUME 1 \notin cuts' PROVE delivered # 1 /\ 1 \notin cuts
      BY <1>1, <2>6
    <2>7. AnnouncedInv'
      <3>1. SUFFICES ASSUME reply.declared, reply.hasBody, 1 \notin cuts', delivered + n \in {2, 3}
                     PROVE  FALSE
        BY <1>1, <1>3, <1>7 DEF AnnouncedInv
      <3> QED  BY <1>1, <1>3, <1>7, <2>6, <3>1, AnnouncedRead
    <2>8. ASSUME delivered' = Len(Wire), 1 \notin cuts', reply.declared \/ 3 \notin cuts'
          PROVE  status' = Answered(Truth)
      <3>1. reply.declared \/ (delivered # 3 /\ 3 \notin cuts)
        BY <1>1, <2>8
      <3>2. Content(Io(n)) = Body /\ (reply.hasBody \/ delivered = 0)
        BY <1>1, <1>3, <2>6, <2>8, <3>1, WholeRead
      <3>3. delivered = 0 => status.playback = "STOPPED"
        BY <1>3 DEF KnownInv, TimedOut
      <3>4. action = "STOP" => status.playback = "STOPPED"
        BY <1>3, PlaybackStays DEF IInv, TypeOK
      <3>5. p = Truth
        BY <1>3, <2>2, <3>2, <3>3, <3>4, DecodeIsTruth
      <3> QED  BY <2>2, <3>5
    <2>9. KnownInv'
      BY <1>1, <1>4, <1>5, <2>1, <2>3, <2>8 DEF KnownInv
    <2> QED  BY <1>1, <2>3, <2>4, <2>5, <2>7, <2>9 DEF IInv
  <1> QED  BY <1>2, <1>6, <1>7

-----------------------------------------------------------------------------
(* The theorems *)

LEMMA InitHolds == Init => IInv
  <1> SUFFICES ASSUME Init PROVE IInv
    OBVIOUS
  <1>1. /\ action \in Actions /\ reply \in RepliesTo(action) /\ delivered = 0
        /\ buf = <<>> /\ parsed = FALSE /\ done = FALSE /\ status = TimedOut /\ cuts = {}
    BY DEF Init
  <1>2. Len(Wire) \in {2, 4}
    BY <1>1, WireUnits DEF RepliesTo
  <1>3. TypeOK
    <2>1. TimedOut \in Status
      BY DEF TimedOut, Status, Playback
    <2>2. done \in BOOLEAN /\ parsed \in BOOLEAN
      BY <1>1
    <2>3. delivered \in 0..Len(Wire) /\ seconds \in 0..Timeout
      BY <1>1, <1>2, TimeoutNat DEF Init
    <2> QED  BY <1>1, <2>1, <2>2, <2>3 DEF TypeOK, Init
  <1>4. status \in RequestResults(action)
    BY <1>1 DEF RequestResults, Replies, Actions
  <1>5. BufferInv /\ AnnouncedInv
    BY <1>1 DEF BufferInv, AnnouncedInv, Init
  <1>6. KnownInv
    BY <1>1, <1>2 DEF KnownInv
  <1> QED  BY <1>3, <1>4, <1>5, <1>6 DEF IInv

LEMMA NextHolds == IInv /\ [Next]_vars => IInv'
  BY QuietStepKeeps, PollEndKeeps, DestroyKeeps, ReceiveKeeps DEF Next, Program

LEMMA Inductive == Spec => []IInv
  BY InitHolds, NextHolds, PTL DEF Spec

\* The types; in particular makeRequest polls no more often than it may.
THEOREM TypeCorrect == Spec => []TypeOK
  <1>1. IInv => TypeOK
    BY DEF IInv
  <1> QED  BY <1>1, Inductive, PTL

\* However the reply is cut into reads and wherever it ends, makeRequest returns a
\* status that the callers of that request expect.
THEOREM ResultsAreExpected == Spec => []ResultInContract
  <1>1. IInv => ResultInContract
    BY DEF IInv, ResultInContract
  <1> QED  BY <1>1, Inductive, PTL

\* A reply that was read to its end is never reported as a timeout.
THEOREM AnswersAreNoTimeouts == Spec => []AnswerIsNoTimeout
  <1>1. IInv => AnswerIsNoTimeout
    BY DEF IInv, KnownInv, AnswerIsNoTimeout
  <1> QED  BY <1>1, Inductive, PTL

\* A reply that arrives completely, with its header in one read and its body
\* delimited, is decoded for what it says, also in the poll that ends the loop.
THEOREM WholeRepliesAreDecoded == Spec => []WholeReplyDecoded
  <1>1. IInv => WholeReplyDecoded
    BY DEF IInv, KnownInv, WholeReplyDecoded
  <1> QED  BY <1>1, Inductive, PTL
=============================================================================
