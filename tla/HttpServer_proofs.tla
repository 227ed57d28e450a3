--------------------------- MODULE HttpServer_proofs ---------------------------
(***************************************************************************)
(* For every client, pipelining ones included, every length of messages    *)
(* and every size of the reads and writes: the parser's counters are       *)
(* right, requests are handled in order with their bodies, and answers     *)
(* arrive whole and in order.  The first part is about the counters, the   *)
(* second about what the client sends and the server has not used (the     *)
(* buffer and the wire as one stream), and what the server has sent.       *)
(***************************************************************************)
EXTENDS HttpServer, SequenceTheorems, FiniteSetTheorems, TLAPS

\* The units in flight and in the buffer are of requests that have been sent.
Sent(s) == \A i \in DOMAIN s : s[i].req \in DOMAIN reqs

\* The types of what the parser works on, and of what it leaves alone.
ParserTypes ==
    /\ reqs \in Seq(Request)
    /\ wire \in Seq(Units) /\ io \in Seq(Units)
    /\ open \in BOOLEAN /\ finished \in BOOLEAN
    /\ numBytes \in Nat /\ answers \in Nat
    /\ reqLen \in 0..MaxHead
    /\ current \in IF reqLen = 0 THEN {0} ELSE DOMAIN reqs

ReplyTypes ==
    /\ ahead \in Nat
    /\ out \in Seq(Replies) /\ got \in Seq(Replies)
    /\ held \in BOOLEAN /\ left \in BOOLEAN

IInv == ParserTypes /\ CountersAgree /\ Sent(wire) /\ Sent(io)

-----------------------------------------------------------------------------
\* What an empty buffer is.
LEMMA EmptyBuffer ==
    <<>> \in Seq(Units) /\ <<>> \in Seq(Request) /\ Len(<<>>) = 0 /\ DOMAIN <<>> = {}
  OBVIOUS

\* What is left of a sequence without its first n elements.
LEMMA Behind ==
    ASSUME NEW s \in Seq(Units), NEW n \in 0..Len(s)
    PROVE  /\ SubSeq(s, n + 1, Len(s)) \in Seq(Units)
           /\ Len(SubSeq(s, n + 1, Len(s))) = Len(s) - n
           /\ \A i \in 1..(Len(s) - n) :
                 SubSeq(s, n + 1, Len(s))[i] = s[i + n] /\ i + n \in DOMAIN s
<1>1. Len(s) \in Nat /\ n \in Nat
  OBVIOUS
<1>2. \A i \in (n + 1)..Len(s) : i \in 1..Len(s)
  BY <1>1
<1>3. SubSeq(s, n + 1, Len(s)) = [i \in 1..(Len(s) - n) |-> s[i + n]]
  <2>1. SubSeq(s, n + 1, Len(s)) = [i \in 1..(1 + Len(s) - (n + 1)) |-> s[i + (n + 1) - 1]]
    BY <1>1
  <2> QED  BY <1>1, <2>1
<1>4. \A i \in 1..(Len(s) - n) : i + n \in 1..Len(s) /\ s[i + n] \in Units
  BY <1>1
<1> QED  BY <1>1, <1>3, <1>4

\* A sequence of units of the requests in D.
Of(s, D) == s \in Seq(Units) /\ \A i \in DOMAIN s : s[i].req \in D

\* Two such sequences, one behind the other.
LEMMA Joined ==
    ASSUME NEW D, NEW s, NEW t, Of(s, D), Of(t, D)
    PROVE  Of(s \o t, D) /\ Len(s \o t) = Len(s) + Len(t)
<1>1. s \in Seq(Units) /\ t \in Seq(Units)
  BY DEF Of
<1>2. s \o t \in Seq(Units) /\ Len(s \o t) = Len(s) + Len(t)
  BY <1>1
<1>3. ASSUME NEW i \in DOMAIN (s \o t)
      PROVE  (s \o t)[i].req \in D
  <2>1. CASE i <= Len(s)
    <3>1. (s \o t)[i] = s[i] /\ i \in DOMAIN s
      BY <1>1, <1>2, <1>3, <2>1
    <3> QED  BY <3>1 DEF Of
  <2>2. CASE ~(i <= Len(s))
    <3>1. (s \o t)[i] = t[i - Len(s)] /\ i - Len(s) \in DOMAIN t
      BY <1>1, <1>2, <1>3, <2>2
    <3> QED  BY <3>1 DEF Of
  <2> QED  BY <2>1, <2>2
<1> QED  BY <1>2, <1>3 DEF Of

\* What is read moves from the wire to the buffer and leaves the rest.
LEMMA ReadMoves ==
    ASSUME IInv, NEW k \in 1..ReadSize, Read(k)
    PROVE  /\ Buffered(k) \in Seq(Units)
           /\ Len(Buffered(k)) = Len(io) + k
           /\ \A i \in DOMAIN Buffered(k) : Buffered(k)[i].req \in DOMAIN reqs
           /\ wire' \in Seq(Units)
           /\ \A i \in DOMAIN wire' : wire'[i].req \in DOMAIN reqs
<1> USE HttpConstants
<1> DEFINE n == Len(wire)
           p == SubSeq(wire, 1, k)
<1>1. k \in 1..n /\ n \in Nat /\ wire \in Seq(Units) /\ io \in Seq(Units) /\ k \in Nat
  BY DEF Read, IInv, ParserTypes
<1>2. p \in Seq(Units) /\ Len(p) = k /\ \A i \in 1..k : p[i] = wire[i]
  BY <1>1
<1>3. \A i \in 1..k : p[i].req \in DOMAIN reqs
  BY <1>1, <1>2 DEF IInv, Sent
<1> HIDE DEF p
<1>4. Of(io, DOMAIN reqs) /\ Of(p, DOMAIN reqs)
  BY <1>1, <1>2, <1>3 DEF IInv, Sent, Of
<1>5. Of(io \o p, DOMAIN reqs) /\ Len(io \o p) = Len(io) + k
  BY <1>2, <1>4, Joined
<1>6. wire' = SubSeq(wire, k + 1, n)
  BY DEF Read, Removed
<1>7. /\ wire' \in Seq(Units)
      /\ DOMAIN wire' = 1..(n - k)
      /\ \A i \in 1..(n - k) : wire'[i] = wire[i + k] /\ i + k \in DOMAIN wire
  BY <1>1, <1>6, Behind
<1>8. \A i \in DOMAIN wire' : wire'[i].req \in DOMAIN reqs
  BY <1>1, <1>7 DEF IInv, Sent
<1> QED
  BY <1>5, <1>7, <1>8 DEF Buffered, p, Of

\* After an answer or an error the parser starts anew.
LEMMA EmptiedKeeps ==
    ASSUME IInv, wire' \in Seq(Units), Sent(wire)', UNCHANGED <<reqs, open>>,
           io' = <<>>, numBytes' = 0, reqLen' = 0, current' = 0,
           finished' \in BOOLEAN, answers' = answers + 1
    PROVE  IInv'
<1>1. ParserTypes'
  BY EmptyBuffer, HttpConstants DEF IInv, ParserTypes
<1>2. CountersAgree'
  BY EmptyBuffer DEF CountersAgree
<1>3. Sent(io)'
  BY EmptyBuffer DEF Sent
<1> QED  BY <1>1, <1>2, <1>3 DEF IInv

\* A request is handled, or it waits for the rest of its body.
LEMMA DeliverKeeps ==
    ASSUME IInv, NEW k \in 1..ReadSize, Read(k),
           NEW q \in DOMAIN reqs, NEW len \in 1..MaxHead, NEW content \in Seq(Units),
           NEW n \in Nat, n = len + Len(content), Sent(content),
           NEW before, Deliver(q, len, content, n, before)
    PROVE  IInv'
<1>1. reqs \in Seq(Request) /\ reqs[q].body \in Nat
  <2>1. reqs[q] \in Request
    BY DEF IInv, ParserTypes
  <2> QED  BY <2>1, HttpConstants DEF Request, IInv, ParserTypes
<1>2. wire' \in Seq(Units) /\ Sent(wire)' /\ UNCHANGED <<reqs, open>>
  BY ReadMoves DEF Read, client, Sent
<1>3. CASE Complete(n, len, q)
  <2>1. io' = <<>> /\ numBytes' = 0 /\ reqLen' = 0 /\ current' = 0
        /\ finished' = ~reqs[q].keep /\ answers' = answers + 1
    BY <1>3 DEF Deliver, CloseLocalEndpoint, ShouldKeepAlive
  <2> HIDE DEF Units, Request
  <2> QED  BY <1>2, <2>1, EmptiedKeeps
<1>4. CASE ~Complete(n, len, q)
  <2>1. io' = content /\ numBytes' = n /\ reqLen' = len /\ current' = q
        /\ UNCHANGED <<finished, answers>>
    BY <1>4 DEF Deliver
  <2>2. Len(content) < reqs[q].body
    BY <1>1, <1>4 DEF Complete
  <2>3. ParserTypes'
    BY <1>2, <2>1 DEF IInv, ParserTypes
  <2>4. CountersAgree'
    BY <1>2, <2>1, <2>2 DEF CountersAgree
  <2>5. Sent(io)'
    BY <1>2, <2>1 DEF Sent
  <2> QED  BY <1>2, <2>3, <2>4, <2>5 DEF IInv
<1> QED  BY <1>3, <1>4

\* An error leaves the parser as an answer does.
LEMMA RefuseKeeps ==
    ASSUME IInv, NEW k \in 1..ReadSize, Read(k), Refuse
    PROVE  IInv'
<1>1. wire' \in Seq(Units) /\ Sent(wire)' /\ UNCHANGED <<reqs, open>>
  BY ReadMoves DEF Read, client, Sent
<1>2. io' = <<>> /\ numBytes' = 0 /\ reqLen' = 0 /\ current' = 0
      /\ finished' = TRUE /\ answers' = answers + 1
  BY DEF Refuse, CloseLocalEndpoint
<1> QED  BY <1>1, <1>2, EmptiedKeeps

\* A part of a header is added to the buffer.
LEMMA HeaderPartKeeps ==
    ASSUME IInv, NEW k \in 1..ReadSize, HeaderPart(k)
    PROVE  IInv'
<1>1. Read(k) /\ reqLen = 0 /\ io' = Buffered(k) /\ numBytes' = numBytes + k
      /\ UNCHANGED <<reqs, open, finished, reqLen, current, answers>>
  BY DEF HeaderPart, Read, client
<1>2. /\ io' \in Seq(Units) /\ Len(io') = Len(io) + k /\ Sent(io)'
      /\ wire' \in Seq(Units) /\ Sent(wire)'
  BY <1>1, ReadMoves DEF Sent
<1>3. k \in Nat /\ Len(io) \in Nat
  BY DEF IInv, ParserTypes
<1>4. ParserTypes' 
  BY <1>1, <1>2, <1>3 DEF IInv, ParserTypes
<1>5. CountersAgree'
  BY <1>1, <1>2, <1>3 DEF IInv, CountersAgree
<1> QED  BY <1>2, <1>4, <1>5 DEF IInv

\* A header is complete: it leaves the buffer, and what follows it stays.
LEMMA ParseKeeps ==
    ASSUME IInv, NEW k \in 1..ReadSize, NEW len \in 1..(Len(io) + k), Parse(k, len)
    PROVE  IInv'
<1> DEFINE buf == Buffered(k)
           q == buf[len].req
           rest == SubSeq(buf, len + 1, Len(buf))
<1>1. Read(k) /\ reqLen = 0 /\ len \in DOMAIN buf /\ WellFormed(buf, len)
      /\ Deliver(q, len, rest, numBytes + k, out \o Continue(q))
  BY DEF Parse, HeaderEnds, Removed
<1>2. /\ buf \in Seq(Units) /\ Len(buf) = Len(io) + k
      /\ \A i \in DOMAIN buf : buf[i].req \in DOMAIN reqs
  BY <1>1, ReadMoves
<1> HIDE DEF buf
<1>3. q \in DOMAIN reqs /\ reqs[q].head = len /\ reqs[q] \in Request
  BY <1>1, <1>2 DEF WellFormed, IInv, ParserTypes
<1>4. len \in 1..MaxHead
  BY <1>3 DEF Request
<1>5. k \in Nat /\ Len(io) \in Nat /\ numBytes = Len(io)
  BY <1>1 DEF IInv, ParserTypes, CountersAgree
<1>6. /\ rest \in Seq(Units) /\ Len(rest) = Len(buf) - len
      /\ \A i \in 1..(Len(buf) - len) : rest[i] = buf[i + len] /\ i + len \in DOMAIN buf
  <2>1. buf \in Seq(Units) /\ len \in DOMAIN buf
    BY <1>1, <1>2
  <2>2. len \in 0..Len(buf)
    BY <2>1
  <2> QED  BY ONLY <2>1, <2>2, Behind
<1>7. Sent(rest)
  BY <1>2, <1>6 DEF Sent
<1>8. numBytes + k \in Nat /\ numBytes + k = len + Len(rest)
  BY <1>2, <1>4, <1>5, <1>6
<1> HIDE DEF q, rest
<1> QED  BY <1>1, <1>3, <1>4, <1>6, <1>7, <1>8, DeliverKeeps

\* A part of a body is added to the buffer.
LEMMA BodyPartKeeps ==
    ASSUME IInv, NEW k \in 1..ReadSize, BodyPart(k)
    PROVE  IInv'
<1>1. Read(k) /\ reqLen > 0 /\ Deliver(current, reqLen, Buffered(k), numBytes + k, out)
  BY DEF BodyPart
<1>2. /\ Buffered(k) \in Seq(Units) /\ Len(Buffered(k)) = Len(io) + k
      /\ Sent(Buffered(k))
  BY <1>1, ReadMoves DEF Sent
<1>3. k \in Nat /\ Len(io) \in Nat /\ numBytes = reqLen + Len(io)
      /\ current \in DOMAIN reqs /\ reqLen \in 1..MaxHead
  BY <1>1, HttpConstants DEF IInv, ParserTypes, CountersAgree
<1>4. numBytes + k \in Nat /\ numBytes + k = reqLen + Len(Buffered(k))
  BY <1>2, <1>3
<1> QED  BY <1>1, <1>2, <1>3, <1>4, DeliverKeeps

\* The parts of a request.
LEMMA PartsSent ==
    ASSUME NEW D, NEW n \in Nat, n \in D, NEW r \in Request
    PROVE  Of(Header(n, r), D) /\ Of(BodyOf(n, r), D)
<1>1. r.head \in Nat /\ r.body \in Nat
  BY HttpConstants DEF Request
<1>2. Of(Header(n, r), D)
  <2>1. \A i \in 1..r.head :
           [req |-> n, part |-> IF i < r.head THEN "head" ELSE "end"] \in Units
    BY DEF Units
  <2> QED  BY <1>1, <2>1 DEF Header, Of
<1>3. Of(BodyOf(n, r), D)
  <2>1. [req |-> n, part |-> "body"] \in Units
    BY DEF Units
  <2> QED  BY <1>1, <2>1 DEF BodyOf, Of
<1> QED  BY <1>2, <1>3

\* A request is sent behind all that is in flight.
LEMMA SendKeeps ==
    ASSUME IInv, NEW r \in Request, NEW hold \in BOOLEAN, Send(r, hold)
    PROVE  IInv'
<1> DEFINE n == Len(reqs) + 1
           h == Header(n, r)
           b == BodyOf(n, r)
           D == DOMAIN reqs'
<1>1. reqs \in Seq(Request) /\ Len(reqs) \in Nat /\ n \in Nat
  BY DEF IInv, ParserTypes
<1>2. reqs' = Append(reqs, r) /\ wire' = wire \o h \o (IF hold THEN <<>> ELSE b)
      /\ UNCHANGED <<open, finished, io, numBytes, reqLen, current, answers>>
  BY DEF Send, parser
<1>3. /\ reqs' \in Seq(Request) /\ D = 1..n /\ DOMAIN reqs = 1..(n - 1)
      /\ \A i \in DOMAIN reqs : reqs'[i] = reqs[i] /\ i \in D
  BY <1>1, <1>2
<1>4. n \in D
  BY <1>1, <1>3
<1>5. Of(h, D) /\ Of(b, D)
  <2> HIDE DEF D
  <2> QED  BY <1>1, <1>4, PartsSent
<1>6. Of(wire, D)
  BY <1>3 DEF IInv, ParserTypes, Sent, Of
<1>7. Of(wire \o h, D)
  BY <1>5, <1>6, Joined, Zenon
<1>8. Of(<<>>, D)
  BY EmptyBuffer DEF Of
<1>9. Of(wire', D)
  <2>1. CASE hold
    BY <1>2, <1>7, <1>8, <2>1, Joined, Zenon
  <2>2. CASE ~hold
    BY <1>2, <1>5, <1>7, <2>2, Joined, Zenon
  <2> QED  BY <2>1, <2>2
<1>10. wire' \in Seq(Units) /\ Sent(wire)'
  BY <1>9 DEF Of, Sent
<1>11. Sent(io)'
  BY <1>2, <1>3 DEF IInv, Sent
<1>12. ParserTypes'
  BY <1>2, <1>3, <1>10 DEF IInv, ParserTypes
<1>13. CountersAgree'
  BY <1>2, <1>3 DEF IInv, ParserTypes, CountersAgree
<1> QED  BY <1>10, <1>11, <1>12, <1>13 DEF IInv

\* So is the rest of one.
LEMMA SendBodyKeeps ==
    ASSUME IInv, SendBody, reqs # <<>>
    PROVE  IInv'
<1> DEFINE n == Len(reqs)
           b == BodyOf(n, reqs[n])
           D == DOMAIN reqs
<1>1. reqs \in Seq(Request) /\ n \in D /\ n \in Nat /\ reqs[n] \in Request
  BY DEF IInv, ParserTypes
<1>2. wire' = wire \o b
      /\ UNCHANGED <<reqs, open, finished, io, numBytes, reqLen, current, answers>>
  BY DEF SendBody, Body, parser
<1>3. Of(wire, D)
  BY DEF IInv, ParserTypes, Sent, Of
<1>4. Of(b, D)
  <2> HIDE DEF D, n
  <2> QED  BY <1>1, PartsSent
<1>5. Of(wire', D)
  BY <1>2, <1>3, <1>4, Joined, Zenon
<1>6. wire' \in Seq(Units) /\ Sent(wire)'
  BY <1>2, <1>5 DEF Of, Sent
<1> QED  BY <1>2, <1>6 DEF IInv, ParserTypes, CountersAgree, Sent

\* Of a request whose body is held back the header has been sent.
HeldSent == held => reqs # <<>>

\* The invariant is inductive.
LEMMA NextKeeps == IInv /\ HeldSent /\ [Next]_vars => IInv'
<1> SUFFICES ASSUME IInv, HeldSent, [Next]_vars PROVE IInv'
  OBVIOUS
<1>1. ASSUME NEW k \in 1..ReadSize, HeaderPart(k) PROVE IInv'
  BY <1>1, HeaderPartKeeps
<1>2. ASSUME NEW k \in 1..ReadSize, TooLong(k) PROVE IInv'
  BY <1>2, RefuseKeeps DEF TooLong
<1>3. ASSUME NEW k \in 1..ReadSize, NEW len \in 1..(Len(io) + k), Malformed(k, len)
      PROVE  IInv'
  BY <1>3, RefuseKeeps DEF Malformed
<1>4. ASSUME NEW k \in 1..ReadSize, NEW len \in 1..(Len(io) + k), Parse(k, len)
      PROVE  IInv'
  BY <1>4, ParseKeeps
<1>5. ASSUME NEW k \in 1..ReadSize, BodyPart(k) PROVE IInv'
  BY <1>5, BodyPartKeeps
<1>6. CASE Close \/ Leave \/ Output
  BY <1>6 DEF Close, Leave, Output, Write, client, parser, IInv, ParserTypes, CountersAgree, Sent
<1>7. ASSUME NEW r \in Request, NEW hold \in BOOLEAN, Send(r, hold) PROVE IInv'
  BY <1>7, SendKeeps
<1>8. CASE SendBody
  BY <1>8, SendBodyKeeps DEF SendBody, HeldSent
<1>9. CASE UNCHANGED vars
  BY <1>9 DEF vars, client, parser, IInv, ParserTypes, CountersAgree, Sent
<1>10. CASE Receive
  BY <1>1, <1>2, <1>3, <1>4, <1>5, <1>10 DEF Receive
<1> QED  BY <1>6, <1>7, <1>8, <1>9, <1>10 DEF Next

-----------------------------------------------------------------------------
(* What is sent back *)

\* Answers, errors and "100 Continue" are made of good units.
LEMMA ReplyUnits ==
    ASSUME NEW n \in Nat
    PROVE  /\ Answer(n) \in Seq(Replies) /\ Error \in Seq(Replies)
           /\ <<ContinueTo(n)>> \in Seq(Replies) /\ <<>> \in Seq(Replies)
<1>1. \A m \in Nat, p \in {"continue", "headers", "data"} : [to |-> m, part |-> p] \in Replies
  BY DEF Replies
<1>2. ASSUME NEW m \in Nat PROVE Answer(m) \in Seq(Replies)
  <2> DEFINE h == [to |-> m, part |-> "headers"]
             d == [to |-> m, part |-> "data"]
  <2>1. h \in Replies /\ d \in Replies
    BY <1>1
  <2> HIDE DEF h, d, Replies
  <2>2. <<h, d>> \in Seq(Replies)
    BY <2>1
  <2> QED  BY <2>2 DEF Answer, h, d
<1>3. ContinueTo(n) \in Replies
  BY <1>1 DEF ContinueTo
<1> HIDE DEF Replies
<1> QED  BY <1>2, <1>3 DEF Error

\* A request is answered, behind what is to be sent before, or only that is.
LEMMA DeliverReplies ==
    ASSUME NEW q \in Nat, NEW len, NEW content, NEW n, NEW before \in Seq(Replies),
           Deliver(q, len, content, n, before)
    PROVE  out' \in Seq(Replies)
<1>1. before \o Answer(q) \in Seq(Replies)
  BY ReplyUnits
<1> QED  BY <1>1, Zenon DEF Deliver

\* Each step of the server keeps the send buffer what it is.
LEMMA ReceiveReplies ==
    ASSUME IInv, ReplyTypes, Receive
    PROVE  ReplyTypes'
<1>1. PICK k \in 1..ReadSize :
         \/ HeaderPart(k) \/ TooLong(k) \/ BodyPart(k)
         \/ \E len \in 1..(Len(io) + k) : Malformed(k, len) \/ Parse(k, len)
  BY DEF Receive
<1>2. Read(k) /\ UNCHANGED <<ahead, held, left, got>>
  BY <1>1 DEF HeaderPart, TooLong, BodyPart, Malformed, Parse, Read, client
<1>3. out \in Seq(Replies) /\ reqs \in Seq(Request)
  BY DEF ReplyTypes, IInv, ParserTypes
<1>4. CASE HeaderPart(k)
  BY <1>2, <1>3, <1>4 DEF HeaderPart, ReplyTypes
<1>5. CASE TooLong(k) \/ \E len \in 1..(Len(io) + k) : Malformed(k, len)
  <2>1. out' = out \o Error
    BY <1>5 DEF TooLong, Malformed, Refuse
  <2>2. out' \in Seq(Replies)
    <3>1. Error \in Seq(Replies)
      BY ReplyUnits
    <3> HIDE DEF Replies
    <3> QED  BY <1>3, <2>1, <3>1
  <2> QED  BY <1>2, <2>2 DEF ReplyTypes
<1>6. CASE BodyPart(k)
  <2>1. current \in Nat
    BY <1>3 DEF IInv, ParserTypes
  <2>2. out' \in Seq(Replies)
    BY <1>3, <1>6, <2>1, DeliverReplies DEF BodyPart
  <2> QED  BY <1>2, <2>2 DEF ReplyTypes
<1>7. ASSUME NEW len \in 1..(Len(io) + k), Parse(k, len)
      PROVE  ReplyTypes'
  <2> DEFINE q == Buffered(k)[len].req
  <2>1. q \in Nat
    <3>1. len \in DOMAIN Buffered(k)
      BY <1>7 DEF Parse, HeaderEnds
    <3>2. q \in DOMAIN reqs
      BY <1>2, <3>1, ReadMoves
    <3> QED  BY <1>3, <3>2
  <2>2. Continue(q) \in Seq(Replies)
    BY <2>1, ReplyUnits DEF Continue
  <2>3. out \o Continue(q) \in Seq(Replies)
    BY <1>3, <2>2
  <2>4. Deliver(q, len, Removed(Buffered(k), len), numBytes + k, out \o Continue(q))
    BY <1>7 DEF Parse
  <2> HIDE DEF q
  <2>5. out' \in Seq(Replies)
    BY <2>1, <2>3, <2>4, DeliverReplies
  <2> QED  BY <1>2, <2>5 DEF ReplyTypes
<1> QED  BY <1>1, <1>4, <1>5, <1>6, <1>7

\* What the socket takes moves from the send buffer to the client.
LEMMA OutputReplies ==
    ASSUME ReplyTypes, Output
    PROVE  ReplyTypes'
<1>1. PICK n \in 1..Len(out) : Write(n)
  BY DEF Output
<1>2. out \in Seq(Replies) /\ got \in Seq(Replies) /\ n \in Nat /\ n <= Len(out)
  BY DEF ReplyTypes
<1>3. SubSeq(out, 1, n) \in Seq(Replies) /\ SubSeq(out, n + 1, Len(out)) \in Seq(Replies)
  <2>1. \A i \in 1..Len(out) : out[i] \in Replies
    BY <1>2
  <2> HIDE DEF Replies
  <2> QED  BY <1>2, <2>1
<1>4. got' = got \o SubSeq(out, 1, n) /\ out' = SubSeq(out, n + 1, Len(out))
      /\ UNCHANGED <<ahead, held, left>>
  BY <1>1 DEF Write, Unsent, Removed
<1>5. got' \in Seq(Replies)
  BY <1>2, <1>3, <1>4
<1> QED  BY <1>3, <1>4, <1>5 DEF ReplyTypes

\* All of it together is inductive.
Inv == IInv /\ HeldSent /\ ReplyTypes

LEMMA InvKept == Inv /\ [Next]_vars => Inv'
<1> SUFFICES ASSUME Inv, [Next]_vars PROVE Inv'
  OBVIOUS
<1>1. IInv'
  BY NextKeeps DEF Inv
<1>2. CASE Receive
  <2>1. UNCHANGED <<held, reqs>>
    BY <1>2 DEF Receive, HeaderPart, TooLong, BodyPart, Malformed, Parse, Read, client
  <2> QED  BY <1>1, <1>2, <2>1, ReceiveReplies DEF Inv, HeldSent
<1>3. CASE Output
  <2>1. UNCHANGED <<held, reqs>>
    BY <1>3 DEF Output, Write
  <2> QED  BY <1>1, <1>3, <2>1, OutputReplies DEF Inv, HeldSent
<1>4. CASE Close \/ Leave
  <2>1. UNCHANGED <<ahead, out, got, held, reqs>> /\ (left' = left \/ left' = TRUE)
    BY <1>4 DEF Close, Leave, client
  <2>2. left' \in BOOLEAN
    BY <2>1, Zenon DEF Inv, ReplyTypes
  <2> QED  BY <1>1, <2>1, <2>2 DEF Inv, HeldSent, ReplyTypes
<1>5. CASE SendBody
  BY <1>1, <1>5 DEF SendBody, Inv, HeldSent, ReplyTypes
<1>6. ASSUME NEW r \in Request, NEW hold \in BOOLEAN, Send(r, hold) PROVE Inv'
  <2>1. ReplyTypes'
    BY <1>6 DEF Send, Inv, ReplyTypes
  <2>2. reqs' = Append(reqs, r) /\ reqs \in Seq(Request)
    BY <1>6 DEF Send, Inv, IInv, ParserTypes
  <2>3. reqs' # <<>>
    BY <2>2
  <2> QED  BY <1>1, <2>1, <2>3 DEF Inv, HeldSent
<1>7. CASE UNCHANGED vars
  BY <1>1, <1>7 DEF vars, client, Inv, HeldSent, ReplyTypes
<1> QED  BY <1>2, <1>3, <1>4, <1>5, <1>6, <1>7 DEF Next

\* The invariant holds in every reachable state.
LEMMA Invariance == Spec => []Inv
<1>1. ASSUME Init PROVE Inv
  <2>1. ParserTypes
    <3>1. open \in BOOLEAN /\ finished \in BOOLEAN
      BY <1>1, Zenon DEF Init
    <3>2. reqs \in Seq(Request) /\ wire \in Seq(Units) /\ io \in Seq(Units)
      BY <1>1, EmptyBuffer, Zenon DEF Init
    <3>3. reqLen \in 0..MaxHead /\ numBytes \in Nat /\ answers \in Nat
          /\ current \in IF reqLen = 0 THEN {0} ELSE DOMAIN reqs
      BY <1>1, HttpConstants DEF Init
    <3> QED  BY <3>1, <3>2, <3>3 DEF ParserTypes
  <2>2. CountersAgree
    BY <1>1, EmptyBuffer DEF Init, CountersAgree
  <2>3. Sent(wire) /\ Sent(io)
    BY <1>1, EmptyBuffer DEF Init, Sent
  <2>4. ReplyTypes
    <3>1. held \in BOOLEAN /\ left \in BOOLEAN
      BY <1>1, Zenon DEF Init
    <3>2. out \in Seq(Replies) /\ got \in Seq(Replies)
      BY <1>1, ReplyUnits, Zenon DEF Init
    <3>3. ahead \in Nat
      BY <1>1, HttpConstants DEF Init
    <3> QED  BY <3>1, <3>2, <3>3 DEF ReplyTypes
  <2>5. HeldSent
    BY <1>1 DEF Init, HeldSent
  <2> QED  BY <2>1, <2>2, <2>3, <2>4, <2>5 DEF Inv, IInv
<1> QED  BY <1>1, InvKept, PTL DEF Spec

-----------------------------------------------------------------------------
\* The state of a connection has its types: a header that waits for its body always
\* belongs to a request of the client.
THEOREM TypeCorrect == Spec => []TypeOK
<1>1. Inv => TypeOK
  BY DEF Inv, IInv, ParserTypes, ReplyTypes, TypeOK
<1> QED  BY <1>1, Invariance, PTL

\* num_bytes_recv agrees with the header and the buffer in every reachable state,
\* also for a client that pipelines: no request is handled early, and none waits for
\* bytes that are there.
THEOREM CountersStayInStep == Spec => []CountersAgree
<1>1. Inv => CountersAgree
  BY DEF Inv, IInv
<1> QED  BY <1>1, Invariance, PTL

-----------------------------------------------------------------------------
(* The order of requests and answers *)

\* Behind place i come the body of request q, as far as the client has sent it, and then
\* later requests only; the body is missing when it is held back.
Followed(s, i, q, rs, h) ==
    /\ \A j \in 1..rs[q].body : i + j <= Len(s) => s[i + j] = [req |-> q, part |-> "body"]
    /\ \A j \in 1..Len(s) : j > i + rs[q].body => s[j].req > q
    /\ IF h /\ q = Len(rs) THEN Len(s) = i ELSE i + rs[q].body <= Len(s)

\* What the client sends: its requests in order, each header followed by its body.
InOrder(s, rs, h) ==
    /\ s \in Seq(Units)
    /\ \A i \in 1..Len(s) : s[i].req \in DOMAIN rs
    /\ \A i, j \in 1..Len(s) : i <= j => s[i].req <= s[j].req
    /\ \A i \in 1..Len(s) : s[i].part = "end" => Followed(s, i, s[i].req, rs, h)

\* The numbers of a request.
LEMMA RequestNumbers ==
    ASSUME NEW rs \in Seq(Request), NEW q \in DOMAIN rs
    PROVE  /\ rs[q] \in Request /\ q \in Nat /\ q >= 1 /\ q <= Len(rs) /\ Len(rs) \in Nat
           /\ rs[q].head \in Nat /\ rs[q].head >= 1 /\ rs[q].body \in Nat
<1>1. rs[q] \in Request
  OBVIOUS
<1>2. q \in 1..Len(rs) /\ Len(rs) \in Nat
  OBVIOUS
<1>3. rs[q].head \in Nat /\ rs[q].head >= 1 /\ rs[q].body \in Nat
  BY <1>1, HttpConstants DEF Request
<1> QED  BY <1>1, <1>2, <1>3

\* A body, place by place.
LEMMA BodyPlaces ==
    ASSUME NEW n \in Nat, NEW b \in Nat, NEW r, r.body = b
    PROVE  /\ BodyOf(n, r) \in Seq(Units) /\ Len(BodyOf(n, r)) = b
           /\ \A i \in 1..b : BodyOf(n, r)[i] = [req |-> n, part |-> "body"]
<1> DEFINE x == [req |-> n, part |-> "body"]
           f == [i \in 1..b |-> x]
<1>1. x \in Units
  BY DEF Units
<1> HIDE DEF x, Units
<1>2. f \in Seq(Units) /\ Len(f) = b /\ \A i \in 1..b : f[i] = x
  BY <1>1
<1>3. BodyOf(n, r) = f
  BY DEF BodyOf, x
<1> HIDE DEF f
<1> QED  BY <1>2, <1>3 DEF x

\* The server takes units from the front only.
LEMMA FollowedBehind ==
    ASSUME NEW s \in Seq(Units), NEW m \in 0..Len(s), NEW i \in m..Len(s),
           NEW rs \in Seq(Request), NEW q \in DOMAIN rs, NEW h, Followed(s, i, q, rs, h)
    PROVE  Followed(SubSeq(s, m + 1, Len(s)), i - m, q, rs, h)
<1> DEFINE t == SubSeq(s, m + 1, Len(s))
           b == rs[q].body
           n == Len(s)
<1>1. b \in Nat /\ n \in Nat /\ m \in Nat /\ i \in Nat /\ m <= i /\ i <= n
  BY RequestNumbers
<1>2. Len(t) = n - m /\ \A j \in 1..(n - m) : t[j] = s[j + m]
  BY Behind
<1>3. /\ \A j \in 1..b : i + j <= n => s[i + j] = [req |-> q, part |-> "body"]
      /\ \A j \in 1..n : j > i + b => s[j].req > q
      /\ IF h /\ q = Len(rs) THEN n = i ELSE i + b <= n
  BY DEF Followed
<1> HIDE DEF t, b, n
<1>4. ASSUME NEW j \in 1..b, (i - m) + j <= n - m
      PROVE  t[(i - m) + j] = [req |-> q, part |-> "body"]
  <2>1. (i - m) + j \in 1..(n - m) /\ i + j <= n
    BY <1>1, <1>4
  <2>2. t[(i - m) + j] = s[((i - m) + j) + m]
    BY <1>2, <2>1
  <2>3. ((i - m) + j) + m = i + j
    BY <1>1, <1>4
  <2> QED  BY <1>3, <2>1, <2>2, <2>3
<1>5. ASSUME NEW j \in 1..(n - m), j > (i - m) + b
      PROVE  t[j].req > q
  <2>1. j + m \in 1..n /\ j + m > i + b
    BY <1>1, <1>5
  <2> QED  BY <1>2, <1>3, <2>1
<1>6. IF h /\ q = Len(rs) THEN n - m = i - m ELSE (i - m) + b <= n - m
  BY <1>1, <1>3
<1> QED  BY <1>2, <1>4, <1>5, <1>6 DEF Followed, t, b

\* So what is left is in order.
LEMMA InOrderBehind ==
    ASSUME NEW rs \in Seq(Request), NEW h, NEW s, InOrder(s, rs, h), NEW m \in 0..Len(s)
    PROVE  InOrder(SubSeq(s, m + 1, Len(s)), rs, h)
<1> DEFINE t == SubSeq(s, m + 1, Len(s))
           n == Len(s)
<1>1. s \in Seq(Units) /\ n \in Nat /\ m \in Nat
  BY DEF InOrder
<1>2. t \in Seq(Units) /\ Len(t) = n - m
      /\ \A j \in 1..(n - m) : t[j] = s[j + m] /\ j + m \in 1..n
  BY <1>1, Behind
<1> HIDE DEF t, n, Units
<1>3. \A i \in 1..(n - m) : t[i].req \in DOMAIN rs
  BY <1>2 DEF InOrder, n
<1>4. ASSUME NEW i \in 1..(n - m), NEW j \in 1..(n - m), i <= j
      PROVE  t[i].req <= t[j].req
  <2>1. i + m <= j + m /\ i + m \in 1..n /\ j + m \in 1..n
    BY <1>1, <1>2, <1>4
  <2> QED  BY <1>2, <2>1 DEF InOrder, n
<1>5. ASSUME NEW i \in 1..(n - m), t[i].part = "end"
      PROVE  Followed(t, i, t[i].req, rs, h)
  <2> DEFINE q == t[i].req
  <2>1. q \in DOMAIN rs
    BY <1>3
  <2>2. i + m \in m..n /\ i + m \in 1..n /\ t[i] = s[i + m]
    BY <1>1, <1>2
  <2>3. Followed(s, i + m, q, rs, h)
    BY <1>5, <2>2 DEF InOrder, n
  <2>4. Followed(t, (i + m) - m, q, rs, h)
    BY <1>1, <2>1, <2>2, <2>3, FollowedBehind DEF t, n
  <2>5. (i + m) - m = i
    BY <1>1
  <2> QED  BY <2>4, <2>5
<1> QED  BY <1>2, <1>3, <1>4, <1>5 DEF InOrder, t

\* Two sequences of units, place by place.
LEMMA Places ==
    ASSUME NEW s \in Seq(Units), NEW t \in Seq(Units)
    PROVE  /\ s \o t \in Seq(Units) /\ Len(s \o t) = Len(s) + Len(t)
           /\ Len(s) \in Nat /\ Len(t) \in Nat
           /\ \A i \in 1..Len(s) : (s \o t)[i] = s[i]
           /\ \A i \in 1..Len(t) : (s \o t)[Len(s) + i] = t[i]
           /\ \A i \in 1..(Len(s) + Len(t)) :
                 i > Len(s) => i - Len(s) \in 1..Len(t) /\ (s \o t)[i] = t[i - Len(s)]
<1> HIDE DEF Units
<1>1. Len(s) \in Nat /\ Len(t) \in Nat
  OBVIOUS
<1>2. /\ s \o t \in Seq(Units) /\ Len(s \o t) = Len(s) + Len(t)
      /\ \A i \in 1..(Len(s) + Len(t)) :
            (s \o t)[i] = IF i <= Len(s) THEN s[i] ELSE t[i - Len(s)]
  BY ConcatProperties
<1>3. ASSUME NEW i \in 1..Len(s) PROVE (s \o t)[i] = s[i]
  BY <1>1, <1>2
<1>4. ASSUME NEW i \in 1..Len(t) PROVE (s \o t)[Len(s) + i] = t[i]
  <2>1. Len(s) + i \in 1..(Len(s) + Len(t)) /\ ~(Len(s) + i <= Len(s))
        /\ (Len(s) + i) - Len(s) = i
    BY <1>1
  <2> QED  BY <1>2, <2>1
<1>5. ASSUME NEW i \in 1..(Len(s) + Len(t)), i > Len(s)
      PROVE  i - Len(s) \in 1..Len(t) /\ (s \o t)[i] = t[i - Len(s)]
  BY <1>1, <1>2, <1>5
<1> QED  BY <1>1, <1>2, <1>3, <1>4, <1>5

\* Later requests may be sent behind a request whose body is there.
LEMMA FollowedBefore ==
    ASSUME NEW s \in Seq(Units), NEW t \in Seq(Units), NEW i \in Nat, NEW q \in Nat,
           NEW rs, NEW h, Followed(s, i, q, rs, h), ~(h /\ q = Len(rs)), rs[q].body \in Nat,
           NEW rt, NEW g, ~(g /\ q = Len(rt)), rt[q] = rs[q],
           \A j \in 1..Len(t) : t[j].req > q
    PROVE  Followed(s \o t, i, q, rt, g)
<1> DEFINE b == rs[q].body
           u == s \o t
           m == Len(s)
           n == Len(t)
<1>1. /\ Len(u) = m + n /\ m \in Nat /\ n \in Nat
      /\ \A j \in 1..m : u[j] = s[j]
      /\ \A j \in 1..(m + n) : j > m => j - m \in 1..n /\ u[j] = t[j - m]
  BY Places
<1>2. /\ \A j \in 1..b : i + j <= m => s[i + j] = [req |-> q, part |-> "body"]
      /\ \A j \in 1..m : j > i + b => s[j].req > q
      /\ i + b <= m
      /\ b \in Nat
  BY DEF Followed
<1>3. \A j \in 1..n : t[j].req > q
  OBVIOUS
<1> HIDE DEF b, u, m, n
<1>4. ASSUME NEW j \in 1..b PROVE u[i + j] = [req |-> q, part |-> "body"]
  <2>1. i + j <= m /\ i + j \in 1..m
    BY <1>1, <1>2
  <2> QED  BY <1>1, <1>2, <2>1
<1>5. ASSUME NEW j \in 1..(m + n), j > i + b PROVE u[j].req > q
  <2>1. CASE j > m
    BY <1>1, <1>3, <2>1
  <2>2. CASE ~(j > m)
    <3>1. j \in 1..m
      BY <1>1, <2>2
    <3> QED  BY <1>1, <1>2, <1>5, <3>1
  <2> QED  BY <2>1, <2>2
<1>6. i + b <= m + n
  BY <1>1, <1>2
<1> QED  BY <1>1, <1>4, <1>5, <1>6 DEF Followed, b, u

\* What stands behind other units is followed by the same.
LEMMA FollowedShifted ==
    ASSUME NEW s \in Seq(Units), NEW t \in Seq(Units), NEW i \in 1..Len(t),
           NEW q, NEW rs, NEW h, Followed(t, i, q, rs, h), rs[q].body \in Nat
    PROVE  Followed(s \o t, Len(s) + i, q, rs, h)
<1> DEFINE b == rs[q].body
           u == s \o t
           m == Len(s)
           n == Len(t)
<1>1. /\ Len(u) = m + n /\ m \in Nat /\ n \in Nat
      /\ \A j \in 1..n : u[m + j] = t[j]
      /\ \A j \in 1..(m + n) : j > m => j - m \in 1..n /\ u[j] = t[j - m]
  BY Places
<1>2. /\ \A j \in 1..b : i + j <= n => t[i + j] = [req |-> q, part |-> "body"]
      /\ \A j \in 1..n : j > i + b => t[j].req > q
      /\ IF h /\ q = Len(rs) THEN n = i ELSE i + b <= n
      /\ b \in Nat /\ i \in 1..n
  BY DEF Followed
<1> HIDE DEF b, u, m, n
<1>3. ASSUME NEW j \in 1..b, (m + i) + j <= m + n
      PROVE  u[(m + i) + j] = [req |-> q, part |-> "body"]
  <2>1. i + j \in 1..n /\ i + j <= n /\ (m + i) + j = m + (i + j)
    BY <1>1, <1>2, <1>3
  <2>2. u[m + (i + j)] = t[i + j]
    BY <1>1, <2>1
  <2>3. t[i + j] = [req |-> q, part |-> "body"]
    BY <1>2, <2>1
  <2>4. u[(m + i) + j] = u[m + (i + j)]
    BY <2>1, Zenon
  <2> QED  BY <2>2, <2>3, <2>4, Zenon
<1>4. ASSUME NEW j \in 1..(m + n), j > (m + i) + b PROVE u[j].req > q
  <2>1. j > m /\ j - m \in 1..n /\ j - m > i + b
    BY <1>1, <1>2, <1>4
  <2> QED  BY <1>1, <1>2, <2>1
<1>5. IF h /\ q = Len(rs) THEN m + n = m + i ELSE (m + i) + b <= m + n
  BY <1>1, <1>2
<1> QED  BY <1>1, <1>3, <1>4, <1>5 DEF Followed, b, u, m

\* The body that was held back comes behind its header.
LEMMA FollowedByBody ==
    ASSUME NEW s \in Seq(Units), NEW i \in Nat, NEW rs \in Seq(Request), rs # <<>>,
           Followed(s, i, Len(rs), rs, TRUE)
    PROVE  Followed(s \o BodyOf(Len(rs), rs[Len(rs)]), i, Len(rs), rs, FALSE)
<1> DEFINE q == Len(rs)
           b == rs[q].body
           t == BodyOf(q, rs[q])
           u == s \o t
           m == Len(s)
<1>1. q \in DOMAIN rs /\ b \in Nat /\ q \in Nat
  <2>1. q \in DOMAIN rs
    OBVIOUS
  <2> QED  BY <2>1, RequestNumbers
<1>2. t \in Seq(Units) /\ Len(t) = b /\ \A j \in 1..b : t[j] = [req |-> q, part |-> "body"]
  <2> HIDE DEF q
  <2> QED  BY <1>1, BodyPlaces
<1>3. m = i
  BY DEF Followed
<1> HIDE DEF t
<1>4. Len(u) = m + b /\ m \in Nat /\ \A j \in 1..b : u[m + j] = t[j]
  BY <1>2, Places
<1> HIDE DEF q, b, u, m
<1>5. \A j \in 1..b : u[i + j] = [req |-> q, part |-> "body"]
  BY <1>2, <1>3, <1>4
<1>6. \A j \in 1..(m + b) : ~(j > i + b)
  BY <1>1, <1>3, <1>4
<1>7. i + b <= m + b
  BY <1>1, <1>3, <1>4
<1> QED  BY <1>4, <1>5, <1>6, <1>7 DEF Followed, b, u, q, t

\* What comes later is sent behind.
LEMMA InOrderJoined ==
    ASSUME NEW rs, NEW h, NEW s, InOrder(s, rs, h),
           NEW rt \in Seq(Request), NEW g, NEW t, InOrder(t, rt, g),
           DOMAIN rs \subseteq DOMAIN rt,
           \A i \in 1..Len(s), j \in 1..Len(t) : s[i].req <= t[j].req,
           \A i \in 1..Len(s) : s[i].part = "end" => Followed(s \o t, i, s[i].req, rt, g)
    PROVE  InOrder(s \o t, rt, g)
<1> DEFINE u == s \o t
           m == Len(s)
           n == Len(t)
<1>1. s \in Seq(Units) /\ t \in Seq(Units)
  BY DEF InOrder
<1>2. /\ u \in Seq(Units) /\ Len(u) = m + n /\ m \in Nat /\ n \in Nat
      /\ \A j \in 1..m : u[j] = s[j]
      /\ \A j \in 1..(m + n) : j > m => j - m \in 1..n /\ u[j] = t[j - m]
  BY <1>1, Places
<1>3. /\ \A i \in 1..m : s[i].req \in DOMAIN rt
      /\ \A i, j \in 1..m : i <= j => s[i].req <= s[j].req
      /\ \A i \in 1..n : t[i].req \in DOMAIN rt
      /\ \A i, j \in 1..n : i <= j => t[i].req <= t[j].req
      /\ \A i \in 1..n : t[i].part = "end" => Followed(t, i, t[i].req, rt, g)
      /\ \A i \in 1..m, j \in 1..n : s[i].req <= t[j].req
      /\ \A i \in 1..m : s[i].part = "end" => Followed(u, i, s[i].req, rt, g)
  BY DEF InOrder
<1> HIDE DEF m, n, Units
<1>4. \A i \in 1..(m + n) : ~(i > m) => i \in 1..m
  BY <1>2
<1>5. \A i \in 1..(m + n) : u[i].req \in DOMAIN rt
  BY <1>2, <1>3, <1>4, Zenon
<1>6. ASSUME NEW i \in 1..(m + n), NEW j \in 1..(m + n), i <= j
      PROVE  u[i].req <= u[j].req
  <2>1. CASE j > m /\ i > m
    <3>1. i - m <= j - m
      BY <1>2, <1>6
    <3> QED  BY <1>2, <1>3, <2>1, <3>1
  <2>2. CASE j > m /\ ~(i > m)
    BY <1>2, <1>3, <1>4, <2>2
  <2>3. CASE ~(j > m)
    <3>1. i \in 1..m /\ j \in 1..m
      BY <1>2, <1>6, <2>3
    <3> QED  BY <1>2, <1>3, <1>6, <3>1
  <2> QED  BY <2>1, <2>2, <2>3
<1>7. ASSUME NEW i \in 1..(m + n), u[i].part = "end"
      PROVE  Followed(u, i, u[i].req, rt, g)
  <2>1. CASE i > m
    <3>1. i - m \in 1..n /\ u[i] = t[i - m] /\ m + (i - m) = i
      BY <1>2, <2>1
    <3>2. Followed(t, i - m, t[i - m].req, rt, g) /\ t[i - m].req \in DOMAIN rt
      BY <1>3, <1>7, <3>1
    <3>3. rt[t[i - m].req].body \in Nat
      BY <3>2, RequestNumbers
    <3>4. Followed(u, m + (i - m), t[i - m].req, rt, g)
      BY <1>1, <3>1, <3>2, <3>3, FollowedShifted DEF m, n
    <3> QED  BY <3>1, <3>4
  <2>2. CASE ~(i > m)
    BY <1>2, <1>3, <1>4, <1>7, <2>2
  <2> QED  BY <2>1, <2>2
<1> QED  BY <1>2, <1>5, <1>6, <1>7 DEF InOrder

\* The parts of a new request, the body if it is not held back.
Parts(n, r, hold) == Header(n, r) \o (IF hold THEN <<>> ELSE BodyOf(n, r))

\* Its places.
LEMMA PartsPlaces ==
    ASSUME NEW n \in Nat, NEW r \in Request, NEW hold \in BOOLEAN
    PROVE  /\ Parts(n, r, hold) \in Seq(Units)
           /\ Len(Parts(n, r, hold)) = r.head + (IF hold THEN 0 ELSE r.body)
           /\ r.head \in Nat /\ r.head >= 1 /\ r.body \in Nat
           /\ \A i \in 1..Len(Parts(n, r, hold)) :
                 /\ Parts(n, r, hold)[i].req = n
                 /\ Parts(n, r, hold)[i].part = "end" => i = r.head
                 /\ i > r.head => Parts(n, r, hold)[i] = [req |-> n, part |-> "body"]
<1> DEFINE h == Header(n, r)
           b == IF hold THEN <<>> ELSE BodyOf(n, r)
           x == IF hold THEN 0 ELSE r.body
           u == h \o b
<1>1. r.head \in Nat /\ r.head >= 1 /\ r.body \in Nat /\ x \in Nat
  BY HttpConstants DEF Request
<1>2. /\ h \in Seq(Units) /\ Len(h) = r.head
      /\ \A i \in 1..r.head :
            h[i] = [req |-> n, part |-> IF i < r.head THEN "head" ELSE "end"]
  <2>1. \A i \in 1..r.head :
           [req |-> n, part |-> IF i < r.head THEN "head" ELSE "end"] \in Units
    BY DEF Units
  <2> QED  BY <1>1, <2>1 DEF Header
<1>3. b \in Seq(Units) /\ Len(b) = x /\ \A i \in 1..x : b[i] = [req |-> n, part |-> "body"]
  <2>1. CASE hold
    <3>1. b = <<>> /\ x = 0
      BY <2>1
    <3> HIDE DEF b, x
    <3> QED  BY <3>1, EmptyBuffer
  <2>2. CASE ~hold
    <3>1. b = BodyOf(n, r) /\ x = r.body
      BY <2>2
    <3> HIDE DEF b, x
    <3> QED  BY <1>1, <3>1, BodyPlaces
  <2> QED  BY <2>1, <2>2
<1> HIDE DEF h, b, x, Units
<1>4. /\ u \in Seq(Units) /\ Len(u) = r.head + x
      /\ \A i \in 1..r.head : u[i] = h[i]
      /\ \A i \in 1..(r.head + x) :
            i > r.head => i - r.head \in 1..x /\ u[i] = b[i - r.head]
  <2>1. /\ u \in Seq(Units) /\ Len(u) = Len(h) + Len(b)
        /\ \A i \in 1..Len(h) : u[i] = h[i]
        /\ \A i \in 1..(Len(h) + Len(b)) :
              i > Len(h) => i - Len(h) \in 1..Len(b) /\ u[i] = b[i - Len(h)]
    BY <1>2, <1>3, Places
  <2> QED  BY <1>2, <1>3, <2>1, Zenon
<1>5. ASSUME NEW i \in 1..(r.head + x)
      PROVE  /\ u[i].req = n
             /\ u[i].part = "end" => i = r.head
             /\ i > r.head => u[i] = [req |-> n, part |-> "body"]
  <2>1. CASE i > r.head
    <3>1. u[i] = [req |-> n, part |-> "body"]
      BY <1>3, <1>4, <2>1
    <3> QED  BY <3>1
  <2>2. CASE ~(i > r.head)
    <3>1. i \in 1..r.head
      BY <1>1, <2>2
    <3>2. u[i] = [req |-> n, part |-> IF i < r.head THEN "head" ELSE "end"]
      BY <1>2, <1>4, <3>1
    <3>3. ~(i < r.head) => i = r.head
      BY <1>1, <3>1
    <3> QED  BY <2>2, <3>2, <3>3
  <2> QED  BY <2>1, <2>2
<1> QED  BY <1>1, <1>4, <1>5 DEF Parts, h, b, x

\* A new request is in order.
LEMMA PartsInOrder ==
    ASSUME NEW rs \in Seq(Request), NEW r \in Request, NEW hold \in BOOLEAN
    PROVE  InOrder(Parts(Len(rs) + 1, r, hold), Append(rs, r), hold)
<1> DEFINE n == Len(rs) + 1
           rt == Append(rs, r)
           t == Parts(n, r, hold)
<1>1. n \in Nat /\ Len(rt) = n /\ rt[n] = r /\ n \in DOMAIN rt
  OBVIOUS
<1>2. /\ t \in Seq(Units) /\ Len(t) = r.head + (IF hold THEN 0 ELSE r.body)
      /\ r.head \in Nat /\ r.head >= 1 /\ r.body \in Nat
      /\ \A i \in 1..Len(t) :
            /\ t[i].req = n
            /\ t[i].part = "end" => i = r.head
            /\ i > r.head => t[i] = [req |-> n, part |-> "body"]
  BY <1>1, PartsPlaces
<1> HIDE DEF n, rt, t
<1>3. Len(t) \in Nat
  BY <1>2
<1>4. \A i \in 1..Len(t) : t[i].req \in DOMAIN rt
  BY <1>1, <1>2
<1>5. \A i, j \in 1..Len(t) : i <= j => t[i].req <= t[j].req
  BY <1>1, <1>2
<1>6. Followed(t, r.head, n, rt, hold)
  <2>1. ASSUME NEW j \in 1..r.body, r.head + j <= Len(t)
        PROVE  t[r.head + j] = [req |-> n, part |-> "body"]
    <3>1. r.head + j \in 1..Len(t) /\ r.head + j > r.head
      BY <1>2, <1>3, <2>1
    <3> QED  BY <1>2, <3>1, Zenon
  <2>2. \A j \in 1..Len(t) : ~(j > r.head + r.body)
    BY <1>2, <1>3
  <2>3. IF hold /\ n = Len(rt) THEN Len(t) = r.head ELSE r.head + r.body <= Len(t)
    BY <1>1, <1>2
  <2> QED  BY <1>1, <2>1, <2>2, <2>3 DEF Followed
<1>7. \A i \in 1..Len(t) : t[i].part = "end" => Followed(t, i, t[i].req, rt, hold)
  BY <1>2, <1>6
<1> QED  BY <1>2, <1>4, <1>5, <1>7 DEF InOrder, n, rt, t

\* A request is sent behind what the server has not used, when nothing is held back.
LEMMA InOrderSent ==
    ASSUME NEW rs \in Seq(Request), NEW s, InOrder(s, rs, FALSE),
           NEW r \in Request, NEW hold \in BOOLEAN
    PROVE  /\ InOrder(s \o Parts(Len(rs) + 1, r, hold), Append(rs, r), hold)
           /\ \A i \in Nat, q \in DOMAIN rs : Followed(s, i, q, rs, FALSE) =>
                 Followed(s \o Parts(Len(rs) + 1, r, hold), i, q, Append(rs, r), hold)
<1> DEFINE n == Len(rs) + 1
           rt == Append(rs, r)
           t == Parts(n, r, hold)
<1>1. /\ n \in Nat /\ Len(rt) = n /\ rt \in Seq(Request)
      /\ \A q \in DOMAIN rs : rt[q] = rs[q] /\ q \in DOMAIN rt
  OBVIOUS
<1>2. t \in Seq(Units) /\ \A i \in 1..Len(t) : t[i].req = n
  <2>1. n \in Nat
    BY <1>1
  <2>2. /\ t \in Seq(Units) /\ Len(t) = r.head + (IF hold THEN 0 ELSE r.body)
        /\ r.head \in Nat /\ r.head >= 1 /\ r.body \in Nat
        /\ \A i \in 1..Len(t) :
              /\ t[i].req = n
              /\ t[i].part = "end" => i = r.head
              /\ i > r.head => t[i] = [req |-> n, part |-> "body"]
    BY <2>1, PartsPlaces
  <2> HIDE DEF t
  <2> QED  BY <2>2
<1>3. InOrder(t, rt, hold)
  BY PartsInOrder
<1>4. s \in Seq(Units) /\ \A i \in 1..Len(s) : s[i].req \in DOMAIN rs
  BY DEF InOrder
<1>5. \A q \in DOMAIN rs : q \in Nat /\ q < n
  OBVIOUS
<1> HIDE DEF n, rt, t
<1>6. ASSUME NEW i \in Nat, NEW q \in DOMAIN rs, Followed(s, i, q, rs, FALSE)
      PROVE  Followed(s \o t, i, q, rt, hold)
  <2>1. q \in Nat /\ rs[q].body \in Nat
    BY RequestNumbers
  <2>2. ~(FALSE /\ q = Len(rs)) /\ ~(hold /\ q = Len(rt))
    BY <1>1, <1>5
  <2>3. \A j \in 1..Len(t) : t[j].req > q
    BY <1>1, <1>2, <1>5
  <2> QED  BY <1>1, <1>2, <1>4, <1>6, <2>1, <2>2, <2>3, FollowedBefore
<1>7. \A i \in 1..Len(s) : s[i].part = "end" => Followed(s \o t, i, s[i].req, rt, hold)
  <2> SUFFICES ASSUME NEW i \in 1..Len(s), s[i].part = "end"
               PROVE  Followed(s \o t, i, s[i].req, rt, hold)
    OBVIOUS
  <2>1. Followed(s, i, s[i].req, rs, FALSE)
    BY DEF InOrder
  <2>2. i \in Nat
    BY <1>4
  <2> QED  BY <1>4, <1>6, <2>1, <2>2
<1>8. \A i \in 1..Len(s), j \in 1..Len(t) : s[i].req <= t[j].req
  BY <1>1, <1>2, <1>4, <1>5
<1>9. InOrder(s \o t, rt, hold)
  BY <1>1, <1>3, <1>7, <1>8, InOrderJoined
<1> QED  BY <1>6, <1>9 DEF n, rt, t

\* So is the body that was held back.
LEMMA InOrderBodySent ==
    ASSUME NEW rs \in Seq(Request), rs # <<>>, NEW s, InOrder(s, rs, TRUE)
    PROVE  /\ InOrder(s \o BodyOf(Len(rs), rs[Len(rs)]), rs, FALSE)
           /\ \A i \in Nat, q \in DOMAIN rs : Followed(s, i, q, rs, TRUE) =>
                 Followed(s \o BodyOf(Len(rs), rs[Len(rs)]), i, q, rs, FALSE)
<1> DEFINE n == Len(rs)
           t == BodyOf(n, rs[n])
<1>1. n \in DOMAIN rs /\ n \in Nat /\ rs[n].body \in Nat
  <2>1. n \in DOMAIN rs
    OBVIOUS
  <2> QED  BY <2>1, RequestNumbers
<1>2. t \in Seq(Units) /\ \A i \in 1..Len(t) : t[i] = [req |-> n, part |-> "body"]
  <2> HIDE DEF n
  <2>1. /\ t \in Seq(Units) /\ Len(t) = rs[n].body
        /\ \A i \in 1..rs[n].body : t[i] = [req |-> n, part |-> "body"]
    BY <1>1, BodyPlaces
  <2> QED  BY <2>1, Zenon
<1> HIDE DEF t
<1>3. InOrder(t, rs, FALSE)
  <2>1. \A i \in 1..Len(t) : t[i].req = n /\ t[i].part # "end"
    BY <1>2
  <2>2. \A i, j \in 1..Len(t) : t[i].req <= t[j].req
    BY <1>1, <2>1
  <2> HIDE DEF Units, n
  <2> QED  BY <1>1, <1>2, <2>1, <2>2 DEF InOrder
<1>4. s \in Seq(Units) /\ \A i \in 1..Len(s) : s[i].req \in DOMAIN rs
  BY DEF InOrder
<1>5. \A q \in DOMAIN rs : q \in Nat /\ q <= n
  OBVIOUS
<1>6. ASSUME NEW i \in Nat, NEW q \in DOMAIN rs, Followed(s, i, q, rs, TRUE)
      PROVE  Followed(s \o t, i, q, rs, FALSE)
  <2>1. CASE q = n
    BY <1>4, <1>6, <2>1, FollowedByBody DEF t
  <2>2. CASE q # n
    <3>1. q \in Nat /\ rs[q].body \in Nat
      BY RequestNumbers
    <3>2. \A j \in 1..Len(t) : t[j].req > q
      BY <1>1, <1>2, <1>5, <2>2
    <3> QED  BY <1>2, <1>4, <1>6, <2>2, <3>1, <3>2, FollowedBefore
  <2> QED  BY <2>1, <2>2
<1>7. \A i \in 1..Len(s) : s[i].part = "end" => Followed(s \o t, i, s[i].req, rs, FALSE)
  <2> SUFFICES ASSUME NEW i \in 1..Len(s), s[i].part = "end"
               PROVE  Followed(s \o t, i, s[i].req, rs, FALSE)
    OBVIOUS
  <2>1. Followed(s, i, s[i].req, rs, TRUE)
    BY DEF InOrder
  <2>2. i \in Nat
    BY <1>4
  <2> QED  BY <1>4, <1>6, <2>1, <2>2
<1>8. \A i \in 1..Len(s), j \in 1..Len(t) : s[i].req <= t[j].req
  <2> SUFFICES ASSUME NEW i \in 1..Len(s), NEW j \in 1..Len(t) PROVE s[i].req <= t[j].req
    OBVIOUS
  <2>1. t[j].req = n
    BY <1>2
  <2> QED  BY <1>4, <1>5, <2>1
<1>9. InOrder(s \o t, rs, FALSE)
  BY <1>3, <1>7, <1>8, InOrderJoined
<1> QED  BY <1>6, <1>9 DEF t

-----------------------------------------------------------------------------
(* What goes back *)

\* Answers are whole and in order, and "100 Continue" comes before its answer.
Correct(r) ==
    /\ r \in Seq(Replies)
    /\ \A i \in 1..Len(r) :
          /\ r[i].part = "data" => i > 1 /\ r[i - 1] = [r[i] EXCEPT !.part = "headers"]
          /\ r[i].part = "continue" => \A j \in 1..(i - 1) : r[j].to < r[i].to
    /\ \A i, j \in 1..Len(r) : i < j /\ r[j].to # 0 => r[i].to <= r[j].to

UpTo(r, q) == \A i \in 1..Len(r) : r[i].to <= q

\* The answers among the replies, with the errors and without.
Data(r) == {i \in DOMAIN r : r[i].part = "data"}
Good(r) == {i \in DOMAIN r : r[i].part = "data" /\ r[i].to # 0}

\* There are finitely many of them.
LEMMA DataFinite ==
    ASSUME NEW r \in Seq(Replies)
    PROVE  IsFiniteSet(Data(r)) /\ IsFiniteSet(Good(r)) /\ Good(r) \subseteq Data(r)
<1>1. Len(r) \in Nat /\ DOMAIN r = 1..Len(r)
  OBVIOUS
<1>2. IsFiniteSet(1..Len(r))
  BY <1>1, FS_Interval
<1>3. Data(r) \in SUBSET (1..Len(r)) /\ Good(r) \in SUBSET (1..Len(r))
  BY <1>1 DEF Data, Good
<1>4. IsFiniteSet(Data(r))
  BY <1>2, <1>3, FS_Subset
<1>5. IsFiniteSet(Good(r))
  BY <1>2, <1>3, FS_Subset
<1> QED  BY <1>4, <1>5 DEF Data, Good

\* The places of an answer, or of an error, behind other replies.
LEMMA AnswerPlaces ==
    ASSUME NEW r \in Seq(Replies), NEW q \in Nat
    PROVE  /\ r \o Answer(q) \in Seq(Replies) /\ Len(r) \in Nat
           /\ Len(r \o Answer(q)) = Len(r) + 2
           /\ \A i \in 1..Len(r) : (r \o Answer(q))[i] = r[i]
           /\ (r \o Answer(q))[Len(r) + 1] = [to |-> q, part |-> "headers"]
           /\ (r \o Answer(q))[Len(r) + 2] = [to |-> q, part |-> "data"]
<1> DEFINE h == [to |-> q, part |-> "headers"]
           d == [to |-> q, part |-> "data"]
           a == <<h, d>>
<1>1. h \in Replies /\ d \in Replies
  BY DEF Replies
<1> HIDE DEF h, d, Replies
<1>2. a \in Seq(Replies) /\ Len(a) = 2 /\ a[1] = h /\ a[2] = d
  BY <1>1
<1>3. Len(r) \in Nat
  OBVIOUS
<1> HIDE DEF a
<1>4. /\ r \o a \in Seq(Replies) /\ Len(r \o a) = Len(r) + 2
      /\ \A i \in 1..(Len(r) + 2) :
            (r \o a)[i] = IF i <= Len(r) THEN r[i] ELSE a[i - Len(r)]
  BY <1>2, ConcatProperties
<1>5. \A i \in 1..Len(r) : (r \o a)[i] = r[i]
  BY <1>3, <1>4
<1>6. (r \o a)[Len(r) + 1] = a[1] /\ (r \o a)[Len(r) + 2] = a[2]
  <2>1. Len(r) + 1 \in 1..(Len(r) + 2) /\ Len(r) + 2 \in 1..(Len(r) + 2)
        /\ ~(Len(r) + 1 <= Len(r)) /\ ~(Len(r) + 2 <= Len(r))
        /\ (Len(r) + 1) - Len(r) = 1 /\ (Len(r) + 2) - Len(r) = 2
    BY <1>3
  <2> QED  BY <1>4, <2>1
<1>7. Answer(q) = a
  BY DEF Answer, a, h, d
<1> QED  BY <1>2, <1>3, <1>4, <1>5, <1>6, <1>7 DEF h, d

\* An answer behind what is not later, and an error behind anything.
LEMMA AnswerCorrect ==
    ASSUME NEW r, Correct(r), NEW q \in Nat, q = 0 \/ UpTo(r, q)
    PROVE  /\ Correct(r \o Answer(q))
           /\ \A n \in Nat : UpTo(r, n) /\ q <= n => UpTo(r \o Answer(q), n)
<1> DEFINE u == r \o Answer(q)
           m == Len(r)
           h == [to |-> q, part |-> "headers"]
           d == [to |-> q, part |-> "data"]
<1>1. r \in Seq(Replies)
  BY DEF Correct
<1>2. /\ u \in Seq(Replies) /\ m \in Nat /\ Len(u) = m + 2
      /\ \A i \in 1..m : u[i] = r[i]
      /\ u[m + 1] = h /\ u[m + 2] = d
  BY <1>1, AnswerPlaces
<1>3. /\ \A i \in 1..m :
            /\ r[i].part = "data" => i > 1 /\ r[i - 1] = [r[i] EXCEPT !.part = "headers"]
            /\ r[i].part = "continue" => \A j \in 1..(i - 1) : r[j].to < r[i].to
      /\ \A i, j \in 1..m : i < j /\ r[j].to # 0 => r[i].to <= r[j].to
      /\ q = 0 \/ \A i \in 1..m : r[i].to <= q
  BY DEF Correct, UpTo
<1> HIDE DEF u, m, Replies
<1>4. \A i \in 1..(m + 2) : i \in 1..m \/ i = m + 1 \/ i = m + 2
  BY <1>2
<1>5. ASSUME NEW i \in 1..(m + 2), u[i].part = "data"
      PROVE  i > 1 /\ u[i - 1] = [u[i] EXCEPT !.part = "headers"]
  <2>1. CASE i \in 1..m
    <3>1. i > 1 /\ r[i - 1] = [r[i] EXCEPT !.part = "headers"]
      BY <1>2, <1>3, <1>5, <2>1
    <3>2. i - 1 \in 1..m
      BY <1>2, <2>1, <3>1
    <3> QED  BY <1>2, <2>1, <3>1, <3>2
  <2>2. CASE i = m + 1
    BY <1>2, <1>5, <2>2
  <2>3. CASE i = m + 2
    <3>1. i > 1 /\ i - 1 = m + 1
      BY <1>2, <2>3
    <3>2. h = [d EXCEPT !.part = "headers"]
      OBVIOUS
    <3> QED  BY <1>2, <2>3, <3>1, <3>2
  <2> QED  BY <1>4, <2>1, <2>2, <2>3
<1>6. ASSUME NEW i \in 1..(m + 2), u[i].part = "continue", NEW j \in 1..(i - 1)
      PROVE  u[j].to < u[i].to
  <2>1. i \in 1..m
    BY <1>2, <1>4, <1>6
  <2>2. j \in 1..m
    BY <1>2, <2>1
  <2> QED  BY <1>2, <1>3, <1>6, <2>1, <2>2
<1>7. ASSUME NEW i \in 1..(m + 2), NEW j \in 1..(m + 2), i < j, u[j].to # 0
      PROVE  u[i].to <= u[j].to
  <2>1. CASE j \in 1..m
    <3>1. i \in 1..m
      BY <1>2, <1>7, <2>1
    <3> QED  BY <1>2, <1>3, <1>7, <2>1, <3>1
  <2>2. CASE j = m + 1 \/ j = m + 2
    <3>1. u[j].to = q /\ q # 0
      BY <1>2, <1>7, <2>2
    <3>2. i \in 1..m \/ i = m + 1
      BY <1>2, <1>7, <2>2
    <3> QED  BY <1>2, <1>3, <3>1, <3>2
  <2> QED  BY <1>4, <2>1, <2>2
<1>8. ASSUME NEW n \in Nat, \A i \in 1..m : r[i].to <= n, q <= n, NEW i \in 1..(m + 2)
      PROVE  u[i].to <= n
  BY <1>2, <1>4, <1>8
<1> QED  BY <1>2, <1>5, <1>6, <1>7, <1>8 DEF Correct, UpTo, u, m

\* It is one answer more.
LEMMA AnswerCounted ==
    ASSUME NEW r \in Seq(Replies), NEW q \in Nat
    PROVE  /\ Cardinality(Data(r \o Answer(q))) = Cardinality(Data(r)) + 1
           /\ Cardinality(Good(r \o Answer(q))) =
                 Cardinality(Good(r)) + (IF q = 0 THEN 0 ELSE 1)
<1> DEFINE u == r \o Answer(q)
           m == Len(r)
<1>1. /\ DOMAIN r = 1..m /\ m \in Nat /\ DOMAIN u = 1..(m + 2)
      /\ \A i \in 1..m : u[i] = r[i]
      /\ u[m + 1] = [to |-> q, part |-> "headers"]
      /\ u[m + 2] = [to |-> q, part |-> "data"]
  <2>1. u \in Seq(Replies) /\ Len(u) = m + 2
    BY AnswerPlaces
  <2>2. DOMAIN u = 1..(m + 2) /\ DOMAIN r = 1..m
    <3> HIDE DEF u, m, Replies
    <3> QED  BY <2>1, LenProperties DEF m
  <2> QED  BY <2>2, AnswerPlaces
<1> HIDE DEF u, m
<1>2. /\ \A i \in 1..(m + 2) : i \in 1..m \/ i = m + 1 \/ i = m + 2
      /\ m + 1 \in 1..(m + 2) /\ m + 2 \in 1..(m + 2)
      /\ \A i \in 1..m : i \in 1..(m + 2) /\ i # m + 2
      /\ m + 1 # m + 2
  BY <1>1
<1>3. u[m + 1].part # "data" /\ u[m + 2].part = "data" /\ u[m + 2].to = q
  BY <1>1
<1>4. Data(u) = Data(r) \cup {m + 2} /\ m + 2 \notin Data(r)
  BY <1>1, <1>2, <1>3 DEF Data
<1>5. CASE q = 0
  <2>1. Good(u) = Good(r)
    BY <1>1, <1>2, <1>3, <1>5 DEF Good
  <2>2. Cardinality(Data(u)) = Cardinality(Data(r)) + 1
    BY <1>4, DataFinite, FS_AddElement
  <2>3. Cardinality(Good(r)) \in Nat
    BY DataFinite, FS_CardinalityType
  <2> QED  BY <1>5, <2>1, <2>2, <2>3 DEF u
<1>6. CASE q # 0
  <2>1. Good(u) = Good(r) \cup {m + 2} /\ m + 2 \notin Good(r)
    BY <1>1, <1>2, <1>3, <1>6 DEF Good
  <2>2. Cardinality(Data(u)) = Cardinality(Data(r)) + 1
    BY <1>4, DataFinite, FS_AddElement
  <2>3. Cardinality(Good(u)) = Cardinality(Good(r)) + 1
    BY <2>1, DataFinite, FS_AddElement
  <2> QED  BY <1>6, <2>2, <2>3 DEF u
<1> QED  BY <1>5, <1>6

\* "100 Continue" goes out before anything for its request.
LEMMA ContinueCorrect ==
    ASSUME NEW r, Correct(r), NEW q \in Nat, \A i \in 1..Len(r) : r[i].to < q
    PROVE  /\ Correct(r \o Continue(q)) /\ UpTo(r \o Continue(q), q)
           /\ Cardinality(Data(r \o Continue(q))) = Cardinality(Data(r))
           /\ Cardinality(Good(r \o Continue(q))) = Cardinality(Good(r))
<1> DEFINE m == Len(r)
           c == ContinueTo(q)
           u == r \o <<c>>
<1>1. r \in Seq(Replies) /\ m \in Nat /\ DOMAIN r = 1..m
  BY DEF Correct
<1>2. \A i \in 1..m : r[i].to \in Nat /\ r[i].to <= q
  <2>1. \A i \in 1..m : r[i] \in Replies
    BY <1>1
  <2> QED  BY <2>1 DEF Replies
<1>3. CASE Continue(q) = <<>>
  <2>1. r \o Continue(q) = r
    BY <1>1, <1>3, ConcatEmptySeq
  <2> QED  BY <1>2, <2>1 DEF UpTo
<1>4. CASE Continue(q) = <<c>>
  <2>1. /\ u \in Seq(Replies) /\ Len(u) = m + 1 /\ DOMAIN u = 1..(m + 1)
        /\ \A i \in 1..m : u[i] = r[i]
        /\ u[m + 1] = c
    <3>1. c \in Replies
      BY DEF ContinueTo, Replies
    <3> HIDE DEF c, Replies
    <3>2. u = Append(r, c)
      BY <1>1
    <3> QED  BY <1>1, <3>1, <3>2
  <2>2. c.part = "continue" /\ c.to = q
    BY DEF ContinueTo
  <2>3. /\ \A i \in 1..m :
              /\ r[i].part = "data" => i > 1 /\ r[i - 1] = [r[i] EXCEPT !.part = "headers"]
              /\ r[i].part = "continue" => \A j \in 1..(i - 1) : r[j].to < r[i].to
        /\ \A i, j \in 1..m : i < j /\ r[j].to # 0 => r[i].to <= r[j].to
        /\ \A i \in 1..m : r[i].to < q
    BY DEF Correct
  <2> HIDE DEF u, m, c, Replies
  <2>4. \A i \in 1..(m + 1) : i \in 1..m \/ i = m + 1
    BY <1>1
  <2>5. ASSUME NEW i \in 1..(m + 1), u[i].part = "data"
        PROVE  i > 1 /\ u[i - 1] = [u[i] EXCEPT !.part = "headers"]
    <3>1. i \in 1..m
      BY <2>1, <2>2, <2>4, <2>5
    <3>2. i > 1 /\ r[i - 1] = [r[i] EXCEPT !.part = "headers"]
      BY <2>1, <2>3, <2>5, <3>1
    <3>3. i - 1 \in 1..m
      BY <1>1, <3>1, <3>2
    <3> QED  BY <2>1, <3>1, <3>2, <3>3
  <2>6. ASSUME NEW i \in 1..(m + 1), u[i].part = "continue", NEW j \in 1..(i - 1)
        PROVE  u[j].to < u[i].to
    <3>1. j \in 1..m
      BY <1>1
    <3>2. CASE i \in 1..m
      BY <2>1, <2>3, <2>6, <3>1, <3>2
    <3>3. CASE i = m + 1
      BY <2>1, <2>2, <2>3, <3>1, <3>3
    <3> QED  BY <2>4, <3>2, <3>3
  <2>7. ASSUME NEW i \in 1..(m + 1), NEW j \in 1..(m + 1), i < j, u[j].to # 0
        PROVE  u[i].to <= u[j].to
    <3>1. i \in 1..m
      BY <1>1, <2>7
    <3>2. CASE j \in 1..m
      BY <2>1, <2>3, <2>7, <3>1, <3>2
    <3>3. CASE j = m + 1
      BY <1>2, <2>1, <2>2, <3>1, <3>3
    <3> QED  BY <2>4, <3>2, <3>3
  <2>8. \A i \in 1..(m + 1) : u[i].to <= q
    BY <1>2, <2>1, <2>2, <2>4
  <2>9. Data(u) = Data(r) /\ Good(u) = Good(r)
    <3>1. u[m + 1].part # "data"
      BY <2>1, <2>2
    <3>2. \A i \in 1..m : i \in 1..(m + 1)
      BY <1>1
    <3> QED  BY <1>1, <2>1, <2>4, <3>1, <3>2 DEF Data, Good
  <2>10. Correct(u) /\ UpTo(u, q)
    BY <2>1, <2>5, <2>6, <2>7, <2>8 DEF Correct, UpTo
  <2>11. r \o Continue(q) = u
    BY <1>4 DEF u
  <2> QED  BY <2>9, <2>10, <2>11
<1> QED  BY <1>3, <1>4 DEF Continue

\* What has been received of the replies.
LEMMA ReceivedCorrect ==
    ASSUME NEW g \in Seq(Replies), NEW r \in Seq(Replies), Correct(g \o r)
    PROVE  /\ Correct(g)
           /\ Data(g) \subseteq Data(g \o r) /\ Good(g) \subseteq Good(g \o r)
<1> DEFINE u == g \o r
           m == Len(g)
<1>1. /\ m \in Nat /\ DOMAIN g = 1..m
      /\ \A i \in 1..m : u[i] = g[i] /\ i \in 1..Len(u) /\ i \in DOMAIN u
  <2> HIDE DEF Replies
  <2>1. m \in Nat /\ DOMAIN g = 1..m /\ Len(r) \in Nat
    OBVIOUS
  <2>2. Len(u) = m + Len(r) /\ DOMAIN u = 1..(m + Len(r))
        /\ \A i \in 1..m : u[i] = g[i]
    BY ConcatProperties, LenProperties
  <2>3. \A i \in 1..m : i \in 1..(m + Len(r))
    BY <2>1
  <2> QED  BY <2>1, <2>2, <2>3
<1>2. /\ \A i \in 1..Len(u) :
            /\ u[i].part = "data" => i > 1 /\ u[i - 1] = [u[i] EXCEPT !.part = "headers"]
            /\ u[i].part = "continue" => \A j \in 1..(i - 1) : u[j].to < u[i].to
      /\ \A i, j \in 1..Len(u) : i < j /\ u[j].to # 0 => u[i].to <= u[j].to
  BY DEF Correct
<1> HIDE DEF u, m, Replies
<1>3. ASSUME NEW i \in 1..m, g[i].part = "data"
      PROVE  i > 1 /\ g[i - 1] = [g[i] EXCEPT !.part = "headers"]
  <2>1. i > 1 /\ u[i - 1] = [u[i] EXCEPT !.part = "headers"]
    BY <1>1, <1>2, <1>3
  <2>2. i - 1 \in 1..m
    BY <1>1, <2>1
  <2> QED  BY <1>1, <2>1, <2>2
<1>4. ASSUME NEW i \in 1..m, g[i].part = "continue", NEW j \in 1..(i - 1)
      PROVE  g[j].to < g[i].to
  <2>1. j \in 1..m
    BY <1>1
  <2> QED  BY <1>1, <1>2, <1>4, <2>1
<1>5. \A i, j \in 1..m : i < j /\ g[j].to # 0 => g[i].to <= g[j].to
  BY <1>1, <1>2
<1>6. Correct(g)
  BY <1>3, <1>4, <1>5 DEF Correct, m
<1>7. Data(g) \subseteq Data(u) /\ Good(g) \subseteq Good(u)
  BY <1>1 DEF Data, Good
<1> QED  BY <1>6, <1>7 DEF u

-----------------------------------------------------------------------------
(* The connection as a whole *)

\* What the client has sent and the server has not used.
Stream == io \o wire

\* What the server has sent, received or not.
Replied == got \o out

Beyond(s, q) == \A i \in 1..Len(s) : s[i].req > q

\* What is still to come of a request whose header is there has not been answered;
\* if the header is to come, not even by "100 Continue".
Unanswered(s, r) ==
    \A i \in 1..Len(s), j \in 1..Len(r) :
        r[j].to <= s[i].req /\ (s[i].part = "end" => r[j].to < s[i].req)

StreamInv ==
    /\ InOrder(Stream, reqs, held)
    /\ reqLen > 0 => Followed(Stream, 0, current, reqs, held)
    /\ held => reqs # <<>> /\ reqs[Len(reqs)].body > 0

\* What is handled lies behind what is to come, and has its body.
HandledInv ==
    /\ handled \in Seq([req : Nat, content : Seq(Units)])
    /\ \A i \in DOMAIN handled :
          /\ handled[i].req \in DOMAIN reqs
          /\ held => handled[i].req < Len(reqs)
          /\ IsPrefix(Body(handled[i].req), handled[i].content)
          /\ Beyond(Stream, handled[i].req)
          /\ reqLen > 0 => current > handled[i].req
    /\ \A i, j \in DOMAIN handled : i < j => handled[i].req < handled[j].req

\* A client that waits has one request in flight.
WaitInv == ahead = 0 =>
    /\ Len(handled) <= Len(reqs) /\ Len(reqs) <= Len(handled) + 1
    /\ \A i \in DOMAIN handled : handled[i] = [req |-> i, content |-> Body(i)]
    /\ \A i \in 1..Len(Stream) : Stream[i].req = Len(reqs)
    /\ reqLen > 0 => current = Len(reqs)

ReplyInv ==
    /\ Correct(Replied) /\ UpTo(Replied, Len(reqs))
    /\ Unanswered(Stream, Replied)
    /\ reqLen > 0 => UpTo(Replied, current)
    /\ Cardinality(Data(Replied)) = answers
    /\ Cardinality(Good(Replied)) = Len(handled)
    /\ ~open /\ ~left => out = <<>>

OrderInv == StreamInv /\ HandledInv /\ WaitInv /\ ReplyInv

\* A read takes nothing from the stream: what is in the buffer comes first.
LEMMA ReadStream ==
    ASSUME Inv, NEW k \in 1..ReadSize, Read(k)
    PROVE  /\ Stream \in Seq(Units) /\ Len(Stream) \in Nat
           /\ Buffered(k) \in Seq(Units)
           /\ Len(Buffered(k)) \in 1..Len(Stream) /\ Len(Buffered(k)) = Len(io) + k
           /\ \A i \in 1..Len(Buffered(k)) : Stream[i] = Buffered(k)[i]
           /\ \A p \in 0..Len(Buffered(k)) :
                 SubSeq(Buffered(k), p + 1, Len(Buffered(k))) \o wire'
                 = SubSeq(Stream, p + 1, Len(Stream))
           /\ wire' = SubSeq(Stream, Len(Buffered(k)) + 1, Len(Stream))
           /\ <<>> \o wire' = wire'
<1> DEFINE f == SubSeq(wire, 1, k)
           b == SubSeq(wire, k + 1, Len(wire))
           buf == Buffered(k)
           n == Len(io)
           w == Len(wire)
<1>1. io \in Seq(Units) /\ wire \in Seq(Units) /\ k \in Nat /\ k >= 1 /\ k <= w
      /\ n \in Nat /\ w \in Nat /\ wire' = b
  BY HttpConstants DEF Inv, IInv, ParserTypes, Read, Removed
<1>2. f \in Seq(Units) /\ Len(f) = k /\ \A i \in 1..k : f[i] = wire[i]
  <2>1. \A i \in 1..w : wire[i] \in Units
    BY <1>1
  <2> HIDE DEF Units
  <2> QED  BY <1>1, <2>1
<1>3. b \in Seq(Units) /\ Len(b) = w - k /\ \A i \in 1..(w - k) : b[i] = wire[i + k]
  <2>1. k \in 0..Len(wire)
    BY <1>1
  <2> QED  BY <1>1, <2>1, Behind
<1> HIDE DEF f, b, Units
<1>4. /\ Stream \in Seq(Units) /\ Len(Stream) = n + w
      /\ \A i \in 1..(n + w) : Stream[i] = IF i <= n THEN io[i] ELSE wire[i - n]
  BY <1>1, ConcatProperties DEF Stream
<1>5. /\ buf \in Seq(Units) /\ Len(buf) = n + k
      /\ \A i \in 1..(n + k) : buf[i] = IF i <= n THEN io[i] ELSE f[i - n]
  <2>1. buf = io \o f
    BY DEF Buffered, f
  <2> HIDE DEF buf
  <2> QED  BY <1>1, <1>2, <2>1, ConcatProperties
<1> HIDE DEF buf, n, w
<1>6. ASSUME NEW i \in 1..(n + k) PROVE Stream[i] = buf[i]
  <2>1. i \in 1..(n + w)
    BY <1>1
  <2>2. CASE i <= n
    BY <1>4, <1>5, <2>1, <2>2
  <2>3. CASE ~(i <= n)
    <3>1. i - n \in 1..k
      BY <1>1, <2>3
    <3> QED  BY <1>2, <1>4, <1>5, <2>1, <2>3, <3>1
  <2> QED  BY <2>2, <2>3
<1>7. ASSUME NEW p \in 0..(n + k)
      PROVE  SubSeq(buf, p + 1, n + k) \o b = SubSeq(Stream, p + 1, n + w)
  <2> DEFINE x == SubSeq(buf, p + 1, n + k)
             y == SubSeq(Stream, p + 1, n + w)
             z == x \o b
  <2>1. /\ x \in Seq(Units) /\ Len(x) = (n + k) - p
        /\ \A i \in 1..((n + k) - p) : x[i] = buf[i + p]
    BY <1>5, Behind
  <2>2. p \in 0..(n + w) /\ p \in Nat
    BY <1>1
  <2>3. /\ y \in Seq(Units) /\ Len(y) = (n + w) - p
        /\ \A i \in 1..((n + w) - p) : y[i] = Stream[i + p]
    BY <1>4, <2>2, Behind
  <2> HIDE DEF x, y
  <2>4. /\ z \in Seq(Units) /\ Len(z) = ((n + k) - p) + (w - k)
        /\ \A i \in 1..(((n + k) - p) + (w - k)) :
              z[i] = IF i <= (n + k) - p THEN x[i] ELSE b[i - ((n + k) - p)]
    <3>1. /\ z \in Seq(Units) /\ Len(z) = Len(x) + Len(b)
          /\ \A i \in 1..(Len(x) + Len(b)) : z[i] = IF i <= Len(x) THEN x[i] ELSE b[i - Len(x)]
      BY <1>3, <2>1, ConcatProperties
    <3> QED  BY <1>3, <2>1, <3>1, Zenon
  <2>5. ((n + k) - p) + (w - k) = (n + w) - p
    BY <1>1, <2>2
  <2> HIDE DEF z
  <2>6. ASSUME NEW i \in 1..((n + w) - p) PROVE z[i] = y[i]
    <3>1. CASE i <= (n + k) - p
      <4>1. i \in 1..((n + k) - p) /\ i + p \in 1..(n + k)
        BY <1>1, <2>2, <3>1
      <4> QED  BY <1>6, <2>1, <2>3, <2>4, <2>5, <3>1, <4>1
    <3>2. CASE ~(i <= (n + k) - p)
      <4>1. /\ i - ((n + k) - p) \in 1..(w - k) /\ i + p \in 1..(n + w) /\ ~(i + p <= n)
            /\ (i - ((n + k) - p)) + k = (i + p) - n
        BY <1>1, <2>2, <3>2
      <4>2. z[i] = b[i - ((n + k) - p)]
        BY <2>4, <2>5, <3>2
      <4>3. b[i - ((n + k) - p)] = wire[(i + p) - n]
        BY <1>3, <4>1
      <4>4. y[i] = wire[(i + p) - n]
        BY <1>4, <2>3, <4>1
      <4> QED  BY <4>2, <4>3, <4>4
    <3> QED  BY <3>1, <3>2
  <2>7. z = y
    BY <2>3, <2>4, <2>5, <2>6, SeqEqual
  <2> QED  BY <2>7 DEF x, y, z
<1>8. <<>> \o b = b
  BY <1>3, ConcatEmptySeq
<1>9. b = SubSeq(Stream, (n + k) + 1, n + w)
  <2>1. (n + k) \in 0..(n + k)
    BY <1>1
  <2>2. SubSeq(buf, (n + k) + 1, n + k) = <<>>
    BY <1>1, <1>5, SubSeqEmpty
  <2>3. SubSeq(buf, (n + k) + 1, n + k) \o b = SubSeq(Stream, (n + k) + 1, n + w)
    BY <1>7, <2>1
  <2> QED  BY <1>8, <2>2, <2>3
<1>10. n + k \in 1..(n + w) /\ n + w \in Nat
  BY <1>1
<1> QED  BY <1>1, <1>4, <1>5, <1>6, <1>7, <1>8, <1>9, <1>10 DEF buf, n

\* What holds of all that is to come holds of a rest of it.
LEMMA RestOfStream ==
    ASSUME NEW s \in Seq(Units), NEW m \in 0..Len(s)
    PROVE  /\ \A j \in 1..Len(SubSeq(s, m + 1, Len(s))) :
                 \E i \in 1..Len(s) : SubSeq(s, m + 1, Len(s))[j] = s[i]
           /\ \A q : Beyond(s, q) => Beyond(SubSeq(s, m + 1, Len(s)), q)
           /\ \A r : Unanswered(s, r) => Unanswered(SubSeq(s, m + 1, Len(s)), r)
<1> DEFINE t == SubSeq(s, m + 1, Len(s))
<1>1. \A j \in 1..Len(t) : \E i \in 1..Len(s) : t[j] = s[i]
  BY Behind
<1> HIDE DEF t
<1>2. \A q : Beyond(s, q) => Beyond(t, q)
  BY <1>1 DEF Beyond
<1>3. \A r : Unanswered(s, r) => Unanswered(t, r)
  BY <1>1 DEF Unanswered
<1> QED  BY <1>1, <1>2, <1>3 DEF t

\* Behind a header nothing is answered of later requests, nor of this one but
\* "100 Continue"; behind its body there are only later requests.
LEMMA RestOfRequest ==
    ASSUME NEW s \in Seq(Units), NEW p \in 0..Len(s), NEW rs \in Seq(Request),
           \A i \in 1..Len(s) : s[i].req \in DOMAIN rs,
           NEW q \in DOMAIN rs, NEW h, Followed(s, p, q, rs, h),
           NEW r, Correct(r), UpTo(r, q)
    PROVE  /\ Unanswered(SubSeq(s, p + 1, Len(s)), r)
           /\ \A e \in 0..Len(s) : e >= p + rs[q].body =>
                 /\ Beyond(SubSeq(s, e + 1, Len(s)), q)
                 /\ Unanswered(SubSeq(s, e + 1, Len(s)), r)
<1> DEFINE n == Len(s)
           b == rs[q].body
           l == Len(r)
<1>1. b \in Nat /\ n \in Nat /\ p \in Nat /\ p <= n /\ p \in 0..n /\ q \in Nat
  BY RequestNumbers
<1>2. /\ \A j \in 1..b : p + j <= n => s[p + j] = [req |-> q, part |-> "body"]
      /\ \A j \in 1..n : j > p + b => s[j].req > q
  BY DEF Followed
<1>3. \A j \in 1..l : r[j].to \in Nat /\ r[j].to <= q
  <2>1. r \in Seq(Replies)
    BY DEF Correct
  <2>2. \A j \in 1..l : r[j] \in Replies
    BY <2>1
  <2> QED  BY <2>2 DEF Replies, UpTo
<1>4. \A i \in 1..n : s[i].req \in Nat
  <2>1. \A x \in DOMAIN rs : x \in Nat
    OBVIOUS
  <2> QED  BY <2>1
<1>5. ASSUME NEW m \in 0..n
      PROVE  /\ Len(SubSeq(s, m + 1, n)) = n - m
             /\ \A i \in 1..(n - m) : SubSeq(s, m + 1, n)[i] = s[i + m] /\ i + m \in 1..n
  <2>1. m \in Nat
    OBVIOUS
  <2> QED  BY <1>1, <2>1, Behind
<1> HIDE DEF n, b, l, Units, Request
<1>6. ASSUME NEW t, NEW x \in Nat, Len(t) = x,
             \A i \in 1..x : t[i].req \in Nat /\ t[i].req >= q
                              /\ (t[i].part = "end" => t[i].req > q)
      PROVE  Unanswered(t, r)
  <2> SUFFICES ASSUME NEW i \in 1..x, NEW j \in 1..l
               PROVE  r[j].to <= t[i].req /\ (t[i].part = "end" => r[j].to < t[i].req)
    BY <1>6 DEF Unanswered, l
  <2> QED  BY <1>1, <1>3, <1>6
<1>7. Unanswered(SubSeq(s, p + 1, n), r)
  <2> DEFINE t == SubSeq(s, p + 1, n)
  <2>1. Len(t) = n - p /\ \A i \in 1..(n - p) : t[i] = s[i + p] /\ i + p \in 1..n
    BY <1>1, <1>5
  <2> HIDE DEF t
  <2>2. ASSUME NEW i \in 1..(n - p)
        PROVE  t[i].req \in Nat /\ t[i].req >= q /\ (t[i].part = "end" => t[i].req > q)
    <3>1. CASE i <= b
      <4>1. i \in 1..b /\ p + i <= n /\ p + i = i + p
        BY <1>1, <3>1
      <4>2. t[i] = [req |-> q, part |-> "body"]
        BY <1>2, <2>1, <4>1
      <4> QED  BY <1>1, <4>2
    <3>2. CASE ~(i <= b)
      <4>1. i + p > p + b
        BY <1>1, <3>2
      <4>2. t[i].req > q /\ t[i].req \in Nat
        BY <1>2, <1>4, <2>1, <4>1
      <4> QED  BY <1>1, <4>2
    <3> QED  BY <3>1, <3>2
  <2>3. n - p \in Nat
    BY <1>1
  <2>4. Unanswered(t, r)
    BY <1>6, <2>1, <2>2, <2>3
  <2> QED  BY <2>4 DEF t
<1>8. ASSUME NEW e \in 0..n, e >= p + b
      PROVE  Beyond(SubSeq(s, e + 1, n), q) /\ Unanswered(SubSeq(s, e + 1, n), r)
  <2> DEFINE t == SubSeq(s, e + 1, n)
  <2>1. Len(t) = n - e /\ \A i \in 1..(n - e) : t[i] = s[i + e] /\ i + e \in 1..n
    BY <1>5
  <2> HIDE DEF t
  <2>2. ASSUME NEW i \in 1..(n - e) PROVE t[i].req > q /\ t[i].req \in Nat
    <3>1. i + e > p + b
      BY <1>1, <1>8
    <3> QED  BY <1>2, <1>4, <2>1, <3>1
  <2>3. n - e \in Nat
    BY <1>1
  <2>4. \A i \in 1..(n - e) : t[i].req \in Nat /\ t[i].req >= q
                              /\ (t[i].part = "end" => t[i].req > q)
    BY <1>1, <2>2
  <2>5. Unanswered(t, r)
    BY <1>6, <2>1, <2>3, <2>4
  <2> QED  BY <2>1, <2>2, <2>5 DEF Beyond, t
<1> QED  BY <1>7, <1>8 DEF n, b

\* What is handed over with a request begins with its body, and is its body if the
\* client has sent no other.
LEMMA ContentIsBody ==
    ASSUME NEW s \in Seq(Units), NEW p \in 0..Len(s), NEW rs \in Seq(Request),
           NEW q \in DOMAIN rs, NEW h, Followed(s, p, q, rs, h),
           NEW buf \in Seq(Units), Len(buf) <= Len(s), \A i \in 1..Len(buf) : s[i] = buf[i],
           Len(buf) >= p + rs[q].body
    PROVE  /\ IsPrefix(BodyOf(q, rs[q]), SubSeq(buf, p + 1, Len(buf)))
           /\ (\A i \in 1..Len(s) : s[i].req = q) =>
                 SubSeq(buf, p + 1, Len(buf)) = BodyOf(q, rs[q])
<1> DEFINE n == Len(s)
           e == Len(buf)
           b == rs[q].body
           c == SubSeq(buf, p + 1, e)
           body == BodyOf(q, rs[q])
<1>1. b \in Nat /\ n \in Nat /\ e \in Nat /\ p \in Nat /\ e <= n /\ e >= p + b /\ q \in Nat
  BY RequestNumbers
<1>2. /\ \A j \in 1..b : p + j <= n => s[p + j] = [req |-> q, part |-> "body"]
      /\ \A j \in 1..n : j > p + b => s[j].req > q
  BY DEF Followed
<1>3. c \in Seq(Units) /\ Len(c) = e - p /\ \A i \in 1..(e - p) : c[i] = buf[i + p]
  <2>1. p \in 0..Len(buf)
    BY <1>1
  <2> QED  BY <2>1, Behind
<1>4. body \in Seq(Units) /\ Len(body) = b /\ \A i \in 1..b : body[i] = [req |-> q, part |-> "body"]
  BY <1>1, BodyPlaces
<1>5. \A i \in 1..e : s[i] = buf[i]
  OBVIOUS
<1> HIDE DEF n, e, b, c, body, Units, Request
<1>6. ASSUME NEW i \in 1..b PROVE c[i] = body[i]
  <2>1. i \in 1..(e - p) /\ i + p \in 1..e /\ i + p = p + i /\ p + i <= n
    BY <1>1
  <2>2. s[p + i] = [req |-> q, part |-> "body"]
    BY <1>2, <2>1
  <2> QED  BY <1>3, <1>4, <1>5, <2>1, <2>2
<1>7. IsPrefix(body, c)
  <2>1. b <= e - p
    BY <1>1
  <2>2. SubSeq(body, 1, b) = body
    BY <1>4, SubSeqFull
  <2>3. SubSeq(c, 1, b) = body
    <3>1. \A i \in 1..b : c[i] \in Units
      BY <1>4, <1>6, ElementOfSeq
    <3>2. /\ SubSeq(c, 1, b) \in Seq(Units) /\ Len(SubSeq(c, 1, b)) = b
          /\ \A i \in 1..b : SubSeq(c, 1, b)[i] = c[i]
      BY <1>1, <3>1
    <3> QED  BY <1>4, <1>6, <3>2, SeqEqual
  <2> QED  BY <1>3, <1>4, <2>1, <2>2, <2>3 DEF IsPrefix
<1>8. ASSUME \A i \in 1..n : s[i].req = q PROVE c = body
  <2>1. ASSUME NEW i \in 1..n, i > p + b PROVE FALSE
    <3>1. s[i].req > q /\ s[i].req = q
      BY <1>2, <1>8, <2>1
    <3> QED  BY <1>1, <3>1
  <2>2. e = p + b
    <3>1. e <= p + b
      <4> SUFFICES ASSUME e > p + b PROVE FALSE
        BY <1>1
      <4>1. e \in 1..n
        BY <1>1
      <4> QED  BY <2>1, <4>1
    <3> QED  BY <1>1, <3>1
  <2>3. Len(c) = b
    BY <1>1, <1>3, <2>2
  <2> QED  BY <1>3, <1>4, <1>6, <2>3, SeqEqual
<1> QED  BY <1>7, <1>8 DEF c, e, body, n

\* What the server has not used is of known requests.
LEMMA StreamTypes ==
    ASSUME Inv, OrderInv
    PROVE  /\ reqs \in Seq(Request) /\ Len(reqs) \in Nat /\ DOMAIN reqs = 1..Len(reqs)
           /\ Stream \in Seq(Units) /\ Len(Stream) \in Nat
           /\ \A i \in 1..Len(Stream) : Stream[i].req \in DOMAIN reqs
           /\ got \in Seq(Replies) /\ out \in Seq(Replies)
<1>1. reqs \in Seq(Request)
  BY DEF Inv, IInv, ParserTypes
<1>2. Stream \in Seq(Units) /\ \A i \in 1..Len(Stream) : Stream[i].req \in DOMAIN reqs
  BY DEF OrderInv, StreamInv, InOrder
<1>3. got \in Seq(Replies) /\ out \in Seq(Replies)
  BY DEF Inv, ReplyTypes
<1> HIDE DEF Units, Request, Replies
<1> QED  BY <1>1, <1>2, <1>3

\* What is not later than a request is not later than a later one.
LEMMA UpToLater ==
    ASSUME NEW r, Correct(r), NEW q \in Nat, NEW n \in Nat, q <= n, UpTo(r, q)
    PROVE  UpTo(r, n)
<1>1. \A i \in 1..Len(r) : r[i] \in Replies
  <2>1. r \in Seq(Replies)
    BY DEF Correct
  <2> QED  BY <2>1
<1>2. \A i \in 1..Len(r) : r[i].to \in Nat
  BY <1>1 DEF Replies
<1> QED  BY <1>2 DEF UpTo

\* Replies are joined in any order.
LEMMA RepliesJoined ==
    \A r, s, t \in Seq(Replies) : r \o (s \o t) = (r \o s) \o t
<1> HIDE DEF Replies
<1> QED  BY ConcatAssociative

\* A request is handled whose body is there.
LEMMA CompleteOrder ==
    ASSUME Inv, OrderInv, NEW k \in 1..ReadSize, Read(k),
           NEW p \in 0..Len(Buffered(k)), NEW q \in DOMAIN reqs,
           Followed(Stream, p, q, reqs, held),
           Len(Buffered(k)) >= p + reqs[q].body,
           \A i \in DOMAIN handled : q > handled[i].req,
           ahead = 0 => q = Len(reqs),
           NEW before \in Seq(Replies), Correct(got \o before), UpTo(got \o before, q),
           Cardinality(Data(got \o before)) = answers,
           Cardinality(Good(got \o before)) = Len(handled),
           handled' = Append(handled,
                        [req |-> q, content |-> SubSeq(Buffered(k), p + 1, Len(Buffered(k)))]),
           answers' = answers + 1, out' = before \o Answer(q),
           io' = <<>>, reqLen' = 0
    PROVE  OrderInv'
<1> DEFINE n == Len(Stream)
           e == Len(Buffered(k))
           b == reqs[q].body
           l == Len(handled)
           H == [req : Nat, content : Seq(Units)]
           c == SubSeq(Buffered(k), p + 1, e)
           d == [req |-> q, content |-> c]
           r == got \o before
           s == SubSeq(Stream, e + 1, n)
<1>1. UNCHANGED <<ahead, reqs, held, got, left, open>>
  BY DEF Read, client
<1>2. /\ Stream \in Seq(Units) /\ n \in Nat /\ Buffered(k) \in Seq(Units)
      /\ e \in 1..n /\ e \in 0..n /\ e \in Nat /\ e <= n
      /\ \A i \in 1..e : Stream[i] = Buffered(k)[i]
      /\ wire' = s /\ Stream' = s
  <2>1. Stream' = <<>> \o wire'
    BY DEF Stream
  <2>2. /\ Stream \in Seq(Units) /\ n \in Nat /\ Buffered(k) \in Seq(Units)
        /\ e \in 1..n
        /\ \A i \in 1..e : Stream[i] = Buffered(k)[i]
        /\ wire' = s /\ <<>> \o wire' = wire'
    BY ReadStream
  <2>3. e \in 0..n /\ e \in Nat /\ e <= n
    BY <2>2
  <2> QED  BY <2>1, <2>2, <2>3, Zenon
<1>3. /\ reqs \in Seq(Request) /\ Len(reqs) \in Nat /\ DOMAIN reqs = 1..Len(reqs)
      /\ \A i \in 1..n : Stream[i].req \in DOMAIN reqs
      /\ got \in Seq(Replies)
  BY StreamTypes
<1>4. b \in Nat /\ q \in Nat /\ q >= 1 /\ q <= Len(reqs) /\ p \in Nat /\ p <= e /\ p \in 0..n
  BY <1>2, <1>3, RequestNumbers
<1>5. Beyond(s, q) /\ Unanswered(s, r)
  <2> HIDE DEF Units, Request, r
  <2>1. \A x \in 0..n : x >= p + b =>
           Beyond(SubSeq(Stream, x + 1, n), q) /\ Unanswered(SubSeq(Stream, x + 1, n), r)
    BY <1>2, <1>3, <1>4, RestOfRequest DEF r
  <2> QED  BY <1>2, <2>1
<1>6. InOrder(s, reqs, held) /\ \A x : Beyond(Stream, x) => Beyond(s, x)
  <2>1. InOrder(Stream, reqs, held)
    BY DEF OrderInv, StreamInv
  <2> QED  BY <1>2, <1>3, <2>1, InOrderBehind, RestOfStream
<1>7. IsPrefix(Body(q), c) /\ ((\A i \in 1..n : Stream[i].req = q) => c = Body(q))
  <2>1. p \in 0..n /\ e <= n
    BY <1>2, <1>4
  <2> QED  BY <1>2, <1>3, <2>1, ContentIsBody DEF Body
<1>8. held => q < Len(reqs)
  <2> SUFFICES ASSUME held, q = Len(reqs) PROVE FALSE
    BY <1>3, <1>4
  <2>1. n = p
    BY DEF Followed
  <2>2. b > 0
    BY DEF OrderInv, StreamInv
  <2> QED  BY <1>2, <1>4, <2>1, <2>2
<1>9. handled \in Seq(H) /\ d \in H
  <2>1. c \in Seq(Units)
    BY <1>2, Behind
  <2> QED  BY <1>4, <2>1 DEF OrderInv, HandledInv
<1> HIDE DEF H, s, c, r
<1>10. /\ handled' \in Seq(H) /\ Len(handled') = l + 1 /\ l \in Nat
       /\ DOMAIN handled = 1..l /\ DOMAIN handled' = 1..(l + 1)
       /\ \A i \in 1..l : handled'[i] = handled[i]
       /\ handled'[l + 1] = d
  <2> HIDE DEF d
  <2>1. handled' = Append(handled, d)
    BY DEF d, c
  <2> QED  BY <1>9, <2>1
<1>11. d.req = q /\ d.content = c
  OBVIOUS
<1> HIDE DEF l, d, n, e, b, Units, Request, Replies
<1>12. \A i \in 1..(l + 1) : i \in 1..l \/ i = l + 1
  BY <1>10
<1>13. StreamInv'
  <2>1. held => reqs # <<>> /\ reqs[Len(reqs)].body > 0
    BY DEF OrderInv, StreamInv
  <2>2. InOrder(Stream', reqs', held')
    BY <1>1, <1>2, <1>6, Zenon
  <2>3. ~(reqLen' > 0)
    OBVIOUS
  <2> QED  BY <1>1, <2>1, <2>2, <2>3 DEF StreamInv
<1>14. HandledInv'
  <2>1. \A x : Body(x)' = Body(x)
    BY <1>1 DEF Body
  <2>2. ASSUME NEW i \in 1..(l + 1)
        PROVE  /\ handled'[i].req \in DOMAIN reqs
               /\ held => handled'[i].req < Len(reqs)
               /\ IsPrefix(Body(handled'[i].req), handled'[i].content)
               /\ Beyond(s, handled'[i].req)
    <3>1. CASE i \in 1..l
      BY <1>6, <1>10, <3>1 DEF OrderInv, HandledInv
    <3>2. CASE i = l + 1
      BY <1>5, <1>7, <1>8, <1>10, <1>11, <3>2
    <3> QED  BY <1>12, <3>1, <3>2
  <2>3. ASSUME NEW i \in 1..(l + 1), NEW j \in 1..(l + 1), i < j
        PROVE  handled'[i].req < handled'[j].req
    <3>1. i \in 1..l
      BY <1>10, <2>3
    <3>2. CASE j \in 1..l
      BY <1>10, <2>3, <3>1, <3>2 DEF OrderInv, HandledInv
    <3>3. CASE j = l + 1
      <4>1. handled[i].req \in DOMAIN reqs
        BY <1>10, <3>1 DEF OrderInv, HandledInv
      <4>2. q > handled[i].req
        BY <1>10, <3>1
      <4> QED  BY <1>3, <1>4, <1>10, <1>11, <3>1, <3>3, <4>1, <4>2
    <3> QED  BY <1>12, <3>2, <3>3
  <2>4. ~(reqLen' > 0)
    OBVIOUS
  <2> QED  BY <1>1, <1>2, <1>10, <2>1, <2>2, <2>3, <2>4 DEF HandledInv, H
<1>15. WaitInv'
  <2> SUFFICES ASSUME ahead = 0 PROVE WaitInv'
    BY <1>1 DEF WaitInv
  <2>1. /\ l <= Len(reqs) /\ Len(reqs) <= l + 1
        /\ \A i \in 1..l : handled[i] = [req |-> i, content |-> Body(i)]
        /\ \A i \in 1..n : Stream[i].req = Len(reqs)
    BY <1>10 DEF OrderInv, WaitInv, l, n
  <2>2. q = Len(reqs)
    OBVIOUS
  <2>3. Len(reqs) = l + 1
    <3> SUFFICES ASSUME Len(reqs) = l PROVE FALSE
      BY <1>3, <1>10, <2>1
    <3>1. l \in 1..l
      BY <1>4, <1>10, <2>2
    <3>2. handled[l].req = l
      <4>1. handled[l] = [req |-> l, content |-> Body(l)]
        BY <2>1, <3>1, Zenon
      <4> QED  BY <4>1
    <3>3. q > handled[l].req
      BY <1>10, <3>1
    <3> QED  BY <1>10, <2>2, <3>2, <3>3
  <2>4. d = [req |-> l + 1, content |-> Body(l + 1)]
    <3>1. c = Body(q)
      BY <1>7, <2>1, <2>2
    <3> QED  BY <2>2, <2>3, <3>1 DEF d
  <2>5. \A x : Body(x)' = Body(x)
    BY <1>1 DEF Body
  <2>6. \A i \in 1..(l + 1) : handled'[i] = [req |-> i, content |-> Body(i)]
    BY <1>10, <1>12, <2>1, <2>4
  <2>7. \A i \in 1..Len(s) : s[i].req = Len(reqs)
    <3>1. \A i \in 1..Len(s) : \E j \in 1..n : s[i] = Stream[j]
      BY <1>2, RestOfStream DEF s, n
    <3> QED  BY <2>1, <3>1
  <2>8. l + 1 <= Len(reqs) /\ Len(reqs) <= (l + 1) + 1
    BY <1>10, <2>3
  <2>9. ~(reqLen' > 0)
    OBVIOUS
  <2> QED  BY <1>1, <1>2, <1>10, <2>5, <2>6, <2>7, <2>8, <2>9 DEF WaitInv
<1>16. ReplyInv'
  <2>1. Replied' = r \o Answer(q)
    <3>1. Answer(q) \in Seq(Replies)
      BY <1>4, ReplyUnits
    <3>2. Replied' = got \o (before \o Answer(q))
      BY <1>1 DEF Replied
    <3>3. got \o (before \o Answer(q)) = (got \o before) \o Answer(q)
      BY <1>3, <3>1, RepliesJoined
    <3> QED  BY <3>2, <3>3 DEF r
  <2>2. Correct(r) /\ UpTo(r, q)
    BY DEF r
  <2>3. r \in Seq(Replies)
    BY <2>2 DEF Correct
  <2>4. Correct(r \o Answer(q)) /\ UpTo(r \o Answer(q), q)
    BY <1>4, <2>2, AnswerCorrect
  <2>5. UpTo(r \o Answer(q), Len(reqs))
    <3>1. UpTo(r, Len(reqs))
      BY <1>3, <1>4, <2>2, UpToLater
    <3> QED  BY <1>3, <1>4, <2>2, <3>1, AnswerCorrect
  <2>6. Unanswered(s, r \o Answer(q))
    <3>1. Followed(Stream, p, q, reqs, held)
      OBVIOUS
    <3>2. \A x \in 0..n : x >= p + b => Unanswered(SubSeq(Stream, x + 1, n), r \o Answer(q))
      BY <1>2, <1>3, <1>4, <2>4, <3>1, RestOfRequest DEF n, b
    <3>3. e >= p + b
      BY DEF e, b
    <3> QED  BY <1>2, <3>2, <3>3 DEF s
  <2>7. Cardinality(Data(r \o Answer(q))) = answers + 1
        /\ Cardinality(Good(r \o Answer(q))) = l + 1
    <3>1. Cardinality(Data(r)) = answers /\ Cardinality(Good(r)) = l
      BY DEF r, l
    <3>2. q # 0
      BY <1>4
    <3> QED  BY <1>4, <2>3, <3>1, <3>2, AnswerCounted
  <2>8. open
    BY DEF Read
  <2>9. ~(reqLen' > 0)
    OBVIOUS
  <2>10. Len(handled') = l + 1
    BY <1>10
  <2> HIDE DEF Stream, Replied
  <2> QED  BY <1>1, <1>2, <2>1, <2>4, <2>5, <2>6, <2>7, <2>8, <2>9, <2>10 DEF ReplyInv
<1> QED  BY <1>13, <1>14, <1>15, <1>16 DEF OrderInv

\* A request waits whose body is not there.
LEMMA IncompleteOrder ==
    ASSUME Inv, OrderInv, NEW k \in 1..ReadSize, Read(k),
           NEW p \in 0..Len(Buffered(k)), NEW q \in DOMAIN reqs,
           Followed(Stream, p, q, reqs, held),
           \A i \in DOMAIN handled : q > handled[i].req,
           ahead = 0 => q = Len(reqs),
           NEW before \in Seq(Replies), Correct(got \o before), UpTo(got \o before, q),
           Cardinality(Data(got \o before)) = answers,
           Cardinality(Good(got \o before)) = Len(handled),
           UNCHANGED <<handled, answers>>, out' = before,
           io' = SubSeq(Buffered(k), p + 1, Len(Buffered(k))), current' = q
    PROVE  OrderInv'
<1> DEFINE n == Len(Stream)
           e == Len(Buffered(k))
           r == got \o before
           s == SubSeq(Stream, p + 1, n)
<1>1. UNCHANGED <<ahead, reqs, held, got, left, open>> /\ open
  BY DEF Read, client
<1>2. /\ Stream \in Seq(Units) /\ n \in Nat /\ p \in 0..n /\ p \in Nat /\ Stream' = s
  <2>1. Stream' = io' \o wire'
    BY DEF Stream
  <2>2. /\ Stream \in Seq(Units) /\ n \in Nat /\ e \in 1..n
        /\ \A x \in 0..e : SubSeq(Buffered(k), x + 1, e) \o wire' = SubSeq(Stream, x + 1, n)
    BY ReadStream
  <2> HIDE DEF e, n
  <2>3. p \in 0..e /\ io' = SubSeq(Buffered(k), p + 1, e)
    BY DEF e
  <2>4. p \in 0..n /\ p \in Nat
    BY <2>2, <2>3
  <2> QED  BY <2>1, <2>2, <2>3, <2>4
<1>3. /\ reqs \in Seq(Request) /\ Len(reqs) \in Nat /\ DOMAIN reqs = 1..Len(reqs)
      /\ \A i \in 1..n : Stream[i].req \in DOMAIN reqs
  BY StreamTypes
<1>4. q \in Nat /\ q <= Len(reqs)
  BY <1>3
<1> HIDE DEF r, e, n
<1>5. Unanswered(s, r)
  BY <1>2, <1>3, RestOfRequest DEF r, n
<1>6. /\ InOrder(s, reqs, held)
      /\ \A x : Beyond(Stream, x) => Beyond(s, x)
      /\ \A i \in 1..Len(s) : \E j \in 1..n : s[i] = Stream[j]
  <2>1. InOrder(Stream, reqs, held)
    BY DEF OrderInv, StreamInv
  <2> QED  BY <1>2, <1>3, <2>1, InOrderBehind, RestOfStream DEF n
<1>7. Followed(s, 0, q, reqs, held)
  <2>1. Followed(SubSeq(Stream, p + 1, Len(Stream)), p - p, q, reqs, held)
    <3>1. p \in p..Len(Stream) /\ p \in 0..Len(Stream)
      BY <1>2 DEF n
    <3> QED  BY <1>2, <1>3, <3>1, FollowedBehind
  <2>2. p - p = 0
    BY <1>2
  <2> QED  BY <2>1, <2>2 DEF n
<1> HIDE DEF s, Units, Request, Replies
<1>8. StreamInv'
  <2>1. held => reqs # <<>> /\ reqs[Len(reqs)].body > 0
    BY DEF OrderInv, StreamInv
  <2>2. InOrder(Stream', reqs', held') /\ Followed(Stream', 0, current', reqs', held')
    BY <1>1, <1>2, <1>6, <1>7, Zenon
  <2> QED  BY <1>1, <2>1, <2>2 DEF StreamInv
<1>9. HandledInv'
  <2>1. \A x : Body(x)' = Body(x)
    BY <1>1 DEF Body
  <2>2. \A i \in DOMAIN handled : Beyond(s, handled[i].req)
    BY <1>6 DEF OrderInv, HandledInv
  <2> QED  BY <1>1, <1>2, <2>1, <2>2 DEF OrderInv, HandledInv
<1>10. WaitInv'
  <2> SUFFICES ASSUME ahead = 0 PROVE WaitInv'
    BY <1>1 DEF WaitInv
  <2>1. \A x : Body(x)' = Body(x)
    BY <1>1 DEF Body
  <2>2. /\ Len(handled) <= Len(reqs) /\ Len(reqs) <= Len(handled) + 1
        /\ \A i \in DOMAIN handled : handled[i] = [req |-> i, content |-> Body(i)]
        /\ \A i \in 1..n : Stream[i].req = Len(reqs)
    BY DEF OrderInv, WaitInv, n
  <2>3. \A i \in 1..Len(s) : s[i].req = Len(reqs)
    BY <1>6, <2>2
  <2> QED  BY <1>1, <1>2, <2>1, <2>2, <2>3 DEF WaitInv
<1>11. ReplyInv'
  <2>1. Replied' = r
    BY <1>1 DEF Replied, r
  <2>2. Correct(r) /\ UpTo(r, q) /\ Cardinality(Data(r)) = answers
        /\ Cardinality(Good(r)) = Len(handled)
    BY DEF r
  <2>3. UpTo(r, Len(reqs))
    BY <1>3, <1>4, <2>2, UpToLater
  <2> HIDE DEF Stream, Replied
  <2> QED  BY <1>1, <1>2, <1>5, <2>1, <2>2, <2>3 DEF ReplyInv
<1> QED  BY <1>8, <1>9, <1>10, <1>11 DEF OrderInv

\* A part of a header is added to the buffer: nothing is taken from the stream.
LEMMA HeaderPartOrder ==
    ASSUME Inv, OrderInv, NEW k \in 1..ReadSize, HeaderPart(k)
    PROVE  OrderInv'
<1>1. Read(k) /\ io' = Buffered(k) /\ reqLen = 0
      /\ UNCHANGED <<out, reqLen, current, handled, answers>>
  BY DEF HeaderPart
<1>2. UNCHANGED <<ahead, reqs, held, got, left, open>>
  BY <1>1 DEF Read, client
<1>3. Stream' = Stream
  <2>1. /\ Stream \in Seq(Units) /\ Buffered(k) \in Seq(Units)
        /\ Len(Buffered(k)) \in 1..Len(Stream)
        /\ SubSeq(Buffered(k), 0 + 1, Len(Buffered(k))) \o wire'
            = SubSeq(Stream, 0 + 1, Len(Stream))
    <3>1. /\ Stream \in Seq(Units) /\ Buffered(k) \in Seq(Units)
          /\ Len(Buffered(k)) \in 1..Len(Stream)
          /\ \A p \in 0..Len(Buffered(k)) :
                 SubSeq(Buffered(k), p + 1, Len(Buffered(k))) \o wire'
                 = SubSeq(Stream, p + 1, Len(Stream))
      BY <1>1, ReadStream
    <3>2. 0 \in 0..Len(Buffered(k))
      BY <3>1
    <3> QED  BY <3>1, <3>2
  <2>2. SubSeq(Buffered(k), 1, Len(Buffered(k))) = Buffered(k)
        /\ SubSeq(Stream, 1, Len(Stream)) = Stream
    <3> HIDE DEF Stream, Units
    <3> QED  BY <2>1, SubSeqFull
  <2>3. 0 + 1 = 1
    OBVIOUS
  <2>4. Buffered(k) \o wire' = Stream
    BY <2>1, <2>2, <2>3
  <2> QED  BY <1>1, <2>4 DEF Stream
<1>4. Replied' = Replied
  BY <1>1, <1>2 DEF Replied
<1> HIDE DEF Stream, Replied
<1>5. StreamInv' /\ ReplyInv'
  BY <1>1, <1>2, <1>3, <1>4 DEF OrderInv, StreamInv, ReplyInv
<1>6. HandledInv' /\ WaitInv'
  BY <1>1, <1>2, <1>3 DEF OrderInv, HandledInv, WaitInv, Body
<1> QED  BY <1>5, <1>6 DEF OrderInv

\* An error drops what is buffered, and says nothing of any request.
LEMMA RefuseOrder ==
    ASSUME Inv, OrderInv, NEW k \in 1..ReadSize, Read(k), Refuse
    PROVE  OrderInv'
<1> DEFINE n == Len(Stream)
           e == Len(Buffered(k))
           s == SubSeq(Stream, e + 1, n)
<1>1. UNCHANGED <<ahead, reqs, held, got, left, open>> /\ open
  BY DEF Read, client
<1>2. out' = out \o Answer(0) /\ io' = <<>> /\ reqLen' = 0 /\ answers' = answers + 1
      /\ UNCHANGED handled
  BY DEF Refuse, CloseLocalEndpoint, Error
<1>3. Stream \in Seq(Units) /\ n \in Nat /\ e \in 0..n /\ Stream' = s
  <2>1. Stream' = <<>> \o wire'
    BY <1>2 DEF Stream
  <2>2. /\ Stream \in Seq(Units) /\ n \in Nat /\ e \in 1..n
        /\ wire' = s /\ <<>> \o wire' = wire'
    BY ReadStream
  <2>3. e \in 0..n
    BY <2>2
  <2> QED  BY <2>1, <2>2, <2>3, Zenon
<1>4. reqs \in Seq(Request) /\ Len(reqs) \in Nat /\ got \in Seq(Replies) /\ out \in Seq(Replies)
  BY StreamTypes
<1>5. /\ InOrder(s, reqs, held)
      /\ \A x : Beyond(Stream, x) => Beyond(s, x)
      /\ \A r : Unanswered(Stream, r) => Unanswered(s, r)
      /\ \A i \in 1..Len(s) : \E j \in 1..n : s[i] = Stream[j]
  <2>1. InOrder(Stream, reqs, held)
    BY DEF OrderInv, StreamInv
  <2> QED  BY <1>3, <1>4, <2>1, InOrderBehind, RestOfStream
<1>6. s \in Seq(Units) /\ Len(s) \in Nat /\ \A i \in 1..Len(s) : s[i].req \in Nat
  <2>1. s \in Seq(Units) /\ \A i \in 1..Len(s) : s[i].req \in DOMAIN reqs
    BY <1>5 DEF InOrder
  <2> HIDE DEF s, Units, Request
  <2> QED  BY <1>4, <2>1
<1> HIDE DEF n, e, s, Units, Request, Replies
<1>7. ~(reqLen' > 0)
  BY <1>2
<1>8. StreamInv'
  <2>1. held => reqs # <<>> /\ reqs[Len(reqs)].body > 0
    BY DEF OrderInv, StreamInv
  <2>2. InOrder(Stream', reqs', held')
    BY <1>1, <1>3, <1>5, Zenon
  <2> QED  BY <1>1, <1>7, <2>1, <2>2 DEF StreamInv
<1>9. HandledInv'
  <2>1. \A x : Body(x)' = Body(x)
    BY <1>1 DEF Body
  <2>2. \A i \in DOMAIN handled : Beyond(s, handled[i].req)
    BY <1>5 DEF OrderInv, HandledInv
  <2> QED  BY <1>1, <1>2, <1>3, <1>7, <2>1, <2>2 DEF OrderInv, HandledInv
<1>10. WaitInv'
  <2> SUFFICES ASSUME ahead = 0 PROVE WaitInv'
    BY <1>1 DEF WaitInv
  <2>1. \A x : Body(x)' = Body(x)
    BY <1>1 DEF Body
  <2>2. /\ Len(handled) <= Len(reqs) /\ Len(reqs) <= Len(handled) + 1
        /\ \A i \in DOMAIN handled : handled[i] = [req |-> i, content |-> Body(i)]
        /\ \A i \in 1..n : Stream[i].req = Len(reqs)
    BY DEF OrderInv, WaitInv, n
  <2>3. \A i \in 1..Len(s) : s[i].req = Len(reqs)
    BY <1>5, <2>2
  <2> QED  BY <1>1, <1>2, <1>3, <1>7, <2>1, <2>2, <2>3 DEF WaitInv
<1>11. ReplyInv'
  <2> DEFINE r == Replied \o Answer(0)
  <2>1. /\ Correct(Replied) /\ UpTo(Replied, Len(reqs)) /\ Unanswered(s, Replied)
        /\ Cardinality(Data(Replied)) = answers /\ Cardinality(Good(Replied)) = Len(handled)
    BY <1>5 DEF OrderInv, ReplyInv
  <2>2. Replied' = r
    <3>1. Answer(0) \in Seq(Replies)
      BY ReplyUnits
    <3>2. Replied' = got \o (out \o Answer(0))
      BY <1>1, <1>2 DEF Replied
    <3>3. got \o (out \o Answer(0)) = (got \o out) \o Answer(0)
      BY <1>4, <3>1, RepliesJoined
    <3> QED  BY <3>2, <3>3 DEF Replied
  <2>3. Replied \in Seq(Replies)
    BY <2>1 DEF Correct
  <2>4. Correct(r) /\ UpTo(r, Len(reqs))
    <3>1. 0 <= Len(reqs) /\ 0 \in Nat
      BY <1>4
    <3> QED  BY <1>4, <2>1, <3>1, AnswerCorrect
  <2>5. Cardinality(Data(r)) = answers + 1 /\ Cardinality(Good(r)) = Len(handled)
    <3>1. Cardinality(Good(Replied)) \in Nat
      BY <2>3, DataFinite, FS_CardinalityType
    <3> QED  BY <2>1, <2>3, <3>1, AnswerCounted
  <2>6. Unanswered(s, r)
    <3> DEFINE m == Len(Replied)
    <3>1. /\ m \in Nat /\ Len(r) = m + 2
          /\ \A i \in 1..m : r[i] = Replied[i]
          /\ r[m + 1].to = 0 /\ r[m + 2].to = 0
      <4>1. /\ m \in Nat /\ Len(r) = m + 2
            /\ \A i \in 1..m : r[i] = Replied[i]
            /\ r[m + 1] = [to |-> 0, part |-> "headers"]
            /\ r[m + 2] = [to |-> 0, part |-> "data"]
        BY <2>3, AnswerPlaces
      <4> HIDE DEF r, m
      <4> QED  BY <4>1
    <3> HIDE DEF m, r
    <3>2. ASSUME NEW i \in 1..Len(s), NEW j \in 1..(m + 2)
          PROVE  r[j].to <= s[i].req /\ (s[i].part = "end" => r[j].to < s[i].req)
      <4>1. CASE j \in 1..m
        BY <2>1, <3>1, <4>1 DEF Unanswered, m
      <4>2. CASE j \notin 1..m
        <5>1. r[j].to = 0
          <6>1. j = m + 1 \/ j = m + 2
            BY <3>1, <4>2
          <6> QED  BY <3>1, <6>1
        <5>2. s[i].req >= 1
          <6>1. s[i].req \in DOMAIN reqs
            BY <1>5 DEF InOrder
          <6> QED  BY <1>4, <6>1
        <5> QED  BY <1>6, <5>1, <5>2
      <4> QED  BY <4>1, <4>2
    <3> QED  BY <3>1, <3>2 DEF Unanswered
  <2> HIDE DEF Stream, Replied, r
  <2> QED  BY <1>1, <1>2, <1>3, <1>7, <2>2, <2>4, <2>5, <2>6 DEF ReplyInv
<1> QED  BY <1>8, <1>9, <1>10, <1>11 DEF OrderInv

\* The handler is called, or the request waits.
LEMMA DeliverOrder ==
    ASSUME Inv, OrderInv, NEW k \in 1..ReadSize, Read(k),
           NEW p \in 0..Len(Buffered(k)), NEW q \in DOMAIN reqs,
           Followed(Stream, p, q, reqs, held),
           \A i \in DOMAIN handled : q > handled[i].req,
           ahead = 0 => q = Len(reqs),
           NEW before \in Seq(Replies), Correct(got \o before), UpTo(got \o before, q),
           Cardinality(Data(got \o before)) = answers,
           Cardinality(Good(got \o before)) = Len(handled),
           NEW len \in Nat, NEW n \in Nat, n = len + (Len(Buffered(k)) - p),
           Deliver(q, len, SubSeq(Buffered(k), p + 1, Len(Buffered(k))), n, before)
    PROVE  OrderInv'
<1> DEFINE c == SubSeq(Buffered(k), p + 1, Len(Buffered(k)))
<1>1. CASE Complete(n, len, q)
  <2>1. /\ handled' = Append(handled, [req |-> q, content |-> c])
        /\ answers' = answers + 1 /\ out' = before \o Answer(q)
        /\ io' = <<>> /\ reqLen' = 0
    BY <1>1 DEF Deliver, CloseLocalEndpoint
  <2>2. Len(Buffered(k)) >= p + reqs[q].body
    <3>1. reqs[q].body \in Nat
      BY StreamTypes, RequestNumbers
    <3>2. Len(Buffered(k)) \in Nat /\ p \in Nat
      BY ReadStream
    <3>3. n >= reqs[q].body + len
      BY <1>1 DEF Complete
    <3> QED  BY <3>1, <3>2, <3>3
  <2> QED  BY <2>1, <2>2, CompleteOrder
<1>2. CASE ~Complete(n, len, q)
  <2>1. io' = c /\ current' = q /\ out' = before /\ UNCHANGED <<handled, answers>>
    BY <1>2 DEF Deliver
  <2> QED  BY <2>1, IncompleteOrder
<1> QED  BY <1>1, <1>2

\* A header is complete.
LEMMA ParseOrder ==
    ASSUME Inv, OrderInv, NEW k \in 1..ReadSize, NEW len \in 1..(Len(io) + k), Parse(k, len)
    PROVE  OrderInv'
<1> DEFINE q == Buffered(k)[len].req
           before == out \o Continue(q)
           e == Len(Buffered(k))
<1>1. /\ Read(k) /\ reqLen = 0 /\ len \in DOMAIN Buffered(k) /\ Buffered(k)[len].part = "end"
      /\ Deliver(q, len, SubSeq(Buffered(k), len + 1, e), numBytes + k, before)
  BY DEF Parse, HeaderEnds, Removed
<1>2. /\ Stream \in Seq(Units) /\ Len(Stream) \in Nat /\ Buffered(k) \in Seq(Units)
      /\ e \in 1..Len(Stream) /\ e = Len(io) + k
      /\ \A i \in 1..e : Stream[i] = Buffered(k)[i]
  BY <1>1, ReadStream
<1>3. len \in 1..e /\ len \in 0..e /\ len \in 1..Len(Stream) /\ Stream[len] = Buffered(k)[len]
      /\ len \in Nat
  BY <1>2
<1>4. /\ reqs \in Seq(Request) /\ Len(reqs) \in Nat /\ DOMAIN reqs = 1..Len(reqs)
      /\ \A i \in 1..Len(Stream) : Stream[i].req \in DOMAIN reqs
      /\ got \in Seq(Replies) /\ out \in Seq(Replies)
  BY StreamTypes
<1>5. q \in DOMAIN reqs /\ Stream[len].req = q /\ Stream[len].part = "end" /\ q \in Nat
  BY <1>1, <1>3, <1>4
<1> HIDE DEF q, e, Units, Request, Replies
<1>6. Followed(Stream, len, q, reqs, held)
  BY <1>3, <1>5 DEF OrderInv, StreamInv, InOrder
<1>7. \A i \in DOMAIN handled : q > handled[i].req
  BY <1>3, <1>5 DEF OrderInv, HandledInv, Beyond
<1>8. ahead = 0 => q = Len(reqs)
  BY <1>3, <1>5 DEF OrderInv, WaitInv
<1>9. /\ before \in Seq(Replies) /\ Correct(got \o before) /\ UpTo(got \o before, q)
      /\ Cardinality(Data(got \o before)) = answers
      /\ Cardinality(Good(got \o before)) = Len(handled)
  <2>1. Continue(q) \in Seq(Replies)
    BY <1>5, ReplyUnits DEF Continue
  <2>2. before \in Seq(Replies)
    BY <1>4, <2>1
  <2>3. got \o before = Replied \o Continue(q)
    BY <1>4, <2>1, RepliesJoined DEF Replied
  <2>4. /\ Correct(Replied) /\ \A j \in 1..Len(Replied) : Replied[j].to < q
        /\ Cardinality(Data(Replied)) = answers /\ Cardinality(Good(Replied)) = Len(handled)
    BY <1>3, <1>5 DEF OrderInv, ReplyInv, Unanswered
  <2>5. /\ Correct(Replied \o Continue(q)) /\ UpTo(Replied \o Continue(q), q)
        /\ Cardinality(Data(Replied \o Continue(q))) = Cardinality(Data(Replied))
        /\ Cardinality(Good(Replied \o Continue(q))) = Cardinality(Good(Replied))
    BY <1>5, <2>4, ContinueCorrect
  <2> QED  BY <2>2, <2>3, <2>4, <2>5
<1>10. numBytes + k \in Nat /\ numBytes + k = len + (e - len)
  <2>1. numBytes = Len(io) /\ numBytes \in Nat
    BY <1>1 DEF Inv, IInv, ParserTypes, CountersAgree
  <2> QED  BY <1>2, <1>3, <2>1
<1> HIDE DEF before
<1> QED
  BY <1>1, <1>3, <1>5, <1>6, <1>7, <1>8, <1>9, <1>10, DeliverOrder DEF e

\* A part of the body is added to the buffer.
LEMMA BodyPartOrder ==
    ASSUME Inv, OrderInv, NEW k \in 1..ReadSize, BodyPart(k)
    PROVE  OrderInv'
<1> DEFINE q == current
           e == Len(Buffered(k))
<1>1. /\ Read(k) /\ reqLen > 0
      /\ Deliver(q, reqLen, Buffered(k), numBytes + k, out)
  BY DEF BodyPart
<1>2. /\ Buffered(k) \in Seq(Units) /\ e \in Nat /\ e = Len(io) + k
  <2>1. /\ Buffered(k) \in Seq(Units) /\ e \in 1..Len(Stream) /\ e = Len(io) + k
        /\ Len(Stream) \in Nat
    BY <1>1, ReadStream
  <2> HIDE DEF e
  <2> QED  BY <2>1
<1>3. SubSeq(Buffered(k), 0 + 1, e) = Buffered(k)
  <2>1. 0 + 1 = 1
    OBVIOUS
  <2> HIDE DEF Units
  <2> QED  BY <1>2, <2>1, SubSeqFull
<1>4. got \in Seq(Replies) /\ out \in Seq(Replies)
  BY StreamTypes
<1>5. q \in DOMAIN reqs /\ reqLen \in Nat /\ numBytes \in Nat /\ numBytes = reqLen + Len(io)
      /\ k \in Nat /\ Len(io) \in Nat
  BY <1>1, HttpConstants DEF Inv, IInv, ParserTypes, CountersAgree
<1> HIDE DEF e, Units, Request, Replies
<1>6. Followed(Stream, 0, q, reqs, held)
  BY <1>1 DEF OrderInv, StreamInv
<1>7. \A i \in DOMAIN handled : q > handled[i].req
  BY <1>1 DEF OrderInv, HandledInv
<1>8. ahead = 0 => q = Len(reqs)
  BY <1>1 DEF OrderInv, WaitInv
<1>9. /\ Correct(got \o out) /\ UpTo(got \o out, q)
      /\ Cardinality(Data(got \o out)) = answers
      /\ Cardinality(Good(got \o out)) = Len(handled)
  BY <1>1 DEF OrderInv, ReplyInv, Replied
<1>10. numBytes + k \in Nat /\ numBytes + k = reqLen + (e - 0) /\ 0 \in 0..e
  BY <1>2, <1>5
<1>11. Deliver(q, reqLen, SubSeq(Buffered(k), 0 + 1, e), numBytes + k, out)
  BY <1>1, <1>3
<1> HIDE DEF q
<1> QED
  BY <1>1, <1>4, <1>5, <1>6, <1>7, <1>8, <1>9, <1>10, <1>11, DeliverOrder DEF e

\* So the server keeps the order, whatever it reads.
LEMMA ReceiveOrder ==
    ASSUME Inv, OrderInv, Receive
    PROVE  OrderInv'
<1>1. PICK k \in 1..ReadSize :
         \/ HeaderPart(k) \/ TooLong(k) \/ BodyPart(k)
         \/ \E len \in 1..(Len(io) + k) : Malformed(k, len) \/ Parse(k, len)
  BY DEF Receive
<1>2. CASE HeaderPart(k)
  BY <1>2, HeaderPartOrder
<1>3. CASE BodyPart(k)
  BY <1>3, BodyPartOrder
<1>4. CASE TooLong(k) \/ \E len \in 1..(Len(io) + k) : Malformed(k, len)
  <2>1. Read(k) /\ Refuse
    BY <1>4 DEF TooLong, Malformed
  <2> QED  BY <2>1, RefuseOrder
<1>5. CASE \E len \in 1..(Len(io) + k) : Parse(k, len)
  BY <1>5, ParseOrder
<1> QED  BY <1>1, <1>2, <1>3, <1>4, <1>5

\* What the socket takes is still a reply, and the next one to be received.
LEMMA OutputOrder ==
    ASSUME Inv, OrderInv, Output
    PROVE  OrderInv'
<1>1. PICK n \in 1..Len(out) : Write(n)
  BY DEF Output
<1>2. /\ got' = got \o SubSeq(out, 1, n) /\ out' = SubSeq(out, n + 1, Len(out)) /\ open
      /\ UNCHANGED <<ahead, reqs, held, left, wire, open, io, reqLen, current, handled, answers>>
  BY <1>1 DEF Write, Unsent, Removed, parser
<1>3. got \in Seq(Replies) /\ out \in Seq(Replies) /\ n \in Nat /\ n <= Len(out) /\ Len(out) \in Nat
  BY StreamTypes
<1>4. Replied' = Replied
  <2> HIDE DEF Replies
  <2> DEFINE x == SubSeq(out, 1, n)
             y == SubSeq(out, n + 1, Len(out))
  <2>1. x \in Seq(Replies) /\ y \in Seq(Replies)
    <3>1. \A i \in 1..Len(out) : out[i] \in Replies
      BY <1>3
    <3> QED  BY <1>3, <3>1
  <2>2. x \o y = out
    <3>1. 1 \in 1..(Len(out) + 1) /\ n \in (1 - 1)..Len(out) /\ Len(out) \in n..Len(out)
      BY <1>3
    <3>2. x \o y = SubSeq(out, 1, Len(out))
      BY <1>3, <3>1, ConcatAdjacentSubSeq
    <3> QED  BY <1>3, <3>2, SubSeqFull
  <2> HIDE DEF x, y
  <2>3. got \o (x \o y) = (got \o x) \o y
    BY <1>3, <2>1, RepliesJoined
  <2> QED  BY <1>2, <2>2, <2>3 DEF Replied, x, y
<1>5. Stream' = Stream
  BY <1>2 DEF Stream
<1> HIDE DEF Stream, Replied
<1>6. StreamInv' /\ ReplyInv'
  BY <1>2, <1>4, <1>5 DEF OrderInv, StreamInv, ReplyInv
<1>7. HandledInv' /\ WaitInv'
  BY <1>2, <1>5 DEF OrderInv, HandledInv, WaitInv, Body
<1> QED  BY <1>6, <1>7 DEF OrderInv

\* A connection is closed with nothing left to be sent, or by its client.
LEMMA CloseOrder ==
    ASSUME Inv, OrderInv, Close \/ Leave
    PROVE  OrderInv'
<1>1. UNCHANGED <<ahead, reqs, held, got, out, wire, io, reqLen, current, handled, answers>>
  BY DEF Close, Leave, client, parser
<1>2. ~open' /\ ~left' => out' = <<>>
  BY <1>1 DEF Close, Leave, AllSent
<1>3. Stream' = Stream /\ Replied' = Replied
  BY <1>1 DEF Stream, Replied
<1> HIDE DEF Stream, Replied
<1>4. StreamInv' /\ ReplyInv'
  BY <1>1, <1>2, <1>3 DEF OrderInv, StreamInv, ReplyInv
<1>5. HandledInv' /\ WaitInv'
  BY <1>1, <1>3 DEF OrderInv, HandledInv, WaitInv, Body
<1> QED  BY <1>4, <1>5 DEF OrderInv

\* More is sent: units of a request that is not handled, none of which is the end of a
\* header that has been answered.
LEMMA Extended ==
    ASSUME NEW s \in Seq(Units), NEW t \in Seq(Units), NEW n \in Nat,
           \A i \in 1..Len(t) : t[i].req = n
    PROVE  /\ \A q \in Nat : Beyond(s, q) /\ q < n => Beyond(s \o t, q)
           /\ \A r : /\ Unanswered(s, r) /\ UpTo(r, n)
                     /\ \A i \in 1..Len(t) :
                           t[i].part = "end" => \A j \in 1..Len(r) : r[j].to < n
                     => Unanswered(s \o t, r)
           /\ (\A i \in 1..Len(s) : s[i].req = n) => \A i \in 1..Len(s \o t) : (s \o t)[i].req = n
<1> DEFINE u == s \o t
           m == Len(s)
           l == Len(t)
<1>1. /\ Len(u) = m + l /\ m \in Nat /\ l \in Nat
      /\ \A i \in 1..m : u[i] = s[i]
      /\ \A i \in 1..(m + l) : i > m => i - m \in 1..l /\ u[i] = t[i - m]
  BY Places
<1>2. \A i \in 1..l : t[i].req = n
  OBVIOUS
<1> HIDE DEF u, m, l, Units
<1>3. \A i \in 1..(m + l) : (i \in 1..m /\ u[i] = s[i]) \/ \E j \in 1..l : u[i] = t[j]
  <2> SUFFICES ASSUME NEW i \in 1..(m + l)
               PROVE  (i \in 1..m /\ u[i] = s[i]) \/ \E j \in 1..l : u[i] = t[j]
    OBVIOUS
  <2>1. CASE i > m
    BY <1>1, <2>1
  <2>2. CASE ~(i > m)
    <3>1. i \in 1..m
      BY <1>1, <2>2
    <3> QED  BY <1>1, <3>1
  <2> QED  BY <2>1, <2>2
<1>4. ASSUME NEW q \in Nat, Beyond(s, q), q < n PROVE Beyond(u, q)
  <2>1. \A i \in 1..m : s[i].req > q
    BY <1>4 DEF Beyond, m
  <2>2. \A i \in 1..(m + l) : u[i].req > q
    BY <1>2, <1>3, <1>4, <2>1
  <2> QED  BY <1>1, <2>2 DEF Beyond
<1>5. ASSUME NEW r, Unanswered(s, r), UpTo(r, n),
             \A i \in 1..l : t[i].part = "end" => \A j \in 1..Len(r) : r[j].to < n
      PROVE  Unanswered(u, r)
  <2>1. \A i \in 1..m, j \in 1..Len(r) :
           r[j].to <= s[i].req /\ (s[i].part = "end" => r[j].to < s[i].req)
    BY <1>5 DEF Unanswered, m
  <2>2. \A i \in 1..l, j \in 1..Len(r) :
           r[j].to <= t[i].req /\ (t[i].part = "end" => r[j].to < t[i].req)
    BY <1>2, <1>5 DEF UpTo
  <2>3. \A i \in 1..(m + l), j \in 1..Len(r) :
           r[j].to <= u[i].req /\ (u[i].part = "end" => r[j].to < u[i].req)
    BY <1>3, <2>1, <2>2, Zenon
  <2> QED  BY <1>1, <2>3 DEF Unanswered
<1>6. ASSUME \A i \in 1..m : s[i].req = n, NEW i \in 1..(m + l) PROVE u[i].req = n
  BY <1>2, <1>3, <1>6
<1> QED  BY <1>1, <1>4, <1>5, <1>6 DEF u, m, l

\* The body that was held back is sent.
LEMMA SendBodyOrder ==
    ASSUME Inv, OrderInv, SendBody
    PROVE  OrderInv'
<1> DEFINE n == Len(reqs)
           b == BodyOf(n, reqs[n])
           s == Stream \o b
<1>1. /\ held /\ ~held' /\ wire' = wire \o b /\ open
      /\ UNCHANGED <<ahead, reqs, got, left, open, out, io, reqLen, current, handled, answers>>
  BY Zenon DEF SendBody, Body, parser
<1>2. /\ reqs \in Seq(Request) /\ n \in Nat /\ DOMAIN reqs = 1..n
      /\ Stream \in Seq(Units)
  BY StreamTypes
<1>3. reqs # <<>> /\ reqs[n].body > 0 /\ n \in DOMAIN reqs
  <2>1. reqs # <<>> /\ reqs[n].body > 0
    BY <1>1 DEF OrderInv, StreamInv
  <2> HIDE DEF Request
  <2>2. n \in DOMAIN reqs
    BY <1>2, <2>1
  <2> QED  BY <2>1, <2>2
<1>4. b \in Seq(Units) /\ \A i \in 1..Len(b) : b[i].req = n /\ b[i].part # "end"
  <2>1. reqs[n].body \in Nat
    BY <1>2, <1>3, RequestNumbers
  <2> HIDE DEF n
  <2>2. /\ b \in Seq(Units) /\ Len(b) = reqs[n].body
        /\ \A i \in 1..reqs[n].body : b[i] = [req |-> n, part |-> "body"]
    BY <1>2, <2>1, BodyPlaces
  <2>3. \A i \in 1..Len(b) : b[i] = [req |-> n, part |-> "body"]
    BY <2>2, Zenon
  <2> HIDE DEF b
  <2> QED  BY <2>2, <2>3
<1>5. Stream' = s
  <2>1. io \in Seq(Units) /\ wire \in Seq(Units)
    BY DEF Inv, IInv, ParserTypes
  <2> HIDE DEF b, Units
  <2>2. io \o (wire \o b) = (io \o wire) \o b
    BY <1>4, <2>1, ConcatAssociative
  <2> QED  BY <1>1, <2>2 DEF Stream
<1>6. Replied' = Replied
  BY <1>1 DEF Replied
<1>7. InOrder(s, reqs, FALSE)
      /\ \A i \in Nat, q \in DOMAIN reqs :
            Followed(Stream, i, q, reqs, TRUE) => Followed(s, i, q, reqs, FALSE)
  <2>1. held = TRUE
    BY <1>1, Zenon DEF Inv, ReplyTypes
  <2>2. InOrder(Stream, reqs, TRUE)
    BY <2>1 DEF OrderInv, StreamInv
  <2> QED  BY <1>2, <1>3, <2>2, InOrderBodySent
<1>8. held = TRUE /\ held' = FALSE
  <2>1. held \in BOOLEAN
    BY DEF Inv, ReplyTypes
  <2>2. held' = FALSE
    BY DEF SendBody
  <2> QED  BY <1>1, <2>1, <2>2, Zenon
<1>9. /\ \A q \in Nat : Beyond(Stream, q) /\ q < n => Beyond(s, q)
      /\ \A r : Unanswered(Stream, r) /\ UpTo(r, n) => Unanswered(s, r)
      /\ (\A i \in 1..Len(Stream) : Stream[i].req = n) => \A i \in 1..Len(s) : s[i].req = n
  <2> HIDE DEF b, n, Units
  <2> QED  BY <1>2, <1>4, Extended
<1> HIDE DEF s, b, Stream, Replied, Units, Request, Replies
<1>10. StreamInv'
  <2>1. InOrder(Stream', reqs', held')
    BY <1>1, <1>5, <1>7, <1>8
  <2>2. reqLen' > 0 => Followed(Stream', 0, current', reqs', held')
    <3> SUFFICES ASSUME reqLen > 0 PROVE Followed(s, 0, current, reqs, FALSE)
      BY <1>1, <1>5, <1>8
    <3>1. Followed(Stream, 0, current, reqs, TRUE)
      BY <1>8 DEF OrderInv, StreamInv
    <3>2. current \in DOMAIN reqs
      BY DEF Inv, IInv, ParserTypes
    <3> QED  BY <1>7, <3>1, <3>2
  <2> QED  BY <1>1, <2>1, <2>2 DEF StreamInv
<1>11. HandledInv'
  <2>1. \A x : Body(x)' = Body(x)
    BY <1>1 DEF Body
  <2>2. ASSUME NEW i \in DOMAIN handled PROVE Beyond(s, handled[i].req)
    <3>1. Beyond(Stream, handled[i].req) /\ handled[i].req < n /\ handled[i].req \in DOMAIN reqs
      BY <1>1 DEF OrderInv, HandledInv
    <3>2. handled[i].req \in Nat
      BY <1>2, <3>1
    <3> QED  BY <1>9, <3>1, <3>2
  <2> QED  BY <1>1, <1>5, <2>1, <2>2 DEF OrderInv, HandledInv
<1>12. WaitInv'
  <2> SUFFICES ASSUME ahead = 0 PROVE WaitInv'
    BY <1>1 DEF WaitInv
  <2>1. \A x : Body(x)' = Body(x)
    BY <1>1 DEF Body
  <2>2. /\ Len(handled) <= Len(reqs) /\ Len(reqs) <= Len(handled) + 1
        /\ \A i \in DOMAIN handled : handled[i] = [req |-> i, content |-> Body(i)]
        /\ \A i \in 1..Len(Stream) : Stream[i].req = Len(reqs)
        /\ reqLen > 0 => current = Len(reqs)
    BY DEF OrderInv, WaitInv
  <2>3. \A i \in 1..Len(s) : s[i].req = Len(reqs)
    BY <1>9, <2>2
  <2> QED  BY <1>1, <1>5, <2>1, <2>2, <2>3 DEF WaitInv
<1>13. ReplyInv'
  <2>1. UpTo(Replied, n) /\ Unanswered(Stream, Replied)
    BY DEF OrderInv, ReplyInv
  <2>2. Unanswered(s, Replied)
    BY <1>9, <2>1
  <2> QED  BY <1>1, <1>5, <1>6, <2>2 DEF OrderInv, ReplyInv
<1> QED  BY <1>10, <1>11, <1>12, <1>13 DEF OrderInv

\* A client that waits has its answer when it sends again: nothing of a request is in
\* flight.
LEMMA AnsweredBeforeSending ==
    ASSUME Inv, OrderInv, ahead = 0, ~Waiting, \A i \in DOMAIN got : got[i].to # 0
    PROVE  Len(handled) = Len(reqs) /\ Len(Stream) = 0 /\ ~(reqLen > 0)
<1> DEFINE n == Len(reqs)
           l == Len(handled)
           m == Len(Stream)
<1>1. /\ n \in Nat /\ DOMAIN reqs = 1..n /\ m \in Nat
      /\ \A i \in 1..m : Stream[i].req \in DOMAIN reqs
      /\ got \in Seq(Replies) /\ out \in Seq(Replies)
  BY StreamTypes
<1>2. l \in Nat /\ DOMAIN handled = 1..l
  <2> DEFINE H == [req : Nat, content : Seq(Units)]
  <2>1. handled \in Seq(H)
    BY DEF OrderInv, HandledInv
  <2> HIDE DEF H
  <2> QED  BY <2>1
<1>3. /\ l <= n /\ n <= l + 1
      /\ \A i \in 1..l : handled[i] = [req |-> i, content |-> Body(i)]
      /\ \A i \in 1..m : Stream[i].req = n
      /\ reqLen > 0 => current = n
  BY <1>2 DEF OrderInv, WaitInv
<1>4. n <= l
  <2>1. Data(got) = Good(got) /\ Received = Cardinality(Data(got))
    BY DEF Data, Good, Received
  <2>2. Correct(Replied) /\ Cardinality(Good(Replied)) = l
    BY DEF OrderInv, ReplyInv
  <2>3. Good(got) \subseteq Good(Replied)
    BY <1>1, <2>2, ReceivedCorrect DEF Replied
  <2>4. IsFiniteSet(Good(Replied)) /\ IsFiniteSet(Good(got))
    <3>1. Replied \in Seq(Replies)
      BY <2>2 DEF Correct
    <3> QED  BY <1>1, <3>1, DataFinite
  <2>5. Cardinality(Good(got)) <= Cardinality(Good(Replied))
    BY <2>3, <2>4, FS_Subset
  <2>6. Received <= l /\ Received \in Nat
    BY <2>1, <2>2, <2>4, <2>5, FS_CardinalityType
  <2>7. ~(n > Received)
    <3>1. Received + 0 = Received
      BY <2>6
    <3> QED  BY <3>1 DEF Waiting
  <2> HIDE DEF l, n
  <2> QED  BY <1>1, <1>2, <2>6, <2>7
<1>5. l = n
  <2>1. l \in Nat /\ n \in Nat /\ l <= n /\ n <= l
    BY <1>1, <1>2, <1>3, <1>4
  <2> HIDE DEF l, n
  <2> QED  BY <2>1
<1>6. ASSUME n \in 1..n
      PROVE  handled[n].req = n /\ n \in DOMAIN handled
  <2>1. handled[n] = [req |-> n, content |-> Body(n)]
    BY <1>3, <1>5, <1>6
  <2> HIDE DEF n, l
  <2> QED  BY <1>2, <1>5, <1>6, <2>1
<1> HIDE DEF n, l, m
<1>7. m = 0
  <2> SUFFICES ASSUME m # 0 PROVE FALSE
    OBVIOUS
  <2>1. 1 \in 1..m
    BY <1>1
  <2>2. Stream[1].req = n /\ n \in 1..n
    BY <1>1, <1>3, <2>1
  <2>3. Stream[1].req > n
    BY <1>6, <2>1, <2>2 DEF OrderInv, HandledInv, Beyond, m
  <2> QED  BY <1>1, <2>2, <2>3
<1>8. ~(reqLen > 0)
  <2> SUFFICES ASSUME reqLen > 0 PROVE FALSE
    OBVIOUS
  <2>1. current = n /\ n \in 1..n
    <3>1. current \in DOMAIN reqs
      BY DEF Inv, IInv, ParserTypes
    <3> QED  BY <1>1, <1>3, <3>1
  <2>2. current > n
    BY <1>6, <2>1 DEF OrderInv, HandledInv
  <2> QED  BY <1>1, <2>1, <2>2
<1> QED  BY <1>5, <1>7, <1>8 DEF n, l, m

\* So are units.
LEMMA UnitsJoined ==
    \A r, s, t \in Seq(Units) : r \o (s \o t) = (r \o s) \o t
<1> HIDE DEF Units
<1> QED  BY ConcatAssociative

\* The next request is sent.
LEMMA SendOrder ==
    ASSUME Inv, OrderInv, NEW r \in Request, NEW hold \in BOOLEAN, Send(r, hold)
    PROVE  OrderInv'
<1> DEFINE n == Len(reqs) + 1
           t == Parts(n, r, hold)
           s == Stream \o t
<1>1. /\ reqs' = Append(reqs, r) /\ held' = hold
      /\ wire' = wire \o Header(n, r) \o (IF hold THEN <<>> ELSE BodyOf(n, r))
      /\ ~held /\ open
      /\ UNCHANGED <<ahead, got, left, open, out, io, reqLen, current, handled, answers>>
  BY DEF Send, parser
<1>2. /\ reqs \in Seq(Request) /\ Len(reqs) \in Nat /\ DOMAIN reqs = 1..Len(reqs)
      /\ Stream \in Seq(Units) /\ Len(Stream) \in Nat
      /\ \A i \in 1..Len(Stream) : Stream[i].req \in DOMAIN reqs
  BY StreamTypes
<1>3. /\ Len(reqs') = n /\ n \in Nat /\ reqs'[n] = r
      /\ \A i \in DOMAIN reqs : reqs'[i] = reqs[i] /\ i \in DOMAIN reqs' /\ i \in Nat /\ i < n
      /\ reqs' # <<>>
  <2> HIDE DEF Request
  <2> QED  BY <1>1, <1>2
<1>4. t \in Seq(Units) /\ Len(t) \in Nat /\ \A i \in 1..Len(t) : t[i].req = n
  <2>1. /\ t \in Seq(Units) /\ Len(t) = r.head + (IF hold THEN 0 ELSE r.body)
        /\ r.head \in Nat /\ r.head >= 1 /\ r.body \in Nat
        /\ \A i \in 1..Len(t) :
              /\ t[i].req = n
              /\ t[i].part = "end" => i = r.head
              /\ i > r.head => t[i] = [req |-> n, part |-> "body"]
    BY <1>3, PartsPlaces
  <2> HIDE DEF t
  <2> QED  BY <2>1
<1>5. Stream' = s
  <2> DEFINE h == Header(n, r)
             b == IF hold THEN <<>> ELSE BodyOf(n, r)
  <2>1. io \in Seq(Units) /\ wire \in Seq(Units)
    BY DEF Inv, IInv, ParserTypes
  <2>2. h \in Seq(Units) /\ BodyOf(n, r) \in Seq(Units)
    <3>1. n \in {n}
      OBVIOUS
    <3> QED  BY <1>3, <3>1, PartsSent DEF Of
  <2>3. b \in Seq(Units)
    BY <2>2, EmptyBuffer, Zenon
  <2> HIDE DEF h, b, Units
  <2>4. wire \o h \in Seq(Units) /\ h \o b \in Seq(Units)
    BY <2>1, <2>2, <2>3
  <2>5. (wire \o h) \o b = wire \o (h \o b)
    BY <2>1, <2>2, <2>3, UnitsJoined
  <2>6. (io \o wire) \o (h \o b) = io \o (wire \o (h \o b))
    BY <2>1, <2>4, UnitsJoined
  <2>7. t = h \o b /\ wire' = (wire \o h) \o b
    BY <1>1 DEF Parts, h, b
  <2> QED  BY <1>1, <2>5, <2>6, <2>7 DEF Stream
<1>6. Replied' = Replied
  BY <1>1 DEF Replied
<1>7. held = FALSE
  BY <1>1, Zenon DEF Inv, ReplyTypes
<1>8. /\ InOrder(s, reqs', hold)
      /\ \A i \in Nat, q \in DOMAIN reqs :
            Followed(Stream, i, q, reqs, FALSE) => Followed(s, i, q, reqs', hold)
  <2>1. InOrder(Stream, reqs, FALSE)
    BY <1>7 DEF OrderInv, StreamInv
  <2> HIDE DEF Stream, Units, Request
  <2>2. /\ InOrder(Stream \o Parts(Len(reqs) + 1, r, hold), Append(reqs, r), hold)
        /\ \A i \in Nat, q \in DOMAIN reqs : Followed(Stream, i, q, reqs, FALSE) =>
              Followed(Stream \o Parts(Len(reqs) + 1, r, hold), i, q, Append(reqs, r), hold)
    BY <1>2, <2>1, InOrderSent
  <2> QED  BY <1>1, <2>2
<1>9. /\ Correct(Replied) /\ UpTo(Replied, Len(reqs)) /\ Unanswered(Stream, Replied)
  BY DEF OrderInv, ReplyInv
<1>10. UpTo(Replied, n)
  <2>1. Len(reqs) <= n
    BY <1>2
  <2> QED  BY <1>2, <1>3, <1>9, <2>1, UpToLater
<1>11. \A j \in 1..Len(Replied) : Replied[j].to < n
  <2>1. \A j \in 1..Len(Replied) : Replied[j].to \in Nat
    <3>1. Replied \in Seq(Replies)
      BY <1>9 DEF Correct
    <3>2. \A j \in 1..Len(Replied) : Replied[j] \in Replies
      BY <3>1
    <3> QED  BY <3>2 DEF Replies
  <2> QED  BY <1>2, <1>9, <2>1 DEF UpTo
<1>12. \A q \in Nat : Beyond(Stream, q) /\ q < n => Beyond(s, q)
  <2> HIDE DEF t, n, Stream, Units
  <2> QED  BY <1>2, <1>3, <1>4, Extended
<1>13. Unanswered(s, Replied)
  <2> HIDE DEF t, n, Stream, Replied, Units
  <2> QED  BY <1>2, <1>3, <1>4, <1>9, <1>10, <1>11, Extended
<1>14. \A x \in DOMAIN reqs : Body(x)' = Body(x)
  BY <1>3 DEF Body
<1> HIDE DEF t, n, Stream, Replied, Units, Request, Replies
<1>15. StreamInv'
  <2>1. InOrder(Stream', reqs', held')
    BY <1>1, <1>5, <1>8
  <2>2. reqLen' > 0 => Followed(Stream', 0, current', reqs', held')
    <3> SUFFICES ASSUME reqLen > 0 PROVE Followed(s, 0, current, reqs', hold)
      BY <1>1, <1>5
    <3>1. Followed(Stream, 0, current, reqs, FALSE)
      BY <1>7 DEF OrderInv, StreamInv
    <3>2. current \in DOMAIN reqs
      BY DEF Inv, IInv, ParserTypes
    <3> QED  BY <1>8, <3>1, <3>2
  <2>3. held' => reqs' # <<>> /\ reqs'[Len(reqs')].body > 0
    BY <1>1, <1>3 DEF Send
  <2> QED  BY <2>1, <2>2, <2>3 DEF StreamInv
<1>16. HandledInv'
  <2>1. ASSUME NEW i \in DOMAIN handled
        PROVE  /\ handled[i].req \in DOMAIN reqs'
               /\ handled[i].req < Len(reqs')
               /\ IsPrefix(Body(handled[i].req)', handled[i].content)
               /\ Beyond(s, handled[i].req)
    <3>1. /\ handled[i].req \in DOMAIN reqs
          /\ IsPrefix(Body(handled[i].req), handled[i].content)
          /\ Beyond(Stream, handled[i].req)
      BY DEF OrderInv, HandledInv
    <3> DEFINE q == handled[i].req
    <3>2. q \in Nat /\ q < n /\ q \in DOMAIN reqs'
      BY <1>3, <3>1
    <3>3. Beyond(s, q)
      BY <1>12, <3>1, <3>2
    <3>4. Body(q)' = Body(q)
      BY <1>1, <1>14, <3>1
    <3> QED  BY <1>3, <3>1, <3>2, <3>3, <3>4
  <2> QED  BY <1>1, <1>5, <2>1 DEF OrderInv, HandledInv
<1>17. WaitInv'
  <2> SUFFICES ASSUME ahead = 0 PROVE WaitInv'
    BY <1>1 DEF WaitInv
  <2>1. Len(handled) = Len(reqs) /\ Len(Stream) = 0 /\ ~(reqLen > 0)
    BY <1>1, AnsweredBeforeSending DEF Send
  <2>2. \A i \in 1..Len(s) : s[i].req = n
    <3>1. \A i \in 1..Len(Stream) : Stream[i].req = n
      BY <2>1
    <3> QED  BY <1>2, <1>3, <1>4, <3>1, Extended
  <2>3. \A i \in DOMAIN handled : handled'[i] = [req |-> i, content |-> Body(i)']
    <3>1. ASSUME NEW i \in DOMAIN handled
          PROVE  handled[i] = [req |-> i, content |-> Body(i)] /\ i \in DOMAIN reqs
      <4>1. handled[i] = [req |-> i, content |-> Body(i)]
        BY DEF OrderInv, WaitInv
      <4>2. handled[i].req \in DOMAIN reqs
        BY DEF OrderInv, HandledInv
      <4>3. handled[i].req = i
        BY <4>1
      <4> QED  BY <4>1, <4>2, <4>3
    <3> QED  BY <1>1, <1>14, <3>1
  <2>4. Len(handled) <= n /\ n <= Len(handled) + 1
    BY <1>2, <2>1 DEF n
  <2> QED  BY <1>1, <1>3, <1>5, <2>1, <2>2, <2>3, <2>4 DEF WaitInv
<1>18. ReplyInv'
  BY <1>1, <1>3, <1>5, <1>6, <1>10, <1>13 DEF OrderInv, ReplyInv
<1> QED  BY <1>15, <1>16, <1>17, <1>18 DEF OrderInv

\* At the start nothing is sent.
LEMMA InitOrder == Init => OrderInv
<1> SUFFICES ASSUME Init PROVE OrderInv
  OBVIOUS
<1>1. /\ reqs = <<>> /\ held = FALSE /\ wire = <<>> /\ got = <<>> /\ out = <<>> /\ io = <<>>
      /\ reqLen = 0 /\ handled = <<>> /\ answers = 0 /\ open
  BY DEF Init
<1>2. Stream = <<>> /\ Replied = <<>>
  <2>1. <<>> \o <<>> = <<>>
    BY EmptyBuffer, ConcatEmptySeq
  <2> QED  BY <1>1, <2>1 DEF Stream, Replied
<1>3. StreamInv
  <2>1. InOrder(<<>>, reqs, held)
    <3>1. \A i \in 1..Len(<<>>) : FALSE
      BY EmptyBuffer
    <3> QED  BY <3>1, EmptyBuffer DEF InOrder
  <2> QED  BY <1>1, <1>2, <2>1 DEF StreamInv
<1>4. HandledInv
  <2> DEFINE H == [req : Nat, content : Seq(Units)]
  <2>1. handled \in Seq(H) /\ DOMAIN handled = {}
    <3> HIDE DEF H
    <3> QED  BY <1>1
  <2> QED  BY <2>1 DEF HandledInv
<1>5. WaitInv
  <2>1. DOMAIN handled = {} /\ Len(handled) = 0 /\ Len(reqs) = 0
    BY <1>1
  <2>2. \A i \in 1..Len(Stream) : FALSE
    BY <1>2, EmptyBuffer
  <2> QED  BY <1>1, <2>1, <2>2 DEF WaitInv
<1>6. ReplyInv
  <2>1. \A i \in 1..Len(<<>>) : FALSE
    BY EmptyBuffer
  <2>2. <<>> \in Seq(Replies) /\ Len(handled) = 0
    BY <1>1, ReplyUnits
  <2>3. Correct(<<>>) /\ UpTo(<<>>, Len(reqs)) /\ Unanswered(<<>>, <<>>)
    BY <2>1, <2>2 DEF Correct, UpTo, Unanswered
  <2>4. Data(<<>>) = {} /\ Good(<<>>) = {}
    BY EmptyBuffer DEF Data, Good
  <2>5. Cardinality({}) = 0
    BY FS_EmptySet
  <2> HIDE DEF Stream, Replied
  <2>6. Correct(Replied) /\ UpTo(Replied, Len(reqs)) /\ Unanswered(Stream, Replied)
    BY <1>2, <2>3
  <2>7. Cardinality(Data(Replied)) = answers /\ Cardinality(Good(Replied)) = Len(handled)
    BY <1>1, <1>2, <2>2, <2>4, <2>5
  <2>8. ~(reqLen > 0) /\ (~open /\ ~left => out = <<>>)
    BY <1>1
  <2> QED  BY <2>6, <2>7, <2>8 DEF ReplyInv
<1> QED  BY <1>3, <1>4, <1>5, <1>6 DEF OrderInv

\* The invariant is inductive, next to the one on the counters.
LEMMA NextOrder == Inv /\ OrderInv /\ [Next]_vars => OrderInv'
<1> SUFFICES ASSUME Inv, OrderInv, [Next]_vars PROVE OrderInv'
  OBVIOUS
<1>1. CASE Receive
  BY <1>1, ReceiveOrder
<1>2. CASE Output
  BY <1>2, OutputOrder
<1>3. CASE Close \/ Leave
  BY <1>3, CloseOrder
<1>4. CASE SendBody
  BY <1>4, SendBodyOrder
<1>5. ASSUME NEW r \in Request, NEW hold \in BOOLEAN, Send(r, hold) PROVE OrderInv'
  BY <1>5, SendOrder
<1>6. CASE UNCHANGED vars
  BY <1>6 DEF vars, client, parser, OrderInv, StreamInv, HandledInv, WaitInv, ReplyInv,
              Stream, Replied, Body
<1> QED  BY <1>1, <1>2, <1>3, <1>4, <1>5, <1>6 DEF Next

\* It holds in every reachable state.
LEMMA OrderInvariance == Spec => [](Inv /\ OrderInv)
<1>1. Spec => []Inv
  BY Invariance
<1>2. Init => OrderInv
  BY InitOrder
<1>3. Inv /\ OrderInv /\ [Next]_vars => OrderInv'
  BY NextOrder
<1> QED  BY <1>1, <1>2, <1>3, PTL DEF Spec

\* A client that waits for its answers has each request handled once, in order, with its
\* body and nothing else, however long the messages are and however they are cut; one
\* that sends ahead has none handled twice, after a later one, or without its body.
THEOREM RequestsAreHandledInOrder == Spec => []HandledInOrder
<1>1. Inv /\ OrderInv => HandledInOrder
  <2> SUFFICES ASSUME Inv, OrderInv, NEW i \in DOMAIN handled
               PROVE  IF ahead = 0
                      THEN handled[i] = [req |-> i, content |-> Body(i)]
                      ELSE /\ IsPrefix(Body(handled[i].req), handled[i].content)
                           /\ i > 1 => handled[i].req > handled[i - 1].req
    BY DEF HandledInOrder
  <2>1. CASE ahead = 0
    BY <2>1 DEF OrderInv, WaitInv
  <2>2. CASE ahead # 0
    <3>1. IsPrefix(Body(handled[i].req), handled[i].content)
      BY DEF OrderInv, HandledInv
    <3>2. ASSUME i > 1 PROVE handled[i].req > handled[i - 1].req
      <4> DEFINE H == [req : Nat, content : Seq(Units)]
      <4>1. handled \in Seq(H)
        BY DEF OrderInv, HandledInv
      <4>2. i - 1 \in DOMAIN handled /\ i - 1 < i /\ handled[i] \in H /\ handled[i - 1] \in H
        <5> HIDE DEF H
        <5> QED  BY <3>2, <4>1
      <4>3. handled[i - 1].req < handled[i].req
        BY <4>2 DEF OrderInv, HandledInv
      <4>4. handled[i].req \in Nat /\ handled[i - 1].req \in Nat
        BY <4>2
      <4> QED  BY <4>3, <4>4
    <3> QED  BY <2>2, <3>1, <3>2
  <2> QED  BY <2>1, <2>2
<1> QED  BY <1>1, OrderInvariance, PTL

\* Answers arrive whole and in the order of the requests, "100 Continue" before the
\* answer of its request, and all of them before the server closes the connection.
THEOREM AnswersArriveInOrder == Spec => []AnswersArrive
<1>1. Inv /\ OrderInv => AnswersArrive
  <2> SUFFICES ASSUME Inv, OrderInv PROVE AnswersArrive
    OBVIOUS
  <2>1. got \in Seq(Replies) /\ out \in Seq(Replies)
    BY StreamTypes
  <2>2. Correct(got \o out) /\ Cardinality(Data(got \o out)) = answers
        /\ (~open /\ ~left => out = <<>>)
    BY DEF OrderInv, ReplyInv, Replied
  <2>3. Correct(got) /\ DOMAIN got = 1..Len(got)
    <3>1. Correct(got)
      BY <2>1, <2>2, ReceivedCorrect
    <3> QED  BY <2>1, <3>1
  <2>4. ASSUME ~open, ~left PROVE Received = answers
    <3>1. got \o out = got
      BY <2>1, <2>2, <2>4, ConcatEmptySeq
    <3> QED  BY <2>2, <3>1 DEF Received, Data
  <2> QED  BY <2>3, <2>4 DEF AnswersArrive, Correct
<1> QED  BY <1>1, OrderInvariance, PTL
=============================================================================
