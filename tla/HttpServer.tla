------------------------------ MODULE HttpServer ------------------------------
(***************************************************************************)
(* How mongoose cuts what arrives on a connection into requests for the    *)
(* AirPlay server: on_recv_data with try_parse, the count of the bytes     *)
(* received, and close_local_endpoint after each answer; and how the       *)
(* answers go out.  One connection and its client; requests are answered   *)
(* at once (a reverse connection is the matter of AirPlay).  A message is  *)
(* a sequence of units, each of them a part of the header, its end, or a   *)
(* part of the body; an answer is its headers and its data.                *)
(***************************************************************************)
EXTENDS Integers, Sequences, FiniteSets, SequencesExt

CONSTANTS
    MaxHead,     \* the longest header
    MaxBody,     \* the longest body
    MaxRequest,  \* MAX_REQUEST_SIZE: 16384 in the code
    ReadSize,    \* NS_READ_BUFFER_SIZE: 2048 in the code
    Ahead        \* requests a client may send without waiting for an answer

ASSUME HttpConstants ==
    /\ MaxHead \in Nat \ {0} /\ MaxBody \in Nat
    /\ MaxRequest \in Nat /\ ReadSize \in Nat \ {0} /\ Ahead \in Nat

VARIABLES
    ahead,    \* requests this client sends without waiting: 0 for AirPlay clients
    reqs,     \* the requests sent so far
    held,     \* the body of the last one waits for "100 Continue"
    wire,     \* what the client has sent and the server has not read
    got,      \* what the client has received
    left,     \* the client has gone away
    open,     \* whether the connection is
    finished, \* NSF_FINISHED_SENDING_DATA: to be closed once the answer is sent
    out,      \* send_iobuf
    io,       \* recv_iobuf
    numBytes, \* num_bytes_recv
    reqLen,   \* request_len: 0 before a header is complete
    current,  \* the request with that header
    handled,  \* history: requests handed over, with their content
    answers   \* history: answers given, errors included

client == <<ahead, reqs, held, got, left>>
parser == <<io, numBytes, reqLen, current>>
vars == <<client, wire, open, finished, out, parser, handled, answers>>

-----------------------------------------------------------------------------
\* A request, its body as long as its Content-Length says.
Request == [head : 1..MaxHead, body : 0..MaxBody, good : BOOLEAN, keep : BOOLEAN, expect : BOOLEAN]

Header(n, r) == [i \in 1..r.head |-> [req |-> n, part |-> IF i < r.head THEN "head" ELSE "end"]]
BodyOf(n, r) == [i \in 1..r.body |-> [req |-> n, part |-> "body"]]
Body(n) == BodyOf(n, reqs[n])

\* An answer to request n, or an error, which says of no request that it is the one.
\* An answer without content has the end of its headers for data.
Answer(n) == <<[to |-> n, part |-> "headers"], [to |-> n, part |-> "data"]>>
Error == Answer(0)
ContinueTo(n) == [to |-> n, part |-> "continue"]

Init ==
    /\ ahead \in 0..Ahead
    /\ reqs = <<>> /\ held = FALSE /\ wire = <<>>
    /\ got = <<>> /\ left = FALSE
    /\ open = TRUE /\ finished = FALSE /\ out = <<>>
    /\ io = <<>> /\ numBytes = 0 /\ reqLen = 0 /\ current = 0
    /\ handled = <<>> /\ answers = 0

-----------------------------------------------------------------------------
(* The server *)

\* The end of the first header in the buffer: get_request_len finds it.
HeaderEnds(buf, len) ==
    /\ len \in DOMAIN buf /\ buf[len].part = "end"
    /\ \A i \in 1..(len - 1) : buf[i].part # "end"

NoHeader(buf) == \A i \in DOMAIN buf : buf[i].part # "end"

\* parse_http_message accepts a good header that is there from its start.
WellFormed(buf, len) ==
    LET r == reqs[buf[len].req]
    IN r.good /\ r.head = len /\ \A i \in 1..len : buf[i].req = buf[len].req

\* Fault: the count of bytes survives the request.
CloseUncounted(keep) ==
    /\ io' = <<>> /\ reqLen' = 0 /\ current' = 0
    /\ finished' = ~keep
    /\ UNCHANGED numBytes

\* close_local_endpoint: all that is buffered is dropped.  Behind an answer the send
\* buffer is not empty, so a connection to be closed is closed when that is sent.
CloseLocalEndpoint(keep) ==
    /\ io' = <<>> /\ numBytes' = 0 /\ reqLen' = 0 /\ current' = 0
    /\ finished' = ~keep

\* Fault: the header is not counted.
CompleteHeadless(n, len, q) == n >= reqs[q].body

\* call_request_handler_if_data_is_buffered: n bytes have been received since the
\* last request, of which len are the header of request q.
Complete(n, len, q) == n >= reqs[q].body + len

\* should_keep_alive: what version and header of the request ask for, whatever its
\* method, since a handler answers it.
ShouldKeepAlive(q) == reqs[q].keep

\* Fault: no client is told to continue.
ContinueNever(q) == <<>>

\* send_continue_if_expected
Continue(q) == IF reqs[q].expect THEN <<ContinueTo(q)>> ELSE <<>>

\* The handler gets all the buffer and answers, behind what is to be sent before.
Deliver(q, len, content, n, before) ==
    IF Complete(n, len, q)
    THEN /\ handled' = Append(handled, [req |-> q, content |-> content])
         /\ answers' = answers + 1
         /\ out' = before \o Answer(q)
         /\ CloseLocalEndpoint(ShouldKeepAlive(q))
    ELSE /\ io' = content /\ numBytes' = n /\ reqLen' = len /\ current' = q
         /\ out' = before
         /\ UNCHANGED <<handled, answers, finished>>

\* send_http_error: an error is never followed by another request.
Refuse ==
    /\ answers' = answers + 1
    /\ out' = out \o Error
    /\ CloseLocalEndpoint(FALSE)
    /\ UNCHANGED handled

\* iobuf_remove
Removed(buf, n) == SubSeq(buf, n + 1, Len(buf))

\* k units are read: also when the connection is to be closed already.
Read(k) ==
    /\ open
    /\ k \in 1..ReadSize /\ k <= Len(wire)
    /\ wire' = Removed(wire, k)
    /\ UNCHANGED <<client, open>>

\* iobuf_append
Buffered(k) == io \o SubSeq(wire, 1, k)

HeaderPart(k) ==
    /\ Read(k)
    /\ reqLen = 0 /\ NoHeader(Buffered(k))
    /\ Len(Buffered(k)) <= MaxRequest
    /\ io' = Buffered(k) /\ numBytes' = numBytes + k
    /\ UNCHANGED <<finished, out, reqLen, current, handled, answers>>

TooLong(k) ==
    /\ Read(k)
    /\ reqLen = 0 /\ NoHeader(Buffered(k))
    /\ Len(Buffered(k)) > MaxRequest
    /\ Refuse

Malformed(k, len) ==
    /\ Read(k)
    /\ reqLen = 0 /\ HeaderEnds(Buffered(k), len)
    /\ ~WellFormed(Buffered(k), len)
    /\ Refuse

Parse(k, len) ==
    /\ Read(k)
    /\ reqLen = 0 /\ HeaderEnds(Buffered(k), len)
    /\ WellFormed(Buffered(k), len)
    /\ Deliver(Buffered(k)[len].req, len,
               Removed(Buffered(k), len), numBytes + k,
               out \o Continue(Buffered(k)[len].req))

BodyPart(k) ==
    /\ Read(k)
    /\ reqLen > 0
    /\ Deliver(current, reqLen, Buffered(k), numBytes + k, out)

\* What is left to be sent when the socket has taken n units.
Unsent(n) == Removed(out, n)

\* ns_write_to_socket: the socket takes a part of the buffer, or all of it.
Write(n) ==
    /\ open /\ n \in 1..Len(out)
    /\ got' = got \o SubSeq(out, 1, n)
    /\ out' = Unsent(n)
    /\ UNCHANGED <<ahead, reqs, held, left, wire, open, finished, parser, handled, answers>>

\* Fault: the connection is closed when the answer has been given.
Answering == finished

\* The answer is sent.
AllSent == finished /\ out = <<>>

Close ==
    /\ open /\ AllSent
    /\ open' = FALSE
    /\ UNCHANGED <<client, wire, finished, out, parser, handled, answers>>

-----------------------------------------------------------------------------
(* The client *)

\* The answers, and the errors, it has received.
Received == Cardinality({i \in DOMAIN got : got[i].part = "data"})

Waiting == Len(reqs) > Received + ahead

\* It sends a request, unless the last one asked for the connection to be closed or
\* an error came back; it may hold the body back until it is told to continue.
Send(r, hold) ==
    /\ open /\ ~Waiting /\ ~held
    /\ \A i \in DOMAIN got : got[i].to # 0
    /\ reqs # <<>> => Last(reqs).keep
    /\ hold => r.expect /\ r.body > 0
    /\ reqs' = Append(reqs, r)
    /\ held' = hold
    /\ wire' = wire \o Header(Len(reqs) + 1, r)
                    \o (IF hold THEN <<>> ELSE BodyOf(Len(reqs) + 1, r))
    /\ UNCHANGED <<ahead, got, left, open, finished, out, parser, handled, answers>>

SendBody ==
    /\ open /\ held
    /\ ContinueTo(Len(reqs)) \in ToSet(got)
    /\ held' = FALSE
    /\ wire' = wire \o Body(Len(reqs))
    /\ UNCHANGED <<ahead, reqs, got, left, open, finished, out, parser, handled, answers>>

Leave ==
    /\ open
    /\ left' = TRUE /\ open' = FALSE
    /\ UNCHANGED <<ahead, reqs, held, wire, got, finished, out, parser, handled, answers>>

Receive ==
    \E k \in 1..ReadSize :
        \/ HeaderPart(k) \/ TooLong(k) \/ BodyPart(k)
        \/ \E len \in 1..(Len(io) + k) : Malformed(k, len) \/ Parse(k, len)

Output == \E n \in 1..Len(out) : Write(n)

Next ==
    \/ Receive \/ Output \/ Close \/ Leave \/ SendBody
    \/ \E r \in Request, hold \in BOOLEAN : Send(r, hold)

Spec == Init /\ [][Next]_vars

\* The server reads, writes and closes whenever it can; the client reads, and sends
\* the body it was told to send.
Fairness == WF_vars(Receive) /\ WF_vars(Output) /\ WF_vars(Close) /\ WF_vars(SendBody)

FairSpec == Spec /\ Fairness

-----------------------------------------------------------------------------
(* Properties *)

Units == [req : Nat, part : {"head", "end", "body"}]
Replies == [to : Nat, part : {"continue", "headers", "data"}]

\* The types; a header that is taken from the buffer belongs to a request that has
\* been sent.
TypeOK ==
    /\ ahead \in Nat
    /\ reqs \in Seq(Request)
    /\ wire \in Seq(Units) /\ io \in Seq(Units)
    /\ out \in Seq(Replies) /\ got \in Seq(Replies)
    /\ open \in BOOLEAN /\ finished \in BOOLEAN /\ held \in BOOLEAN /\ left \in BOOLEAN
    /\ numBytes \in Nat /\ answers \in Nat
    /\ reqLen \in 0..MaxHead
    /\ current \in IF reqLen = 0 THEN {0} ELSE DOMAIN reqs

\* num_bytes_recv counts the header that has left the buffer and what is in the
\* buffer, over all requests and errors on the connection; a header waits only as
\* long as its body is not complete (mongoose.c 3462 depends on it).
CountersAgree ==
    /\ numBytes = reqLen + Len(io)
    /\ reqLen > 0 => Len(io) < reqs[current].body

\* A client that waits for its answers has each request handled once, in order, with
\* its body and nothing else, however the bytes are cut into pieces.  One that sends
\* ahead loses what is buffered behind a request that is handled (mongoose.c 4987), and
\* the rest of it is refused; but no request is handled twice, or after a later one, or
\* without its body, and none is made up from the parts of two.
HandledInOrder ==
    \A i \in DOMAIN handled :
        IF ahead = 0
        THEN handled[i] = [req |-> i, content |-> Body(i)]
        ELSE /\ IsPrefix(Body(handled[i].req), handled[i].content)
             /\ i > 1 => handled[i].req > handled[i - 1].req

\* Answers arrive whole, in the order of the requests, with "100 Continue" before the
\* answer of its request; and a connection the server closes has carried all of them,
\* whatever the socket takes at once and whatever else the client sends
\* (mongoose.c 1022-1051, 1177-1184 and 5007-5010).
AnswersArrive ==
    /\ \A i \in DOMAIN got :
          /\ got[i].part = "data" => i > 1 /\ got[i - 1] = [got[i] EXCEPT !.part = "headers"]
          /\ got[i].part = "continue" =>
                \A j \in 1..(i - 1) : got[j].to < got[i].to
    /\ \A i, j \in DOMAIN got : i < j /\ got[j].to # 0 => got[i].to <= got[j].to
    /\ ~open /\ ~left => Received = answers

\* A client that waits gets its answer in the end, unless the connection is closed,
\* also when it holds the body back until it is told to continue.
Answered == ahead = 0 /\ Len(reqs) > Received ~> Len(reqs) <= Received \/ ~open
=============================================================================
