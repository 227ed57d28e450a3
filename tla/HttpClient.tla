------------------------------ MODULE HttpClient ------------------------------
(***************************************************************************)
(* One request to the box: TitanRemote::makeRequest with the client side   *)
(* of mongoose under it.  The program starts a private event loop, polls   *)
(* it until a reply was decoded or the budget of polls is used up, and     *)
(* destroys it, which polls once more and closes the connection.           *)
(*                                                                         *)
(* The reply travels in four units: two pieces of header and two of body   *)
(* (whether the box is active and playing; position and length).  A read   *)
(* takes any number of them.  What is left after the connection is closed  *)
(* early, or was not there when it was handed over, is "beyond".           *)
(***************************************************************************)
EXTENDS Naturals, Sequences, Control

CONSTANT Timeout    \* polls makeRequest allows: 15 in the code, 30 for /play

ASSUME TimeoutNat == Timeout \in Nat

VARIABLES
    action,     \* the request being made
    reply,      \* what the box answers: state, and how it is framed
    pc,         \* where makeRequest is
    seconds,    \* its count of polls
    sock,       \* the connection to the box
    delivered,  \* units of the reply read so far
    buf,        \* recv_iobuf
    parsed,     \* request_len > 0: the header of the reply is off the buffer
    done,       \* Request::done
    status,     \* Request::status
    cuts        \* history: where one read ended and another began

vars == <<action, reply, pc, seconds, sock, delivered, buf, parsed, done, status, cuts>>

-----------------------------------------------------------------------------
(* The reply *)

\* The states of the box that make a difference to the reply.
Truths(a) ==
    CASE a = "STATUS" -> Playback
      [] a = "PLAY"   -> {"STOPPED", "LOADING"}
      [] OTHER        -> {"STOPPED"}

\* declared: the header has a Content-Length.
RepliesTo(a) == [state : Truths(a), declared : BOOLEAN, hasBody : BOOLEAN]

Header == <<"H1", "H2">>
Body == IF reply.hasBody THEN <<"B1", "B2">> ELSE <<>>
Wire == Header \o Body

Active == Playback \ {"STOPPED"}

\* setStatusFromData: the playback that content leaves in a request whose
\* status was p.  Numbers that are not there are read as 0.
DecodeStatus(content, p) ==
    IF content = <<>> THEN {p}
    ELSE IF content[1] = "H1" THEN {"STOPPED"}
    ELSE IF content[1] = "B2" THEN Playback
    ELSE IF reply.state = "STOPPED" \/ content = <<"B1", "B2">> THEN {reply.state}
    ELSE IF content = <<"B1">> THEN {"LOADING"}
    ELSE Active

\* Fault: whatever comes after PLAY is taken for playing.
DecodePlayAsPlaying(content, p) == IF content = <<>> THEN {p} ELSE {"PLAYING"}

DecodePlay(content, p) ==
    IF content = <<>> THEN {p}
    ELSE IF content = <<"B1", "B2">> /\ reply.state = "STOPPED" THEN {"STOPPED"}
    ELSE {"LOADING"}

Decode(content, p) ==
    CASE action = "STATUS"                      -> DecodeStatus(content, p)
      [] action = "PLAY"                        -> DecodePlay(content, p)
      [] action = "PAUSE" /\ content # <<>>     -> {"PAUSED"}
      [] action = "RESUME" /\ content # <<>>    -> {"PLAYING"}
      [] OTHER                                  -> {p}

\* What a reply that is decoded whole says.
Truth ==
    CHOOSE p \in Playback : p \in Decode(Body, "STOPPED")

-----------------------------------------------------------------------------
Init ==
    /\ action \in Actions
    /\ reply \in RepliesTo(action)
    /\ pc = "start"
    /\ seconds = 0
    /\ sock = "connecting"
    /\ delivered = 0
    /\ buf = <<>>
    /\ parsed = FALSE
    /\ done = FALSE
    /\ status = TimedOut
    /\ cuts = {}

\* ns_connect: a connection that is being made, or none.
Sockets == {"connecting", "gone"}

\* mg_connect: a connection without the memory to track it is given up.
MgConnect == sock' \in Sockets

\* Without a connection the initial status is returned.
Connect ==
    /\ pc = "start"
    /\ MgConnect
    /\ pc' = IF sock' = "gone" THEN "returned" ELSE "loop"
    /\ UNCHANGED <<action, reply, seconds, delivered, buf, parsed, done, status, cuts>>

\* Fault: polls are not counted.
PollUncounted ==
    /\ pc = "loop"
    /\ ~done /\ seconds < Timeout
    /\ pc' = "polling"
    /\ UNCHANGED <<action, reply, seconds, sock, delivered, buf, parsed, done, status, cuts>>

\* Fault: one poll too many.
PollOnceMore ==
    /\ pc = "loop"
    /\ ~done /\ seconds <= Timeout
    /\ seconds' = seconds + 1
    /\ pc' = "polling"
    /\ UNCHANGED <<action, reply, sock, delivered, buf, parsed, done, status, cuts>>

\* The loop's condition holds: mg_poll_server is called.
PollStart ==
    /\ pc = "loop"
    /\ ~done /\ seconds < Timeout
    /\ seconds' = seconds + 1
    /\ pc' = "polling"
    /\ UNCHANGED <<action, reply, sock, delivered, buf, parsed, done, status, cuts>>

\* The loop is left: mg_destroy_server polls once more.
LastPoll ==
    /\ pc = "loop"
    /\ done \/ seconds >= Timeout
    /\ pc' = "destroying"
    /\ UNCHANGED <<action, reply, seconds, sock, delivered, buf, parsed, done, status, cuts>>

InPoll == pc \in {"polling", "destroying"}

\* select reports the end of connect: it is made or refused.
ConnectEnds ==
    /\ InPoll
    /\ sock = "connecting"
    /\ UNCHANGED <<action, reply, pc, seconds, delivered, buf, parsed, done, status, cuts>>

\* It is made: connectHandler writes the request.
Connected == ConnectEnds /\ sock' = "sent"

\* It is refused: no handler is called, the connection is to be closed.
Refused == ConnectEnds /\ sock' = "failed"

-----------------------------------------------------------------------------
(* Reading *)

HasHeaderEnd(io) == \E i \in DOMAIN io : io[i] = "H2"

\* get_request_len, of a buffer with the end of a header.
RequestLen(io) == CHOOSE i \in DOMAIN io : io[i] = "H2"

\* The buffer after try_parse took a complete header off it.
Content(io) ==
    IF HasHeaderEnd(io) THEN SubSeq(io, RequestLen(io) + 1, Len(io)) ELSE io

\* The header was there from its first line on; the rest of a header alone is
\* no HTTP message (request_len < 0).
Framed(io) == parsed \/ (HasHeaderEnd(io) /\ io[1] = "H1")

\* conn->cl, 0 while no header with a Content-Length has been parsed.
ContentLength(io) == IF Framed(io) /\ reply.declared THEN Len(Body) ELSE 0

\* Fault: a body that is still incomplete is decoded.
HandedOverEarly(io) == TRUE

\* process_response calls the handler.
HandedOver(io) == Len(Content(io)) >= ContentLength(io)

\* Fault: a reply without content does not end the request.
ReplyWithContent(content) ==
    /\ IF content = <<>>
       THEN UNCHANGED <<done, status>>
       ELSE done' = TRUE /\ \E p \in Decode(content, status.playback) : status' = Answered(p)
    /\ buf' = <<>>
    /\ parsed' = FALSE

\* MG_REPLY with this content: the request is done and its status decoded.
Reply(content) ==
    /\ done' = TRUE
    /\ \E p \in Decode(content, status.playback) : status' = Answered(p)
    /\ buf' = <<>>
    /\ parsed' = FALSE

\* One recv and NS_RECV.  The loop around recv goes on after the handler has
\* flagged the connection, so a reply can be decoded twice.
Receive(n) ==
    /\ InPoll
    /\ sock \in {"up", "answered"}
    /\ delivered + n <= Len(Wire)
    /\ delivered' = delivered + n
    /\ cuts' = cuts \cup ({delivered} \ {0})
    /\ LET io == buf \o SubSeq(Wire, delivered + 1, delivered + n) IN
       \/ /\ HandedOver(io)
          /\ Reply(Content(io))
          /\ sock' = "answered"
       \/ /\ ~HandedOver(io)
          /\ buf' = Content(io)
          /\ parsed' = TRUE
          /\ UNCHANGED <<sock, done, status>>
    /\ UNCHANGED <<action, reply, pc, seconds>>

\* End of file or an error, before the reply is complete or after it.
Eof ==
    /\ InPoll
    /\ sock = "up"
    /\ sock' = "failed"
    /\ UNCHANGED <<action, reply, pc, seconds, delivered, buf, parsed, done, status, cuts>>

-----------------------------------------------------------------------------
(* Closing *)

\* NS_CLOSE: a body that is still incomplete is handed over as if it had the
\* declared length.
CloseConn ==
    /\ sock' = "gone"
    /\ IF sock # "gone" /\ buf # <<>>
       THEN Reply(Append(buf, "beyond"))
       ELSE UNCHANGED <<done, status, buf, parsed>>

Flagged == sock \in {"answered", "failed"}

\* The end of a poll: a flagged connection is closed, one that has sent its
\* request can be read from the next poll on.
PollEnd ==
    /\ pc = "polling"
    /\ pc' = "loop"
    /\ \/ Flagged /\ CloseConn
       \/ /\ ~Flagged
          /\ sock' = IF sock = "sent" THEN "up" ELSE sock
          /\ UNCHANGED <<done, status, buf, parsed>>
    /\ UNCHANGED <<action, reply, seconds, delivered, cuts>>

\* ns_mgr_free closes every connection, flagged or not.
Destroy ==
    /\ pc = "destroying"
    /\ pc' = "returned"
    /\ CloseConn
    /\ UNCHANGED <<action, reply, seconds, delivered, cuts>>

Done == pc = "returned" /\ UNCHANGED vars

Program == Connect \/ PollStart \/ LastPoll \/ PollEnd \/ Destroy

Next == Program \/ Connected \/ Refused \/ (\E n \in 1..Len(Wire) : Receive(n)) \/ Eof \/ Done

Spec == Init /\ [][Next]_vars

\* select returns after at most a second and recv does not block: the program
\* goes on whatever the box does.
FairSpec == Spec /\ WF_vars(Program)

-----------------------------------------------------------------------------
(* Properties *)

\* Type correctness of the request and of the connection under it.
TypeOK ==
    /\ action \in Actions
    /\ reply \in RepliesTo(action)
    /\ pc \in {"start", "loop", "polling", "destroying", "returned"}
    /\ seconds \in 0..Timeout
    /\ sock \in {"connecting", "sent", "up", "answered", "failed", "gone"}
    /\ delivered \in 0..Len(Wire)
    /\ buf \in Seq({"H1", "H2", "B1", "B2"})
    /\ parsed \in BOOLEAN
    /\ done \in BOOLEAN
    /\ status \in Status
    /\ cuts \subseteq 1..Len(Wire)

\* However the reply is cut into reads and wherever it ends, makeRequest returns
\* a status the callers of that request expect; a timeout in particular means
\* STOPPED (TitanRemote.cpp 51-86 and 202-251).
ResultInContract == pc = "returned" => status \in RequestResults(action)

\* A reply that arrives completely is decoded for what it says, even when that
\* happens in the poll in which the event loop is destroyed, provided its header
\* comes in one read and its body is delimited: by a Content-Length or by coming
\* in one read (mongoose.c 4876-4887).
WholeReplyDecoded ==
    /\ pc = "returned"
    /\ delivered = Len(Wire)
    /\ 1 \notin cuts
    /\ reply.declared \/ 3 \notin cuts
    => status = Answered(Truth)

\* A reply that was read to its end, cut in whatever way, is never reported as a
\* timeout (TitanRemote.cpp 79-85).
AnswerIsNoTimeout == pc = "returned" /\ delivered = Len(Wire) => ~status.timeout

\* makeRequest returns, whatever the box does or fails to do (TitanRemote.cpp 79).
Returns == <>(pc = "returned")
=============================================================================
