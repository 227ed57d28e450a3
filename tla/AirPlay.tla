------------------------------- MODULE AirPlay -------------------------------
(***************************************************************************)
(* The AirPlay server: its HTTP connections, the reverse connections over  *)
(* which it reports playback events, and the session that owns the media.  *)
(*                                                                         *)
(* The daemon is one thread.  A step is one callback of the event loop: a  *)
(* connection is accepted, a request is handled from its first line to its *)
(* answer, data arrives on a reverse connection, a connection is closed.   *)
(* The remote control is called from inside a request; what it returns is  *)
(* any status its contract (Control) allows.                               *)
(*                                                                         *)
(* The member AirPlay::sessionId is written at the head of every request   *)
(* and read only while that request is handled: it is the parameter s of   *)
(* the request actions.  Whether the send buffer is empty is up to the     *)
(* network between any two steps, so the two flags of mongoose that close  *)
(* a connection after a request are one value, "soon".                     *)
(***************************************************************************)
EXTENDS Naturals, FiniteSets, Control

CONSTANTS
    Conns,       \* connections that can be open at once, one per descriptor
    Sessions,    \* values of the header X-Apple-Session-ID, the default one included
    InitialId,   \* mediaSessionId before the first /play: the empty string
    NoReverse,   \* a null connection_param
    MaxReverse   \* reverse connections the server accepts: 10 in the code

ASSUME ConnsFinite == IsFiniteSet(Conns)
ASSUME MaxReverseNat == MaxReverse \in Nat
ASSUME NoReverseNoSession == NoReverse \notin Sessions

VARIABLES
    open,               \* connections in the list of the event loop
    param,              \* connection_param: the session of the Reverse object
    endpoint,           \* endpoint_type, EP_USER with the keep-alive its request asked for
    closing,            \* whether the event loop will close the connection
    mediaSessionId,     \* the session that started the media
    status,             \* the last status recorded for the owner of the media
    reverseConnections, \* the counter the limit is checked against
    told,               \* history: last event written to c since the owner took over
    seen,               \* history: last /playback-info the owner got since then, for c to know
    lapsed              \* history: the last change of status was not announced

connVars == <<open, param, endpoint, closing>>
newsVars == <<told, seen, status, lapsed>>
vars == <<connVars, mediaSessionId, reverseConnections, newsVars>>

-----------------------------------------------------------------------------
(* Connections *)

\* "close" and "keep" are EP_USER: the /reverse request without and with keep-alive.
Endpoints == {"EP_NONE", "keep", "close"}

\* "soon": flagged by close_local_endpoint, which a later request may revoke;
\* "eof": end of file or socket error, nothing is read any more.
Closings == {"no", "soon", "eof"}

Silent == "none"
Untold == [c \in Conns |-> Silent]

ReverseConns == {c \in open : param[c] # NoReverse}

\* Fault: events are not filtered by session.
EveryListener(s) == ReverseConns

\* The connections mg_next visits for a session.
Audience(s) == {c \in open : param[c] = s}

\* Fault: the limit is checked after it has been passed.
PoolFullLate == reverseConnections > MaxReverse

PoolFull == reverseConnections = MaxReverse

\* Data that arrives on c reaches the callbacks.
Readable(c) == c \in open /\ closing[c] # "eof"

\* A request is complete: keep the connection for the next one, or close it.
CloseLocalEndpoint(c, keep) ==
    /\ endpoint' = [endpoint EXCEPT ![c] = "EP_NONE"]
    /\ closing' = [closing EXCEPT ![c] = IF keep THEN "no" ELSE "soon"]
    /\ UNCHANGED <<open, param>>

\* Fault: every closed connection gives a slot back.
SlotsAfterAnyClosing(c) == reverseConnections - 1

\* MG_CLOSE gives the slot of a reverse connection back.
SlotsAfterClosing(c) ==
    IF param[c] # NoReverse THEN reverseConnections - 1 ELSE reverseConnections

-----------------------------------------------------------------------------
(* Playback and the events about it *)

\* Fault: any session reaches the remote control.
UncheckedResults(s, R) == R

\* Only the owner of the media reaches the remote control.
Results(s, R) == IF s = mediaSessionId THEN R ELSE {Stopped}

News == [told |-> told, seen |-> seen, status |-> status, lapsed |-> lapsed]

\* Fault: playing is announced by /playback-info only.
AnnouncesEnds(n, st) ==
    /\ reverseConnections > 0
    /\ n.status.playback # st.playback /\ st.playback # "PLAYING"
    /\ ~st.timeout

Announces(n, st) ==
    /\ reverseConnections > 0
    /\ n.status.playback # st.playback
    /\ ~st.timeout

\* Fault: the status of any session is recorded.
NotifyAndRecordAll(n, s, owner, st) ==
    [told   |-> IF Announces(n, st)
                THEN [c \in Conns |-> IF c \in Audience(s) THEN st.playback ELSE n.told[c]]
                ELSE n.told,
     seen   |-> n.seen,
     status |-> st,
     lapsed |-> IF s = owner /\ n.status.playback # st.playback THEN st.timeout ELSE n.lapsed]

\* A request of session s, while owner owns the media, brought the status st.
NotifyReverseConnection(n, s, owner, st) ==
    [told   |-> IF Announces(n, st)
                THEN [c \in Conns |-> IF c \in Audience(s) THEN st.playback ELSE n.told[c]]
                ELSE n.told,
     seen   |-> n.seen,
     status |-> IF s = owner THEN st ELSE n.status,
     lapsed |-> IF s = owner /\ n.status.playback # st.playback THEN st.timeout ELSE n.lapsed]

\* What is known to the listeners of an owner is counted from its first /play.
TakenOver(s) ==
    IF s = mediaSessionId THEN News
    ELSE [told |-> Untold, seen |-> Untold, status |-> status, lapsed |-> FALSE]

\* The dictionary of /playback-info: without entries, only not ready to play, or
\* with a rate.
GetPlaybackInfo(st) ==
    IF st.playback = "STOPPED" THEN "no media"
    ELSE IF st.playback = "LOADING" THEN "not ready"
    ELSE IF st.playback = "PLAYING" THEN "rate 1"
    ELSE "rate 0"

\* The client that listens for the owner gets that answer.
Shown(n, st) ==
    [n EXCEPT !.seen =
        [c \in Conns |-> IF c \in Audience(mediaSessionId) THEN GetPlaybackInfo(st) ELSE @[c]]]

Publish(n) ==
    /\ told' = n.told
    /\ seen' = n.seen
    /\ status' = n.status
    /\ lapsed' = n.lapsed

-----------------------------------------------------------------------------
Init ==
    /\ open = {}
    /\ param = [c \in Conns |-> NoReverse]
    /\ endpoint = [c \in Conns |-> "EP_NONE"]
    /\ closing = [c \in Conns |-> "no"]
    /\ mediaSessionId = InitialId
    /\ status = TimedOut
    /\ reverseConnections = 0
    /\ told = Untold
    /\ seen = Untold
    /\ lapsed = FALSE

Accept(c) ==
    /\ c \notin open
    /\ open' = open \cup {c}
    /\ UNCHANGED <<param, endpoint, closing, mediaSessionId, reverseConnections, newsVars>>

\* A request on an ordinary connection is handled and answered.
Served(c, keep) ==
    /\ Readable(c)
    /\ param[c] = NoReverse
    /\ CloseLocalEndpoint(c, keep)

\* POST /play with a location: the session becomes the owner before the box is asked,
\* which answers st.
PlayEnds(c, s, keep, st) ==
    /\ Served(c, keep)
    /\ mediaSessionId' = s
    /\ Publish(NotifyReverseConnection(TakenOver(s), s, s, st))
    /\ UNCHANGED reverseConnections

Play(c, s, keep) == \E st \in PlayResults : PlayEnds(c, s, keep, st)

\* One operation of the remote control, which returns st, and the event it leads to.
CommandEnds(c, s, keep, st) ==
    /\ Served(c, keep)
    /\ Publish(NotifyReverseConnection(News, s, mediaSessionId, st))
    /\ UNCHANGED <<mediaSessionId, reverseConnections>>

Command(c, s, keep, R) == \E st \in Results(s, R) : CommandEnds(c, s, keep, st)

\* POST /stop
Stop(c, s, keep) == Command(c, s, keep, StopResults)

\* What /rate takes the parameter "value" for: nothing is stored when the text
\* is empty, and the caller reads an uninitialized integer.
IsRateZero(value) ==
    CASE value = "zero"    -> {TRUE}
      [] value = "nonzero" -> {FALSE}
      [] value = "empty"   -> BOOLEAN

\* Without the parameter it is 0, and what is no number is read as 0.
RateValues == {"zero", "nonzero", "empty"}

\* POST /rate
Rate(c, s, keep, value) ==
    \E zero \in IsRateZero(value) :
        Command(c, s, keep, IF zero THEN PauseResults ELSE ResumeResults)

\* GET /playback-info and GET /scrub, which shows the position instead: the box is
\* asked for the answer, and, when that did not time out, a second time for the log.
PollEnds(c, s, keep, info, st, again) ==
    /\ Served(c, keep)
    /\ LET first == NotifyReverseConnection(News, s, mediaSessionId, st)
           shown == IF info /\ s = mediaSessionId THEN Shown(first, st) ELSE first
       IN Publish(IF st.timeout THEN first
                  ELSE NotifyReverseConnection(shown, s, mediaSessionId, again))
    /\ UNCHANGED <<mediaSessionId, reverseConnections>>

Poll(c, s, keep, info) ==
    \E st, again \in Results(s, GetStatusResults) : PollEnds(c, s, keep, info, st, again)

\* Requests that are answered without the remote control: /server-info, what is
\* not found (404), a /play without location and what mongoose refuses itself.
Answer(c, keep) ==
    /\ Served(c, keep)
    /\ UNCHANGED <<mediaSessionId, reverseConnections, newsVars>>

\* POST /reverse within the limit: the request stays pending (MG_MORE), so a
\* connection that was to be closed still is.
Reverse(c, s, keep) ==
    /\ Readable(c)
    /\ param[c] = NoReverse
    /\ ~PoolFull
    /\ reverseConnections' = reverseConnections + 1
    /\ param' = [param EXCEPT ![c] = s]
    /\ endpoint' = [endpoint EXCEPT ![c] = IF keep THEN "keep" ELSE "close"]
    /\ UNCHANGED <<open, closing, mediaSessionId, newsVars>>

\* POST /reverse beyond the limit: 503.
TooManyReverse(c, keep) ==
    /\ PoolFull
    /\ Served(c, keep)
    /\ UNCHANGED <<mediaSessionId, reverseConnections, newsVars>>

\* The first data after 101: MG_RECV discards it, then the pending request is
\* offered once more, MG_REQUEST returns MG_TRUE, and that completes it.
ReverseData(c) ==
    /\ Readable(c)
    /\ endpoint[c] # "EP_NONE"
    /\ CloseLocalEndpoint(c, endpoint[c] = "keep")
    /\ UNCHANGED <<mediaSessionId, reverseConnections, newsVars>>

\* Later data on a reverse connection: a request is swallowed without an answer,
\* anything else is refused and the connection closed.
ReverseRequest(c, keep) ==
    /\ Readable(c)
    /\ param[c] # NoReverse
    /\ endpoint[c] = "EP_NONE"
    /\ CloseLocalEndpoint(c, keep)
    /\ UNCHANGED <<mediaSessionId, reverseConnections, newsVars>>

\* The peer closed the connection, or the socket failed.
PeerGone(c) ==
    /\ Readable(c)
    /\ closing' = [closing EXCEPT ![c] = "eof"]
    /\ UNCHANGED <<open, param, endpoint, mediaSessionId, reverseConnections, newsVars>>

\* MG_CLOSE, and the connection leaves the list.
Release(c) ==
    /\ reverseConnections' = SlotsAfterClosing(c)
    /\ open' = open \ {c}
    /\ param' = [param EXCEPT ![c] = NoReverse]
    /\ endpoint' = [endpoint EXCEPT ![c] = "EP_NONE"]
    /\ closing' = [closing EXCEPT ![c] = "no"]
    /\ told' = [told EXCEPT ![c] = Silent]
    /\ seen' = [seen EXCEPT ![c] = Silent]
    /\ UNCHANGED <<mediaSessionId, status, lapsed>>

\* The event loop closes what is flagged.
Close(c) == c \in open /\ closing[c] # "no" /\ Release(c)

\* Nothing was read from or written to the connection for 300 seconds.
IdleExpire(c) == c \in open /\ Release(c)

Next ==
    \E c \in Conns :
        \/ Accept(c)
        \/ PeerGone(c)
        \/ Close(c)
        \/ IdleExpire(c)
        \/ ReverseData(c)
        \/ \E keep \in BOOLEAN :
              \/ Answer(c, keep)
              \/ TooManyReverse(c, keep)
              \/ ReverseRequest(c, keep)
              \/ \E s \in Sessions :
                    \/ Reverse(c, s, keep)
                    \/ Play(c, s, keep)
                    \/ \E info \in BOOLEAN : Poll(c, s, keep, info)
                    \/ Stop(c, s, keep)
                    \/ \E value \in RateValues : Rate(c, s, keep, value)

Spec == Init /\ [][Next]_vars

\* start() polls for ever and every poll closes the flagged connections.
FairSpec == Spec /\ \A c \in Conns : WF_vars(Close(c))

-----------------------------------------------------------------------------
(* Properties *)

Infos == {"no media", "not ready", "rate 1", "rate 0"}

\* Type correctness: the values AirPlay's members and mongoose's connection
\* fields take.
TypeOK ==
    /\ open \subseteq Conns
    /\ param \in [Conns -> Sessions \cup {NoReverse}]
    /\ endpoint \in [Conns -> Endpoints]
    /\ closing \in [Conns -> Closings]
    /\ mediaSessionId \in Sessions \cup {InitialId}
    /\ status \in Status
    /\ reverseConnections \in Nat
    /\ told \in [Conns -> Playback \cup {Silent}]
    /\ seen \in [Conns -> Infos \cup {Silent}]
    /\ lapsed \in BOOLEAN

\* reverseConnections, a counter that three callbacks keep by hand, is at every
\* step the number of open connections that hold a Reverse object, and never
\* beyond the limit (AirPlay.cpp 54, 125 and 144): no slot leaks when a
\* connection is closed by the peer, by a request or for idling.
SlotAccounting ==
    /\ reverseConnections = Cardinality(ReverseConns)
    /\ reverseConnections <= MaxReverse

\* The last event a reverse connection of the owner got is the playback the
\* server has recorded.  The one exception is the record a timed-out request
\* leaves: STOPPED, announced to nobody, and not made up for when the box then
\* reports that it has stopped (AirPlay.cpp 551 and 600).
EventsCurrent ==
    \A c \in Audience(mediaSessionId) :
        told[c] # Silent =>
            IF lapsed THEN status.playback = "STOPPED" ELSE told[c] = status.playback

\* A client that polls and listens is never behind: what /playback-info showed it
\* holds until an event comes, even though the server asks the box once more, for
\* the log, before it sends the answer (AirPlay.cpp 252).  Timeouts are the exception
\* again.
AnswersHold ==
    \A c \in Audience(mediaSessionId) :
        seen[c] # Silent /\ told[c] = Silent /\ ~lapsed =>
            seen[c] = GetPlaybackInfo(status)

\* Sessions are kept apart: "playing", "paused" and "loading" are reported to
\* connections of the session that owns the media and to no other; the rest
\* hear at most "stopped" (AirPlay.cpp 294-344 and 558).
OnlyOwnerHearsMedia ==
    \A c \in open : told[c] \in Playback \ {"STOPPED"} => param[c] = mediaSessionId

Listening ==
    INSTANCE PlaybackEvents WITH
        Listeners <- Conns, NoSession <- NoReverse, InitialOwner <- InitialId,
        Capacity <- MaxReverse, Events <- Playback, StopEvent <- "STOPPED",
        session <- param, owner <- mediaSessionId, heard <- told

\* The server implements the promise made to the listeners: slots are bounded,
\* an event reaches every listener of its session and no other, and a takeover
\* starts from silence (AirPlay.cpp 125-162, 283-350 and 550-603).
ListenersServed == Listening!Spec

\* What the comments "discard client data on reverse connection" and "don't
\* close the connection" (AirPlay.cpp 43 and 162) say: data of the client never
\* makes the server close a reverse connection.
ReverseStaysOpen ==
    [][\A c \in Conns :
          param[c] # NoReverse /\ closing[c] = "no" => closing'[c] # "soon"]_vars
=============================================================================
