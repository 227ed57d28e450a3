-------------------------------- MODULE Player --------------------------------
(***************************************************************************)
(* The whole player: the AirPlay server (AirPlay) and the remote control   *)
(* of the box (TitanRemote) put together.  In AirPlay a request takes one  *)
(* step and the remote control returns whatever its contract allows; here  *)
(* the operation of the remote control runs request by request inside the  *)
(* request of the client, with the box moving in between, and what it      *)
(* returns is what it found.                                               *)
(*                                                                         *)
(* The daemon has one thread: while an operation runs, no other request is *)
(* handled and no connection is closed.  What the handler assigns before   *)
(* the operation, the owner of the media above all, nobody reads until the *)
(* handler ends; it is assigned there.                                     *)
(***************************************************************************)
EXTENDS Naturals, FiniteSets, Control

CONSTANTS
    Conns, Sessions, InitialId, NoReverse, MaxReverse, MaxStops, \* as in the parts
    KeepAlive    \* what clients ask for: TRUE to keep the connection, FALSE to close it

ASSUME ServerConstants == IsFiniteSet(Conns) /\ MaxReverse \in Nat /\ NoReverse \notin Sessions
ASSUME RemoteConstants == MaxStops \in Nat \ {0}
ASSUME KeepAliveBoolean == KeepAlive \subseteq BOOLEAN

VARIABLES
    open, param, endpoint, closing, mediaSessionId, status, reverseConnections,
    told, seen, lapsed,                          \* the server, as in AirPlay
    op, at, result, count, box, requests, quiet, \* TitanRemote, its pc and status renamed
    req                                          \* the request being handled

Server == INSTANCE AirPlay

Remote == INSTANCE TitanRemote WITH pc <- at, status <- result

serverVars ==
    <<open, param, endpoint, closing, mediaSessionId, reverseConnections, told, seen, status, lapsed>>
remoteVars == <<op, at, result, count, box, requests, quiet>>
vars == <<serverVars, remoteVars, req>>

-----------------------------------------------------------------------------
\* Whether a poll is /playback-info or /scrub makes a difference to its answer only.
Kinds == {"play", "stop", "pause", "resume", "poll"}

\* A poll asks the box twice: for its answer, and, with that answer in first, for the log.
Request ==
    [kind : Kinds, conn : Conns, session : Sessions, turn : {1, 2}, first : Status]

Idle == [kind |-> "none"]

\* The operation of the remote control behind a request.
OperationOf(kind) == IF kind = "poll" THEN "getStatus" ELSE kind

Init ==
    /\ Server!Init
    /\ Remote!Init
    /\ req = Idle

\* Fault: any session reaches the remote control.
ReachesAlways(s, kind) == TRUE

\* /play makes its session the owner; the others must be.
Reaches(s, kind) == kind = "play" \/ s = mediaSessionId

\* A request of a client gets as far as the remote control.
Begin(c, s, kind) ==
    /\ req = Idle
    /\ Server!Readable(c)
    /\ param[c] = NoReverse
    /\ Reaches(s, kind)
    /\ req' = [kind |-> kind, conn |-> c, session |-> s, turn |-> 1, first |-> TimedOut]
    /\ Remote!Call(OperationOf(kind))
    /\ UNCHANGED serverVars

\* One request to the box.
Work ==
    /\ Remote!Ask \/ Remote!Halt \/ Remote!Send
    /\ UNCHANGED <<serverVars, req>>

\* The answer of a poll is made, and the box is asked again for the log.
AskAgain ==
    /\ at = "return"
    /\ req.kind = "poll" /\ req.turn = 1 /\ ~result.timeout
    /\ req' = [req EXCEPT !.turn = 2, !.first = result]
    /\ at' = "ask" /\ result' = TimedOut /\ count' = 0 /\ requests' = 0 /\ quiet' = TRUE
    /\ UNCHANGED <<serverVars, op, box>>

\* The operation returns, and the request is answered.
End(c, s, keep) ==
    /\ req # Idle /\ c = req.conn /\ s = req.session
    /\ Remote!Return
    /\ req' = Idle
    /\ \/ req.kind = "play" /\ Server!PlayEnds(c, s, keep, result)
       \/ /\ req.kind \in {"stop", "pause", "resume"}
          /\ Server!CommandEnds(c, s, keep, result)
       \/ /\ req.kind = "poll" /\ (req.turn = 2 \/ result.timeout)
          /\ \E info \in BOOLEAN :
                Server!PollEnds(c, s, keep, info, IF req.turn = 2 THEN req.first ELSE result, result)

Handler ==
    \/ Work \/ AskAgain
    \/ \E c \in Conns, s \in Sessions, keep \in KeepAlive : End(c, s, keep)

\* A session that does not own the media is answered without the remote control.
NotOwner(c, s, keep) ==
    /\ s # mediaSessionId
    /\ \/ Server!Stop(c, s, keep)
       \/ \E value \in Server!RateValues : Server!Rate(c, s, keep, value)
       \/ \E info \in BOOLEAN : Server!Poll(c, s, keep, info)

\* What the server does without the remote control.
ServerAlone ==
    /\ req = Idle
    /\ \E c \in Conns :
          \/ Server!Accept(c) \/ Server!PeerGone(c) \/ Server!Close(c)
          \/ Server!IdleExpire(c) \/ Server!ReverseData(c)
          \/ \E keep \in KeepAlive :
                \/ Server!Answer(c, keep) \/ Server!TooManyReverse(c, keep)
                \/ Server!ReverseRequest(c, keep)
                \/ \E s \in Sessions : Server!Reverse(c, s, keep) \/ NotOwner(c, s, keep)
    /\ UNCHANGED <<remoteVars, req>>

\* The stream starts or ends, or somebody uses the remote control.
BoxMoves == Remote!BoxMoves /\ UNCHANGED <<serverVars, req>>

Next ==
    \/ ServerAlone
    \/ \E c \in Conns, s \in Sessions, kind \in Kinds : Begin(c, s, kind)
    \/ Handler
    \/ BoxMoves

Spec == Init /\ [][Next]_vars

-----------------------------------------------------------------------------
(* Properties *)

\* Types: an operation runs exactly while a request is handled, on a connection that
\* is still open and ordinary.
TypeOK ==
    /\ Server!TypeOK
    /\ Remote!TypeOK
    /\ IF at = "idle" THEN req = Idle
       ELSE /\ req \in Request
            /\ op = OperationOf(req.kind)
            /\ Server!Readable(req.conn) /\ param[req.conn] = NoReverse

\* The parts fit together: with the remote control as it is, the server behaves as
\* AirPlay says, which takes any result its contract allows; what is proved of AirPlay
\* holds of the player (AirPlay.cpp 283-350, TitanRemote.cpp 88-155).  This is
\* Server!Spec, written so that a step that leaves the server alone is told first.
ServerFits == Server!Init /\ [][UNCHANGED serverVars \/ Server!Next]_vars

\* What the server has recorded, and last told the listeners of the owner, is what the
\* box does, unless the box has moved, disobeyed or was not heard since the owner's
\* last request.  One case is not made up for: a timeout was recorded as "stopped", and
\* the box has stopped in fact (AirPlay.cpp 551 and 600, TitanRemote.cpp 88-155).
ListenersKnowTheBox ==
    req = Idle /\ quiet =>
        /\ status = Answered(box)
        /\ \A c \in Server!Audience(mediaSessionId) :
              told[c] # Server!Silent =>
                  IF lapsed THEN box = "STOPPED" ELSE told[c] = box

\* A client that listens and polls knows what the box does from the last answer, when
\* no event came since, under the same conditions (AirPlay.cpp 175-179 and 252).
PollersKnowTheBox ==
    req = Idle /\ quiet =>
        \A c \in Server!Audience(mediaSessionId) :
            seen[c] # Server!Silent /\ told[c] = Server!Silent /\ ~lapsed =>
                seen[c] = Server!GetPlaybackInfo(Answered(box))
=============================================================================
