---------------------------- MODULE Player_proofs ----------------------------
(***************************************************************************)
(* Theorems about the player: with the remote control as it is, the server *)
(* behaves as AirPlay says, and what it tells its clients is what the box  *)
(* does.  The invariants of the two parts are taken from their own proofs, *)
(* R and A below; what Remote and Server name is the same, so the lemmas   *)
(* that say so only expand definitions.                                    *)
(***************************************************************************)
EXTENDS Player, TLAPS

R == INSTANCE TitanRemote_proofs WITH pc <- at, status <- result

A == INSTANCE AirPlay_proofs

\* The request in progress and the operation behind it belong together.
ReqOK ==
    IF at = "idle" THEN req = Idle
    ELSE /\ req \in Request
         /\ op = OperationOf(req.kind)
         /\ Reaches(req.session, req.kind)
         /\ req.turn = 2 => \E p \in Playback : req.first = Answered(p)

\* After a request that nothing interfered with, the record of the server is the truth.
RecordTrue == req = Idle /\ quiet => status = Answered(box)

PInv == R!IInv /\ ReqOK /\ RecordTrue

-----------------------------------------------------------------------------
(* The remote control inside the player *)

\* A request to the box is the same in both instances.
LEMMA SameRequest ==
    /\ \A a, st : Remote!MakeRequest(a, st) <=> R!MakeRequest(a, st)
    /\ \A a : Remote!RequestResults(a) = R!RequestResults(a)
    /\ \A st : Remote!MustStop(st) <=> R!MustStop(st)
    /\ \A st : Remote!MustSend(st) <=> R!MustSend(st)
    /\ \A o : Remote!ActionOf(o) = R!ActionOf(o)
BY DEF Remote!MakeRequest, R!MakeRequest, Remote!Obeyed, R!Obeyed,
       Remote!WholeReply, R!WholeReply, Remote!RequestResults, R!RequestResults,
       Remote!Replies, R!Replies, Remote!Answered, R!Answered, Remote!TimedOut, R!TimedOut,
       Remote!Playback, R!Playback, Remote!MustStop, R!MustStop,
       Remote!MustSend, R!MustSend, Remote!ActionOf, R!ActionOf

\* So are the steps of the operations.
LEMMA SameSteps ==
    /\ Remote!Ask => R!Ask
    /\ Remote!Halt => R!Halt
    /\ Remote!Send => R!Send
    /\ Remote!Return => R!Return
    /\ \A o : Remote!Call(o) => R!Call(o)
    /\ Remote!BoxMoves => R!BoxMoves
<1>1. Remote!Ask => R!Ask
  BY SameRequest DEF Remote!Ask, R!Ask
<1>2. Remote!Halt => R!Halt
  BY SameRequest DEF Remote!Halt, R!Halt
<1>3. Remote!Send => R!Send
  BY SameRequest DEF Remote!Send, R!Send
<1>4. Remote!Return => R!Return
  BY DEF Remote!Return, R!Return, Remote!TimedOut, R!TimedOut
<1>5. \A o : Remote!Call(o) => R!Call(o)
  BY DEF Remote!Call, R!Call
<1>6. Remote!BoxMoves => R!BoxMoves
  BY DEF Remote!BoxMoves, R!BoxMoves, Remote!Playback, R!Playback
<1> QED
  BY <1>1, <1>2, <1>3, <1>4, <1>5, <1>6

\* The contract of the remote control is that of the server.
LEMMA SameContract ==
    /\ R!Contract("getStatus") = GetStatusResults
    /\ R!Contract("play") = PlayResults
    /\ R!Contract("pause") = PauseResults
    /\ R!Contract("resume") = ResumeResults
    /\ R!Contract("stop") = StopResults
BY DEF R!Contract, R!GetStatusResults, GetStatusResults, R!PlayResults, PlayResults,
       R!PauseResults, PauseResults, R!ResumeResults, ResumeResults,
       R!StopResults, StopResults, R!Replies, Replies, R!Playback, Playback,
       R!TimedOut, TimedOut, R!Answered, Answered

\* An operation's step keeps the invariant of TitanRemote.
LEMMA RemoteKeeps ==
    ASSUME R!IInv, R!Next \/ UNCHANGED remoteVars PROVE R!IInv'
BY RemoteConstants, R!NextInv DEF remoteVars, R!vars

\* Being handled and standing idle exclude each other.
LEMMA IdleIsNoRequest == Idle \notin Request
BY DEF Idle, Request, Kinds

-----------------------------------------------------------------------------
(* The invariant of the player *)

\* It holds initially.
LEMMA PlayerInit == Init => PInv
<1> SUFFICES ASSUME Init PROVE PInv
  OBVIOUS
<1>1. R!IInv
  <2>1. R!Init
    BY DEF Init, Remote!Init, R!Init, Remote!TimedOut, R!TimedOut, Remote!Playback, R!Playback
  <2> QED
    BY <2>1, RemoteConstants, R!InitInv
<1>2. ReqOK
  BY DEF Init, Remote!Init, ReqOK
<1>3. RecordTrue
  <2>1. ~quiet
    BY Zenon DEF Init, Remote!Init
  <2> QED
    BY <2>1 DEF RecordTrue
<1> QED
  BY <1>1, <1>2, <1>3 DEF PInv

\* What the server does alone leaves its record as it is.
LEMMA AloneKeepsRecord == ASSUME ServerAlone PROVE status' = status
<1>1. PICK c \in Conns :
          \/ Server!Accept(c) \/ Server!PeerGone(c) \/ Server!Close(c)
          \/ Server!IdleExpire(c) \/ Server!ReverseData(c)
          \/ \E keep \in KeepAlive :
                \/ Server!Answer(c, keep) \/ Server!TooManyReverse(c, keep)
                \/ Server!ReverseRequest(c, keep)
                \/ \E s \in Sessions : Server!Reverse(c, s, keep) \/ NotOwner(c, s, keep)
  BY DEF ServerAlone
<1>2. CASE \/ Server!Accept(c) \/ Server!PeerGone(c) \/ Server!Close(c)
           \/ Server!IdleExpire(c) \/ Server!ReverseData(c)
  BY <1>2 DEF Server!Accept, Server!PeerGone, Server!Close, Server!IdleExpire,
              Server!ReverseData, Server!Release, Server!newsVars
<1>3. ASSUME NEW keep \in KeepAlive,
             \/ Server!Answer(c, keep) \/ Server!TooManyReverse(c, keep)
             \/ Server!ReverseRequest(c, keep)
      PROVE  status' = status
  BY <1>3 DEF Server!Answer, Server!TooManyReverse, Server!ReverseRequest, Server!newsVars
<1>4. ASSUME NEW keep \in KeepAlive, NEW s \in Sessions, Server!Reverse(c, s, keep)
      PROVE  status' = status
  BY <1>4 DEF Server!Reverse, Server!newsVars
<1>5. ASSUME NEW keep \in KeepAlive, NEW s \in Sessions, NotOwner(c, s, keep)
      PROVE  status' = status
  <2>1. s # mediaSessionId
    BY <1>5 DEF NotOwner
  <2>2. \A st : Server!CommandEnds(c, s, keep, st) => status' = status
    BY <2>1 DEF Server!CommandEnds, Server!Publish, Server!NotifyReverseConnection, Server!News
  <2>3. \A R0 : Server!Command(c, s, keep, R0) => status' = status
    BY <2>2 DEF Server!Command
  <2>4. \A info, st, again : Server!PollEnds(c, s, keep, info, st, again) => status' = status
    BY <2>1 DEF Server!PollEnds, Server!Publish, Server!NotifyReverseConnection, Server!News
  <2> QED
    BY <1>5, <2>3, <2>4 DEF NotOwner, Server!Stop, Server!Rate, Server!Poll
<1> QED
  BY <1>1, <1>2, <1>3, <1>4, <1>5

\* What the end of a request leaves in the record is what the operation returned.
LEMMA EndRecords ==
    ASSUME PInv, NEW c \in Conns, NEW s \in Sessions, NEW keep \in KeepAlive, End(c, s, keep)
    PROVE  status' = result
<1>1. at = "return" /\ req.session = s
  BY DEF End, Remote!Return
<1>2. Reaches(s, req.kind)
  BY <1>1 DEF PInv, ReqOK
<1>3. CASE req.kind = "play" /\ Server!PlayEnds(c, s, keep, result)
  BY <1>3 DEF Server!PlayEnds, Server!Publish, Server!NotifyReverseConnection
<1>4. CASE /\ req.kind \in {"stop", "pause", "resume"}
           /\ Server!CommandEnds(c, s, keep, result)
  BY <1>2, <1>4 DEF Reaches, Server!CommandEnds, Server!Publish, Server!NotifyReverseConnection
<1>5. ASSUME req.kind = "poll", req.turn = 2 \/ result.timeout, NEW info \in BOOLEAN,
             Server!PollEnds(c, s, keep, info, IF req.turn = 2 THEN req.first ELSE result, result)
      PROVE  status' = result
  <2> DEFINE st == IF req.turn = 2 THEN req.first ELSE result
  <2>1. s = mediaSessionId
    BY <1>2, <1>5 DEF Reaches
  <2>2. CASE st.timeout
    <3>1. st = result
      <4>1. \A p \in Playback : ~Answered(p).timeout
        BY DEF Answered
      <4>2. req.turn = 2 => ~req.first.timeout
        BY <1>1, <4>1 DEF PInv, ReqOK
      <4> QED
        BY <2>2, <4>2
    <3> QED
      BY <2>1, <2>2, <3>1, <1>5 DEF Server!PollEnds, Server!Publish, Server!NotifyReverseConnection
  <2>3. CASE ~st.timeout
    BY <2>1, <2>3, <1>5 DEF Server!PollEnds, Server!Publish, Server!NotifyReverseConnection
  <2> QED
    BY <2>2, <2>3
<1> QED
  BY <1>3, <1>4, <1>5 DEF End

\* The second question of a poll keeps the invariant.
LEMMA AskAgainKeeps == ASSUME PInv, AskAgain PROVE PInv'
<1>1. /\ at = "return" /\ at' = "ask" /\ req.kind = "poll" /\ req.turn = 1 /\ ~result.timeout
      /\ req' = [req EXCEPT !.turn = 2, !.first = result]
      /\ result' = TimedOut /\ count' = 0 /\ requests' = 0
      /\ op' = op /\ box' = box /\ mediaSessionId' = mediaSessionId
  BY DEF AskAgain, serverVars
<1>2. quiet' \in BOOLEAN
  BY Zenon DEF AskAgain
<1>3. req \in Request /\ op = "getStatus"
  BY <1>1 DEF PInv, ReqOK, OperationOf
<1>4. result \in GetStatusResults /\ result \in Status
  <2>1. result \in R!Contract(op) /\ result \in R!Status
    BY <1>1 DEF PInv, R!IInv, R!ContractKept, R!TypeOK
  <2> QED
    BY <1>3, <2>1, SameContract DEF R!Status, Status, R!Playback, Playback
<1>5. \E p \in Playback : result = Answered(p)
  BY <1>1, <1>4 DEF GetStatusResults, Replies, TimedOut
<1>6. R!IInv'
  <2>1. R!TypeOK'
    <3>1. TimedOut \in R!Status
      BY DEF TimedOut, R!Status, R!Playback
    <3> QED
      BY <1>1, <1>2, <3>1, RemoteConstants DEF PInv, R!IInv, R!TypeOK
  <2>2. R!RequestsSoFar'
    BY <1>1, <1>3 DEF R!RequestsSoFar
  <2>3. R!SendJustified' /\ R!QuietKnows' /\ R!ContractKept'
    BY <1>1 DEF R!SendJustified, R!QuietKnows, R!ContractKept
  <2> QED
    BY <2>1, <2>2, <2>3 DEF R!IInv
<1>7. req' \in Request /\ req'.turn = 2 /\ req'.first = result
      /\ req'.kind = req.kind /\ req'.session = req.session
  BY <1>1, <1>3, <1>4 DEF Request
<1>8. ReqOK'
  BY <1>1, <1>3, <1>5, <1>7 DEF PInv, ReqOK, Reaches, OperationOf
<1>9. RecordTrue'
  BY <1>7, IdleIsNoRequest DEF RecordTrue
<1> QED
  BY <1>6, <1>8, <1>9 DEF PInv

\* The end of a request keeps the invariant: what is recorded is what the box does.
LEMMA EndKeeps ==
    ASSUME PInv, NEW c \in Conns, NEW s \in Sessions, NEW keep \in KeepAlive, End(c, s, keep)
    PROVE  PInv'
<1>1. R!Return /\ Remote!Return /\ req' = Idle
  BY SameSteps DEF End
<1>2. R!IInv'
  BY <1>1, RemoteKeeps DEF PInv, R!Next, R!Program
<1>3. ReqOK'
  BY <1>1 DEF ReqOK, Remote!Return
<1>4. RecordTrue'
  <2> SUFFICES ASSUME quiet' PROVE status' = Answered(box')
    BY DEF RecordTrue
  <2>1. quiet /\ box' = box /\ at = "return"
    BY <1>1 DEF Remote!Return
  <2>2. result = R!Answered(box)
    BY <2>1 DEF PInv, R!IInv, R!QuietKnows
  <2> QED
    BY <2>1, <2>2, EndRecords DEF R!Answered, Answered
<1> QED
  BY <1>2, <1>3, <1>4 DEF PInv

\* Every step keeps the invariant.
LEMMA PlayerKeeps == PInv /\ [Next]_vars => PInv'
<1> SUFFICES ASSUME PInv, [Next]_vars PROVE PInv'
  OBVIOUS
<1>1. CASE UNCHANGED vars
  <2>1. R!IInv'
    BY <1>1, RemoteKeeps DEF PInv, vars
  <2> QED
    BY <1>1, <2>1 DEF PInv, ReqOK, RecordTrue, Reaches, vars, serverVars, remoteVars
<1>2. CASE ServerAlone
  <2>1. UNCHANGED remoteVars /\ req' = req /\ req = Idle
    BY <1>2 DEF ServerAlone
  <2>2. R!IInv'
    BY <2>1, RemoteKeeps DEF PInv
  <2>3. at = "idle" /\ at' = "idle"
    BY <2>1, IdleIsNoRequest DEF PInv, ReqOK, remoteVars
  <2>4. ReqOK'
    BY <2>1, <2>3 DEF ReqOK
  <2>5. RecordTrue'
    BY <1>2, <2>1, AloneKeepsRecord DEF PInv, RecordTrue, remoteVars
  <2> QED
    BY <2>2, <2>4, <2>5 DEF PInv
<1>3. ASSUME NEW c \in Conns, NEW s \in Sessions, NEW kind \in Kinds, Begin(c, s, kind)
      PROVE  PInv'
  <2>1. R!Call(OperationOf(kind)) /\ Remote!Call(OperationOf(kind)) /\ Reaches(s, kind)
    BY <1>3, SameSteps DEF Begin
  <2>2. R!IInv'
    <3>1. OperationOf(kind) \in R!Operations
      BY DEF OperationOf, Kinds, R!Operations
    <3> QED
      BY <2>1, <3>1, RemoteKeeps DEF PInv, R!Next
  <2>3. /\ req' = [kind |-> kind, conn |-> c, session |-> s, turn |-> 1, first |-> TimedOut]
        /\ mediaSessionId' = mediaSessionId
    BY <1>3 DEF Begin, serverVars
  <2>4. req' \in Request
    BY <2>3 DEF Request, TimedOut, Status, Playback
  <2>5. at' = "ask" /\ op' = OperationOf(kind)
    BY <2>1 DEF Remote!Call
  <2>6. ReqOK'
    BY <2>1, <2>3, <2>4, <2>5 DEF ReqOK, Reaches
  <2>7. RecordTrue'
    BY <2>4, IdleIsNoRequest DEF RecordTrue
  <2> QED
    BY <2>2, <2>6, <2>7 DEF PInv
<1>4. CASE Work
  <2>1. R!Ask \/ R!Halt \/ R!Send
    BY <1>4, SameSteps DEF Work
  <2>2. R!IInv'
    BY <2>1, RemoteKeeps DEF PInv, R!Next, R!Program
  <2>3. at \in {"ask", "halt", "send"} /\ at' # "idle" /\ op' = op
    BY <2>1 DEF R!Ask, R!Halt, R!Send
  <2>4. req' = req /\ mediaSessionId' = mediaSessionId
    BY <1>4 DEF Work, serverVars
  <2>5. req \in Request
    BY <2>3 DEF PInv, ReqOK
  <2>6. ReqOK' /\ RecordTrue'
    BY <2>3, <2>4, <2>5, IdleIsNoRequest DEF PInv, ReqOK, RecordTrue, Reaches
  <2> QED
    BY <2>2, <2>6 DEF PInv
<1>5. CASE AskAgain
  BY <1>5, AskAgainKeeps
<1>6. CASE \E c \in Conns, s \in Sessions, keep \in KeepAlive : End(c, s, keep)
  BY <1>6, EndKeeps
<1>7. CASE BoxMoves
  <2>1. R!BoxMoves /\ req' = req /\ mediaSessionId' = mediaSessionId
    BY <1>7, SameSteps DEF BoxMoves, serverVars
  <2>2. R!IInv'
    BY <2>1, RemoteKeeps DEF PInv, R!Next
  <2>3. at' = at /\ op' = op
    BY <2>1 DEF R!BoxMoves
  <2>4. ~quiet'
    BY Zenon, <2>1 DEF R!BoxMoves
  <2>5. ReqOK' /\ RecordTrue'
    BY <2>1, <2>3, <2>4 DEF PInv, ReqOK, RecordTrue, Reaches
  <2> QED
    BY <2>2, <2>5 DEF PInv
<1> QED
  BY <1>1, <1>2, <1>3, <1>4, <1>5, <1>6, <1>7 DEF Next, Handler

\* The invariant holds in every reachable state.
LEMMA PlayerInvariance == Spec => []PInv
BY PlayerInit, PlayerKeeps, PTL DEF Spec

-----------------------------------------------------------------------------
(* The server inside the player *)

\* What an operation has returned is what the server allows it.
LEMMA ResultsAllowed ==
    ASSUME PInv, at = "return"
    PROVE  /\ req \in Request
           /\ req.kind = "play" => result \in PlayResults
           /\ req.kind = "stop" => result \in StopResults
           /\ req.kind = "pause" => result \in PauseResults
           /\ req.kind = "resume" => result \in ResumeResults
           /\ req.kind = "poll" => result \in GetStatusResults
           /\ req.turn = 2 => req.first \in GetStatusResults
<1>1. req \in Request /\ op = OperationOf(req.kind)
  BY DEF PInv, ReqOK
<1>2. result \in R!Contract(op)
  BY DEF PInv, R!IInv, R!ContractKept
<1>3. req.turn = 2 => req.first \in GetStatusResults
  BY DEF PInv, ReqOK, GetStatusResults, Replies
<1> QED
  BY <1>1, <1>2, <1>3, SameContract DEF OperationOf

\* The definitions of Control are the same for the server.
LEMMA SameResults ==
    /\ Server!GetStatusResults = GetStatusResults
    /\ Server!PlayResults = PlayResults
    /\ Server!PauseResults = PauseResults
    /\ Server!ResumeResults = ResumeResults
    /\ Server!StopResults = StopResults
BY DEF Server!GetStatusResults, GetStatusResults, Server!PlayResults, PlayResults,
       Server!PauseResults, PauseResults, Server!ResumeResults, ResumeResults,
       Server!StopResults, StopResults, Server!Replies, Replies, Server!Playback, Playback,
       Server!TimedOut, TimedOut, Server!Answered, Answered

\* The end of a request is a step AirPlay has for a result in the contract.
LEMMA EndFits ==
    ASSUME PInv, NEW c \in Conns, NEW s \in Sessions, NEW keep \in KeepAlive, End(c, s, keep)
    PROVE  Server!Next
<1>1. at = "return" /\ req.session = s
  BY DEF End, Remote!Return
<1>2. req \in Request /\ Reaches(s, req.kind)
  BY <1>1 DEF PInv, ReqOK
<1>3. keep \in BOOLEAN
  BY KeepAliveBoolean
<1>4. \A P : s = mediaSessionId => Server!Results(s, P) = P
  BY DEF Server!Results
<1>5. CASE req.kind = "play" /\ Server!PlayEnds(c, s, keep, result)
  <2>1. Server!Play(c, s, keep)
    BY <1>1, <1>5, ResultsAllowed, SameResults DEF Server!Play
  <2> QED
    BY <1>3, <2>1 DEF Server!Next
<1>6. CASE req.kind \in {"stop", "pause", "resume"} /\ Server!CommandEnds(c, s, keep, result)
  <2>1. s = mediaSessionId
    BY <1>2, <1>6 DEF Reaches
  <2>2. CASE req.kind = "stop"
    <3>1. Server!Stop(c, s, keep)
      BY <1>1, <1>4, <1>6, <2>1, <2>2, ResultsAllowed, SameResults DEF Server!Stop, Server!Command
    <3> QED
      BY <1>3, <3>1 DEF Server!Next
  <2>3. CASE req.kind = "pause"
    <3>1. Server!Command(c, s, keep, PauseResults)
      BY <1>1, <1>4, <1>6, <2>1, <2>3, ResultsAllowed DEF Server!Command
    <3>2. Server!Rate(c, s, keep, "zero")
      BY <3>1, SameResults DEF Server!Rate, Server!IsRateZero
    <3> QED
      BY <1>3, <3>2 DEF Server!Next, Server!RateValues
  <2>4. CASE req.kind = "resume"
    <3>1. Server!Command(c, s, keep, ResumeResults)
      BY <1>1, <1>4, <1>6, <2>1, <2>4, ResultsAllowed DEF Server!Command
    <3>2. Server!Rate(c, s, keep, "nonzero")
      BY <3>1, SameResults DEF Server!Rate, Server!IsRateZero
    <3> QED
      BY <1>3, <3>2 DEF Server!Next, Server!RateValues
  <2> QED
    BY <1>6, <2>2, <2>3, <2>4
<1>7. ASSUME req.kind = "poll", NEW info \in BOOLEAN,
             Server!PollEnds(c, s, keep, info, IF req.turn = 2 THEN req.first ELSE result, result)
      PROVE  Server!Next
  <2>1. s = mediaSessionId
    BY <1>2, <1>7 DEF Reaches
  <2>2. Server!Poll(c, s, keep, info)
    BY <1>1, <1>4, <1>7, <2>1, ResultsAllowed, SameResults DEF Server!Poll
  <2> QED
    BY <1>3, <2>2 DEF Server!Next
<1> QED
  BY <1>5, <1>6, <1>7 DEF End

\* What the server does alone is in AirPlay, too.
LEMMA AloneFits == ASSUME ServerAlone PROVE Server!Next
BY KeepAliveBoolean DEF ServerAlone, NotOwner, Server!Next

\* Every step of the player is a step of the server or leaves it alone.
LEMMA StepFits == PInv /\ [Next]_vars => UNCHANGED serverVars \/ Server!Next
BY AloneFits, EndFits
   DEF Next, Handler, Begin, Work, AskAgain, BoxMoves, vars

\* The player implements AirPlay: the results of the remote control, which AirPlay
\* takes from the contract of class Control, are results the operations produce.
THEOREM ServerImplemented == Spec => ServerFits
<1>1. Init => Server!Init
  BY DEF Init
<1>2. PInv /\ [Next]_vars => [UNCHANGED serverVars \/ Server!Next]_vars
  BY StepFits
<1> QED
  BY <1>1, <1>2, PlayerInvariance, PTL DEF Spec, ServerFits

\* The helpers of the server are the same in both instances.
LEMMA SameHelpers ==
    /\ \A n, s, owner, st : Server!NotifyReverseConnection(n, s, owner, st)
                               = A!NotifyReverseConnection(n, s, owner, st)
    /\ \A n, st : Server!Shown(n, st) = A!Shown(n, st)
    /\ \A s : Server!TakenOver(s) = A!TakenOver(s)
    /\ \A s, P : Server!Results(s, P) = A!Results(s, P)
    /\ \A n : Server!Publish(n) <=> A!Publish(n)
    /\ \A c, keep : Server!Served(c, keep) <=> A!Served(c, keep)
    /\ Server!News = A!News
<1>1. \A s : Server!Audience(s) = A!Audience(s)
  BY DEF Server!Audience, A!Audience
<1>2. \A n, st : Server!Announces(n, st) <=> A!Announces(n, st)
  BY DEF Server!Announces, A!Announces
<1>3. \A n, s, owner, st : Server!NotifyReverseConnection(n, s, owner, st)
                             = A!NotifyReverseConnection(n, s, owner, st)
  BY <1>1, <1>2 DEF Server!NotifyReverseConnection, A!NotifyReverseConnection
<1>4. \A n, st : Server!Shown(n, st) = A!Shown(n, st)
  BY <1>1 DEF Server!Shown, A!Shown, Server!GetPlaybackInfo, A!GetPlaybackInfo
<1>5. Server!News = A!News
  BY DEF Server!News, A!News
<1>6. \A s : Server!TakenOver(s) = A!TakenOver(s)
  BY <1>5 DEF Server!TakenOver, A!TakenOver, Server!Untold, A!Untold, Server!Silent, A!Silent
<1>7. \A s, P : Server!Results(s, P) = A!Results(s, P)
  BY DEF Server!Results, A!Results, Server!Stopped, A!Stopped, Server!Answered, A!Answered
<1>8. \A n : Server!Publish(n) <=> A!Publish(n)
  BY DEF Server!Publish, A!Publish
<1>9. \A c, keep : Server!Served(c, keep) <=> A!Served(c, keep)
  BY DEF Server!Served, A!Served, Server!Readable, A!Readable,
         Server!CloseLocalEndpoint, A!CloseLocalEndpoint
<1> QED
  BY <1>3, <1>4, <1>5, <1>6, <1>7, <1>8, <1>9

\* And so are the results of the remote control.
LEMMA SameResultsOfA ==
    /\ Server!GetStatusResults = A!GetStatusResults
    /\ Server!PlayResults = A!PlayResults
    /\ Server!PauseResults = A!PauseResults
    /\ Server!ResumeResults = A!ResumeResults
    /\ Server!StopResults = A!StopResults
BY DEF Server!GetStatusResults, A!GetStatusResults, Server!PlayResults, A!PlayResults,
       Server!PauseResults, A!PauseResults, Server!ResumeResults, A!ResumeResults,
       Server!StopResults, A!StopResults, Server!Replies, A!Replies,
       Server!Playback, A!Playback, Server!TimedOut, A!TimedOut, Server!Answered, A!Answered

\* The steps of the server are the same.
LEMMA SameNext == Server!Next => A!Next
<1>1. \A c, s, keep : Server!Play(c, s, keep) <=> A!Play(c, s, keep)
  BY SameHelpers, SameResultsOfA DEF Server!Play, A!Play, Server!PlayEnds, A!PlayEnds
<1>2. \A c, s, keep, P : Server!Command(c, s, keep, P) <=> A!Command(c, s, keep, P)
  BY SameHelpers DEF Server!Command, A!Command, Server!CommandEnds, A!CommandEnds
<1>3. \A c, s, keep : Server!Stop(c, s, keep) <=> A!Stop(c, s, keep)
  BY <1>2, SameResultsOfA DEF Server!Stop, A!Stop
<1>4. \A c, s, keep, value : Server!Rate(c, s, keep, value) <=> A!Rate(c, s, keep, value)
  <2>1. \A value : Server!IsRateZero(value) = A!IsRateZero(value)
    BY DEF Server!IsRateZero, A!IsRateZero
  <2> QED
    BY <1>2, <2>1, SameResultsOfA DEF Server!Rate, A!Rate
<1>5. \A c, s, keep, info : Server!Poll(c, s, keep, info) <=> A!Poll(c, s, keep, info)
  BY SameHelpers, SameResultsOfA DEF Server!Poll, A!Poll, Server!PollEnds, A!PollEnds
<1>6. \A c, s, keep : Server!Reverse(c, s, keep) <=> A!Reverse(c, s, keep)
  BY DEF Server!Reverse, A!Reverse, Server!Readable, A!Readable, Server!PoolFull, A!PoolFull,
         Server!newsVars, A!newsVars
<1>7. \A c, keep : /\ Server!Answer(c, keep) <=> A!Answer(c, keep)
                   /\ Server!TooManyReverse(c, keep) <=> A!TooManyReverse(c, keep)
  BY SameHelpers DEF Server!Answer, A!Answer, Server!TooManyReverse, A!TooManyReverse,
         Server!PoolFull, A!PoolFull, Server!newsVars, A!newsVars
<1>8. \A c, keep : Server!ReverseRequest(c, keep) <=> A!ReverseRequest(c, keep)
  BY DEF Server!ReverseRequest, A!ReverseRequest, Server!Readable, A!Readable,
         Server!CloseLocalEndpoint, A!CloseLocalEndpoint, Server!newsVars, A!newsVars
<1>9. \A c : Server!ReverseData(c) <=> A!ReverseData(c)
  BY DEF Server!ReverseData, A!ReverseData, Server!Readable, A!Readable,
         Server!CloseLocalEndpoint, A!CloseLocalEndpoint, Server!newsVars, A!newsVars
<1>10. \A c : /\ Server!Accept(c) <=> A!Accept(c)
              /\ Server!PeerGone(c) <=> A!PeerGone(c)
  BY DEF Server!Accept, A!Accept, Server!PeerGone, A!PeerGone, Server!Readable, A!Readable,
         Server!newsVars, A!newsVars
<1>11. \A c : /\ Server!Close(c) <=> A!Close(c)
              /\ Server!IdleExpire(c) <=> A!IdleExpire(c)
  BY DEF Server!Close, A!Close, Server!IdleExpire, A!IdleExpire, Server!Release, A!Release,
         Server!SlotsAfterClosing, A!SlotsAfterClosing, Server!Silent, A!Silent
<1>12. Server!RateValues = A!RateValues
  BY DEF Server!RateValues, A!RateValues
<1> QED
  BY <1>1, <1>3, <1>4, <1>5, <1>6, <1>7, <1>8, <1>9, <1>10, <1>11, <1>12
     DEF Server!Next, A!Next

\* What the player does is what AirPlay says of its variables.
LEMMA PlayerIsServer == Spec => A!Spec
<1>1. Init => A!Init
  BY DEF Init, Server!Init, A!Init, Server!Untold, A!Untold, Server!Silent, A!Silent,
         Server!TimedOut, A!TimedOut
<1>2. PInv /\ [Next]_vars => [A!Next]_(A!vars)
  <2>1. PInv /\ [Next]_vars => A!Next \/ UNCHANGED serverVars
    BY StepFits, SameNext
  <2> QED
    BY <2>1 DEF A!vars, A!connVars, A!newsVars, serverVars
<1> QED
  BY <1>1, <1>2, PlayerInvariance, PTL DEF Spec, A!Spec

\* The invariants proved of AirPlay hold of the player.
LEMMA ServerInvariance == Spec => []A!IInv
<1>1. A!Spec => []A!IInv
  BY ServerConstants, A!Invariance DEF IsFiniteSet, A!IsFiniteSet
<1> QED
  BY <1>1, PlayerIsServer, PTL

-----------------------------------------------------------------------------
(* Requests and their connections *)

\* The connection of the request in progress can be answered, and is no listener.
Serving == req # Idle => Server!Readable(req.conn) /\ param[req.conn] = NoReverse

\* While an operation runs, nothing happens to connections.
LEMMA ServingKept == PInv /\ Serving /\ [Next]_vars => Serving'
<1> SUFFICES ASSUME PInv, Serving, [Next]_vars PROVE Serving'
  OBVIOUS
<1>1. CASE req' = req /\ UNCHANGED serverVars
  BY <1>1 DEF Serving, Server!Readable, serverVars
<1>2. CASE ServerAlone
  BY <1>2 DEF ServerAlone, Serving
<1>3. ASSUME NEW c \in Conns, NEW s \in Sessions, NEW kind \in Kinds, Begin(c, s, kind)
      PROVE  Serving'
  <2>1. req'.conn = c
    BY <1>3 DEF Begin
  <2> QED
    BY <1>3, <2>1 DEF Begin, Serving, Server!Readable, serverVars
<1>4. CASE AskAgain
  <2>1. req \in Request /\ req # Idle
    BY <1>4, IdleIsNoRequest DEF AskAgain, PInv, ReqOK
  <2>2. req'.conn = req.conn
    BY <1>4, <2>1 DEF AskAgain, Request
  <2> QED
    BY <1>4, <2>1, <2>2 DEF AskAgain, Serving, Server!Readable, serverVars
<1>5. CASE \E c \in Conns, s \in Sessions, keep \in KeepAlive : End(c, s, keep)
  BY <1>5 DEF End, Serving
<1>6. CASE Work \/ BoxMoves \/ UNCHANGED vars
  BY <1>1, <1>6 DEF Work, BoxMoves, vars
<1> QED
  BY <1>2, <1>3, <1>4, <1>5, <1>6 DEF Next, Handler

\* The type invariant of the player: an operation runs exactly while a request is
\* handled, on a connection that is still there to be answered.
THEOREM TypeCorrect == Spec => []TypeOK
<1>1. Init => Serving
  BY DEF Init, Serving
<1>2. PInv /\ A!IInv /\ Serving => TypeOK
  <2> SUFFICES ASSUME PInv, A!IInv, Serving PROVE TypeOK
    OBVIOUS
  <2>1. Server!TypeOK
    <3>1. A!TypeOK
      BY DEF A!IInv
    <3> QED
      BY <3>1 DEF A!TypeOK, Server!TypeOK, A!Status, Server!Status, A!Playback, Server!Playback,
                  A!Silent, Server!Silent, A!Endpoints, Server!Endpoints,
                  A!Closings, Server!Closings, A!Infos, Server!Infos
  <2>2. Remote!TypeOK
    <3>1. R!TypeOK
      BY DEF PInv, R!IInv
    <3> QED
      BY Zenon, <3>1 DEF R!TypeOK, Remote!TypeOK, R!Status, Remote!Status, R!Playback, Remote!Playback,
                  R!Operations, Remote!Operations
  <2>3. at # "idle" => req # Idle
    BY IdleIsNoRequest DEF PInv, ReqOK
  <2> QED
    BY <2>1, <2>2, <2>3 DEF TypeOK, PInv, ReqOK, Serving
<1> QED
  BY <1>1, <1>2, ServingKept, PlayerInvariance, ServerInvariance, PTL DEF Spec

-----------------------------------------------------------------------------
(* What clients know *)

\* With the box left alone, obeying and heard, listeners were last told what it does.
THEOREM ListenersKnow == Spec => []ListenersKnowTheBox
<1>1. PInv /\ A!IInv => ListenersKnowTheBox
  <2> SUFFICES ASSUME PInv, A!IInv, req = Idle, quiet PROVE ListenersKnowTheBox
    BY DEF ListenersKnowTheBox
  <2>1. status = Answered(box)
    BY DEF PInv, RecordTrue
  <2>2. A!EventsCurrent
    BY DEF A!IInv, A!NewsOK, A!News, A!NewsCurrent, A!EventsCurrent
  <2>3. Server!Silent = A!Silent /\ Server!Audience(mediaSessionId) = A!Audience(mediaSessionId)
    BY DEF Server!Silent, A!Silent, Server!Audience, A!Audience
  <2> QED
    BY <2>1, <2>2, <2>3 DEF ListenersKnowTheBox, A!EventsCurrent, Answered
<1> QED
  BY <1>1, PlayerInvariance, ServerInvariance, PTL

\* Under the same conditions, what a client saw with its last poll is what the box does.
THEOREM PollersKnow == Spec => []PollersKnowTheBox
<1>1. PInv /\ A!IInv => PollersKnowTheBox
  <2> SUFFICES ASSUME PInv, A!IInv, req = Idle, quiet PROVE PollersKnowTheBox
    BY DEF PollersKnowTheBox
  <2>1. status = Answered(box)
    BY DEF PInv, RecordTrue
  <2>2. A!AnswersHold
    BY DEF A!IInv, A!NewsOK, A!News, A!NewsSeen, A!AnswersHold
  <2>3. /\ Server!Silent = A!Silent /\ Server!Audience(mediaSessionId) = A!Audience(mediaSessionId)
        /\ \A st : Server!GetPlaybackInfo(st) = A!GetPlaybackInfo(st)
    BY DEF Server!Silent, A!Silent, Server!Audience, A!Audience,
           Server!GetPlaybackInfo, A!GetPlaybackInfo
  <2> QED
    BY <2>1, <2>2, <2>3 DEF PollersKnowTheBox, A!AnswersHold
<1> QED
  BY <1>1, PlayerInvariance, ServerInvariance, PTL

-----------------------------------------------------------------------------
(* The promise to the listeners *)

\* The player as a whole, remote control included, implements what PlaybackEvents
\* promises its listeners (AirPlay.cpp 125-162, 283-350 and 550-603).
THEOREM PlayerServesListeners == Spec => A!ListenersServed
<1>1. A!Spec => A!ListenersServed
  BY ServerConstants, A!ServesListeners DEF IsFiniteSet, A!IsFiniteSet
<1> QED
  BY <1>1, PlayerIsServer, PTL
=============================================================================
