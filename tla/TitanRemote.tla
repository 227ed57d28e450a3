----------------------------- MODULE TitanRemote -----------------------------
(***************************************************************************)
(* The remote control of the box: the operations of class TitanRemote as   *)
(* programs over makeRequest.  A step is one request (HttpClient models    *)
(* its inside): the box may execute it or not, and what comes back is a    *)
(* whole reply, a garbled one, or nothing in time.  Between two requests   *)
(* the box moves on its own: the stream starts or ends, a viewer presses a *)
(* key.                                                                    *)
(***************************************************************************)
EXTENDS Naturals, Control

CONSTANT MaxStops    \* STOP requests play sends before it gives up: 10 in the code

ASSUME MaxStopsPositive == MaxStops \in Nat \ {0}

VARIABLES
    op,       \* the operation of class Control being executed
    pc,       \* where it is
    status,   \* its local variable
    count,    \* play's count of STOP requests
    box,      \* what the box does
    requests, \* history: requests made by the operation
    quiet     \* history: nothing has come between the box and the last operation

vars == <<op, pc, status, count, box, requests, quiet>>

Operations == {"getStatus", "play", "pause", "resume", "stop"}

\* The request that carries an operation out.
ActionOf(o) ==
    CASE o = "play" -> "PLAY" [] o = "pause" -> "PAUSE" [] o = "resume" -> "RESUME"
      [] o = "stop" -> "STOP" [] OTHER -> "STATUS"

\* What each operation may return to the server.
Contract(o) ==
    CASE o = "getStatus" -> GetStatusResults
      [] o = "play"      -> PlayResults
      [] o = "pause"     -> PauseResults
      [] o = "resume"    -> ResumeResults
      [] o = "stop"      -> StopResults

-----------------------------------------------------------------------------
(* The box, as the program uses it: rcpause, rcplay and rcstop are keys of a *)
(* remote control, which do nothing when they make no sense.                 *)

Obeyed(action) ==
    CASE action = "PLAY"                         -> "LOADING"
      [] action = "PAUSE" /\ box = "PLAYING"     -> "PAUSED"
      [] action = "RESUME" /\ box = "PAUSED"     -> "PLAYING"
      [] action = "STOP"                         -> "STOPPED"
      [] OTHER                                   -> box

\* What a whole reply is decoded to: PAUSE and RESUME are confirmed whatever the
\* box did, STOP leaves STOPPED, PLAY tells a refusal.
WholeReply(action, after) ==
    CASE action = "STATUS" -> after
      [] action = "PLAY"   -> IF after = "LOADING" THEN "LOADING" ELSE "STOPPED"
      [] action = "PAUSE"  -> "PAUSED"
      [] action = "RESUME" -> "PLAYING"
      [] action = "STOP"   -> "STOPPED"

\* One makeRequest that returns st.
MakeRequest(action, st) ==
    /\ requests' = requests + 1
    /\ box' \in {box, Obeyed(action)}
    /\ \/ st = Answered(WholeReply(action, box')) /\ quiet' = (quiet /\ box' = Obeyed(action))
       \/ st \in RequestResults(action) /\ quiet' = FALSE

-----------------------------------------------------------------------------
(* The operations *)

Init ==
    /\ op = "getStatus"
    /\ pc = "idle"
    /\ status = TimedOut
    /\ count = 0
    /\ box \in Playback
    /\ requests = 0
    /\ quiet = FALSE

Call(o) ==
    /\ pc = "idle"
    /\ op' = o
    /\ pc' = "ask"
    /\ quiet' = TRUE
    /\ UNCHANGED <<status, count, box, requests>>

\* Fault: a paused or loading box is not stopped.
MustStopPlaying(st) == op = "play" /\ count < MaxStops /\ st.playback = "PLAYING"

\* play goes round its loop once more.
MustStop(st) == op = "play" /\ count < MaxStops /\ st.playback # "STOPPED"

\* Fault: pause is sent without regard to the status.
MustSendAlways(st) == op # "getStatus"

\* The operation goes on to its own request.
MustSend(st) ==
    \/ op = "play"
    \/ op = "pause" /\ st.playback = "PLAYING"
    \/ op = "resume" /\ st.playback = "PAUSED"
    \/ op = "stop" /\ st.playback # "STOPPED"

\* Every operation begins with getStatus, and play repeats it.
Ask ==
    /\ pc = "ask"
    /\ \E st \in RequestResults("STATUS") :
          /\ MakeRequest("STATUS", st)
          /\ status' = st
          /\ pc' = IF MustStop(st) THEN "halt" ELSE IF MustSend(st) THEN "send" ELSE "return"
    /\ UNCHANGED <<op, count>>

\* Fault: the STOPs of play are not counted.
HaltUncounted ==
    /\ pc = "halt"
    /\ pc' = "ask"
    /\ \E st \in RequestResults("STOP") : MakeRequest("STOP", st)
    /\ UNCHANGED <<op, status, count>>

\* play stops what the box plays; the answer is thrown away.
Halt ==
    /\ pc = "halt"
    /\ count' = count + 1
    /\ pc' = "ask"
    /\ \E st \in RequestResults("STOP") : MakeRequest("STOP", st)
    /\ UNCHANGED <<op, status>>

\* Fault: the status asked for before is returned.
SendAndReturnOld ==
    /\ pc = "send"
    /\ pc' = "return"
    /\ \E st \in RequestResults(ActionOf(op)) : MakeRequest(ActionOf(op), st)
    /\ UNCHANGED <<op, count, status>>

Send ==
    /\ pc = "send"
    /\ pc' = "return"
    /\ \E st \in RequestResults(ActionOf(op)) :
          MakeRequest(ActionOf(op), st) /\ status' = st
    /\ UNCHANGED <<op, count>>

\* Fault: an operation whose last request timed out waits on.
ReturnAnswered ==
    /\ pc = "return" /\ ~status.timeout
    /\ pc' = "idle" /\ op' = "getStatus" /\ status' = TimedOut /\ count' = 0 /\ requests' = 0
    /\ UNCHANGED <<box, quiet>>

\* The caller gets the status, and the locals of the operation are gone.
Return ==
    /\ pc = "return"
    /\ pc' = "idle" /\ op' = "getStatus" /\ status' = TimedOut /\ count' = 0 /\ requests' = 0
    /\ UNCHANGED <<box, quiet>>

\* The stream starts or ends, or somebody uses the remote control.
BoxMoves ==
    /\ box' \in Playback \ {box}
    /\ quiet' = FALSE
    /\ UNCHANGED <<op, pc, status, count, requests>>

Program == Ask \/ Halt \/ Send \/ Return

Next == (\E o \in Operations : Call(o)) \/ Program \/ BoxMoves

Spec == Init /\ [][Next]_vars

\* makeRequest always returns (HttpClient), so an operation that was called goes on.
FairSpec == Spec /\ WF_vars(Program)

-----------------------------------------------------------------------------
(* Properties *)

\* Type correctness of the operation in progress.
TypeOK ==
    /\ op \in Operations
    /\ pc \in {"idle", "ask", "halt", "send", "return"}
    /\ status \in Status
    /\ count \in 0..MaxStops
    /\ box \in Playback
    /\ requests \in Nat
    /\ quiet \in BOOLEAN

\* Whatever the box does and the network loses, an operation returns one of the
\* statuses the server counts on: after play nothing but "loading" or "stopped",
\* and so on (TitanRemote.cpp 88-155).
ContractKept == pc = "return" => status \in Contract(op)

\* An operation cannot hold the single thread of the daemon for longer than its
\* requests take: two, or two for each STOP of play and two more
\* (TitanRemote.cpp 93-109).
RequestsBounded == requests <= IF op = "play" THEN 2 * MaxStops + 2 ELSE 2

\* If the box was left alone, obeyed and was heard, then what the operation
\* returns is what the box does: no operation guesses (TitanRemote.cpp 113-151).
QuietBoxReported == pc = "return" /\ quiet => status = Answered(box)

\* A new stream is started on a box that has been stopped before, unless the box
\* did not obey or was not heard (TitanRemote.cpp 93-97).
PlayFindsBoxStopped == pc = "send" /\ op = "play" /\ quiet => box = "STOPPED"

\* Every operation comes to its end, also the loop in play against a box that
\* never stops.
OperationsEnd == pc # "idle" ~> pc = "idle"
=============================================================================
