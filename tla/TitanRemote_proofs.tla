-------------------------- MODULE TitanRemote_proofs --------------------------
(***************************************************************************)
(* Theorems about the operations of the remote control, for any number of  *)
(* STOP requests play is allowed.                                          *)
(***************************************************************************)
EXTENDS TitanRemote, TLAPS

\* How many requests an operation has made when it is at a certain place.
RequestsSoFar ==
    /\ op # "play" => count = 0
    /\ pc = "idle" => count = 0 /\ requests = 0
    /\ pc = "ask" => requests = 2 * count
    /\ pc = "halt" => requests = 2 * count + 1 /\ op = "play" /\ count < MaxStops
    /\ pc = "send" => requests = 2 * count + 1
    /\ requests <= 2 * count + 2

\* Why an operation sends its own request.
SendJustified ==
    pc = "send" =>
        /\ op \in Operations \ {"getStatus"}
        /\ op = "play" => status.playback = "STOPPED" \/ count = MaxStops
        /\ op = "pause" => status.playback = "PLAYING"
        /\ op = "resume" => status.playback = "PAUSED"

\* With nothing between the program and the box, its local status is the truth,
\* and a box that was told to stop has stopped.
QuietKnows ==
    quiet => /\ pc \in {"send", "return"} => status = Answered(box)
             /\ pc \in {"ask", "send"} /\ count > 0 => box = "STOPPED"

IInv == TypeOK /\ RequestsSoFar /\ SendJustified /\ QuietKnows /\ ContractKept

-----------------------------------------------------------------------------
(* Results *)

\* A whole reply to any request is among the statuses the request may bring.
LEMMA WholeReplyAllowed ==
    ASSUME NEW a \in Actions, NEW b \in Playback
    PROVE  /\ Answered(WholeReply(a, b)) \in RequestResults(a)
           /\ RequestResults(a) \subseteq Status
<1>1. ASSUME NEW P \in SUBSET Playback
      PROVE  Replies(P) \subseteq Status /\ \A p \in P : Answered(p) \in Replies(P)
  <2>1. TimedOut \in Status
    BY DEF TimedOut, Playback, Status
  <2>2. \A p \in P : Answered(p) \in Status
    BY DEF Answered, Status
  <2> QED
    BY <2>1, <2>2 DEF Replies
<1>2. /\ Playback \in SUBSET Playback
      /\ {"STOPPED", "LOADING"} \in SUBSET Playback
      /\ {"STOPPED", "PAUSED"} \in SUBSET Playback
      /\ {"STOPPED", "PLAYING"} \in SUBSET Playback
      /\ {"STOPPED"} \in SUBSET Playback
  BY DEF Playback
<1>3. CASE a = "STATUS"
  BY <1>1, <1>2, <1>3 DEF WholeReply, RequestResults
<1>4. CASE a = "PLAY"
  BY <1>1, <1>2, <1>4 DEF WholeReply, RequestResults
<1>5. CASE a = "PAUSE"
  BY <1>1, <1>2, <1>5 DEF WholeReply, RequestResults
<1>6. CASE a = "RESUME"
  BY <1>1, <1>2, <1>6 DEF WholeReply, RequestResults
<1>7. CASE a = "STOP"
  BY <1>1, <1>2, <1>7 DEF WholeReply, RequestResults
<1> QED
  BY <1>3, <1>4, <1>5, <1>6, <1>7 DEF Actions

\* The request an operation ends with brings a status of its contract, and so
\* does the first question when the operation ends with that.
LEMMA ResultAllowed ==
    /\ \A o \in Operations : ActionOf(o) \in Actions
    /\ \A o \in Operations : RequestResults(ActionOf(o)) \subseteq Contract(o)
    /\ \A o \in Operations \ {"play"} : \A st \in RequestResults("STATUS") :
          st \in Contract(o) \/ (o = "pause" /\ st.playback = "PLAYING")
                             \/ (o = "resume" /\ st.playback = "PAUSED")
                             \/ (o = "stop" /\ st.playback # "STOPPED")
<1>1. \A o \in Operations : ActionOf(o) \in Actions
  BY DEF Operations, ActionOf, Actions
<1>2. \A o \in Operations : RequestResults(ActionOf(o)) \subseteq Contract(o)
  BY DEF Operations, ActionOf, RequestResults, Contract, Replies, Playback,
         GetStatusResults, PlayResults, PauseResults, ResumeResults, StopResults
<1>3. ASSUME NEW o \in Operations \ {"play"}, NEW st \in RequestResults("STATUS")
      PROVE  st \in Contract(o) \/ (o = "pause" /\ st.playback = "PLAYING")
                                \/ (o = "resume" /\ st.playback = "PAUSED")
                                \/ (o = "stop" /\ st.playback # "STOPPED")
  <2>1. st = TimedOut \/ \E p \in Playback : st = Answered(p)
    BY <1>3 DEF RequestResults, Replies
  <2>2. \A p \in Playback : Answered(p).playback = p
    BY DEF Answered
  <2> QED
    BY <2>1, <2>2 DEF Operations, Contract, Replies, Playback,
       GetStatusResults, PauseResults, ResumeResults, StopResults
<1> QED
  BY <1>1, <1>2, <1>3

\* What every request leaves behind, heard or not.
LEMMA RequestMade ==
    ASSUME TypeOK, NEW a \in Actions, NEW st \in RequestResults(a), MakeRequest(a, st)
    PROVE  /\ requests' = requests + 1
           /\ box' \in Playback
           /\ st \in Status
           /\ quiet' \in BOOLEAN
           /\ quiet' => quiet /\ box' = Obeyed(a) /\ st = Answered(WholeReply(a, box'))
BY WholeReplyAllowed DEF MakeRequest, TypeOK, Obeyed, Playback

-----------------------------------------------------------------------------
(* Steps *)

\* The invariant holds initially.
LEMMA InitInv == Init => IInv
<1> SUFFICES ASSUME Init PROVE IInv
  OBVIOUS
<1>1. TypeOK
  <2>1. quiet \in BOOLEAN
    BY Zenon DEF Init
  <2> QED
    BY <2>1, MaxStopsPositive DEF Init, TypeOK, Operations, Status, TimedOut, Playback
<1>2. RequestsSoFar /\ SendJustified /\ ContractKept
  BY DEF Init, RequestsSoFar, SendJustified, ContractKept
<1>3. QuietKnows
  BY Zenon DEF Init, QuietKnows
<1> QED
  BY <1>1, <1>2, <1>3 DEF IInv

\* The question every operation begins with keeps the invariant.
LEMMA AskKeeps == ASSUME IInv, Ask PROVE IInv'
<1>1. PICK st \in RequestResults("STATUS") :
          /\ MakeRequest("STATUS", st)
          /\ status' = st
          /\ pc' = IF MustStop(st) THEN "halt" ELSE IF MustSend(st) THEN "send" ELSE "return"
  BY DEF Ask
<1>2. pc = "ask" /\ op' = op /\ count' = count
  BY DEF Ask
<1>3. /\ requests' = requests + 1 /\ box' \in Playback /\ st \in Status /\ quiet' \in BOOLEAN
      /\ quiet' => quiet /\ box' = box /\ st = Answered(box)
  BY <1>1, RequestMade DEF IInv, Actions, Obeyed, WholeReply
<1>4. TypeOK'
  BY <1>1, <1>2, <1>3 DEF IInv, TypeOK
<1>5. RequestsSoFar'
  BY <1>1, <1>2, <1>3, MaxStopsPositive DEF IInv, TypeOK, RequestsSoFar, MustStop
<1>6. SendJustified'
  BY <1>1, <1>2, MaxStopsPositive DEF IInv, TypeOK, SendJustified, MustStop, MustSend, Operations
<1>7. QuietKnows'
  BY <1>1, <1>2, <1>3 DEF IInv, QuietKnows
<1>8. ContractKept'
  <2> SUFFICES ASSUME ~MustStop(st), ~MustSend(st) PROVE st \in Contract(op)
    BY <1>1, <1>2 DEF ContractKept
  <2> QED
    BY ResultAllowed DEF MustSend, IInv, TypeOK
<1> QED
  BY <1>4, <1>5, <1>6, <1>7, <1>8 DEF IInv

\* A STOP of play keeps the invariant.
LEMMA HaltKeeps == ASSUME IInv, Halt PROVE IInv'
<1>1. PICK st \in RequestResults("STOP") : MakeRequest("STOP", st)
  BY DEF Halt
<1>2. pc = "halt" /\ pc' = "ask" /\ op' = op /\ count' = count + 1 /\ status' = status
  BY DEF Halt
<1>3. /\ requests' = requests + 1 /\ box' \in Playback /\ quiet' \in BOOLEAN
      /\ quiet' => box' = "STOPPED"
  BY <1>1, RequestMade DEF IInv, Actions, Obeyed
<1>4. TypeOK' /\ RequestsSoFar'
  BY <1>2, <1>3, MaxStopsPositive DEF IInv, TypeOK, RequestsSoFar
<1>5. SendJustified' /\ QuietKnows' /\ ContractKept'
  BY <1>2, <1>3 DEF SendJustified, QuietKnows, ContractKept
<1> QED
  BY <1>4, <1>5 DEF IInv

\* The operation's own request keeps the invariant.
LEMMA SendKeeps == ASSUME IInv, Send PROVE IInv'
<1> DEFINE a == ActionOf(op)
<1>1. PICK st \in RequestResults(a) : MakeRequest(a, st) /\ status' = st
  BY DEF Send
<1>2. pc = "send" /\ pc' = "return" /\ op' = op /\ count' = count
  BY DEF Send
<1>3. a \in Actions /\ st \in Contract(op)
  BY <1>1, ResultAllowed DEF IInv, TypeOK
<1>4. /\ requests' = requests + 1 /\ box' \in Playback /\ st \in Status /\ quiet' \in BOOLEAN
      /\ quiet' => quiet /\ box' = Obeyed(a) /\ st = Answered(WholeReply(a, box'))
  <2> HIDE DEF a
  <2> QED
    BY <1>1, <1>3, RequestMade DEF IInv
<1>5. TypeOK' /\ RequestsSoFar'
  BY <1>1, <1>2, <1>4, MaxStopsPositive DEF IInv, TypeOK, RequestsSoFar
<1>6. QuietKnows'
  <2> SUFFICES ASSUME quiet' PROVE st = Answered(box')
    BY <1>1, <1>2 DEF QuietKnows
  <2>1. quiet /\ box' = Obeyed(a) /\ st = Answered(WholeReply(a, box'))
    BY <1>4
  <2>2. op \in Operations \ {"getStatus"} /\ status.playback = box
    BY <1>2, <2>1 DEF IInv, SendJustified, QuietKnows, Answered
  <2>3. WholeReply(a, box') = box'
    BY <1>2, <2>1, <2>2 DEF IInv, SendJustified, Operations, ActionOf, Obeyed, WholeReply
  <2> QED
    BY <2>1, <2>3
<1>7. SendJustified' /\ ContractKept'
  BY <1>1, <1>2, <1>3 DEF SendJustified, ContractKept, Contract
<1> QED
  BY <1>5, <1>6, <1>7 DEF IInv

\* Every step keeps the invariant.
LEMMA NextInv == IInv /\ [Next]_vars => IInv'
<1> SUFFICES ASSUME IInv, [Next]_vars PROVE IInv'
  OBVIOUS
<1> USE DEF IInv, TypeOK, RequestsSoFar, SendJustified, QuietKnows, ContractKept
<1>1. CASE UNCHANGED vars
  BY <1>1 DEF vars, Contract
<1>2. ASSUME NEW o \in Operations, Call(o) PROVE IInv'
  BY <1>2, MaxStopsPositive DEF Call
<1>3. CASE Ask \/ Halt \/ Send
  BY <1>3, AskKeeps, HaltKeeps, SendKeeps
<1>4. CASE Return
  BY <1>4, MaxStopsPositive DEF Return, Operations, TimedOut, Status, Playback
<1>5. CASE BoxMoves
  BY <1>5 DEF BoxMoves, Contract
<1> QED
  BY <1>1, <1>2, <1>3, <1>4, <1>5 DEF Next, Program

-----------------------------------------------------------------------------
(* The theorems *)

\* The inductive invariant holds in every reachable state.
LEMMA Invariance == Spec => []IInv
BY InitInv, NextInv, PTL DEF Spec

\* The state of the remote control has its types, whatever the box answers: a status
\* that is returned is one of those the server knows (TitanRemote.cpp 51-155).
THEOREM TypeCorrect == Spec => []TypeOK
<1>1. IInv => TypeOK
  BY DEF IInv
<1> QED  BY <1>1, Invariance, PTL

\* The server may count on the contract of class Control.
THEOREM ContractHolds == Spec => []ContractKept
<1>1. IInv => ContractKept
  BY DEF IInv
<1> QED
  BY <1>1, Invariance, PTL

\* No operation makes more requests than its bound.
THEOREM RequestsStayBounded == Spec => []RequestsBounded
<1>1. IInv => RequestsBounded
  BY MaxStopsPositive DEF IInv, TypeOK, RequestsSoFar, RequestsBounded
<1> QED
  BY <1>1, Invariance, PTL

\* With the box left alone, obeying and heard, what is returned is what it does.
THEOREM QuietBoxIsReported == Spec => []QuietBoxReported
<1>1. IInv => QuietBoxReported
  BY DEF IInv, QuietKnows, QuietBoxReported
<1> QED
  BY <1>1, Invariance, PTL

\* play interrupts nothing on such a box.
THEOREM PlayStartsFromStopped == Spec => []PlayFindsBoxStopped
<1>1. IInv => PlayFindsBoxStopped
  BY MaxStopsPositive
     DEF IInv, TypeOK, SendJustified, QuietKnows, PlayFindsBoxStopped, Answered
<1> QED
  BY <1>1, Invariance, PTL
=============================================================================
