------------------------------ MODULE EventLoop ------------------------------
(***************************************************************************)
(* The event loop of mongoose under the server: ns_mgr_poll with its three *)
(* passes over the list of connections.  The first expires idle            *)
(* connections and collects what to select, the second does the input and  *)
(* output that select found possible, the third closes what is flagged.    *)
(* Requests are handled in the second pass, and while the remote control   *)
(* waits for the box time goes by for everybody.                           *)
(*                                                                         *)
(* A step is the treatment of one connection in one pass.  Times are kept  *)
(* relative to the present, which makes them bounded.                      *)
(*                                                                         *)
(* The daemon starts by binding its port; nobody looks whether that worked,*)
(* and without it the loop runs over an empty list.                        *)
(***************************************************************************)
EXTENDS Integers, Sequences, SequencesExt

CONSTANTS
    Conns,
    Listener,      \* the listening socket, in the list like a connection
    IdleTimeout,   \* MONGOOSE_IDLE_TIMEOUT_SECONDS: 300 in the code
    MaxBusy        \* the longest time a request is handled for

ASSUME LoopConstants ==
    /\ Listener \notin Conns
    /\ IdleTimeout \in Nat /\ MaxBusy \in Nat

VARIABLES
    list,      \* active_connections
    conn,      \* "live": user_data is set; "dead": in the list without it
    closeNow,  \* NSF_CLOSE_IMMEDIATELY
    finished,  \* NSF_FINISHED_SENDING_DATA
    unsent,    \* connections whose send_iobuf is not empty
    idle,      \* the present - last_io_time
    stale,     \* the present - current_time
    pc,        \* the pass, or the select between the first two, or the start
    todo,      \* the part of the list the pass has still to visit
    readSet, writeSet,
    arrived,   \* peers that have sent a message
    gone,      \* peers that have closed the connection
    answered,  \* history: connections whose request was answered in this poll
    owed       \* history: times accepted minus times MG_CLOSE was called

flags == <<closeNow, finished>>
net == <<arrived, gone>>
poll == <<pc, todo, readSet, writeSet>>
vars == <<list, conn, flags, unsent, idle, stale, poll, net, answered, owed>>

-----------------------------------------------------------------------------
\* Times beyond the timeout are all alike.
Later(t, d) == IF t + d > IdleTimeout THEN IdleTimeout + 1 ELSE t + d

\* The connections mg_next visits: it takes the listener, whose user_data is not
\* set, for the end of the list.
Walk == {c \in Conns : \E i \in DOMAIN list :
            /\ list[i] = c
            /\ \A j \in 1..i : list[j] \in Conns /\ conn[list[j]] = "live"}

Init ==
    /\ list = <<>>
    /\ conn = [c \in Conns |-> "none"]
    /\ closeNow = {} /\ finished = {} /\ unsent = {}
    /\ idle = [c \in Conns |-> 0]
    /\ stale = 0
    /\ pc = "start" /\ todo = <<>>
    /\ readSet = {} /\ writeSet = {}
    /\ arrived = {} /\ gone = {} /\ answered = {}
    /\ owed = [c \in Conns |-> 0]

-----------------------------------------------------------------------------
(* The start *)

\* ns_open_listening_socket: the socket is bound, or the port is taken.
ListeningSockets == {<<>>, <<Listener>>}

\* mg_set_option puts the listening socket into the list; start ignores its result
\* and begins to poll.
Start ==
    /\ pc = "start"
    /\ list' \in ListeningSockets
    /\ pc' = "sets" /\ todo' = list'
    /\ UNCHANGED <<conn, flags, unsent, idle, stale, readSet, writeSet, net, answered, owed>>

-----------------------------------------------------------------------------
(* Closing *)

\* Fault: user_data stays set.
KeepUserData(s) == IF s.conn = "live" THEN [s EXCEPT !.owed = @ - 1] ELSE s

\* NS_CLOSE: MG_CLOSE is called where user_data is set, which is unset.
OnClose(s) == IF s.conn = "live" THEN [conn |-> "dead", owed |-> s.owed - 1] ELSE s

\* Fault: the connection is freed but stays in the list.
StillLinked(c) == list

\* ns_remove_conn: the connection is taken out where it stands.
Unlinked(c) == RemoveAt(list, CHOOSE i \in DOMAIN list : list[i] = c)

\* ns_close_conn: the connection gets NS_CLOSE, for the second time if it has
\* expired, leaves the list and is freed.
CloseConn(c, expired) ==
    /\ LET s == [conn |-> conn[c], owed |-> owed[c]]
       IN owed' = [owed EXCEPT ![c] = IF expired THEN OnClose(OnClose(s)).owed ELSE OnClose(s).owed]
    /\ list' = Unlinked(c)
    /\ conn' = [conn EXCEPT ![c] = "none"]
    /\ closeNow' = closeNow \ {c}
    /\ finished' = finished \ {c}
    /\ unsent' = unsent \ {c}
    /\ arrived' = arrived \ {c}
    /\ gone' = gone \ {c}
    /\ answered' = answered \ {c}

Visit(pass, c) ==
    /\ pc = pass
    /\ todo # <<>>
    /\ c = Head(todo)

\* Once the list is through, the next part of the poll begins.
Advance(next, list2) ==
    IF Len(todo) > 1 THEN todo' = Tail(todo) /\ UNCHANGED pc
                     ELSE todo' = list2 /\ pc' = next

-----------------------------------------------------------------------------
(* First pass *)

\* A pass over an empty list.
NothingToDo ==
    /\ todo = <<>>
    /\ \/ pc = "sets" /\ pc' = "select"
       \/ pc = "io" /\ pc' = "close"
       \/ pc = "close" /\ pc' = "sets"
    /\ UNCHANGED <<list, conn, flags, unsent, idle, stale, todo, readSet, writeSet, net, answered, owed>>

Expired(c) == c \in Conns /\ idle[c] > IdleTimeout

\* Fault: a connection with something to send is not read from.
PrepareEither(c) ==
    /\ Visit("sets", c)
    /\ IF Expired(c) \/ c \in closeNow
       THEN CloseConn(c, Expired(c)) /\ UNCHANGED <<readSet, writeSet>>
       ELSE /\ IF c \in unsent THEN writeSet' = writeSet \cup {c} /\ UNCHANGED readSet
                               ELSE readSet' = readSet \cup {c} /\ UNCHANGED writeSet
            /\ UNCHANGED <<list, conn, flags, unsent, net, answered, owed>>
    /\ Advance("select", <<>>)
    /\ UNCHANGED <<idle, stale>>

\* A connection is closed, if it has expired for the first time, or prepared.
Prepare(c) ==
    /\ Visit("sets", c)
    /\ IF Expired(c) \/ c \in closeNow
       THEN CloseConn(c, Expired(c)) /\ UNCHANGED <<readSet, writeSet>>
       ELSE /\ readSet' = readSet \cup {c}
            /\ writeSet' = IF c \in unsent THEN writeSet \cup {c} ELSE writeSet
            /\ UNCHANGED <<list, conn, flags, unsent, net, answered, owed>>
    /\ Advance("select", <<>>)
    /\ UNCHANGED <<idle, stale>>

\* select returns what is ready, after a second at the latest; a peer may be slow
\* to read.  It may also fail, and the poll is over.
Select(wait) ==
    /\ pc = "select"
    /\ \E accept \in SUBSET (readSet \cap {Listener}), ready \in SUBSET writeSet :
          /\ readSet' = (readSet \cap (arrived \cup gone)) \cup accept
          /\ writeSet' = ready
          /\ readSet' \cup ready = {} => wait = 1
    /\ idle' = [c \in Conns |-> Later(idle[c], wait)]
    /\ stale' = 0
    /\ pc' = "io" /\ todo' = list
    /\ answered' = {}
    /\ UNCHANGED <<list, conn, flags, unsent, net, owed>>

\* A signal ends it at any time.
Interrupted(wait) ==
    /\ pc = "select"
    /\ pc' = "sets" /\ todo' = list
    /\ readSet' = {} /\ writeSet' = {}
    /\ idle' = [c \in Conns |-> Later(idle[c], wait)]
    /\ stale' = Later(stale, wait)
    /\ UNCHANGED <<list, conn, flags, unsent, net, answered, owed>>

-----------------------------------------------------------------------------
(* Second pass *)

\* Fault: connections are added at the end of the list.
AddLast(c) == Append(list, c)

\* ns_add_conn
Added(c) == <<c>> \o list

\* ns_add_sock: the connection has just been used.
AddSock(c) ==
    /\ list' = Added(c)
    /\ idle' = [idle EXCEPT ![c] = 0]

\* A connection is accepted; with no memory for it, it is refused.
Accept(c) ==
    /\ Visit("io", Listener)
    /\ Listener \in readSet
    /\ conn[c] = "none"
    /\ AddSock(c)
    /\ \/ /\ conn' = [conn EXCEPT ![c] = "live"]
          /\ owed' = [owed EXCEPT ![c] = @ + 1]
          /\ UNCHANGED closeNow
       \/ /\ conn' = [conn EXCEPT ![c] = "dead"]
          /\ closeNow' = closeNow \cup {c}
          /\ UNCHANGED owed
    /\ readSet' = readSet \ {Listener}
    /\ UNCHANGED <<finished, unsent, stale, pc, todo, writeSet, net, answered>>

\* Nobody is there to be accepted any more.
AcceptNone ==
    /\ Visit("io", Listener)
    /\ Listener \in readSet
    /\ readSet' = readSet \ {Listener}
    /\ UNCHANGED <<list, conn, flags, unsent, idle, stale, pc, todo, writeSet, net, answered, owed>>

\* close_local_endpoint: full when something is still to be sent.  The end of the
\* file, read after it, closes in any case.
CloseEndpoint(c, keep, full, eof) ==
    /\ closeNow' = IF eof \/ ~(keep \/ full) THEN closeNow \cup {c} ELSE closeNow \ {c}
    /\ finished' = IF ~keep /\ full THEN finished \cup {c} ELSE finished \ {c}

\* last_io_time is set to the time select returned.
Touch(c, d) ==
    /\ idle' = [x \in Conns |-> Later(IF x = c THEN stale ELSE idle[x], d)]
    /\ stale' = Later(stale, d)

\* Fault: only what is sent counts as use.
TouchSent(c, d) ==
    /\ idle' = [x \in Conns |-> Later(idle[x], d)]
    /\ stale' = Later(stale, d)

\* last_io_time is set before the messages are handled.
TouchRead(c, d) == Touch(c, d)

\* Fault: the end of the file is no error, so the connection stays.
ReadsOn(c) == FALSE

\* Behind what has arrived, the end of the file is read.
ReadsEnd(c) == c \in gone

\* Data without a complete message is buffered; the end of file closes.
Incomplete(c) ==
    /\ Visit("io", c)
    /\ c \in Conns /\ c \in readSet
    /\ readSet' = readSet \ {c}
    /\ arrived' = arrived \ {c}
    /\ closeNow' = IF ReadsEnd(c) THEN closeNow \cup {c} ELSE closeNow
    /\ TouchRead(c, 0)
    /\ UNCHANGED <<list, conn, finished, unsent, pc, todo, writeSet, gone, answered, owed>>

\* A message is handled: a request is answered, and the connections of its
\* session may be notified; data on a reverse connection gets no answer.
Handle(c, d, keep, answer, notify) ==
    /\ Visit("io", c)
    /\ c \in Conns /\ c \in readSet \cap arrived
    /\ readSet' = readSet \ {c}
    /\ arrived' = arrived \ {c}
    /\ unsent' = unsent \cup (IF answer THEN {c} ELSE {}) \cup (IF notify THEN Walk \ {c} ELSE {})
    /\ CloseEndpoint(c, keep, c \in unsent', ReadsEnd(c))
    /\ answered' = IF answer THEN answered \cup {c} ELSE answered
    /\ TouchRead(c, d)
    /\ UNCHANGED <<list, conn, pc, todo, writeSet, gone, owed>>

\* What is to be sent is sent, all or a part of it, or the connection fails.
Send(c) ==
    /\ Visit("io", c)
    /\ c \in writeSet /\ c \notin readSet
    /\ writeSet' = writeSet \ {c}
    /\ Touch(c, 0)
    /\ \/ unsent' \in {unsent, unsent \ {c}} /\ UNCHANGED closeNow
       \/ c \in gone /\ closeNow' = closeNow \cup {c} /\ UNCHANGED unsent
    /\ UNCHANGED <<list, conn, finished, pc, todo, readSet, net, answered, owed>>

Pass(c) ==
    /\ Visit("io", c)
    /\ c \notin readSet \cup writeSet
    /\ Advance("close", list)
    /\ UNCHANGED <<list, conn, flags, unsent, idle, stale, readSet, writeSet, net, answered, owed>>

-----------------------------------------------------------------------------
(* Third pass *)

Flagged(c) == c \in closeNow \/ (c \in finished /\ c \notin unsent)

CloseFlagged(c) ==
    /\ Visit("close", c)
    /\ IF Flagged(c)
       THEN CloseConn(c, FALSE)
       ELSE UNCHANGED <<list, conn, flags, unsent, net, answered, owed>>
    /\ Advance("sets", IF Flagged(c) THEN Unlinked(c) ELSE list)
    /\ UNCHANGED <<idle, stale, readSet, writeSet>>

-----------------------------------------------------------------------------
(* The peers *)

Arrive(c) ==
    /\ conn[c] # "none" /\ c \notin arrived \cup gone
    /\ arrived' = arrived \cup {c}
    /\ UNCHANGED <<list, conn, flags, unsent, idle, stale, poll, gone, answered, owed>>

Leave(c) ==
    /\ conn[c] # "none" /\ c \notin gone
    /\ gone' = gone \cup {c}
    /\ UNCHANGED <<list, conn, flags, unsent, idle, stale, poll, arrived, answered, owed>>

Loop ==
    \/ Start
    \/ NothingToDo
    \/ \E c \in Conns \cup {Listener} : Prepare(c) \/ Pass(c) \/ CloseFlagged(c)
    \/ \E wait \in {0, 1} : Select(wait) \/ Interrupted(wait)
    \/ AcceptNone
    \/ \E c \in Conns :
          \/ Accept(c) \/ Incomplete(c) \/ Send(c)
          \/ \E d \in 0..MaxBusy, keep, answer, notify \in BOOLEAN :
                Handle(c, d, keep, answer, notify)

Next == Loop \/ \E c \in Conns : Arrive(c) \/ Leave(c)

Spec == Init /\ [][Next]_vars

\* mg_poll_server is called for ever, and no callback blocks for ever.
FairSpec == Spec /\ WF_vars(Loop) /\ SF_vars(\E wait \in {0, 1} : Select(wait))

-----------------------------------------------------------------------------
(* Properties *)

Live == {c \in Conns : conn[c] = "live"}

Members == {Listener} \cup {c \in Conns : conn[c] # "none"}

\* The types; the list, when there is one, holds the listener and each connection
\* that is not freed once, and so does the part a pass has still to visit.
TypeOK ==
    /\ conn \in [Conns -> {"none", "live", "dead"}]
    /\ \A s \in {list, todo} : IsInjective(s)
    /\ ToSet(list) = IF list = <<>> THEN {} ELSE Members
    /\ list = <<>> => Members = {Listener}
    /\ ToSet(todo) \subseteq Members
    /\ \A s \in {closeNow, finished, unsent, arrived, gone, answered} : s \subseteq Members \ {Listener}
    /\ idle \in [Conns -> 0..(IdleTimeout + 1)]
    /\ stale \in 0..(IdleTimeout + 1)
    /\ pc \in {"start", "sets", "select", "io", "close"}
    /\ readSet \subseteq Conns \cup {Listener} /\ writeSet \subseteq Conns
    /\ owed \in [Conns -> Int]

\* MG_CLOSE is called once for each connection that was accepted, although an idle
\* connection gets NS_CLOSE twice: the AirPlay server counts its reverse connections
\* down in MG_CLOSE.
ClosedOnce == \A c \in Conns : owed[c] = IF conn[c] = "live" THEN 1 ELSE 0

\* Whenever a message may be handled, its connection has its data, and mg_next, that
\* takes any connection without user_data for the end of the list, visits all live
\* connections: an event reaches every reverse connection.
EventsReachAll ==
    pc = "io" /\ todo # <<>> /\ Head(todo) \in Conns \cap (readSet \cup writeSet)
        => Head(todo) \in Live /\ Walk = Live

\* A connection whose request was answered is not closed before the answer can be
\* sent, unless its peer has closed it: waiting for the requests of the others does
\* not make it count as idle.  The one exception is a poll that has lasted longer than
\* connections may idle, all its requests together: to mongoose a connection was last
\* used when select returned, however late it was answered (mongoose.c 1132, 1161, 5459).
AnswerKept ==
    [][\A c \in answered \cap unsent :
          conn[c] = "live" /\ conn'[c] # "live" => c \in gone \/ stale > IdleTimeout]_vars

\* What a peer has sent is read in the end, unless its connection is closed.
MessageRead(c) == c \in arrived ~> c \notin arrived

\* A connection whose peer is gone is closed in the end, which gives the slot of a
\* reverse connection back, whatever the other connections do (AirPlay.cpp 49-55,
\* mongoose.c 1017 and 1177).
GoneClosed(c) == c \in gone ~> conn[c] = "none"
=============================================================================
