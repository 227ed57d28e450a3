---------------------------- MODULE EventLoop_proofs ----------------------------
(***************************************************************************)
(* For any connections, idle timeout and time a request may take: MG_CLOSE *)
(* comes once for each connection; the list that a pass and mg_next walk   *)
(* keeps its shape, so an event reaches every live connection; and no      *)
(* connection expires before its answer can be sent, unless the poll it    *)
(* was answered in lasted longer than connections may idle.                *)
(***************************************************************************)
EXTENDS EventLoop, SequenceTheorems, TLAPS

\* The part of the types the calls of MG_CLOSE depend on.
CallTypes ==
    /\ conn \in [Conns -> {"none", "live", "dead"}]
    /\ owed \in [Conns -> Int]

\* user_data is set exactly where MG_CLOSE is still owed: this is inductive.
CloseInv == CallTypes /\ ClosedOnce

\* The part of the state the invariant reads.
calls == <<conn, owed>>

-----------------------------------------------------------------------------
\* NS_CLOSE, once or twice, settles what is owed where user_data tells it.
LEMMA CloseCallsOnce ==
    ASSUME NEW k, NEW n \in Int, n = IF k = "live" THEN 1 ELSE 0
    PROVE  /\ OnClose([conn |-> k, owed |-> n]).owed = 0
           /\ OnClose(OnClose([conn |-> k, owed |-> n])).owed = 0
  BY DEF OnClose

\* ns_close_conn settles what is owed to the connection it frees.
LEMMA CloseConnSettles ==
    ASSUME CloseInv, NEW c \in Conns \cup {Listener}, NEW expired \in BOOLEAN,
           CloseConn(c, expired)
    PROVE  CloseInv'
  <1> DEFINE s == [conn |-> conn[c], owed |-> owed[c]]
  <1>1. CASE c \in Conns
    <2>1. owed[c] \in Int
      BY <1>1 DEF CloseInv, CallTypes
    <2>2. owed[c] = IF conn[c] = "live" THEN 1 ELSE 0
      BY <1>1 DEF CloseInv, ClosedOnce
    <2>3. OnClose(s).owed = 0 /\ OnClose(OnClose(s)).owed = 0
      BY <2>1, <2>2, CloseCallsOnce
    <2>4. owed' = [owed EXCEPT ![c] = 0] /\ conn' = [conn EXCEPT ![c] = "none"]
      BY <2>3 DEF CloseConn
    <2> QED  BY <1>1, <2>4 DEF CloseInv, CallTypes, ClosedOnce
  <1>2. CASE c \notin Conns
    <2>1. owed' = owed /\ conn' = conn
      BY <1>2 DEF CloseConn, CloseInv, CallTypes
    <2> QED  BY <2>1 DEF CloseInv, CallTypes, ClosedOnce
  <1> QED  BY <1>1, <1>2

\* A step that touches neither user_data nor the calls of MG_CLOSE.
LEMMA CallsUnchanged ==
    ASSUME CloseInv, UNCHANGED calls
    PROVE  CloseInv'
  BY DEF CloseInv, CallTypes, ClosedOnce, calls

\* Every step of the loop and of the peers preserves the invariant.
LEMMA NextSettles ==
    ASSUME CloseInv, [Next]_vars
    PROVE  CloseInv'
  <1>1. ASSUME NEW c \in Conns \cup {Listener}, Prepare(c)
        PROVE  CloseInv'
    <2>1. CASE Expired(c) \/ c \in closeNow
      <3>1. CloseConn(c, Expired(c)) /\ Expired(c) \in BOOLEAN
        BY <1>1, <2>1 DEF Prepare, Expired
      <3> QED  BY <3>1, CloseConnSettles
    <2>2. CASE ~(Expired(c) \/ c \in closeNow)
      BY <1>1, <2>2, CallsUnchanged DEF Prepare, calls
    <2> QED  BY <2>1, <2>2
  <1>2. ASSUME NEW c \in Conns \cup {Listener}, CloseFlagged(c)
        PROVE  CloseInv'
    <2>1. CASE Flagged(c)
      BY <1>2, <2>1, CloseConnSettles DEF CloseFlagged
    <2>2. CASE ~Flagged(c)
      BY <1>2, <2>2, CallsUnchanged DEF CloseFlagged, calls
    <2> QED  BY <2>1, <2>2
  <1>3. ASSUME NEW c \in Conns, Accept(c)
        PROVE  CloseInv'
    <2>1. CASE /\ conn' = [conn EXCEPT ![c] = "live"]
               /\ owed' = [owed EXCEPT ![c] = @ + 1]
      BY <1>3, <2>1 DEF Accept, CloseInv, CallTypes, ClosedOnce
    <2>2. CASE conn' = [conn EXCEPT ![c] = "dead"] /\ UNCHANGED owed
      BY <1>3, <2>2 DEF Accept, CloseInv, CallTypes, ClosedOnce
    <2> QED  BY <1>3, <2>1, <2>2 DEF Accept
  <1>4. ASSUME NEW c \in Conns \cup {Listener}, Pass(c)
        PROVE  CloseInv'
    BY <1>4, CallsUnchanged DEF Pass, calls
  <1>5. ASSUME NEW wait \in {0, 1}, Select(wait) \/ Interrupted(wait)
        PROVE  CloseInv'
    BY <1>5, CallsUnchanged DEF Select, Interrupted, calls
  <1>6. CASE Start \/ NothingToDo \/ AcceptNone
    BY <1>6, CallsUnchanged DEF Start, NothingToDo, AcceptNone, calls
  <1>7. ASSUME NEW c \in Conns, Incomplete(c) \/ Send(c) \/ Arrive(c) \/ Leave(c)
        PROVE  CloseInv'
    BY <1>7, CallsUnchanged DEF Incomplete, Send, Arrive, Leave, calls
  <1>8. ASSUME NEW c \in Conns, NEW d \in 0..MaxBusy,
               NEW keep \in BOOLEAN, NEW answer \in BOOLEAN, NEW notify \in BOOLEAN,
               Handle(c, d, keep, answer, notify)
        PROVE  CloseInv'
    BY <1>8, CallsUnchanged DEF Handle, calls
  <1>9. CASE UNCHANGED vars
    BY <1>9, CallsUnchanged DEF vars, calls
  <1>10. CASE Loop
    BY <1>1, <1>2, <1>3, <1>4, <1>5, <1>6, <1>7, <1>8, <1>10 DEF Loop
  <1> QED  BY <1>7, <1>9, <1>10 DEF Next

-----------------------------------------------------------------------------
\* MG_CLOSE is called exactly once for every connection that was accepted: the
\* AirPlay server, that counts its reverse connections down there, never counts one
\* twice, whatever idle connections and failing clients do.
THEOREM ClosesOnce == Spec => []ClosedOnce
  <1>1. Init => CloseInv
    BY DEF Init, CloseInv, CallTypes, ClosedOnce
  <1>2. CloseInv /\ [Next]_vars => CloseInv'
    BY NextSettles
  <1>3. CloseInv => ClosedOnce
    BY DEF CloseInv
  <1> QED  BY <1>1, <1>2, <1>3, PTL DEF Spec

-----------------------------------------------------------------------------
(* The list *)

\* What stands in the list of the loop.
Elements == Conns \cup {Listener}

\* A list that has each element once and ends with the listener.
Shape(s) ==
    /\ s \in Seq(Elements)
    /\ \A i, j \in 1..Len(s) : s[i] = s[j] => i = j
    /\ s # <<>> => s[Len(s)] = Listener

\* x stands somewhere in s.
In(x, s) == \E i \in 1..Len(s) : s[i] = x

\* A sequence with elements is not the empty one.
LEMMA LongerThanEmpty ==
    ASSUME NEW S, NEW s \in Seq(S), Len(s) > 0
    PROVE  s # <<>>
  OBVIOUS

\* What a pass has still to visit once its head has been visited.
LEMMA TailShape ==
    ASSUME NEW s, Shape(s), Len(s) > 1
    PROVE  /\ Shape(Tail(s)) /\ Tail(s) # <<>>
           /\ \A x : In(x, Tail(s)) <=> x # Head(s) /\ In(x, s)
  <1>1. /\ s \in Seq(Elements) /\ s # <<>> /\ Len(s) \in Nat
        /\ \A i, j \in 1..Len(s) : s[i] = s[j] => i = j
        /\ s[Len(s)] = Listener
    BY DEF Shape
  <1>2. /\ Tail(s) \in Seq(Elements) /\ Len(Tail(s)) = Len(s) - 1
        /\ \A i \in 1..Len(Tail(s)) : Tail(s)[i] = s[i + 1]
        /\ Head(s) = s[1]
    BY <1>1
  <1>3. Tail(s) # <<>> /\ Tail(s)[Len(Tail(s))] = Listener
    <2>1. /\ Len(Tail(s)) \in 1..Len(Tail(s)) /\ Len(Tail(s)) + 1 = Len(s)
          /\ Len(Tail(s)) > 0
      BY <1>1, <1>2
    <2>2. Tail(s) # <<>>
      <3> DEFINE t == Tail(s)
      <3>1. t \in Seq(Elements) /\ Len(t) > 0
        BY <1>2, <2>1
      <3> HIDE DEF t
      <3>2. t # <<>>
        BY <3>1, LongerThanEmpty
      <3> QED  BY <3>2 DEF t
    <2> QED  BY <1>1, <1>2, <2>1, <2>2
  <1>4. \A i, j \in 1..Len(Tail(s)) : Tail(s)[i] = Tail(s)[j] => i = j
    BY <1>1, <1>2
  <1>5. ASSUME NEW x PROVE In(x, Tail(s)) <=> x # Head(s) /\ In(x, s)
    <2>1. ASSUME NEW i \in 1..Len(Tail(s)), Tail(s)[i] = x
          PROVE  x # Head(s) /\ In(x, s)
      <3>1. i + 1 \in 1..Len(s) /\ s[i + 1] = x /\ i + 1 # 1 /\ 1 \in 1..Len(s)
        BY <1>1, <1>2, <2>1
      <3> QED  BY <1>1, <1>2, <3>1 DEF In
    <2>2. ASSUME NEW i \in 1..Len(s), s[i] = x, x # Head(s)
          PROVE  In(x, Tail(s))
      <3>1. i - 1 \in 1..Len(Tail(s)) /\ Tail(s)[i - 1] = x
        BY <1>1, <1>2, <2>2
      <3> QED  BY <3>1 DEF In
    <2> QED  BY <2>1, <2>2 DEF In
  <1> QED  BY <1>2, <1>3, <1>4, <1>5 DEF Shape

\* RemoveAt closes the gap it makes.
LEMMA RemoveAtProperties ==
    ASSUME NEW S, NEW s \in Seq(S), NEW k \in 1..Len(s)
    PROVE  /\ RemoveAt(s, k) \in Seq(S)
           /\ Len(RemoveAt(s, k)) = Len(s) - 1
           /\ \A i \in 1..Len(s) - 1 : RemoveAt(s, k)[i] = IF i < k THEN s[i] ELSE s[i + 1]
  <1> DEFINE a == SubSeq(s, 1, k - 1)
             b == SubSeq(s, k + 1, Len(s))
  <1>1. /\ a \in Seq(S) /\ Len(a) = k - 1
        /\ \A i \in 1..k - 1 : a[i] = s[i]
    OBVIOUS
  <1>2. /\ b \in Seq(S) /\ Len(b) = Len(s) - k
        /\ \A i \in 1..Len(s) - k : b[i] = s[k + i]
    OBVIOUS
  <1>3. RemoveAt(s, k) = a \o b
    BY DEF RemoveAt
  <1> HIDE DEF a, b
  <1>4. /\ a \o b \in Seq(S) /\ Len(a \o b) = Len(s) - 1
        /\ \A i \in 1..Len(s) - 1 : (a \o b)[i] = IF i <= Len(a) THEN a[i] ELSE b[i - Len(a)]
    <2>1. Len(s) \in Nat
      OBVIOUS
    <2>2. /\ a \o b \in Seq(S) /\ Len(a \o b) = Len(a) + Len(b)
          /\ \A i \in 1 .. Len(a) + Len(b) :
                (a \o b)[i] = IF i <= Len(a) THEN a[i] ELSE b[i - Len(a)]
      BY <1>1, <1>2, ConcatProperties
    <2> QED  BY <1>1, <1>2, <2>1, <2>2
  <1>5. ASSUME NEW i \in 1..Len(s) - 1
        PROVE  (a \o b)[i] = IF i < k THEN s[i] ELSE s[i + 1]
    BY <1>1, <1>2, <1>4
  <1> QED  BY <1>3, <1>4, <1>5

\* ns_remove_conn takes one connection out and leaves the others in their order.
LEMMA UnlinkedShape ==
    ASSUME Shape(list), NEW c, c # Listener, In(c, list)
    PROVE  /\ Shape(Unlinked(c)) /\ Unlinked(c) # <<>>
           /\ \A x : In(x, Unlinked(c)) <=> x # c /\ In(x, list)
  <1> DEFINE k == CHOOSE i \in DOMAIN list : list[i] = c
             u == Unlinked(c)
  <1>1. /\ list \in Seq(Elements) /\ Len(list) \in Nat /\ DOMAIN list = 1..Len(list)
        /\ \A i, j \in 1..Len(list) : list[i] = list[j] => i = j
        /\ list # <<>> => list[Len(list)] = Listener
    BY DEF Shape
  <1>2. k \in 1..Len(list) /\ list[k] = c
    BY <1>1 DEF In
  <1>3. k < Len(list)
    BY <1>1, <1>2
  <1>4. u = RemoveAt(list, k)
    BY DEF Unlinked
  <1> HIDE DEF k, u
  <1>5. /\ u \in Seq(Elements) /\ Len(u) = Len(list) - 1
        /\ \A i \in 1..Len(list) - 1 : u[i] = IF i < k THEN list[i] ELSE list[i + 1]
    BY <1>1, <1>2, <1>4, RemoveAtProperties
  <1>6. u # <<>> /\ u[Len(u)] = Listener
    BY <1>1, <1>2, <1>3, <1>5
  <1>7. ASSUME NEW i \in 1..Len(u), NEW j \in 1..Len(u), u[i] = u[j] PROVE i = j
    <2> DEFINE p(n) == IF n < k THEN n ELSE n + 1
    <2>1. p(i) \in 1..Len(list) /\ p(j) \in 1..Len(list) /\ u[i] = list[p(i)] /\ u[j] = list[p(j)]
      BY <1>1, <1>2, <1>5
    <2>2. p(i) = p(j)
      BY <1>1, <1>7, <2>1
    <2> QED  BY <1>1, <1>2, <1>5, <2>2
  <1>8. ASSUME NEW x PROVE In(x, u) <=> x # c /\ In(x, list)
    <2>1. ASSUME NEW i \in 1..Len(u), u[i] = x PROVE x # c /\ In(x, list)
      <3>1. CASE i < k
        BY <1>1, <1>2, <1>5, <2>1, <3>1 DEF In
      <3>2. CASE i >= k
        BY <1>1, <1>2, <1>5, <2>1, <3>2 DEF In
      <3> QED  BY <1>1, <1>2, <1>5, <3>1, <3>2
    <2>2. ASSUME NEW i \in 1..Len(list), list[i] = x, x # c PROVE In(x, u)
      <3>1. CASE i < k
        BY <1>1, <1>2, <1>5, <2>2, <3>1 DEF In
      <3>2. CASE i > k
        <4>1. i - 1 \in 1..Len(u) /\ u[i - 1] = x
          BY <1>1, <1>2, <1>5, <2>2, <3>2
        <4> QED  BY <4>1 DEF In
      <3> QED  BY <1>1, <1>2, <2>2, <3>1, <3>2
    <2> QED  BY <2>1, <2>2 DEF In
  <1> QED  BY <1>5, <1>6, <1>7, <1>8 DEF Shape, u

\* ns_add_conn puts a connection in front of the others.
LEMMA AddedShape ==
    ASSUME Shape(list), NEW c \in Conns, ~In(c, list), list # <<>>
    PROVE  /\ Shape(Added(c)) /\ Added(c) # <<>>
           /\ \A x : In(x, Added(c)) <=> x = c \/ In(x, list)
  <1> DEFINE u == <<c>> \o list
  <1>1. /\ list \in Seq(Elements) /\ Len(list) \in Nat
        /\ \A i, j \in 1..Len(list) : list[i] = list[j] => i = j
        /\ list[Len(list)] = Listener
    BY DEF Shape
  <1>2. /\ u \in Seq(Elements) /\ Len(u) = Len(list) + 1
        /\ u[1] = c /\ \A i \in 2..Len(u) : u[i] = list[i - 1]
    <2>1. <<c>> \in Seq(Elements) /\ Len(<<c>>) = 1 /\ <<c>>[1] = c
      BY DEF Elements
    <2> QED  BY <1>1, <2>1
  <1> HIDE DEF u
  <1>3. u # <<>> /\ u[Len(u)] = Listener
    BY <1>1, <1>2
  <1>4. ASSUME NEW i \in 1..Len(u), NEW j \in 1..Len(u), u[i] = u[j] PROVE i = j
    BY <1>1, <1>2, <1>4 DEF In
  <1>5. ASSUME NEW x PROVE In(x, u) <=> x = c \/ In(x, list)
    <2>1. ASSUME NEW i \in 1..Len(list), list[i] = x PROVE In(x, u)
      <3>1. i + 1 \in 1..Len(u) /\ u[i + 1] = x
        BY <1>1, <1>2, <2>1
      <3> QED  BY <3>1 DEF In
    <2>2. ASSUME NEW i \in 1..Len(u), u[i] = x PROVE  x = c \/ In(x, list)
      <3>1. CASE i = 1
        BY <1>2, <2>2, <3>1
      <3>2. CASE i # 1
        <4>1. i - 1 \in 1..Len(list) /\ list[i - 1] = x
          BY <1>1, <1>2, <2>2, <3>2
        <4> QED  BY <4>1 DEF In
      <3> QED  BY <3>1, <3>2
    <2>3. In(c, u)
      BY <1>1, <1>2 DEF In
    <2> QED  BY <2>1, <2>2, <2>3 DEF In
  <1> QED  BY <1>2, <1>3, <1>4, <1>5 DEF Shape, Added, u

-----------------------------------------------------------------------------
(* The invariant of the loop *)

\* The connections that are not freed.
Linked == {c \in Conns : conn[c] # "none"}

LoopTypes ==
    /\ conn \in [Conns -> {"none", "live", "dead"}]
    /\ idle \in [Conns -> 0..(IdleTimeout + 1)]
    /\ stale \in 0..(IdleTimeout + 1)
    /\ pc \in {"start", "sets", "select", "io", "close"}
    /\ readSet \subseteq Elements /\ writeSet \subseteq Conns
    /\ owed \in [Conns -> Int]

\* The list holds the connections that are not freed.
ListInv ==
    /\ Shape(list)
    /\ \A c \in Conns : In(c, list) <=> conn[c] # "none"
    /\ pc = "start" => list = <<>>

\* A pass visits connections that are not freed and, last, the listener.
TodoInv ==
    /\ Shape(todo)
    /\ \A c \in Conns : In(c, todo) => conn[c] # "none"
    /\ todo # <<>> => list # <<>>

\* A connection without user_data comes when the listener, the end of the list, is
\* visited, and goes in the next pass.
DeadInv ==
    \A c \in Conns : conn[c] = "dead" =>
        /\ c \in closeNow
        /\ \/ pc = "close" /\ In(c, todo)
           \/ pc = "io" /\ todo # <<>> /\ Head(todo) = Listener

\* What is freed has left no trace.
SetsInv ==
    /\ closeNow \subseteq Linked /\ finished \subseteq Linked /\ unsent \subseteq Linked
    /\ arrived \subseteq Linked /\ gone \subseteq Linked /\ answered \subseteq Linked

LoopInv == LoopTypes /\ ListInv /\ TodoInv /\ DeadInv /\ SetsInv

\* The connection a pass visits; the listener is the last.
LEMMA HeadOfTodo ==
    ASSUME TodoInv, todo # <<>>
    PROVE  /\ Head(todo) \in Elements /\ In(Head(todo), todo)
           /\ Head(todo) = Listener <=> ~(Len(todo) > 1)
           /\ Head(todo) = Listener => \A c \in Conns : ~In(c, todo)
           /\ Head(todo) \in Conns => conn[Head(todo)] # "none"
  <1>1. /\ todo \in Seq(Elements) /\ Len(todo) \in Nat /\ Len(todo) >= 1
        /\ \A i, j \in 1..Len(todo) : todo[i] = todo[j] => i = j
        /\ todo[Len(todo)] = Listener
    BY EmptySeq DEF TodoInv, Shape
  <1>2. 1 \in 1..Len(todo) /\ Len(todo) \in 1..Len(todo) /\ Head(todo) = todo[1]
    BY <1>1
  <1>3. Head(todo) \in Elements /\ In(Head(todo), todo)
    BY <1>1, <1>2 DEF In
  <1>4. Head(todo) = Listener <=> ~(Len(todo) > 1)
    BY <1>1, <1>2
  <1>5. Head(todo) = Listener => \A c \in Conns : ~In(c, todo)
    BY <1>1, <1>2, LoopConstants DEF In
  <1> QED  BY <1>3, <1>4, <1>5 DEF TodoInv

\* While connections are treated, none of them lacks its user_data.
LEMMA NoneDead ==
    ASSUME TodoInv, DeadInv, pc = "io", todo # <<>>, Head(todo) \in Conns
    PROVE  \A c \in Conns : conn[c] # "dead"
  BY HeadOfTodo, LoopConstants DEF DeadInv

\* A step that leaves the list, the pass and the connections where they are keeps
\* their parts of the invariant.
LEMMA StaysInPlace ==
    ASSUME ListInv, TodoInv, UNCHANGED <<list, todo, pc, conn>>
    PROVE  ListInv' /\ TodoInv'
  BY DEF ListInv, TodoInv, Shape, In

\* No connection without user_data: nothing to keep in the close pass.
LEMMA NoneDeadKept ==
    ASSUME \A c \in Conns : conn[c] # "dead", UNCHANGED conn
    PROVE  DeadInv'
  BY DEF DeadInv

\* Where there is no pass, or its list is through, no connection lacks its user_data.
LEMMA NoneDeadBetween ==
    ASSUME DeadInv, pc \in {"start", "sets", "select"} \/ todo = <<>>
    PROVE  \A c \in Conns : conn[c] # "dead"
  BY DEF DeadInv, In

\* Once a connection is treated, the pass goes on behind it, or it is over, and the
\* listener was the last.
LEMMA AdvanceVisits ==
    ASSUME TodoInv, todo # <<>>, NEW next, NEW list2, Advance(next, list2)
    PROVE  \/ /\ Head(todo) # Listener /\ pc' = pc
              /\ Shape(todo') /\ todo' # <<>>
              /\ \A x : In(x, todo') <=> x # Head(todo) /\ In(x, todo)
           \/ /\ Head(todo) = Listener
              /\ todo' = list2 /\ pc' = next
  <1>1. CASE Len(todo) > 1
    <2>1. todo' = Tail(todo) /\ pc' = pc
      BY <1>1 DEF Advance
    <2> QED  BY <1>1, <2>1, TailShape, HeadOfTodo DEF TodoInv
  <1>2. CASE ~(Len(todo) > 1)
    BY <1>2, HeadOfTodo DEF Advance
  <1> QED  BY <1>1, <1>2

\* NS_CLOSE counts.
LEMMA CloseConnOwes ==
    ASSUME NEW c \in Conns, owed \in [Conns -> Int], NEW expired \in BOOLEAN,
           CloseConn(c, expired)
    PROVE  owed' \in [Conns -> Int]
  <1>1. ASSUME NEW k, NEW n \in Int
        PROVE  /\ OnClose([conn |-> k, owed |-> n]).owed \in Int
               /\ OnClose(OnClose([conn |-> k, owed |-> n])).owed \in Int
    BY DEF OnClose
  <1> DEFINE s == [conn |-> conn[c], owed |-> owed[c]]
             n == IF expired THEN OnClose(OnClose(s)).owed ELSE OnClose(s).owed
  <1>2. n \in Int
    BY <1>1
  <1>3. owed' = [owed EXCEPT ![c] = n]
    BY DEF CloseConn
  <1> HIDE DEF n
  <1> QED  BY <1>2, <1>3

\* ns_close_conn frees the connection everywhere and leaves the others alone.
LEMMA CloseConnFrees ==
    ASSUME LoopInv, NEW c \in Conns, conn[c] # "none", NEW expired \in BOOLEAN,
           CloseConn(c, expired)
    PROVE  /\ conn' \in [Conns -> {"none", "live", "dead"}]
           /\ \A x \in Conns : conn'[x] = IF x = c THEN "none" ELSE conn[x]
           /\ Shape(list') /\ list' # <<>>
           /\ \A x \in Conns : In(x, list') <=> conn'[x] # "none"
           /\ \A x \in Conns : x # c /\ x \in closeNow => x \in closeNow'
           /\ SetsInv'
  <1>1. conn' = [conn EXCEPT ![c] = "none"] /\ list' = Unlinked(c)
    BY DEF CloseConn
  <1>2. /\ conn' \in [Conns -> {"none", "live", "dead"}]
        /\ \A x \in Conns : conn'[x] = IF x = c THEN "none" ELSE conn[x]
    BY <1>1 DEF LoopInv, LoopTypes
  <1>3. In(c, list) /\ c # Listener /\ Shape(list)
    BY LoopConstants DEF LoopInv, ListInv
  <1>4. /\ Shape(list') /\ list' # <<>>
        /\ \A x : In(x, list') <=> x # c /\ In(x, list)
    BY <1>1, <1>3, UnlinkedShape
  <1>5. \A x \in Conns : In(x, list') <=> conn'[x] # "none"
    BY <1>2, <1>4 DEF LoopInv, ListInv
  <1>6. \A x \in Conns : x # c /\ x \in closeNow => x \in closeNow'
    BY DEF CloseConn
  <1>7. SetsInv'
    BY <1>2 DEF CloseConn, LoopInv, SetsInv, Linked
  <1> QED  BY <1>2, <1>4, <1>5, <1>6, <1>7

\* A time stays in its bounds, and no more goes by than goes by.
LEMMA LaterBounded ==
    ASSUME NEW t \in 0..(IdleTimeout + 1), NEW d \in Nat
    PROVE  Later(t, d) \in 0..(IdleTimeout + 1) /\ Later(t, d) <= t + d
  BY LoopConstants DEF Later

-----------------------------------------------------------------------------
(* The steps keep the invariant *)

LEMMA StartKeeps ==
    ASSUME LoopInv, Start
    PROVE  LoopInv'
  <1>1. /\ list = <<>> /\ list' \in {<<>>, <<Listener>>} /\ todo' = list' /\ pc' = "sets"
        /\ UNCHANGED <<conn, flags, unsent, idle, stale, readSet, writeSet, net, answered, owed>>
    BY DEF Start, ListeningSockets, LoopInv, ListInv
  <1>2. \A c \in Conns : conn[c] = "none"
    BY <1>1 DEF LoopInv, ListInv, In
  <1>3. Shape(list') /\ \A c \in Conns : ~In(c, list')
    <2>1. Listener \notin Conns /\ Listener \in Elements
      BY LoopConstants DEF Elements
    <2>2. CASE list' = <<>>
      BY <2>2 DEF Shape, In
    <2>3. CASE list' = <<Listener>>
      <3>1. list' \in Seq(Elements) /\ Len(list') = 1 /\ list'[1] = Listener
        BY <2>1, <2>3
      <3> QED  BY <2>1, <3>1 DEF Shape, In
    <2> QED  BY <1>1, <2>2, <2>3
  <1> QED  BY <1>1, <1>2, <1>3
      DEF LoopInv, LoopTypes, ListInv, TodoInv, DeadInv, SetsInv, Linked, flags, net

LEMMA NothingToDoKeeps ==
    ASSUME LoopInv, NothingToDo
    PROVE  LoopInv'
  <1>1. /\ todo = <<>> /\ pc' \in {"sets", "select", "close"}
        /\ UNCHANGED <<list, conn, flags, unsent, idle, stale, todo, readSet, writeSet,
                       net, answered, owed>>
    BY DEF NothingToDo
  <1>2. \A c \in Conns : conn[c] # "dead"
    BY <1>1, NoneDeadBetween DEF LoopInv
  <1> QED  BY <1>1, <1>2
      DEF LoopInv, LoopTypes, ListInv, TodoInv, DeadInv, SetsInv, Linked, Shape, In, flags, net

LEMMA PassKeeps ==
    ASSUME LoopInv, NEW c, Pass(c)
    PROVE  LoopInv'
  <1>1. /\ pc = "io" /\ todo # <<>> /\ Advance("close", list)
        /\ UNCHANGED <<list, conn, flags, unsent, idle, stale, readSet, writeSet,
                       net, answered, owed>>
    BY DEF Pass, Visit
  <1>2. LoopTypes' /\ SetsInv' /\ ListInv'
    <2>1. pc' \in {"io", "close"}
      BY <1>1 DEF Advance
    <2>2. LoopTypes'
      BY <1>1, <2>1 DEF LoopInv, LoopTypes, net
    <2>3. SetsInv'
      BY <1>1 DEF LoopInv, SetsInv, Linked, flags, net
    <2>4. ListInv'
      BY <1>1, <2>1 DEF LoopInv, ListInv
    <2> QED  BY <2>2, <2>3, <2>4
  <1>3. CASE /\ Head(todo) # Listener /\ pc' = pc
             /\ Shape(todo') /\ todo' # <<>>
             /\ \A x : In(x, todo') <=> x # Head(todo) /\ In(x, todo)
    <2>1. TodoInv'
      BY <1>1, <1>3 DEF LoopInv, TodoInv
    <2>2. \A x \in Conns : conn[x] # "dead"
      BY <1>1, <1>3 DEF LoopInv, DeadInv
    <2> QED  BY <1>1, <1>2, <2>1, <2>2, NoneDeadKept DEF LoopInv
  <1>4. CASE todo' = list /\ pc' = "close"
    <2>1. TodoInv'
      BY <1>1, <1>4 DEF LoopInv, ListInv, TodoInv
    <2>2. DeadInv'
      BY <1>1, <1>4 DEF LoopInv, ListInv, LoopTypes, DeadInv, flags
    <2> QED  BY <1>2, <2>1, <2>2 DEF LoopInv
  <1> QED  BY <1>1, <1>3, <1>4, AdvanceVisits DEF LoopInv

LEMMA PrepareKeeps ==
    ASSUME LoopInv, NEW c \in Elements, Prepare(c)
    PROVE  LoopInv'
  <1>1. /\ pc = "sets" /\ todo # <<>> /\ c = Head(todo)
        /\ Advance("select", <<>>) /\ UNCHANGED <<idle, stale>>
    BY DEF Prepare, Visit
  <1>2. \A x \in Conns : conn[x] # "dead"
    BY <1>1, NoneDeadBetween DEF LoopInv
  <1>3. pc' \in {"sets", "select"}
    BY <1>1 DEF Advance
  <1>4. /\ Shape(todo')
        /\ \A x \in Conns : In(x, todo') => x # c /\ In(x, todo)
    <2>1. CASE todo' = <<>>
      BY <2>1 DEF Shape, In
    <2> QED  BY <1>1, <2>1, AdvanceVisits DEF LoopInv
  <1>5. CASE Expired(c) \/ c \in closeNow
    <2>1. CloseConn(c, Expired(c)) /\ Expired(c) \in BOOLEAN /\ UNCHANGED <<readSet, writeSet>>
      BY <1>5 DEF Prepare, Expired
    <2>2. c \in Conns /\ conn[c] # "none"
      BY <1>1, <1>5, HeadOfTodo DEF Expired, LoopInv, SetsInv, Linked
    <2>3. /\ conn' \in [Conns -> {"none", "live", "dead"}]
          /\ \A x \in Conns : conn'[x] = IF x = c THEN "none" ELSE conn[x]
          /\ Shape(list') /\ list' # <<>>
          /\ \A x \in Conns : In(x, list') <=> conn'[x] # "none"
          /\ SetsInv'
      BY <2>1, <2>2, CloseConnFrees
    <2>4. owed' \in [Conns -> Int]
      BY <2>1, <2>2, CloseConnOwes DEF LoopInv, LoopTypes
    <2>5. LoopTypes'
      BY <1>1, <1>3, <2>1, <2>3, <2>4 DEF LoopInv, LoopTypes
    <2>6. ListInv' /\ TodoInv' /\ DeadInv'
      BY <1>2, <1>3, <1>4, <2>3 DEF LoopInv, ListInv, TodoInv, DeadInv
    <2> QED  BY <2>3, <2>5, <2>6 DEF LoopInv
  <1>6. CASE ~(Expired(c) \/ c \in closeNow)
    <2>1. /\ UNCHANGED <<list, conn, flags, unsent, net, answered, owed>>
          /\ readSet' = readSet \cup {c}
          /\ writeSet' = IF c \in unsent THEN writeSet \cup {c} ELSE writeSet
      BY <1>6 DEF Prepare
    <2>2. LoopTypes' /\ SetsInv'
      BY <1>1, <1>3, <2>1 DEF LoopInv, LoopTypes, SetsInv, Linked, flags, net
    <2>3. ListInv' /\ DeadInv'
      BY <1>2, <1>3, <2>1 DEF LoopInv, ListInv, DeadInv, In, Shape
    <2>4. TodoInv'
      BY <1>1, <1>4, <2>1 DEF LoopInv, TodoInv
    <2> QED  BY <2>2, <2>3, <2>4 DEF LoopInv
  <1> QED  BY <1>5, <1>6

LEMMA CloseFlaggedKeeps ==
    ASSUME LoopInv, NEW c \in Elements, CloseFlagged(c)
    PROVE  LoopInv'
  <1>1. /\ pc = "close" /\ todo # <<>> /\ c = Head(todo)
        /\ UNCHANGED <<idle, stale, readSet, writeSet>>
    BY DEF CloseFlagged, Visit
  <1>2. CASE Flagged(c)
    <2>1. CloseConn(c, FALSE) /\ Advance("sets", Unlinked(c)) /\ list' = Unlinked(c)
      BY <1>2 DEF CloseFlagged, CloseConn
    <2>2. c \in Conns /\ conn[c] # "none" /\ c # Listener
      BY <1>1, <1>2, LoopConstants DEF Flagged, LoopInv, SetsInv, Linked
    <2>3. /\ conn' \in [Conns -> {"none", "live", "dead"}]
          /\ \A x \in Conns : conn'[x] = IF x = c THEN "none" ELSE conn[x]
          /\ Shape(list') /\ list' # <<>>
          /\ \A x \in Conns : In(x, list') <=> conn'[x] # "none"
          /\ \A x \in Conns : x # c /\ x \in closeNow => x \in closeNow'
          /\ SetsInv'
      BY <2>1, <2>2, CloseConnFrees
    <2>4. /\ pc' = pc /\ Shape(todo')
          /\ \A x : In(x, todo') <=> x # c /\ In(x, todo)
      BY <1>1, <2>1, <2>2, AdvanceVisits DEF LoopInv
    <2>5. owed' \in [Conns -> Int]
      BY <2>1, <2>2, CloseConnOwes DEF LoopInv, LoopTypes
    <2>6. LoopTypes'
      BY <1>1, <2>3, <2>4, <2>5 DEF LoopInv, LoopTypes
    <2>7. ListInv' /\ TodoInv' /\ DeadInv'
      BY <1>1, <2>3, <2>4 DEF LoopInv, ListInv, TodoInv, DeadInv
    <2> QED  BY <2>3, <2>6, <2>7 DEF LoopInv
  <1>3. CASE ~Flagged(c)
    <2>1. /\ UNCHANGED <<list, conn, flags, unsent, net, answered, owed>>
          /\ Advance("sets", list)
      BY <1>3 DEF CloseFlagged
    <2>2. /\ pc' \in {"close", "sets"} /\ Shape(todo')
          /\ \A x \in Conns : In(x, todo') => In(x, todo) \/ In(x, list)
      BY <1>1, <2>1, AdvanceVisits DEF LoopInv, ListInv
    <2>3. LoopTypes' /\ SetsInv'
      BY <1>1, <2>1, <2>2 DEF LoopInv, LoopTypes, SetsInv, Linked, flags, net
    <2>4. ListInv'
      BY <2>1, <2>2 DEF LoopInv, ListInv, In, Shape
    <2>5. TodoInv'
      BY <1>1, <2>1, <2>2 DEF LoopInv, ListInv, TodoInv
    <2>6. DeadInv'
      <3>1. ASSUME NEW x \in Conns, conn[x] = "dead"
            PROVE  x \in closeNow /\ In(x, todo) /\ x # c
        BY <1>1, <1>3, <3>1 DEF LoopInv, DeadInv, Flagged
      <3>2. CASE Head(todo) = Listener
        BY <1>1, <2>1, <3>1, <3>2, HeadOfTodo DEF LoopInv, DeadInv
      <3>3. CASE Head(todo) # Listener
        BY <1>1, <2>1, <3>1, <3>3, AdvanceVisits DEF LoopInv, DeadInv, flags
      <3> QED  BY <3>2, <3>3
    <2> QED  BY <2>3, <2>4, <2>5, <2>6 DEF LoopInv
  <1> QED  BY <1>2, <1>3

LEMMA SelectKeeps ==
    ASSUME LoopInv, NEW wait \in {0, 1}, Select(wait)
    PROVE  LoopInv'
  <1>1. PICK accept \in SUBSET (readSet \cap {Listener}), ready \in SUBSET writeSet :
            /\ readSet' = (readSet \cap (arrived \cup gone)) \cup accept
            /\ writeSet' = ready
    BY DEF Select
  <1>2. /\ pc = "select" /\ pc' = "io" /\ todo' = list /\ stale' = 0 /\ answered' = {}
        /\ idle' = [c \in Conns |-> Later(idle[c], wait)]
        /\ UNCHANGED <<list, conn, flags, unsent, net, owed>>
    BY DEF Select
  <1>3. idle' \in [Conns -> 0..(IdleTimeout + 1)]
    BY <1>2, LaterBounded DEF LoopInv, LoopTypes
  <1>4. LoopTypes' /\ SetsInv'
    BY <1>1, <1>2, <1>3, LoopConstants
    DEF LoopInv, LoopTypes, SetsInv, Linked, Elements, flags, net
  <1>5. ListInv' /\ TodoInv'
    BY <1>2 DEF LoopInv, ListInv, TodoInv, Shape, In
  <1>6. DeadInv'
    BY <1>2, NoneDeadBetween DEF LoopInv, DeadInv
  <1> QED  BY <1>4, <1>5, <1>6 DEF LoopInv

LEMMA InterruptedKeeps ==
    ASSUME LoopInv, NEW wait \in {0, 1}, Interrupted(wait)
    PROVE  LoopInv'
  <1>1. /\ pc = "select" /\ pc' = "sets" /\ todo' = list /\ readSet' = {} /\ writeSet' = {}
        /\ UNCHANGED <<list, conn, flags, unsent, net, answered, owed>>
    BY DEF Interrupted
  <1>5. /\ idle' \in [Conns -> 0..(IdleTimeout + 1)]
        /\ stale' \in 0..(IdleTimeout + 1)
    BY LaterBounded DEF Interrupted, LoopInv, LoopTypes
  <1>2. LoopTypes' /\ SetsInv'
    BY <1>1, <1>5 DEF LoopInv, LoopTypes, SetsInv, Linked, flags, net
  <1>3. ListInv' /\ TodoInv'
    BY <1>1 DEF LoopInv, ListInv, TodoInv, Shape, In
  <1>4. DeadInv'
    BY <1>1, NoneDeadBetween DEF LoopInv, DeadInv
  <1> QED  BY <1>2, <1>3, <1>4 DEF LoopInv

\* While a connection is treated, everything stays where it is.
LEMMA TreatmentStays ==
    ASSUME LoopInv, NEW c \in Conns, Visit("io", c), UNCHANGED <<list, conn, pc, todo>>
    PROVE  ListInv' /\ TodoInv' /\ DeadInv' /\ c \in Linked
  <1>1. pc = "io" /\ todo # <<>> /\ c = Head(todo)
    BY DEF Visit
  <1>2. ListInv' /\ TodoInv'
    BY StaysInPlace DEF LoopInv
  <1>3. DeadInv'
    BY <1>1, NoneDead, NoneDeadKept DEF LoopInv
  <1> QED  BY <1>1, <1>2, <1>3, HeadOfTodo DEF LoopInv, Linked

\* The times stay in their bounds.
LEMMA TouchTypes ==
    ASSUME LoopTypes, NEW c \in Conns, NEW d \in Nat, Touch(c, d)
    PROVE  /\ idle' \in [Conns -> 0..(IdleTimeout + 1)]
           /\ stale' \in 0..(IdleTimeout + 1)
  <1>1. stale' \in 0..(IdleTimeout + 1)
    BY LaterBounded DEF Touch, LoopTypes
  <1>2. ASSUME NEW x \in Conns
        PROVE  Later(IF x = c THEN stale ELSE idle[x], d) \in 0..(IdleTimeout + 1)
    <2>1. (IF x = c THEN stale ELSE idle[x]) \in 0..(IdleTimeout + 1)
      BY DEF LoopTypes
    <2> QED  BY <2>1, LaterBounded
  <1>3. idle' \in [Conns -> 0..(IdleTimeout + 1)]
    BY <1>2 DEF Touch
  <1> QED  BY <1>1, <1>3

LEMMA AcceptNoneKeeps ==
    ASSUME LoopInv, AcceptNone
    PROVE  LoopInv'
  <1>1. /\ UNCHANGED <<list, conn, flags, unsent, idle, stale, pc, todo, writeSet, net, answered, owed>>
        /\ readSet' = readSet \ {Listener}
    BY DEF AcceptNone
  <1> QED  BY <1>1
      DEF LoopInv, LoopTypes, ListInv, TodoInv, DeadInv, SetsInv, Linked, Shape, In, flags, net

LEMMA AcceptKeeps ==
    ASSUME LoopInv, NEW c \in Conns, Accept(c)
    PROVE  LoopInv'
  <1>1. /\ pc = "io" /\ todo # <<>> /\ Head(todo) = Listener /\ conn[c] = "none"
        /\ list' = Added(c) /\ idle' = [idle EXCEPT ![c] = 0]
        /\ readSet' = readSet \ {Listener}
        /\ UNCHANGED <<finished, unsent, stale, pc, todo, writeSet, net, answered>>
    BY DEF Accept, Visit, AddSock
  <1>2. /\ \/ conn' = [conn EXCEPT ![c] = "live"] /\ closeNow' = closeNow
           \/ conn' = [conn EXCEPT ![c] = "dead"] /\ closeNow' = closeNow \cup {c}
        /\ owed' \in [Conns -> Int]
    BY DEF Accept, LoopInv, LoopTypes
  <1>3. ~In(c, list) /\ list # <<>> /\ Shape(list)
    BY <1>1 DEF LoopInv, ListInv, TodoInv
  <1>4. /\ Shape(list') /\ list' # <<>>
        /\ \A x : In(x, list') <=> x = c \/ In(x, list)
    BY <1>1, <1>3, AddedShape
  <1>5. LoopTypes'
    <2>1. conn' \in [Conns -> {"none", "live", "dead"}]
      BY <1>2 DEF LoopInv, LoopTypes
    <2>2. idle' \in [Conns -> 0..(IdleTimeout + 1)]
      BY <1>1, LoopConstants DEF LoopInv, LoopTypes
    <2> QED  BY <1>1, <1>2, <2>1, <2>2 DEF LoopInv, LoopTypes
  <1>6. ListInv'
    BY <1>1, <1>2, <1>4 DEF LoopInv, LoopTypes, ListInv
  <1>7. TodoInv'
    BY <1>1, <1>2, <1>4 DEF LoopInv, LoopTypes, TodoInv
  <1>8. DeadInv'
    BY <1>1, <1>2 DEF LoopInv, LoopTypes, DeadInv
  <1>9. SetsInv'
    BY <1>1, <1>2 DEF LoopInv, LoopTypes, SetsInv, Linked, net
  <1> QED  BY <1>5, <1>6, <1>7, <1>8, <1>9 DEF LoopInv

LEMMA IncompleteKeeps ==
    ASSUME LoopInv, NEW c \in Conns, Incomplete(c)
    PROVE  LoopInv'
  <1>1. /\ Visit("io", c) /\ Touch(c, 0)
        /\ readSet' = readSet \ {c} /\ arrived' = arrived \ {c}
        /\ closeNow' \in {closeNow, closeNow \cup {c}}
        /\ UNCHANGED <<list, conn, finished, unsent, pc, todo, writeSet, gone, answered, owed>>
    BY DEF Incomplete, TouchRead
  <1>2. ListInv' /\ TodoInv' /\ DeadInv' /\ c \in Linked
    BY <1>1, TreatmentStays
  <1>3. LoopTypes'
    BY <1>1, TouchTypes DEF LoopInv, LoopTypes
  <1>4. SetsInv'
    BY <1>1, <1>2 DEF LoopInv, SetsInv, Linked
  <1> QED  BY <1>2, <1>3, <1>4 DEF LoopInv

LEMMA SendKeeps ==
    ASSUME LoopInv, NEW c \in Conns, Send(c)
    PROVE  LoopInv'
  <1>1. /\ Visit("io", c) /\ Touch(c, 0) /\ writeSet' = writeSet \ {c}
        /\ unsent' \in {unsent, unsent \ {c}} /\ closeNow' \in {closeNow, closeNow \cup {c}}
        /\ UNCHANGED <<list, conn, finished, pc, todo, readSet, net, answered, owed>>
    BY DEF Send
  <1>2. ListInv' /\ TodoInv' /\ DeadInv' /\ c \in Linked
    BY <1>1, TreatmentStays
  <1>3. LoopTypes'
    BY <1>1, TouchTypes DEF LoopInv, LoopTypes
  <1>4. SetsInv'
    BY <1>1, <1>2 DEF LoopInv, SetsInv, Linked, net
  <1> QED  BY <1>2, <1>3, <1>4 DEF LoopInv

LEMMA HandleKeeps ==
    ASSUME LoopInv, NEW c \in Conns, NEW d \in 0..MaxBusy,
           NEW keep \in BOOLEAN, NEW answer \in BOOLEAN, NEW notify \in BOOLEAN,
           Handle(c, d, keep, answer, notify)
    PROVE  LoopInv'
  <1>1. /\ Visit("io", c) /\ Touch(c, d) /\ d \in Nat
        /\ readSet' = readSet \ {c} /\ arrived' = arrived \ {c}
        /\ closeNow' \subseteq closeNow \cup {c} /\ finished' \subseteq finished \cup {c}
        /\ unsent' \subseteq unsent \cup {c} \cup Walk /\ answered' \subseteq answered \cup {c}
        /\ UNCHANGED <<list, conn, pc, todo, writeSet, gone, owed>>
    BY LoopConstants DEF Handle, TouchRead, CloseEndpoint
  <1>2. ListInv' /\ TodoInv' /\ DeadInv' /\ c \in Linked
    BY <1>1, TreatmentStays
  <1>3. LoopTypes'
    BY <1>1, TouchTypes DEF LoopInv, LoopTypes
  <1>4. Walk \subseteq Linked
    <2>1. ASSUME NEW x \in Walk PROVE conn[x] = "live"
      <3>1. PICK i \in DOMAIN list :
                list[i] = x /\ \A j \in 1..i : list[j] \in Conns /\ conn[list[j]] = "live"
        BY DEF Walk
      <3>2. i \in 1..i
        BY <3>1, LenProperties DEF LoopInv, ListInv, Shape
      <3> QED  BY <3>1, <3>2
    <2> QED  BY <2>1 DEF Linked, Walk
  <1>5. SetsInv'
    BY <1>1, <1>2, <1>4 DEF LoopInv, SetsInv, Linked
  <1> QED  BY <1>2, <1>3, <1>5 DEF LoopInv

LEMMA PeerKeeps ==
    ASSUME LoopInv, NEW c \in Conns, Arrive(c) \/ Leave(c)
    PROVE  LoopInv'
  <1>1. /\ conn[c] # "none"
        /\ arrived' \in {arrived, arrived \cup {c}} /\ gone' \in {gone, gone \cup {c}}
        /\ UNCHANGED <<list, conn, flags, unsent, idle, stale, poll, answered, owed>>
    BY DEF Arrive, Leave
  <1>2. ListInv' /\ TodoInv'
    BY <1>1, StaysInPlace DEF LoopInv, poll
  <1>3. LoopTypes' /\ DeadInv' /\ SetsInv'
    BY <1>1 DEF LoopInv, LoopTypes, DeadInv, SetsInv, Linked, flags, poll
  <1> QED  BY <1>2, <1>3 DEF LoopInv

LEMMA StutterKeeps ==
    ASSUME LoopInv, UNCHANGED vars
    PROVE  LoopInv'
  <1>1. ListInv' /\ TodoInv'
    BY StaysInPlace DEF LoopInv, vars, poll
  <1>2. LoopTypes' /\ DeadInv' /\ SetsInv'
    BY DEF LoopInv, LoopTypes, DeadInv, SetsInv, Linked, vars, flags, poll, net
  <1> QED  BY <1>1, <1>2 DEF LoopInv

\* The invariant is inductive.
LEMMA NextKeeps ==
    ASSUME LoopInv, [Next]_vars
    PROVE  LoopInv'
  <1>1. ASSUME NEW c \in Elements, Prepare(c) \/ Pass(c) \/ CloseFlagged(c)
        PROVE  LoopInv'
    BY <1>1, PrepareKeeps, PassKeeps, CloseFlaggedKeeps
  <1>2. ASSUME NEW wait \in {0, 1}, Select(wait) \/ Interrupted(wait)
        PROVE  LoopInv'
    BY <1>2, SelectKeeps, InterruptedKeeps
  <1>3. CASE Start \/ NothingToDo \/ AcceptNone
    BY <1>3, StartKeeps, NothingToDoKeeps, AcceptNoneKeeps
  <1>4. ASSUME NEW c \in Conns, Accept(c) \/ Incomplete(c) \/ Send(c) \/ Arrive(c) \/ Leave(c)
        PROVE  LoopInv'
    BY <1>4, AcceptKeeps, IncompleteKeeps, SendKeeps, PeerKeeps
  <1>5. ASSUME NEW c \in Conns, NEW d \in 0..MaxBusy,
               NEW keep \in BOOLEAN, NEW answer \in BOOLEAN, NEW notify \in BOOLEAN,
               Handle(c, d, keep, answer, notify)
        PROVE  LoopInv'
    BY <1>5, HandleKeeps
  <1>6. CASE UNCHANGED vars
    BY <1>6, StutterKeeps
  <1>7. CASE Loop
    BY <1>1, <1>2, <1>3, <1>4, <1>5, <1>7 DEF Loop, Elements
  <1> QED  BY <1>4, <1>6, <1>7 DEF Next

LEMMA InitKeeps == Init => LoopInv
  <1>1. ASSUME Init PROVE Shape(list) /\ Shape(todo) /\ \A c \in Conns : ~In(c, list)
    BY <1>1, EmptySeq DEF Init, Shape, In
  <1>2. ASSUME Init PROVE LoopTypes
    BY <1>2, LoopConstants DEF Init, LoopTypes
  <1> QED  BY <1>1, <1>2 DEF Init, LoopInv, ListInv, TodoInv, DeadInv, SetsInv, In

-----------------------------------------------------------------------------
\* A sequence of the shape of the list has its elements once.
LEMMA ShapeIsInjective ==
    ASSUME NEW s, Shape(s)
    PROVE  /\ IsInjective(s)
           /\ \A x : x \in ToSet(s) <=> In(x, s)
           /\ ToSet(s) \subseteq Elements
           /\ s # <<>> => Listener \in ToSet(s)
  <1>1. DOMAIN s = 1..Len(s) /\ Len(s) \in Nat /\ s \in Seq(Elements)
    BY LenProperties DEF Shape
  <1>2. IsInjective(s)
    BY <1>1 DEF IsInjective, Shape
  <1>3. \A x : x \in ToSet(s) <=> In(x, s)
    BY <1>1 DEF ToSet, In
  <1>4. ToSet(s) \subseteq Elements
    BY <1>1, ElementOfSeq DEF ToSet
  <1>5. ASSUME s # <<>> PROVE Listener \in ToSet(s)
    <2>1. Len(s) \in 1..Len(s) /\ s[Len(s)] = Listener
      BY <1>1, <1>5, EmptySeq DEF Shape
    <2> QED  BY <1>3, <2>1 DEF In
  <1> QED  BY <1>2, <1>3, <1>4, <1>5

LEMMA LoopInvImpliesTypeOK == LoopInv => TypeOK
  <1> SUFFICES ASSUME LoopInv PROVE TypeOK
    OBVIOUS
  <1> USE DEF LoopInv
  <1>1. \A s \in {list, todo} : IsInjective(s)
    BY ShapeIsInjective DEF ListInv, TodoInv
  <1>2. ToSet(list) = IF list = <<>> THEN {} ELSE Members
    <2>1. CASE list = <<>>
      BY <2>1 DEF ToSet
    <2>2. CASE list # <<>>
      <3>1. ASSUME NEW x PROVE x \in ToSet(list) <=> x \in Members
        BY <2>2, ShapeIsInjective DEF ListInv, Members, Elements
      <3> QED  BY <2>2, <3>1
    <2> QED  BY <2>1, <2>2
  <1>3. list = <<>> => Members = {Listener}
    BY DEF ListInv, In, Members
  <1>4. ToSet(todo) \subseteq Members
    BY ShapeIsInjective DEF TodoInv, Members, Elements
  <1>5. \A s \in {closeNow, finished, unsent, arrived, gone, answered} : s \subseteq Members \ {Listener}
    BY LoopConstants DEF SetsInv, Linked, Members
  <1> QED  BY <1>1, <1>2, <1>3, <1>4, <1>5 DEF TypeOK, LoopTypes, Elements

\* The types: the list and the part of it a pass has still to visit hold each
\* connection that is not freed once, and what is freed is nowhere else.
THEOREM TypeCorrect == Spec => []TypeOK
  BY InitKeeps, NextKeeps, LoopInvImpliesTypeOK, PTL DEF Spec

-----------------------------------------------------------------------------
(* Events reach every reverse connection *)

LEMMA LoopInvImpliesEvents == LoopInv => EventsReachAll
  <1> SUFFICES ASSUME LoopInv,
                      pc = "io", todo # <<>>, Head(todo) \in Conns
               PROVE  Head(todo) \in Live /\ Walk = Live
    BY DEF EventsReachAll
  <1>1. \A c \in Conns : conn[c] # "dead"
    BY NoneDead DEF LoopInv
  <1>2. \A c \in Conns : conn[c] # "none" => conn[c] = "live"
    BY <1>1 DEF LoopInv, LoopTypes
  <1>3. Head(todo) \in Live
    BY <1>2, HeadOfTodo DEF LoopInv, Live
  <1>4. ASSUME NEW c \in Live PROVE c \in Walk
    <2>1. /\ list \in Seq(Elements) /\ Len(list) \in Nat /\ DOMAIN list = 1..Len(list)
          /\ \A i, j \in 1..Len(list) : list[i] = list[j] => i = j
          /\ list # <<>> => list[Len(list)] = Listener
      BY LenProperties DEF LoopInv, ListInv, Shape
    <2>2. PICK i \in 1..Len(list) : list[i] = c
      BY <1>4 DEF LoopInv, ListInv, In, Live
    <2>3. c # Listener /\ c \in Conns
      BY <1>4, LoopConstants DEF Live
    <2>4. ASSUME NEW j \in 1..i
          PROVE  list[j] \in Conns /\ conn[list[j]] = "live"
      <3>1. /\ j \in 1..Len(list) /\ Len(list) \in 1..Len(list)
            /\ i \in Nat /\ j \in Nat /\ Len(list) \in Nat /\ j <= i /\ i <= Len(list)
        BY <2>1, <2>2
      <3>2. list[Len(list)] = Listener
        BY <2>1, <3>1, EmptySeq
      <3>3. i # Len(list)
        BY <2>2, <2>3, <3>2
      <3>4. j # Len(list)
        BY <3>1, <3>3
      <3>5. list[j] # Listener /\ list[j] \in Elements
        BY <2>1, <3>1, <3>2, <3>4, ElementOfSeq
      <3>6. In(list[j], list)
        BY <3>1 DEF In
      <3> QED  BY <1>2, <3>5, <3>6 DEF LoopInv, ListInv, Elements
    <2> QED  BY <2>1, <2>2, <2>3, <2>4 DEF Walk
  <1>5. ASSUME NEW c \in Walk PROVE c \in Live
    <2>1. PICK i \in DOMAIN list :
              list[i] = c /\ \A j \in 1..i : list[j] \in Conns /\ conn[list[j]] = "live"
      BY <1>5 DEF Walk
    <2>2. i \in 1..i
      BY <2>1, LenProperties DEF LoopInv, ListInv, Shape
    <2> QED  BY <1>5, <2>1, <2>2 DEF Walk, Live
  <1> QED  BY <1>3, <1>4, <1>5

\* mg_next visits every live connection whenever a message may be handled, although
\* it ends at the first connection without user_data: one that could not be set up
\* is added behind the listener's turn and is gone before the next.
THEOREM EventsReachEverybody == Spec => []EventsReachAll
  BY InitKeeps, NextKeeps, LoopInvImpliesEvents, PTL DEF Spec

-----------------------------------------------------------------------------
(* An answered connection does not count as idle *)

\* An answered connection was used when select returned, is not read from again, and
\* is flagged at once only when its peer is gone.
AnsweredInv ==
    \A c \in answered :
        /\ c \in closeNow => c \in gone
        /\ pc = "io" => c \notin readSet
        /\ idle[c] = stale

AnswerInv == LoopInv /\ AnsweredInv

\* A step that closes nothing but forgets, at most.
LEMMA AnsweredKept ==
    ASSUME AnsweredInv, UNCHANGED <<idle, stale>>, answered' \subseteq answered,
           \A c \in answered' : c \in closeNow' => c \in closeNow /\ (c \in gone => c \in gone'),
           pc' = "io" => pc = "io" /\ readSet' \subseteq readSet
    PROVE  AnsweredInv'
  BY DEF AnsweredInv

\* Whoever was used when select returned has aged as much as the poll.
LEMMA TouchAnswered ==
    ASSUME LoopInv, AnsweredInv, NEW c \in Conns, NEW d \in Nat, Touch(c, d)
    PROVE  \A x \in answered \cup {c} : idle'[x] = stale'
  <1>1. answered \subseteq Conns
    BY DEF LoopInv, SetsInv, Linked
  <1> QED  BY <1>1 DEF Touch, AnsweredInv

\* A pass that is not over, or has led to another, gives no more to read.
LEMMA PassesKeep ==
    ASSUME AnswerInv,
           Start \/ NothingToDo \/ AcceptNone \/ \E c \in Elements : Pass(c)
    PROVE  AnsweredInv'
  <1>1. /\ UNCHANGED <<idle, stale, answered, closeNow, gone>>
        /\ pc' = "io" => pc = "io" /\ readSet' \subseteq readSet
    BY DEF Start, NothingToDo, AcceptNone, Pass, Advance, flags, net
  <1> QED  BY <1>1, AnsweredKept DEF AnswerInv

\* So does a pass that closes a connection.
LEMMA ClosesKeep ==
    ASSUME AnswerInv, NEW c \in Elements, Prepare(c) \/ CloseFlagged(c)
    PROVE  AnsweredInv'
  <1>1. UNCHANGED <<idle, stale>> /\ pc' # "io"
    BY DEF Prepare, CloseFlagged, Visit, Advance
  <1>2. \/ UNCHANGED <<closeNow, gone, answered>>
        \/ closeNow' = closeNow \ {c} /\ gone' = gone \ {c} /\ answered' = answered \ {c}
    BY DEF Prepare, CloseFlagged, CloseConn, flags, net
  <1> QED  BY <1>1, <1>2, AnsweredKept DEF AnswerInv

\* With select, the poll begins anew.
LEMMA SelectKeepsAnswers ==
    ASSUME NEW wait \in {0, 1}, Select(wait)
    PROVE  AnsweredInv'
  BY DEF Select, AnsweredInv

\* An interrupted select makes the connections older, and the poll with them.
LEMMA InterruptedKeepsAnswers ==
    ASSUME AnswerInv, NEW wait \in {0, 1}, Interrupted(wait)
    PROVE  AnsweredInv'
  <1>1. answered \subseteq Conns
    BY DEF AnswerInv, LoopInv, SetsInv, Linked
  <1>2. \A c \in answered : idle'[c] = stale'
    BY <1>1 DEF Interrupted, AnswerInv, AnsweredInv
  <1> QED  BY <1>2 DEF Interrupted, AnswerInv, AnsweredInv, flags, net

\* A connection that is accepted has not been answered yet.
LEMMA AcceptKeepsAnswers ==
    ASSUME AnswerInv, NEW c \in Conns, Accept(c)
    PROVE  AnsweredInv'
  <1>1. /\ conn[c] = "none" /\ idle' = [idle EXCEPT ![c] = 0]
        /\ closeNow' \in {closeNow, closeNow \cup {c}} /\ readSet' = readSet \ {Listener}
        /\ UNCHANGED <<stale, pc, gone, answered>>
    BY DEF Accept, AddSock, net
  <1>2. c \notin answered /\ answered \subseteq Conns
    BY <1>1 DEF AnswerInv, LoopInv, SetsInv, Linked
  <1> QED  BY <1>1, <1>2 DEF AnswerInv, LoopInv, LoopTypes, AnsweredInv

\* What is read without being handled, or sent, leaves the answered ones as they are.
LEMMA IdleTreatmentKeeps ==
    ASSUME AnswerInv, NEW c \in Conns, Incomplete(c) \/ Send(c)
    PROVE  AnsweredInv'
  <1>1. /\ Touch(c, 0) /\ UNCHANGED <<pc, gone, answered>>
        /\ readSet' \subseteq readSet
        /\ \/ closeNow' = closeNow
           \/ closeNow' = closeNow \cup {c} /\ c \in gone
    BY DEF Incomplete, Send, TouchRead, ReadsEnd, net
  <1>2. \A x \in answered : idle'[x] = stale'
    BY <1>1, TouchAnswered DEF AnswerInv
  <1> QED  BY <1>1, <1>2 DEF AnswerInv, AnsweredInv

\* A request is handled for any time: its connection, and those answered before it
\* in this poll, get as old as the poll.
LEMMA HandleKeepsAnswers ==
    ASSUME AnswerInv, NEW c \in Conns, NEW d \in 0..MaxBusy,
           NEW keep \in BOOLEAN, NEW answer \in BOOLEAN, NEW notify \in BOOLEAN,
           Handle(c, d, keep, answer, notify)
    PROVE  AnsweredInv'
  <1>1. /\ pc = "io" /\ c \in readSet /\ readSet' = readSet \ {c}
        /\ Touch(c, d) /\ d \in Nat /\ UNCHANGED <<pc, gone>>
        /\ answered' \in {answered, answered \cup {c}}
        /\ closeNow' \subseteq closeNow \cup {c}
    BY LoopConstants DEF Handle, Visit, TouchRead, CloseEndpoint
  <1>2. c \notin answered
    BY <1>1 DEF AnswerInv, AnsweredInv
  <1>3. c \in answered' /\ c \in closeNow' => c \in gone'
    <2>1. c \in answered' => answer
      BY <1>2 DEF Handle
    <2>2. answer => c \in unsent'
      BY DEF Handle
    <2>3. CloseEndpoint(c, keep, c \in unsent', ReadsEnd(c))
      BY DEF Handle
    <2>4. c \in unsent' /\ c \in closeNow' => c \in gone
      BY <2>3 DEF CloseEndpoint, ReadsEnd
    <2> QED  BY <1>1, <2>1, <2>2, <2>4
  <1>4. \A x \in answered \cup {c} : idle'[x] = stale'
    BY <1>1, TouchAnswered DEF AnswerInv
  <1> QED  BY <1>1, <1>3, <1>4 DEF AnswerInv, AnsweredInv

\* The invariant with the times is inductive as well.
LEMMA NextKeepsAnswers ==
    ASSUME AnswerInv, [Next]_vars
    PROVE  AnswerInv'
  <1> SUFFICES AnsweredInv'
    BY NextKeeps DEF AnswerInv
  <1>1. ASSUME NEW c \in Elements, Prepare(c) \/ Pass(c) \/ CloseFlagged(c)
        PROVE  AnsweredInv'
    BY <1>1, ClosesKeep, PassesKeep
  <1>2. ASSUME NEW wait \in {0, 1}, Select(wait) \/ Interrupted(wait)
        PROVE  AnsweredInv'
    BY <1>2, SelectKeepsAnswers, InterruptedKeepsAnswers
  <1>3. CASE Start \/ NothingToDo \/ AcceptNone
    BY <1>3, PassesKeep
  <1>4. ASSUME NEW c \in Conns, Accept(c) \/ Incomplete(c) \/ Send(c)
        PROVE  AnsweredInv'
    BY <1>4, AcceptKeepsAnswers, IdleTreatmentKeeps
  <1>5. ASSUME NEW c \in Conns, NEW d \in 0..MaxBusy,
               NEW keep \in BOOLEAN, NEW answer \in BOOLEAN, NEW notify \in BOOLEAN,
               Handle(c, d, keep, answer, notify)
        PROVE  AnsweredInv'
    BY <1>5, HandleKeepsAnswers
  <1>6. ASSUME UNCHANGED vars \/ \E c \in Conns : Arrive(c) \/ Leave(c)
        PROVE  AnsweredInv'
    <2>1. /\ UNCHANGED <<idle, stale, answered, closeNow, pc, readSet>>
          /\ gone \subseteq gone'
      BY <1>6 DEF vars, flags, poll, net, Arrive, Leave
    <2> QED  BY <2>1, AnsweredKept DEF AnswerInv
  <1>7. CASE Loop
    BY <1>1, <1>2, <1>3, <1>4, <1>5, <1>7 DEF Loop, Elements
  <1> QED  BY <1>6, <1>7 DEF Next

LEMMA InitKeepsAnswers == Init => AnswerInv
  BY InitKeeps DEF Init, AnswerInv, AnsweredInv

\* A step that closes an answered connection before its answer is sent finds its
\* peer gone, or a poll that is older than connections may be.
LEMMA StepKeepsAnswer ==
    ASSUME AnswerInv, [Next]_vars, NEW c \in answered \cap unsent,
           conn[c] = "live", conn'[c] # "live"
    PROVE  c \in gone \/ stale > IdleTimeout
  <1>1. c \in Conns
    BY DEF AnswerInv, LoopInv, SetsInv, Linked
  <1>2. ASSUME NEW x \in Elements, Prepare(x) \/ CloseFlagged(x)
        PROVE  c \in gone \/ stale > IdleTimeout
    <2>1. CloseConn(x, Expired(x)) \/ CloseConn(x, FALSE)
      BY <1>2 DEF Prepare, CloseFlagged, flags
    <2>2. x = c
      BY <1>1, <2>1 DEF CloseConn, AnswerInv, LoopInv, LoopTypes
    <2>3. Expired(c) \/ c \in closeNow
      BY <1>2, <2>2 DEF Prepare, CloseFlagged, Flagged
    <2>4. idle[c] = stale /\ (c \in closeNow => c \in gone)
      BY DEF AnswerInv, AnsweredInv
    <2> QED  BY <2>3, <2>4 DEF Expired
  <1>3. ASSUME NEW x \in Conns, Accept(x)
        PROVE  c \in gone \/ stale > IdleTimeout
    BY <1>1, <1>3 DEF Accept, AnswerInv, LoopInv, LoopTypes
  <1>4. ASSUME conn' = conn PROVE c \in gone \/ stale > IdleTimeout
    BY <1>4
  <1>5. ASSUME NEW x \in Conns, Incomplete(x) \/ Send(x) \/ Arrive(x) \/ Leave(x)
        PROVE  conn' = conn
    BY <1>5 DEF Incomplete, Send, Arrive, Leave
  <1>6. ASSUME NEW x \in Conns, NEW d \in 0..MaxBusy,
               NEW keep \in BOOLEAN, NEW answer \in BOOLEAN, NEW notify \in BOOLEAN,
               Handle(x, d, keep, answer, notify)
        PROVE  conn' = conn
    BY <1>6 DEF Handle
  <1>7. ASSUME NEW x \in Elements, Pass(x) PROVE conn' = conn
    BY <1>7 DEF Pass
  <1>8. ASSUME NEW wait \in {0, 1}, Select(wait) \/ Interrupted(wait) PROVE conn' = conn
    BY <1>8 DEF Select, Interrupted
  <1>9. ASSUME Start \/ NothingToDo \/ AcceptNone \/ UNCHANGED vars
        PROVE  conn' = conn
    BY <1>9 DEF Start, NothingToDo, AcceptNone, vars
  <1>10. CASE Loop
    BY <1>2, <1>3, <1>4, <1>5, <1>6, <1>7, <1>8, <1>9, <1>10 DEF Loop, Elements
  <1> QED  BY <1>4, <1>5, <1>9, <1>10 DEF Next

\* A connection whose request was answered is not taken for an idle one before the
\* answer can be sent, however many requests of other connections are handled in
\* between, unless more time than a connection may idle has gone by since select
\* returned: each use of a connection counts from there.
THEOREM AnswersAreKept == Spec => AnswerKept
  <1>1. Init => AnswerInv
    BY InitKeepsAnswers
  <1>2. AnswerInv /\ [Next]_vars => AnswerInv'
    BY NextKeepsAnswers
  <1>3. AnswerInv /\ [Next]_vars =>
            [\A c \in answered \cap unsent :
                conn[c] = "live" /\ conn'[c] # "live" => c \in gone \/ stale > IdleTimeout]_vars
    BY StepKeepsAnswer
  <1> QED  BY <1>1, <1>2, <1>3, PTL DEF Spec, AnswerKept
=============================================================================
