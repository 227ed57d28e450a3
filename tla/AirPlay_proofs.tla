---------------------------- MODULE AirPlay_proofs ----------------------------
(***************************************************************************)
(* Theorems about AirPlay for any finite set of connections, any sessions  *)
(* and any limit.  The invariant is the conjunction of the properties with *)
(* two facts about connections: a closed one holds no session, and one     *)
(* without a session was told nothing.                                     *)
(***************************************************************************)
EXTENDS AirPlay, FiniteSetTheorems, TLAPS

\* What a status the remote control returns looks like, whatever the operation.
Credible == {st \in Status : st.timeout => st.playback = "STOPPED"}

NewsType ==
    [told : [Conns -> Playback \cup {Silent}], seen : [Conns -> Infos \cup {Silent}],
     status : Status, lapsed : BOOLEAN]

\* The properties of a News record while owner owns the media.
NewsCurrent(n, owner) ==
    \A c \in Audience(owner) :
        n.told[c] # Silent =>
            IF n.lapsed THEN n.status.playback = "STOPPED" ELSE n.told[c] = n.status.playback
NewsPrivate(n, owner) ==
    \A c \in open : n.told[c] \in Playback \ {"STOPPED"} => param[c] = owner
NewsSeen(n, owner) ==
    \A c \in Audience(owner) :
        n.seen[c] # Silent /\ n.told[c] = Silent /\ ~n.lapsed =>
            n.seen[c] = GetPlaybackInfo(n.status)
NewsTidy(n) ==
    \A c \in Conns : param[c] = NoReverse => n.told[c] = Silent /\ n.seen[c] = Silent
NewsOK(n, owner) ==
    /\ n \in NewsType
    /\ NewsCurrent(n, owner) /\ NewsSeen(n, owner) /\ NewsPrivate(n, owner)
    /\ NewsTidy(n)

ClosedTidy == \A c \in Conns : c \notin open => param[c] = NoReverse

\* The inductive invariant.
IInv == TypeOK /\ ClosedTidy /\ SlotAccounting /\ NewsOK(News, mediaSessionId)

-----------------------------------------------------------------------------
(* The contract of the remote control *)

\* A reply is an answer of the box or what a timeout leaves.
LEMMA RepliesCredible ==
    ASSUME NEW P \in SUBSET Playback
    PROVE  Replies(P) \subseteq Credible
<1>1. TimedOut \in Credible
  BY DEF TimedOut, Credible, Status, Playback
<1>2. \A p \in P : Answered(p) \in Credible
  BY DEF Answered, Credible, Status
<1> QED
  BY <1>1, <1>2 DEF Replies

\* Every status an operation can return is one that a timeout leaves STOPPED.
LEMMA ContractCredible ==
    /\ GetStatusResults \subseteq Credible
    /\ PlayResults \subseteq Credible
    /\ PauseResults \subseteq Credible
    /\ ResumeResults \subseteq Credible
    /\ StopResults \subseteq Credible
    /\ Stopped \in Credible /\ Stopped.playback = "STOPPED"
    /\ TimedOut \in Status
<1>1. Stopped \in Credible /\ Stopped.playback = "STOPPED" /\ TimedOut \in Status
  BY DEF Stopped, Answered, TimedOut, Credible, Status, Playback
<1>2. /\ Playback \in SUBSET Playback
      /\ {"STOPPED", "LOADING"} \in SUBSET Playback
      /\ {"STOPPED", "PAUSED", "LOADING"} \in SUBSET Playback
      /\ {"STOPPED", "PLAYING", "LOADING"} \in SUBSET Playback
      /\ {"STOPPED"} \in SUBSET Playback
  BY DEF Playback
<1> QED
  BY <1>1, <1>2, RepliesCredible
     DEF GetStatusResults, PlayResults, PauseResults, ResumeResults, StopResults

\* What a session other than the owner gets is the status "stopped".
LEMMA ResultsCredible ==
    ASSUME NEW s, NEW R \in SUBSET Credible, NEW st \in Results(s, R)
    PROVE  st \in Credible /\ (s = mediaSessionId \/ st.playback = "STOPPED")
BY ContractCredible DEF Results

-----------------------------------------------------------------------------
(* One notification *)

\* A notification either writes nothing or tells every listener of the session.
LEMMA NotifyTells ==
    ASSUME NEW n, NEW s \in Sessions, NEW owner, NEW st, ClosedTidy
    PROVE  LET m == NotifyReverseConnection(n, s, owner, st) IN
           \/ m.told = n.told
           \/ m.told = Listening!Tell(n.told, s, st.playback)
<1>1. \A c \in Conns : c \in Audience(s) <=> param[c] = s
  BY NoReverseNoSession DEF ClosedTidy, Audience
<1>2. [c \in Conns |-> IF c \in Audience(s) THEN st.playback ELSE n.told[c]]
        = [c \in Conns |-> IF param[c] = s THEN st.playback ELSE n.told[c]]
  BY <1>1
<1> QED
  BY <1>2 DEF NotifyReverseConnection, Listening!Tell

\* A notification keeps every property of the news about the playback.
LEMMA NotifyKeeps ==
    ASSUME TypeOK, SlotAccounting, NEW s \in Sessions, NEW owner,
           NEW n, NewsOK(n, owner),
           NEW st \in Credible, s = owner \/ st.playback = "STOPPED"
    PROVE  NewsOK(NotifyReverseConnection(n, s, owner, st), owner)
<1> DEFINE m == NotifyReverseConnection(n, s, owner, st)
<1>1. m \in NewsType
  <2>1. st \in Status /\ st.playback \in Playback /\ st.timeout \in BOOLEAN
    BY DEF Credible, Status
  <2>2. m.told \in [Conns -> Playback \cup {Silent}]
    BY <2>1 DEF NewsOK, NewsType, NotifyReverseConnection
  <2>3. m.status \in Status
    BY <2>1 DEF NewsOK, NewsType, NotifyReverseConnection
  <2>4. m.lapsed \in BOOLEAN
    BY <2>1 DEF NewsOK, NewsType, NotifyReverseConnection
  <2>5. m.seen \in [Conns -> Infos \cup {Silent}]
    BY DEF NewsOK, NewsType, NotifyReverseConnection
  <2> QED
    BY <2>2, <2>3, <2>4, <2>5 DEF NewsType, NotifyReverseConnection
<1>2. ASSUME s = owner, NEW c \in Audience(owner)
      PROVE  reverseConnections > 0
  <2>1. c \in ReverseConns
    BY <1>2, NoReverseNoSession DEF ReverseConns, Audience
  <2>2. IsFiniteSet(ReverseConns)
    BY ConnsFinite, FS_Subset DEF ReverseConns, TypeOK
  <2>3. Cardinality(ReverseConns) # 0
    BY <2>1, <2>2, FS_EmptySet
  <2> QED
    BY <2>3 DEF SlotAccounting, TypeOK
<1>3. NewsCurrent(m, owner)
  <2> SUFFICES ASSUME NEW c \in Audience(owner), m.told[c] # Silent
               PROVE  IF m.lapsed THEN m.status.playback = "STOPPED"
                      ELSE m.told[c] = m.status.playback
    BY DEF NewsCurrent
  <2>1. c \in Conns /\ c \in open /\ param[c] = owner
    BY DEF Audience, TypeOK
  <2>2. CASE s # owner
    <3>1. c \notin Audience(s)
      BY <2>1, <2>2 DEF Audience
    <3>2. m.told[c] = n.told[c] /\ m.status = n.status /\ m.lapsed = n.lapsed
      BY <2>1, <2>2, <3>1 DEF NotifyReverseConnection
    <3> QED
      BY <3>2 DEF NewsOK, NewsCurrent
  <2>3. CASE s = owner /\ st.playback = n.status.playback
    <3>1. m.told = n.told /\ m.status = st /\ m.lapsed = n.lapsed
      BY <2>3 DEF NotifyReverseConnection, Announces
    <3> QED
      BY <2>3, <3>1 DEF NewsOK, NewsCurrent
  <2>4. CASE s = owner /\ st.playback # n.status.playback /\ st.timeout
    BY <2>4 DEF NotifyReverseConnection, Credible
  <2>5. CASE s = owner /\ st.playback # n.status.playback /\ ~st.timeout
    <3>3. Announces(n, st)
      BY <1>2, <2>5 DEF Announces
    <3>4. m.told[c] = st.playback /\ m.status = st /\ ~m.lapsed
      BY <2>1, <2>5, <3>3 DEF NotifyReverseConnection
    <3> QED
      BY <3>4
  <2> QED
    BY <2>2, <2>3, <2>4, <2>5
<1>4. NewsPrivate(m, owner)
  <2> SUFFICES ASSUME NEW c \in open, m.told[c] \in Playback \ {"STOPPED"}
               PROVE  param[c] = owner
    BY DEF NewsPrivate
  <2>1. c \in Conns
    BY DEF TypeOK
  <2>2. CASE m.told[c] = n.told[c]
    BY <2>2 DEF NewsOK, NewsPrivate
  <2>3. CASE c \in Audience(s) /\ m.told[c] = st.playback
    BY <2>3 DEF Audience
  <2> QED
    BY <2>1, <2>2, <2>3 DEF NotifyReverseConnection
<1>5. NewsTidy(m)
  BY NoReverseNoSession DEF NewsOK, NewsTidy, NotifyReverseConnection, Audience
<1>6. NewsSeen(m, owner)
  <2> SUFFICES ASSUME NEW c \in Audience(owner),
                      m.seen[c] # Silent, m.told[c] = Silent, ~m.lapsed
               PROVE  m.seen[c] = GetPlaybackInfo(m.status)
    BY DEF NewsSeen
  <2>1. c \in Conns /\ c \in open /\ param[c] = owner /\ m.seen = n.seen
    BY DEF Audience, TypeOK, NotifyReverseConnection
  <2>2. m.told[c] = IF Announces(n, st) /\ c \in Audience(s) THEN st.playback ELSE n.told[c]
    BY <2>1 DEF NotifyReverseConnection
  <2>3. st.playback # Silent
    BY DEF Credible, Status, Playback, Silent
  <2>4. n.told[c] = Silent /\ ~(Announces(n, st) /\ c \in Audience(s))
    BY <2>2, <2>3
  <2>5. CASE s # owner
    <3>1. m.status = n.status /\ m.lapsed = n.lapsed
      BY <2>5 DEF NotifyReverseConnection
    <3> QED
      BY <2>1, <2>4, <3>1 DEF NewsOK, NewsSeen
  <2>6. CASE s = owner /\ st.playback = n.status.playback
    <3>1. m.status = st /\ m.lapsed = n.lapsed
      BY <2>6 DEF NotifyReverseConnection
    <3>2. GetPlaybackInfo(st) = GetPlaybackInfo(n.status)
      BY <2>6 DEF GetPlaybackInfo
    <3> QED
      BY <2>1, <2>4, <3>1, <3>2 DEF NewsOK, NewsSeen
  <2>7. CASE s = owner /\ st.playback # n.status.playback
    <3>1. ~st.timeout
      BY <2>7 DEF NotifyReverseConnection
    <3>2. Announces(n, st)
      BY <1>2, <2>1, <2>7, <3>1 DEF Announces
    <3> QED
      BY <2>4, <2>7, <3>2
  <2> QED
    BY <2>5, <2>6, <2>7
<1> QED
  BY <1>1, <1>3, <1>4, <1>5, <1>6 DEF NewsOK

\* What /playback-info shows the owner is the status that has just been recorded.
LEMMA ShownKeeps ==
    ASSUME TypeOK, mediaSessionId \in Sessions,
           NEW n, NEW st, NewsOK(n, mediaSessionId), n.status = st
    PROVE  NewsOK(Shown(n, st), mediaSessionId)
<1> DEFINE m == Shown(n, st)
<1>1. /\ m.told = n.told /\ m.status = n.status /\ m.lapsed = n.lapsed
      /\ m.seen = [c \in Conns |-> IF c \in Audience(mediaSessionId)
                                   THEN GetPlaybackInfo(st) ELSE n.seen[c]]
  BY DEF Shown, NewsOK, NewsType
<1>2. GetPlaybackInfo(st) \in Infos
  BY DEF GetPlaybackInfo, Infos
<1>3. m \in NewsType
  BY <1>1, <1>2 DEF NewsOK, NewsType, Shown
<1> HIDE DEF m
<1>4. NewsCurrent(m, mediaSessionId) /\ NewsPrivate(m, mediaSessionId)
  BY <1>1 DEF NewsOK, NewsCurrent, NewsPrivate
<1>5. NewsSeen(m, mediaSessionId)
  <2>1. \A c \in Audience(mediaSessionId) :
            c \in Conns => m.seen[c] = GetPlaybackInfo(m.status)
    BY <1>1
  <2> QED
    BY <2>1 DEF NewsSeen, Audience, TypeOK
<1>6. NewsTidy(m)
  BY <1>1, NoReverseNoSession DEF NewsOK, NewsTidy, Audience
<1> QED
  BY <1>3, <1>4, <1>5, <1>6 DEF NewsOK, m

-----------------------------------------------------------------------------
(* The steps *)

\* The invariant holds initially.
LEMMA InitInv == Init => IInv
<1> SUFFICES ASSUME Init PROVE IInv
  OBVIOUS
<1> USE DEF Init
<1>1. TypeOK
  BY ContractCredible DEF TypeOK, Untold, Endpoints, Closings
<1>2. ClosedTidy
  BY DEF ClosedTidy
<1>3. SlotAccounting
  <2>1. ReverseConns = {}
    BY DEF ReverseConns
  <2> QED
    BY <2>1, FS_EmptySet, MaxReverseNat DEF SlotAccounting
<1>4. NewsOK(News, mediaSessionId)
  BY <1>1 DEF NewsOK, News, NewsType, NewsCurrent, NewsSeen, NewsPrivate, NewsTidy, Audience, Untold, TypeOK
<1> QED
  BY <1>1, <1>2, <1>3, <1>4 DEF IInv

\* A step that only touches the flags of a connection keeps the invariant.
LEMMA FlagsKeep ==
    ASSUME IInv, NEW c \in Conns, NEW v \in Endpoints, NEW w \in Closings,
           endpoint' = [endpoint EXCEPT ![c] = v],
           closing' = [closing EXCEPT ![c] = w],
           UNCHANGED <<open, param, mediaSessionId, reverseConnections, newsVars>>
    PROVE  IInv'
<1>1. TypeOK'
  BY DEF IInv, TypeOK, newsVars
<1>2. ClosedTidy' /\ SlotAccounting'
  BY DEF IInv, ClosedTidy, SlotAccounting, ReverseConns
<1>3. NewsOK(News, mediaSessionId)'
  BY DEF IInv, NewsOK, News, NewsType, NewsCurrent, NewsSeen, NewsPrivate, NewsTidy, Audience, newsVars
<1> QED
  BY <1>1, <1>2, <1>3 DEF IInv

\* A request that is answered and publishes news in order keeps the invariant.
LEMMA ServedKeeps ==
    ASSUME IInv, NEW c \in Conns, NEW keep \in BOOLEAN, Served(c, keep),
           NEW owner \in Sessions \cup {InitialId}, mediaSessionId' = owner,
           NEW n, NewsOK(n, owner), Publish(n), UNCHANGED reverseConnections
    PROVE  IInv'
<1>1. UNCHANGED <<open, param>>
  BY DEF Served, CloseLocalEndpoint
<1>2. TypeOK'
  BY <1>1 DEF IInv, TypeOK, Served, CloseLocalEndpoint, Publish, NewsOK, NewsType,
              Endpoints, Closings
<1>3. ClosedTidy' /\ SlotAccounting'
  BY <1>1 DEF IInv, ClosedTidy, SlotAccounting, ReverseConns
<1>4. NewsOK(News, mediaSessionId)'
  <2>1. /\ News'.told = n.told /\ News'.seen = n.seen
        /\ News'.status = n.status /\ News'.lapsed = n.lapsed
        /\ News' \in NewsType
    BY DEF Publish, News, NewsOK, NewsType
  <2> QED
    BY <1>1, <2>1 DEF NewsOK, NewsCurrent, NewsSeen, NewsPrivate, NewsTidy, Audience
<1> QED
  BY <1>2, <1>3, <1>4 DEF IInv

\* POST /play keeps the invariant, also when it takes the media over.
LEMMA PlayKeeps ==
    ASSUME IInv, NEW c \in Conns, NEW s \in Sessions, NEW keep \in BOOLEAN, Play(c, s, keep)
    PROVE  IInv'
<1>1. PICK st \in PlayResults : Publish(NotifyReverseConnection(TakenOver(s), s, s, st))
  BY DEF Play, PlayEnds
<1>2. NewsOK(TakenOver(s), s)
  <2>1. CASE s = mediaSessionId
    BY <2>1 DEF IInv, TakenOver
  <2>2. CASE s # mediaSessionId
    <3>1. TakenOver(s) = [told |-> Untold, seen |-> Untold, status |-> status, lapsed |-> FALSE]
      BY <2>2 DEF TakenOver
    <3>2. \A d \in Conns : Untold[d] = Silent /\ Silent \notin Playback
      BY DEF Untold, Silent, Playback
    <3>3. TakenOver(s) \in NewsType
      BY <3>1 DEF NewsType, Untold, IInv, TypeOK
    <3> QED
      BY <3>1, <3>2, <3>3
         DEF NewsOK, NewsCurrent, NewsSeen, NewsPrivate, NewsTidy, Audience, IInv, TypeOK
  <2> QED
    BY <2>1, <2>2
<1>3. NewsOK(NotifyReverseConnection(TakenOver(s), s, s, st), s)
  BY <1>2, ContractCredible, NotifyKeeps DEF IInv
<1> QED
  BY <1>1, <1>3, ServedKeeps DEF Play, PlayEnds

\* One operation of the remote control keeps the invariant.
LEMMA CommandKeeps ==
    ASSUME IInv, NEW c \in Conns, NEW s \in Sessions, NEW keep \in BOOLEAN,
           NEW R \in SUBSET Credible, Command(c, s, keep, R)
    PROVE  IInv'
<1>1. PICK st \in Results(s, R) :
          Publish(NotifyReverseConnection(News, s, mediaSessionId, st))
  BY DEF Command, CommandEnds
<1>2. NewsOK(NotifyReverseConnection(News, s, mediaSessionId, st), mediaSessionId)
  BY ResultsCredible, NotifyKeeps DEF IInv
<1> QED
  BY <1>1, <1>2, ServedKeeps DEF Command, CommandEnds, IInv, TypeOK

\* The two status requests behind /playback-info and /scrub keep the invariant.
LEMMA PollKeeps ==
    ASSUME IInv, NEW c \in Conns, NEW s \in Sessions, NEW keep \in BOOLEAN,
           NEW info \in BOOLEAN, Poll(c, s, keep, info)
    PROVE  IInv'
<1> DEFINE R == Results(s, GetStatusResults)
           once(st) == NotifyReverseConnection(News, s, mediaSessionId, st)
           shown(st) == IF info /\ s = mediaSessionId THEN Shown(once(st), st) ELSE once(st)
           twice(st, again) == NotifyReverseConnection(shown(st), s, mediaSessionId, again)
<1>1. \A st \in R : NewsOK(once(st), mediaSessionId)
  BY ContractCredible, ResultsCredible, NotifyKeeps DEF IInv
<1>2. \A st \in R : s = mediaSessionId => once(st).status = st
  BY DEF NotifyReverseConnection
<1>3. \A st \in R : NewsOK(shown(st), mediaSessionId)
  <2> HIDE DEF once
  <2> QED
    BY <1>1, <1>2, ShownKeeps DEF IInv
<1>4. \A st, again \in R : NewsOK(twice(st, again), mediaSessionId)
  <2> SUFFICES ASSUME NEW st \in R, NEW again \in R
               PROVE  NewsOK(twice(st, again), mediaSessionId)
    OBVIOUS
  <2>1. NewsOK(shown(st), mediaSessionId)
    BY <1>3
  <2>2. again \in Credible /\ (s = mediaSessionId \/ again.playback = "STOPPED")
    BY ContractCredible, ResultsCredible
  <2> HIDE DEF shown
  <2> QED
    BY <2>1, <2>2, NotifyKeeps DEF IInv
<1>5. \/ \E st \in R : Publish(once(st))
      \/ \E st, again \in R : Publish(twice(st, again))
  BY DEF Poll, PollEnds
<1> HIDE DEF once, shown, twice
<1>6. Served(c, keep) /\ UNCHANGED <<mediaSessionId, reverseConnections>>
  BY DEF Poll, PollEnds
<1>7. mediaSessionId \in Sessions \cup {InitialId}
  BY DEF IInv, TypeOK
<1> QED
  BY <1>1, <1>4, <1>5, <1>6, <1>7, ServedKeeps

\* A new reverse connection takes exactly one slot.
LEMMA ReverseKeeps ==
    ASSUME IInv, NEW c \in Conns, NEW s \in Sessions, NEW keep \in BOOLEAN, Reverse(c, s, keep)
    PROVE  IInv'
<1>1. c \in open /\ param[c] = NoReverse /\ s # NoReverse
  BY NoReverseNoSession DEF Reverse, Readable
<1>2. TypeOK'
  BY DEF IInv, TypeOK, Reverse, Endpoints, newsVars
<1>3. ClosedTidy'
  BY <1>1 DEF IInv, TypeOK, ClosedTidy, Reverse
<1>4. SlotAccounting'
  <2>1. ReverseConns' = ReverseConns \cup {c} /\ c \notin ReverseConns
    BY <1>1 DEF IInv, TypeOK, Reverse, ReverseConns
  <2>2. IsFiniteSet(ReverseConns)
    BY ConnsFinite, FS_Subset DEF ReverseConns, IInv, TypeOK
  <2>3. Cardinality(ReverseConns') = Cardinality(ReverseConns) + 1
    BY <2>1, <2>2, FS_AddElement
  <2> QED
    BY <2>3, MaxReverseNat DEF IInv, TypeOK, SlotAccounting, Reverse, PoolFull
<1>5. NewsOK(News, mediaSessionId)'
  <2>1. News' = News /\ mediaSessionId' = mediaSessionId /\ open' = open
    BY DEF Reverse, News, newsVars
  <2>2. News.told[c] = Silent /\ News.seen[c] = Silent
    BY <1>1 DEF IInv, NewsOK, NewsTidy
  <2>3. \A d \in Conns : d # c => param'[d] = param[d]
    BY DEF Reverse, IInv, TypeOK
  <2>4. Silent \notin Playback
    BY DEF Silent, Playback
  <2>5. NewsCurrent(News, mediaSessionId)'
    BY <2>1, <2>2, <2>3 DEF IInv, NewsOK, NewsCurrent, Audience, TypeOK
  <2>6. NewsPrivate(News, mediaSessionId)'
    BY <2>1, <2>2, <2>3, <2>4 DEF IInv, NewsOK, NewsPrivate, TypeOK
  <2>7. NewsTidy(News)'
    BY <2>1, <2>2, <2>3 DEF IInv, NewsOK, NewsTidy
  <2>8. NewsSeen(News, mediaSessionId)'
    BY <2>1, <2>2, <2>3 DEF IInv, NewsOK, NewsSeen, Audience, TypeOK
  <2> QED
    BY <2>1, <2>5, <2>6, <2>7, <2>8 DEF IInv, NewsOK
<1> QED
  BY <1>2, <1>3, <1>4, <1>5 DEF IInv

\* A connection that leaves the list gives back the slot it held, if any.
LEMMA ReleaseKeeps ==
    ASSUME IInv, NEW c \in open, Release(c)
    PROVE  IInv'
<1>1. c \in Conns
  BY DEF IInv, TypeOK
<1>2. IsFiniteSet(ReverseConns) /\ Cardinality(ReverseConns) \in Nat
  BY ConnsFinite, FS_Subset, FS_CardinalityType DEF ReverseConns, IInv, TypeOK
<1>3. ReverseConns' = ReverseConns \ {c}
  BY <1>1 DEF Release, ReverseConns, IInv, TypeOK
<1>4. SlotAccounting' /\ reverseConnections' \in Nat
  <2>1. CASE param[c] # NoReverse
    <3>1. c \in ReverseConns
      BY <2>1 DEF ReverseConns
    <3>2. Cardinality(ReverseConns') = Cardinality(ReverseConns) - 1
      BY <1>2, <1>3, <3>1, FS_RemoveElement
    <3>3. Cardinality(ReverseConns) # 0
      BY <1>2, <3>1, FS_EmptySet
    <3> QED
      BY <1>2, <2>1, <3>2, <3>3, MaxReverseNat
         DEF IInv, SlotAccounting, Release, SlotsAfterClosing
  <2>2. CASE param[c] = NoReverse
    <3>1. ReverseConns' = ReverseConns
      BY <1>3, <2>2 DEF ReverseConns
    <3> QED
      BY <2>2, <3>1 DEF IInv, TypeOK, SlotAccounting, Release, SlotsAfterClosing
  <2> QED
    BY <2>1, <2>2
<1>5. TypeOK'
  BY <1>4 DEF IInv, TypeOK, Release, Endpoints, Closings
<1>6. ClosedTidy'
  BY <1>1 DEF IInv, TypeOK, ClosedTidy, Release
<1>7. NewsOK(News, mediaSessionId)'
  <2>1. /\ News'.told = [told EXCEPT ![c] = Silent]
        /\ News'.seen = [seen EXCEPT ![c] = Silent]
        /\ News'.status = status /\ News'.lapsed = lapsed
        /\ mediaSessionId' = mediaSessionId
    BY DEF Release, News
  <2>2. /\ \A d \in Conns \ {c} : News'.told[d] = told[d] /\ News'.seen[d] = seen[d] /\ param'[d] = param[d]
        /\ News'.told[c] = Silent /\ News'.seen[c] = Silent
        /\ c \notin open' /\ open' \subseteq open
    BY <2>1 DEF Release, IInv, TypeOK
  <2>3. News' \in NewsType
    BY <1>5 DEF News, NewsType, TypeOK
  <2>4. News.told = told /\ News.seen = seen /\ News.status = status /\ News.lapsed = lapsed
    BY DEF News
  <2>5. NewsCurrent(News, mediaSessionId)'
    BY <2>1, <2>2, <2>4 DEF IInv, NewsOK, NewsCurrent, Audience, TypeOK
  <2>6. NewsPrivate(News, mediaSessionId)'
    BY <2>1, <2>2, <2>4 DEF IInv, NewsOK, NewsPrivate, TypeOK
  <2>7. NewsTidy(News)'
    BY <2>1, <2>2, <2>4 DEF IInv, NewsOK, NewsTidy
  <2>8. NewsSeen(News, mediaSessionId)'
    BY <2>1, <2>2, <2>4 DEF IInv, NewsOK, NewsSeen, Audience, TypeOK
  <2> QED
    BY <2>3, <2>5, <2>6, <2>7, <2>8 DEF NewsOK
<1> QED
  BY <1>4, <1>5, <1>6, <1>7 DEF IInv

\* Every step keeps the invariant.
LEMMA NextInv == IInv /\ [Next]_vars => IInv'
<1> SUFFICES ASSUME IInv, [Next]_vars PROVE IInv'
  OBVIOUS
<1>1. CASE UNCHANGED vars
  BY <1>1 DEF IInv, vars, connVars, newsVars, TypeOK, ClosedTidy, SlotAccounting, ReverseConns,
              NewsOK, News, NewsCurrent, NewsSeen, NewsPrivate, NewsTidy, Audience
<1>2. ASSUME NEW c \in Conns, Accept(c) PROVE IInv'
  <2>1. TypeOK' /\ ClosedTidy'
    BY <1>2 DEF IInv, TypeOK, ClosedTidy, Accept, newsVars
  <2>2. param[c] = NoReverse /\ News.told[c] = Silent
    BY <1>2 DEF IInv, ClosedTidy, NewsOK, NewsTidy, Accept
  <2>3. SlotAccounting'
    <3>1. ReverseConns' = ReverseConns
      BY <1>2, <2>2 DEF Accept, ReverseConns
    <3> QED
      BY <1>2, <3>1 DEF Accept, IInv, SlotAccounting
  <2>4. NewsOK(News, mediaSessionId)'
    <3>1. /\ News' = News /\ mediaSessionId' = mediaSessionId /\ param' = param
          /\ open' = open \cup {c}
      BY <1>2 DEF Accept, News, newsVars
    <3>2. Silent \notin Playback
      BY DEF Silent, Playback
    <3> QED
      BY <2>2, <3>1, <3>2 DEF IInv, NewsOK, NewsCurrent, NewsSeen, NewsPrivate, NewsTidy, Audience
  <2> QED
    BY <2>1, <2>3, <2>4 DEF IInv
<1>3. ASSUME NEW c \in Conns, PeerGone(c) PROVE IInv'
  <2>1. endpoint' = [endpoint EXCEPT ![c] = endpoint[c]] /\ endpoint[c] \in Endpoints
    BY <1>3 DEF PeerGone, IInv, TypeOK
  <2> QED
    BY <1>3, <2>1, FlagsKeep DEF PeerGone, Closings
<1>4. ASSUME NEW c \in Conns, Close(c) \/ IdleExpire(c) PROVE IInv'
  BY <1>4, ReleaseKeeps DEF Close, IdleExpire
<1>5. ASSUME NEW c \in Conns, NEW keep \in BOOLEAN, CloseLocalEndpoint(c, keep),
             UNCHANGED <<mediaSessionId, reverseConnections, newsVars>>
      PROVE  IInv'
  BY <1>5, FlagsKeep DEF CloseLocalEndpoint, Endpoints, Closings
<1>6. ASSUME NEW c \in Conns, ReverseData(c) PROVE IInv'
  BY <1>5, <1>6 DEF ReverseData
<1>7. ASSUME NEW c \in Conns, NEW keep \in BOOLEAN,
             Answer(c, keep) \/ TooManyReverse(c, keep) \/ ReverseRequest(c, keep)
      PROVE  IInv'
  BY <1>5, <1>7 DEF Answer, TooManyReverse, ReverseRequest, Served
<1>8. ASSUME NEW c \in Conns, NEW keep \in BOOLEAN, NEW s \in Sessions,
             \/ Reverse(c, s, keep) \/ Play(c, s, keep) \/ Stop(c, s, keep)
             \/ \E info \in BOOLEAN : Poll(c, s, keep, info)
             \/ \E value \in RateValues : Rate(c, s, keep, value)
      PROVE  IInv'
  <2>1. CASE Reverse(c, s, keep)
    BY <2>1, ReverseKeeps
  <2>2. CASE Play(c, s, keep)
    BY <2>2, PlayKeeps
  <2>3. CASE \E info \in BOOLEAN : Poll(c, s, keep, info)
    BY <2>3, PollKeeps
  <2>4. CASE Stop(c, s, keep)
    BY <2>4, CommandKeeps, ContractCredible DEF Stop
  <2>5. ASSUME NEW value \in RateValues, Rate(c, s, keep, value) PROVE IInv'
    <3>1. \E R \in {PauseResults, ResumeResults} : Command(c, s, keep, R)
      BY <2>5 DEF Rate
    <3> QED
      BY <3>1, CommandKeeps, ContractCredible
  <2> QED
    BY <1>8, <2>1, <2>2, <2>3, <2>4, <2>5
<1>9. Next => IInv'
  BY <1>2, <1>3, <1>4, <1>6, <1>7, <1>8 DEF Next
<1> QED
  BY <1>1, <1>9

-----------------------------------------------------------------------------
(* The theorems *)

\* The inductive invariant holds in every reachable state.
THEOREM Invariance == Spec => []IInv
BY InitInv, NextInv, PTL DEF Spec

\* Members and connection fields keep their types.
THEOREM TypeCorrect == Spec => []TypeOK
<1>1. IInv => TypeOK
  BY DEF IInv
<1> QED
  BY <1>1, Invariance, PTL

\* The slot counter is exact and the limit holds, for every limit.
THEOREM SlotsAccounted == Spec => []SlotAccounting
<1>1. IInv => SlotAccounting
  BY DEF IInv
<1> QED
  BY <1>1, Invariance, PTL

\* The owner's listeners know the recorded playback, timeouts excepted.
THEOREM EventsStayCurrent == Spec => []EventsCurrent
<1>1. IInv => EventsCurrent
  BY DEF IInv, NewsOK, News, NewsCurrent, EventsCurrent
<1> QED
  BY <1>1, Invariance, PTL

\* What /playback-info showed the owner holds until an event comes.
THEOREM AnswersStayTrue == Spec => []AnswersHold
<1>1. IInv => AnswersHold
  BY DEF IInv, NewsOK, News, NewsSeen, AnswersHold
<1> QED
  BY <1>1, Invariance, PTL

\* No listener of another session hears what the owner's media does.
THEOREM MediaStaysPrivate == Spec => []OnlyOwnerHearsMedia
<1>1. IInv => OnlyOwnerHearsMedia
  BY DEF IInv, NewsOK, News, NewsPrivate, OnlyOwnerHearsMedia
<1> QED
  BY <1>1, Invariance, PTL
-----------------------------------------------------------------------------
(* The server implements PlaybackEvents *)

AbstractStep == [Listening!Next]_<<param, mediaSessionId, told>>

\* A request that writes nothing, or tells all listeners of its session, is an
\* abstract step: a stutter or a Notify.
LEMMA ToldStep ==
    ASSUME NEW s \in Sessions, NEW e \in Playback, s = mediaSessionId \/ e = "STOPPED",
           UNCHANGED <<param, mediaSessionId>>,
           told' = told \/ told' = Listening!Tell(told, s, e)
    PROVE  AbstractStep
<1>1. CASE told' = told
  BY <1>1 DEF AbstractStep
<1>2. CASE told' = Listening!Tell(told, s, e)
  <2>1. Listening!Notify(s, e)
    BY <1>2 DEF Listening!Notify
  <2> QED
    BY <2>1 DEF AbstractStep, Listening!Next
<1> QED
  BY <1>1, <1>2

\* A /play of another session is a TakeOver, one of the owner a Notify.
LEMMA PlayStep ==
    ASSUME IInv, NEW c \in Conns, NEW s \in Sessions, NEW keep \in BOOLEAN, Play(c, s, keep)
    PROVE  AbstractStep
<1>1. PICK st \in PlayResults : Publish(NotifyReverseConnection(TakenOver(s), s, s, st))
  BY DEF Play, PlayEnds
<1>2. st.playback \in Playback
  BY ContractCredible DEF Credible, Status
<1>3. \/ told' = TakenOver(s).told
      \/ told' = Listening!Tell(TakenOver(s).told, s, st.playback)
  BY <1>1, NotifyTells DEF Publish, IInv
<1>4. param' = param /\ mediaSessionId' = s
  BY DEF Play, PlayEnds, Served, CloseLocalEndpoint
<1>5. CASE s = mediaSessionId
  <2>1. TakenOver(s).told = told
    BY <1>5 DEF TakenOver, News
  <2> QED
    BY <1>2, <1>3, <1>4, <1>5, <2>1, ToldStep
<1>6. CASE s # mediaSessionId
  <2>1. TakenOver(s).told = Listening!NothingHeard
    BY <1>6 DEF TakenOver, Untold, Listening!NothingHeard
  <2>2. Listening!TakeOver(s)
    BY <1>2, <1>3, <1>4, <2>1 DEF Listening!TakeOver
  <2> QED
    BY <2>2 DEF AbstractStep, Listening!Next
<1> QED
  BY <1>5, <1>6

\* One operation of the remote control is a Notify or a stutter.
LEMMA CommandStep ==
    ASSUME IInv, NEW c \in Conns, NEW s \in Sessions, NEW keep \in BOOLEAN,
           NEW R \in SUBSET Credible, Command(c, s, keep, R)
    PROVE  AbstractStep
<1>1. PICK st \in Results(s, R) :
          Publish(NotifyReverseConnection(News, s, mediaSessionId, st))
  BY DEF Command, CommandEnds
<1>2. st.playback \in Playback /\ (s = mediaSessionId \/ st.playback = "STOPPED")
  BY ResultsCredible DEF Credible, Status
<1>3. told' = told \/ told' = Listening!Tell(told, s, st.playback)
  BY <1>1, NotifyTells DEF Publish, News, IInv
<1>4. UNCHANGED <<param, mediaSessionId>>
  BY DEF Command, CommandEnds, Served, CloseLocalEndpoint
<1> QED
  BY <1>2, <1>3, <1>4, ToldStep

\* The two notifications of a status request together tell the listeners one thing.
LEMMA PollStep ==
    ASSUME IInv, NEW c \in Conns, NEW s \in Sessions, NEW keep \in BOOLEAN,
           NEW info \in BOOLEAN, Poll(c, s, keep, info)
    PROVE  AbstractStep
<1> DEFINE R == Results(s, GetStatusResults)
           once(st) == NotifyReverseConnection(News, s, mediaSessionId, st)
           shown(st) == IF info /\ s = mediaSessionId THEN Shown(once(st), st) ELSE once(st)
           twice(st, again) == NotifyReverseConnection(shown(st), s, mediaSessionId, again)
<1>1. \A st \in R : st.playback \in Playback /\ (s = mediaSessionId \/ st.playback = "STOPPED")
  BY ContractCredible, ResultsCredible DEF Credible, Status
<1>2. \A st \in R : once(st).told = told \/ once(st).told = Listening!Tell(told, s, st.playback)
  BY NotifyTells DEF News, IInv
<1>3. \A st \in R : shown(st).told = once(st).told
  BY DEF Shown, NotifyReverseConnection
<1>4. \A st, again \in R :
          \/ twice(st, again).told = once(st).told
          \/ twice(st, again).told = Listening!Tell(once(st).told, s, again.playback)
  <2> HIDE DEF once, shown
  <2>1. \A st, again \in R :
            \/ twice(st, again).told = shown(st).told
            \/ twice(st, again).told = Listening!Tell(shown(st).told, s, again.playback)
    BY NotifyTells DEF IInv
  <2> QED
    BY <1>3, <2>1
<1>5. \A st, again \in R :
          Listening!Tell(Listening!Tell(told, s, st.playback), s, again.playback)
             = Listening!Tell(told, s, again.playback)
  BY DEF Listening!Tell
<1>6. \/ \E st \in R : told' = once(st).told
      \/ \E st, again \in R : told' = twice(st, again).told
  BY DEF Poll, PollEnds, Publish
<1> HIDE DEF R, once, shown, twice
<1>7. \E st \in R : told' = told \/ told' = Listening!Tell(told, s, st.playback)
  BY <1>2, <1>4, <1>5, <1>6
<1>8. UNCHANGED <<param, mediaSessionId>>
  BY DEF Poll, PollEnds, Served, CloseLocalEndpoint
<1> QED
  BY <1>1, <1>7, <1>8, ToldStep

\* Every step of the server is a step of PlaybackEvents or a stutter.
LEMMA StepRefines == IInv /\ [Next]_vars => AbstractStep
<1> SUFFICES ASSUME IInv, [Next]_vars PROVE AbstractStep
  OBVIOUS
<1>1. CASE UNCHANGED vars
  BY <1>1 DEF vars, connVars, newsVars, AbstractStep
<1>2. ASSUME NEW c \in Conns, Release(c), c \in open PROVE AbstractStep
  <2>1. CASE param[c] = NoReverse
    <3>1. told[c] = Silent
      BY <2>1 DEF IInv, NewsOK, NewsTidy, News
    <3>2. param' = param /\ told' = told /\ mediaSessionId' = mediaSessionId
      BY <1>2, <2>1, <3>1 DEF Release, IInv, TypeOK
    <3> QED
      BY <3>2 DEF AbstractStep
  <2>2. CASE param[c] # NoReverse
    <3>1. Listening!Unsubscribe(c)
      BY <1>2, <2>2 DEF Release, Listening!Unsubscribe
    <3> QED
      BY <3>1 DEF AbstractStep, Listening!Next
  <2> QED
    BY <2>1, <2>2
<1>3. ASSUME NEW c \in Conns, NEW s \in Sessions, NEW keep \in BOOLEAN, Reverse(c, s, keep)
      PROVE  AbstractStep
  <2>1. Listening!Subscribers = ReverseConns
    BY DEF Listening!Subscribers, ReverseConns, IInv, ClosedTidy, TypeOK
  <2>2. Listening!Cardinality(Listening!Subscribers) < MaxReverse
    <3>1. Cardinality(Listening!Subscribers) < MaxReverse
      BY <1>3, <2>1, MaxReverseNat DEF Reverse, PoolFull, IInv, SlotAccounting, TypeOK
    <3> QED
      BY <3>1 DEF Cardinality, Listening!Cardinality
  <2>3. Listening!Subscribe(c, s)
    BY <1>3, <2>2 DEF Reverse, newsVars, Listening!Subscribe
  <2> QED
    BY <2>3 DEF AbstractStep, Listening!Next
<1>4. ASSUME NEW c \in Conns, NEW s \in Sessions, NEW keep \in BOOLEAN,
             \/ Play(c, s, keep) \/ Stop(c, s, keep)
             \/ \E info \in BOOLEAN : Poll(c, s, keep, info)
             \/ \E value \in RateValues : Rate(c, s, keep, value)
      PROVE  AbstractStep
  <2>1. CASE Play(c, s, keep) \/ \E info \in BOOLEAN : Poll(c, s, keep, info)
    BY <2>1, PlayStep, PollStep
  <2>2. CASE Stop(c, s, keep)
    BY <2>2, CommandStep, ContractCredible DEF Stop
  <2>3. ASSUME NEW value \in RateValues, Rate(c, s, keep, value) PROVE AbstractStep
    <3>1. \E R \in {PauseResults, ResumeResults} : Command(c, s, keep, R)
      BY <2>3 DEF Rate
    <3> QED
      BY <3>1, CommandStep, ContractCredible
  <2> QED
    BY <1>4, <2>1, <2>2, <2>3
<1>5. ASSUME NEW c \in Conns,
             \/ Accept(c) \/ PeerGone(c) \/ ReverseData(c)
             \/ \E keep \in BOOLEAN :
                   Answer(c, keep) \/ TooManyReverse(c, keep) \/ ReverseRequest(c, keep)
      PROVE  AbstractStep
  BY <1>5 DEF Accept, PeerGone, ReverseData, Answer, TooManyReverse, ReverseRequest, Served,
              CloseLocalEndpoint, newsVars, AbstractStep
<1>6. Next => AbstractStep
  BY <1>2, <1>3, <1>4, <1>5 DEF Next, Close, IdleExpire
<1> QED
  BY <1>1, <1>6

\* The detailed server implements what PlaybackEvents promises its listeners.
THEOREM ServesListeners == Spec => ListenersServed
<1>1. Init => Listening!Init
  BY DEF Init, Listening!Init, Untold, Listening!NothingHeard
<1>2. IInv /\ [Next]_vars => [Listening!Next]_<<param, mediaSessionId, told>>
  BY StepRefines DEF AbstractStep
<1> QED
  BY <1>1, <1>2, Invariance, PTL DEF Spec, ListenersServed, Listening!Spec
=============================================================================
