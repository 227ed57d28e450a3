---------------------------- MODULE PlaybackEvents ----------------------------
(***************************************************************************)
(* What the AirPlay server promises to the listeners of its playback       *)
(* events, with no connection, counter or remote control in sight: a       *)
(* bounded set of listeners, each subscribed for one session; one session  *)
(* owns the media; an event for a session reaches all its listeners and    *)
(* nobody else's; only the owner's listeners hear more than "stopped".     *)
(***************************************************************************)
EXTENDS Naturals, FiniteSets

CONSTANTS Listeners, Sessions, NoSession, InitialOwner, Capacity, Events, StopEvent, Silent

VARIABLES
    session,  \* what each listener subscribed for, NoSession when it did not
    owner,    \* the session that owns the media
    heard     \* the last event each listener got since then

Subscribers == {l \in Listeners : session[l] # NoSession}
NothingHeard == [l \in Listeners |-> Silent]

\* The event e for session s reaches all of its listeners at once.
Tell(before, s, e) == [l \in Listeners |-> IF session[l] = s THEN e ELSE before[l]]

Init ==
    /\ session = [l \in Listeners |-> NoSession]
    /\ owner = InitialOwner
    /\ heard = NothingHeard

Subscribe(l, s) ==
    /\ session[l] = NoSession
    /\ Cardinality(Subscribers) < Capacity
    /\ session' = [session EXCEPT ![l] = s]
    /\ UNCHANGED <<owner, heard>>

Unsubscribe(l) ==
    /\ session[l] # NoSession
    /\ session' = [session EXCEPT ![l] = NoSession]
    /\ heard' = [heard EXCEPT ![l] = Silent]
    /\ UNCHANGED owner

Notify(s, e) ==
    /\ s = owner \/ e = StopEvent
    /\ heard' = Tell(heard, s, e)
    /\ UNCHANGED <<session, owner>>

\* Another session takes the media over, with or without an event about it.
TakeOver(s) ==
    /\ owner' = s
    /\ \/ heard' = NothingHeard
       \/ \E e \in Events : heard' = Tell(NothingHeard, s, e)
    /\ UNCHANGED session

Next ==
    \/ \E l \in Listeners : Unsubscribe(l) \/ \E s \in Sessions : Subscribe(l, s)
    \/ \E s \in Sessions : TakeOver(s) \/ \E e \in Events : Notify(s, e)

Spec == Init /\ [][Next]_<<session, owner, heard>>
=============================================================================
