------------------------------- MODULE Control -------------------------------
(***************************************************************************)
(* The interface between the AirPlay server and the thing it controls:     *)
(* the Playback and Status types of include/Control.h and, for each        *)
(* operation of the Control class, the statuses its only implementation    *)
(* (TitanRemote) can return.  Position and length are left out: no         *)
(* decision of the server depends on them.                                 *)
(***************************************************************************)

Playback == {"STOPPED", "PLAYING", "PAUSED", "LOADING"}

Status == [playback : Playback, timeout : BOOLEAN]

\* What initStatus leaves in a status: no answer yet.
TimedOut == [playback |-> "STOPPED", timeout |-> TRUE]

\* A status the box answered with.
Answered(p) == [playback |-> p, timeout |-> FALSE]

\* The member AirPlay::stopped: what a session that does not own the media
\* is told.
Stopped == Answered("STOPPED")

(***************************************************************************)
(* A request that the box does not answer in time leaves the status that   *)
(* initStatus built; otherwise the reply is decoded by setStatusFromData.  *)
(***************************************************************************)
Replies(P) == {TimedOut} \cup {Answered(p) : p \in P}

\* The requests TitanRemote can send to the box.
Actions == {"STATUS", "PLAY", "PAUSE", "RESUME", "STOP"}

\* What one request brings.  A reply without content leaves STOPPED; "can not
\* start playback" means STOPPED, anything else after PLAY means LOADING.
RequestResults(action) ==
    CASE action = "STATUS" -> Replies(Playback)
      [] action = "PLAY"   -> Replies({"STOPPED", "LOADING"})
      [] action = "PAUSE"  -> Replies({"STOPPED", "PAUSED"})
      [] action = "RESUME" -> Replies({"STOPPED", "PLAYING"})
      [] action = "STOP"   -> Replies({"STOPPED"})

-----------------------------------------------------------------------------
(* What the operations of the Control class return *)

GetStatusResults == Replies(Playback)

PlayResults == Replies({"STOPPED", "LOADING"})

\* A pause is sent only while the box plays; otherwise its status is returned.
PauseResults == Replies({"STOPPED", "PAUSED", "LOADING"})

\* A resume is sent only while the box is paused.
ResumeResults == Replies({"STOPPED", "PLAYING", "LOADING"})

StopResults == Replies({"STOPPED"})
=============================================================================
