------------------------------ MODULE MCEventLoop ------------------------------
(* EventLoop for TLC.  Connections are interchangeable in it, so what holds of *)
(* one of them holds of each.                                                  *)
EXTENDS EventLoop

CONSTANTS c1, c2

\* What the peer of c1 has sent is read in the end, unless c1 is closed
\* (mongoose.c 1092-1187).
MessagesRead == MessageRead(c1)

\* When the peer of c1 is gone, c1 is closed in the end, and a slot is given back
\* (mongoose.c 1017 and 1177, AirPlay.cpp 49-55).
GoneConnsClosed == GoneClosed(c1)
=============================================================================
