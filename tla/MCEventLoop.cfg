\* Two connections, and requests handled in up to the time connections may idle: two
\* of them in one poll take longer.
CONSTANTS
    c1 = c1
    c2 = c2
    Conns = {c1, c2}
    Listener = l
    IdleTimeout = 1
    MaxBusy = 1
SPECIFICATION FairSpec
INVARIANTS
    TypeOK
    ClosedOnce
    EventsReachAll
PROPERTIES
    AnswerKept
    MessagesRead
    GoneConnsClosed
