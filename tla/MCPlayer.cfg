\* Two connections of two sessions, one slot; play gives up after one STOP.  The first
\* session has the empty name.
CONSTANTS
    c1 = c1
    c2 = c2
    s1 = s1
    s2 = s2
    Conns = {c1, c2}
    Sessions = {s1, s2}
    InitialId = s1
    NoReverse = NoReverse
    MaxReverse = 1
    MaxStops = 1
    KeepAlive = {TRUE}
SPECIFICATION Spec
SYMMETRY Symmetry
INVARIANTS
    ListenersKnowTheBox
    PollersKnowTheBox
PROPERTY ServerFits
