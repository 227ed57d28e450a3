\* Three connections of two sessions share two slots for reverse connections.
CONSTANTS
    c1 = c1
    c2 = c2
    c3 = c3
    s1 = s1
    s2 = s2
    Conns = {c1, c2, c3}
    Sessions = {s1, s2}
    InitialId = InitialId
    NoReverse = NoReverse
    MaxReverse = 2
SPECIFICATION Spec
SYMMETRY Symmetry
INVARIANTS
    TypeOK
    SlotAccounting
    EventsCurrent
    AnswersHold
    OnlyOwnerHearsMedia
PROPERTY ListenersServed
