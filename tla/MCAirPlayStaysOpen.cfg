\* The comments on reverse connections against what the code does.
CONSTANTS
    c1 = c1
    c2 = c2
    c3 = c3
    s1 = s1
    s2 = s2
    Conns = {c1, c2}
    Sessions = {s1, s2}
    InitialId = InitialId
    NoReverse = NoReverse
    MaxReverse = 1
SPECIFICATION FairSpec
PROPERTY ReverseStaysOpen
