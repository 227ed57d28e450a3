\* Seconds of ten ticks, sleeps of two: three whole seconds and a bit.
CONSTANTS
    Second = 10
    Sleep = 2
    Epoch = 17
    MaxTime = 52
    MaxStep = 11
SPECIFICATION MCSpec
INVARIANTS
    BurstBounded
CHECK_DEADLOCK FALSE
