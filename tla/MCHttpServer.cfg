\* Clients that wait for their answers and clients that send one request ahead; a
\* closed connection does nothing more.
CONSTANTS
    MaxHead = 3
    MaxBody = 2
    MaxRequest = 1
    ReadSize = 3
    Ahead = 1
    MaxSent = 3
SPECIFICATION MCFairSpec
CHECK_DEADLOCK FALSE
INVARIANTS
    CountersAgree
    HandledInOrder
    AnswersArrive
PROPERTY Answered
