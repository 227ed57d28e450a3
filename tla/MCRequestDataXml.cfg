\* What clients stream with an XML property list against what is played.
CONSTANTS
    Requests <- MCRequests
    MaxHeaders = 3
    BufSize = 4
SPECIFICATION Spec
CHECK_DEADLOCK FALSE
INVARIANT XmlUrlArrives
