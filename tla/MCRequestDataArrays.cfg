\* What PropList.h says of references against how arrays are read.
CONSTANTS
    Requests <- MCRequests
    MaxHeaders = 3
    BufSize = 4
SPECIFICATION Spec
CHECK_DEADLOCK FALSE
INVARIANT ArraysReadBack
