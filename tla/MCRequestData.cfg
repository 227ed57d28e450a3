\* Requests of all kinds; room for three headers and values of three bytes.
CONSTANTS
    Requests <- MCRequests
    MaxHeaders = 3
    BufSize = 4
SPECIFICATION Spec
CHECK_DEADLOCK FALSE
INVARIANTS
    PathReadBack
    HeadersReadBack
    QueryReadBack
    ReadsBack
    UrlArrives
    NamedIsFound
