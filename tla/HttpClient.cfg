\* All requests, replies and ways to cut them; makeRequest polls three times.
CONSTANT Timeout = 3
SPECIFICATION FairSpec
INVARIANTS
    TypeOK
    ResultInContract
    WholeReplyDecoded
    AnswerIsNoTimeout
PROPERTY Returns
