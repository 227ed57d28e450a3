---------------------------- MODULE RequestHeader ----------------------------
(***************************************************************************)
(* What a client means with the header of a request and what the server    *)
(* works with: the header as clients write it, and its way through         *)
(* mongoose's parser and requestHandler.  A header comes here whole; how a *)
(* request is cut into reads is the matter of HttpServer.                  *)
(***************************************************************************)
EXTENDS HttpMessage

CONSTANTS
    Requests,   \* what clients send
    BufSize     \* the buffer of parseQuery: 512 in the code

ASSUME BufSizePositive == BufSize \in Nat \ {0}

VARIABLES
    sent,        \* the request
    pc,          \* "arrived", "parsed", "play", "done" or an error
    ri,          \* the mg_connection of the request
    queryParam   \* its parameters, as requestHandler hands them to handle

headerVars == <<sent, pc, ri, queryParam>>

PlayPath == <<Slash, 112>>             \* "/play"
ContentTypeName == <<67, 45, 84>>      \* "Content-Type"

NotParsed == [n \in {} |-> <<>>]

-----------------------------------------------------------------------------
(* The client *)

Free(s, units) == \A i \in DOMAIN s : s[i] \notin units

Byte == 1..255    \* a zero ends a string

\* The ways to write a byte of a value.
Codes(code, byte) ==
    \/ /\ Len(code) = 3 /\ code[1] = Percent /\ {code[2], code[3]} \subseteq HexDigits
       /\ 16 * HexToInt(code[2]) + HexToInt(code[3]) = byte
    \/ code = <<byte>> /\ byte \in Unreserved
    \/ code = <<Plus>> /\ byte = Blank

\* A parameter without a value may lack the equals sign.
IsParam(p) ==
    /\ Free(p.name, {EqualsSign, Ampersand, Blank, Return, LineFeed})
    /\ Len(p.codes) = Len(p.value)
    /\ \A i \in DOMAIN p.value : Codes(p.codes[i], p.value[i])
    /\ p.value # <<>> => p.equals

\* The parser skips blanks and colons before a value.
IsHeader(h) ==
    /\ h.name # <<>> /\ Free(h.name, {Colon, Blank, Return, LineFeed})
    /\ Free(h.value, {Return, LineFeed})
    /\ h.value # <<>> => h.value[1] \notin {Colon, Blank}

Units == Nat
ParamFields == [name : Seq(Units), value : Seq(Byte), codes : Seq(Seq(Units)), equals : BOOLEAN]
HeaderFields == [name : Seq(Units), blanks : Seq({Blank}), value : Seq(Units)]

ASSUME WellFormed ==
    \A r \in Requests :
        /\ r.method \in Units \ WhiteSpace /\ r.version \in Units \ {Return, LineFeed}
        /\ r.path \in Seq(Byte) \ {<<>>}
        /\ r.params \in Seq(ParamFields) /\ \A i \in DOMAIN r.params : IsParam(r.params[i])
        /\ r.headers \in Seq(HeaderFields) /\ \A i \in DOMAIN r.headers : IsHeader(r.headers[i])

\* The path of a target: everything but slashes may be escaped.
EncodedPath(path) ==
    FlattenSeq([i \in DOMAIN path |->
        IF path[i] = Slash THEN <<Slash>> ELSE UrlEncode(<<path[i]>>, FALSE)])

ParamText(p) == p.name \o (IF p.equals THEN <<EqualsSign>> ELSE <<>>) \o FlattenSeq(p.codes)

\* The parameters of a query, as they are written.
Query(params) ==
    FlattenSeq([i \in DOMAIN params |->
        (IF i = 1 THEN <<QuestionMark>> ELSE <<Ampersand>>) \o ParamText(params[i])])

HeaderLine(header) == header.name \o <<Colon>> \o header.blanks \o header.value \o CrLf

\* The header of a request; the reader asks for versions 1.0 and 1.1.
Message(r) ==
    <<r.method, Blank>> \o EncodedPath(r.path) \o Query(r.params) \o <<Blank, Http, r.version>> \o CrLf
        \o FlattenSeq([i \in DOMAIN r.headers |-> HeaderLine(r.headers[i])]) \o CrLf

HeaderInit ==
    /\ sent \in Requests
    /\ pc = "arrived"
    /\ ri = NotAccepted
    /\ queryParam = NotParsed

-----------------------------------------------------------------------------
(* mongoose *)

Parsed == TryParse(Message(sent))

\* Without an end of the header, nothing happens until more is received.
Buffered == pc = "arrived" /\ GetRequestLen(Message(sent)) # NotBuffered

HandOver ==
    /\ Buffered
    /\ ~IsBadRequest(Parsed) /\ ~IsBadVersion(Parsed)
    /\ ri' = Parsed
    /\ pc' = "parsed"
    /\ UNCHANGED <<sent, queryParam>>

RefuseRequest ==
    /\ Buffered
    /\ IsBadRequest(Parsed)
    /\ pc' = "400"
    /\ UNCHANGED <<sent, ri, queryParam>>

RefuseVersion ==
    /\ Buffered
    /\ ~IsBadRequest(Parsed) /\ IsBadVersion(Parsed)
    /\ pc' = "505"
    /\ UNCHANGED <<sent, ri, queryParam>>

-----------------------------------------------------------------------------
(* AirPlay *)

IsPlay == ri.method = Post /\ ri.uri = PlayPath

RequestHandler ==
    /\ pc = "parsed"
    /\ queryParam' = IF ri.hasQuery THEN ParseQuery(ri.query, BufSize) ELSE NotParsed
    /\ pc' = IF IsPlay THEN "play" ELSE "done"
    /\ UNCHANGED <<sent, ri>>

HeaderNext == HandOver \/ RefuseRequest \/ RefuseVersion \/ RequestHandler

HeaderSpec == HeaderInit /\ [][HeaderNext]_headerVars

-----------------------------------------------------------------------------
(* Properties: the request line and the headers *)

Handed == pc \notin {"arrived", "400", "505"}

\* What stands before the first slash of a path, and its segments.
Segments(path) ==
    LET from[i \in 1..Len(path) + 1] ==
            IF i > Len(path) THEN [before |-> <<>>, segments |-> <<>>]
            ELSE IF path[i] = Slash
            THEN [before |-> <<>>, segments |-> <<from[i + 1].before>> \o from[i + 1].segments]
            ELSE [before |-> <<path[i]>> \o from[i + 1].before, segments |-> from[i + 1].segments]
    IN  from[1]

Dots == {<<Dot>>, <<Dot, Dot>>}

\* What stays of a segment; the last one keeps its slash.
Kept(segment, isLast) ==
    IF isLast THEN <<Slash>> \o (IF segment = <<Dot, Dot>> THEN <<>> ELSE segment)
    ELSE IF segment \in Dots \cup {<<>>} THEN <<>> ELSE <<Slash>> \o segment

CleanedSegments(segments) ==
    FlattenSeq([i \in DOMAIN segments |-> Kept(segments[i], i = Len(segments))])

\* A path without its empty and dotted segments, except at the end.
Cleaned(path) == Segments(path).before \o CleanedSegments(Segments(path).segments)

\* Written without control characters: those of the path and of the values of the
\* parameters are escaped, those of the rest would be sent as they are.
Printable(r) ==
    /\ r.version \notin Controls
    /\ \A i \in DOMAIN r.params : Free(r.params[i].name, Controls)
    /\ \A i \in DOMAIN r.headers : Free(r.headers[i].name \o r.headers[i].value, Controls)

\* A request the server has no reason to call a bad one.
Proper(r) == r.method \in {Get, Post} /\ StartsWith(r.path, Slash) /\ Printable(r)

\* The handlers compare the path of a request with fixed paths: it is the path the
\* client means, whatever is escaped in it, and only what a file system would
\* resolve is taken out (mongoose.c 2480-2580).  To the server a backslash counts as
\* a slash, to a client it does not: paths with one are left out.  No proper request
\* is refused with 400, whatever bytes are in its path and in the values of its
\* parameters; a request with a control character in it is (mongoose.c 1791-1794),
\* also with a tab in a header, which HTTP allows.
PathReadBack ==
    /\ pc = "400" => ~Proper(sent)
    /\ Handed => Printable(sent)
    /\ Handed => ri.method = sent.method
    /\ Handed /\ Free(sent.path, {BackSlash}) => ri.uri = Cleaned(sent.path)

\* Equal but for the case of their letters.
SameLetters(s, t) ==
    /\ Len(s) = Len(t)
    /\ \A i \in DOMAIN s : s[i] = t[i] \/ \E c \in Uppers : {s[i], t[i]} = {c, c + 32}

\* A header is found under its name in any case, with the value the client gave it
\* first, byte by byte, and a header that is not there is not found: the parser
\* does not lose its place on empty values and blanks (mongoose.c 1806-1837, 2610).
HeadersReadBack ==
    Handed =>
        \A name \in {sent.headers[i].name : i \in DOMAIN sent.headers} \cup {ContentTypeName} :
            LET heard == {i \in 1..Min({MaxHeaders, Len(sent.headers)}) :
                            SameLetters(sent.headers[i].name, name)}
            IN  GetHeader(ri.headers, name) =
                    IF heard = {} THEN Absent
                    ELSE [present |-> TRUE, value |-> sent.headers[Min(heard)].value]

-----------------------------------------------------------------------------
(* Properties: the query *)

\* handle sees the parameters the client means and no others, whatever bytes are in
\* the values; of a value that does not fit into the buffer it sees the beginning,
\* and never half a byte of an escape (Util.cpp 204-227, 269-317).
QueryReadBack ==
    Handed /\ pc # "parsed" =>
        /\ DOMAIN queryParam = {sent.params[i].name : i \in DOMAIN sent.params}
        /\ \A i \in DOMAIN sent.params :
              (\A j \in i + 1 .. Len(sent.params) : sent.params[j].name # sent.params[i].name) =>
                 queryParam[sent.params[i].name] =
                    SubSeq(sent.params[i].value, 1, Min({BufSize - 1, Len(sent.params[i].value)}))
=============================================================================
