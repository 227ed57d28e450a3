---------------------------- MODULE HttpMessage ----------------------------
(***************************************************************************)
(* How mongoose reads the header of a request: try_parse with all it       *)
(* calls, what on_recv_data refuses, and mg_get_header.  A header is a     *)
(* sequence of bytes; methods and versions are one unit each, names and    *)
(* values as short as can be.  The end of a sequence stands for the zero   *)
(* that ends a string.                                                     *)
(***************************************************************************)
EXTENDS Integers, UrlCoding

CONSTANT MaxHeaders    \* the size of http_headers: 30 in the code

ASSUME MaxHeadersPositive == MaxHeaders \in Nat \ {0}

Get == 1200   Post == 1201   Put == 1202
Http == 1100              \* "HTTP/"
Version10 == 1101   Version11 == 1102   Version20 == 1103

Slash == 47   BackSlash == 92   Dot == 46   Colon == 58   QuestionMark == 63
Star == 42

CrLf == <<Return, LineFeed>>

\* The bytes below 128 that isprint refuses, but for those that end lines.
Controls == (0..31 \cup {127}) \ {Return, LineFeed}

-----------------------------------------------------------------------------
(* Words *)

\* Fault: one delimiter is skipped, and not all.
SkipOne(buf, delimiters) ==
    LET end == Min({Len(buf) + 1} \cup {i \in DOMAIN buf : buf[i] \in delimiters})
    IN  [word |-> SubSeq(buf, 1, end - 1), rest |-> SubSeq(buf, end + 1, Len(buf))]

\* The word before the first delimiter, and what follows the delimiters.
Skip(buf, delimiters) ==
    LET end == Min({Len(buf) + 1} \cup {i \in DOMAIN buf : buf[i] \in delimiters})
        next == Min({Len(buf) + 1} \cup {i \in end..Len(buf) : buf[i] \notin delimiters})
    IN  [word |-> SubSeq(buf, 1, end - 1), rest |-> SubSeq(buf, next, Len(buf))]

SkipSpace(buf) ==
    SubSeq(buf, Min({Len(buf) + 1} \cup {i \in DOMAIN buf : buf[i] \notin WhiteSpace}), Len(buf))

StartsWith(s, unit) == s # <<>> /\ s[1] = unit

-----------------------------------------------------------------------------
(* Headers *)

\* One turn of the loop of parse_http_headers; an empty name ends it.
NextHeader(parsed) ==
    LET name == Skip(parsed.rest, {Colon, Blank})
        value == Skip(name.rest, {Return, LineFeed})
    IN  IF parsed.stopped \/ name.word = <<>> THEN [parsed EXCEPT !.stopped = TRUE]
        ELSE [rest |-> value.rest, stopped |-> FALSE,
              headers |-> Append(parsed.headers, [name |-> name.word, value |-> value.word])]

\* There is room for MaxHeaders of them.
ParseHeaders(buf) ==
    LET after[turn \in 0..MaxHeaders] ==
            IF turn = 0 THEN [rest |-> buf, stopped |-> FALSE, headers |-> <<>>]
            ELSE NextHeader(after[turn - 1])
    IN  after[MaxHeaders].headers

Lower(c) == IF c \in Uppers THEN c + 32 ELSE c

\* mg_strcasecmp
SameName(s, t) == Len(s) = Len(t) /\ \A i \in DOMAIN s : Lower(s[i]) = Lower(t[i])

Absent == [present |-> FALSE, value |-> <<>>]

\* mg_get_header
GetHeader(headers, name) ==
    LET found == {i \in DOMAIN headers : SameName(name, headers[i].name)}
    IN  IF found = {} THEN Absent ELSE [present |-> TRUE, value |-> headers[Min(found)].value]

-----------------------------------------------------------------------------
(* The request line *)

IsSlash(s, i) == i \in DOMAIN s /\ s[i] \in {Slash, BackSlash}
IsDot(s, i) == i \in DOMAIN s /\ s[i] = Dot

\* Where remove_double_dots_and_double_slashes goes on after a slash.
AfterSlash(s, start) ==
    LET from[i \in 1..Len(s) + 1] ==
            IF IsSlash(s, i) THEN from[i + 1]
            ELSE IF IsDot(s, i) /\ IsSlash(s, i + 1) THEN from[i + 2]
            ELSE IF IsDot(s, i) /\ IsDot(s, i + 1) /\ i + 1 = Len(s) THEN i + 2
            ELSE IF IsDot(s, i) /\ IsDot(s, i + 1) /\ IsSlash(s, i + 2) THEN from[i + 3]
            ELSE i
    IN  from[start]

RemoveDoubleDotsAndDoubleSlashes(s) ==
    LET kept[i \in 1..Len(s) + 1] ==
            IF i > Len(s) THEN <<>>
            ELSE <<s[i]>> \o kept[IF IsSlash(s, i) THEN AfterSlash(s, i + 1) ELSE i + 1]
    IN  kept[1]

\* What stands before the first question mark, and behind it.
SplitTarget(target) ==
    LET marks == Positions(target, QuestionMark)
    IN  IF marks = {} THEN [path |-> target, hasQuery |-> FALSE, query |-> <<>>]
        ELSE [path |-> SubSeq(target, 1, Min(marks) - 1), hasQuery |-> TRUE,
              query |-> SubSeq(target, Min(marks) + 1, Len(target))]

\* mg_url_decode of a path: its pluses stay as they are.
MgUrlDecode(src) == Decoded(src, FALSE)

Normalized(path) ==
    IF StartsWith(path, Slash) \/ StartsWith(path, Dot)
    THEN RemoveDoubleDotsAndDoubleSlashes(path) ELSE path

\* Fault: the escapes of a target are resolved before it is split.
ParseTargetDecoded(target) ==
    LET parts == SplitTarget(MgUrlDecode(target))
    IN  [uri |-> Normalized(parts.path), hasQuery |-> parts.hasQuery, query |-> parts.query]

\* The query is left as it is, for parseQuery.
ParseTarget(target) ==
    LET parts == SplitTarget(target)
    IN  [uri |-> Normalized(MgUrlDecode(parts.path)),
         hasQuery |-> parts.hasQuery, query |-> parts.query]

IsValidHttpMethod(word) == word \in {<<Get>>, <<Post>>, <<Put>>}

-----------------------------------------------------------------------------
(* Where the header ends *)

Malformed == -1
NotBuffered == 0

IsAt(s, i, c) == i \in DOMAIN s /\ s[i] = c

\* The line that ends here is followed by an empty one.
EndsAt(s, i) ==
    /\ IsAt(s, i, LineFeed)
    /\ \/ IsAt(s, i + 1, LineFeed)
       \/ IsAt(s, i + 1, Return) /\ IsAt(s, i + 2, LineFeed)

\* The length of the header with the empty line; the first byte that decides counts.
GetRequestLen(s) ==
    LET deciding == {i \in DOMAIN s : s[i] \in Controls \/ EndsAt(s, i)}
        first == Min(deciding)
    IN  IF deciding = {} THEN NotBuffered
        ELSE IF s[first] \in Controls THEN Malformed
        ELSE IF s[first + 1] = LineFeed THEN first + 1 ELSE first + 2

-----------------------------------------------------------------------------
(* The message *)

NotAccepted == [accepted |-> FALSE]

\* parse_http_message, for requests; the last byte of the header is overwritten.
ParseHttpMessage(buf) ==
    LET method == Skip(SkipSpace(SubSeq(buf, 1, Len(buf) - 1)), {Blank})
        target == Skip(method.rest, {Blank})
        version == Skip(target.rest, {Return, LineFeed})
        parsed == ParseTarget(target.word)
    IN  IF IsValidHttpMethod(method.word) /\ StartsWith(version.word, Http)
        THEN [accepted |-> TRUE, method |-> method.word[1], version |-> Tail(version.word),
              uri |-> parsed.uri, hasQuery |-> parsed.hasQuery, query |-> parsed.query,
              headers |-> ParseHeaders(version.rest)]
        ELSE NotAccepted

\* try_parse, once the header is buffered; what follows the header stays there.
TryParse(buf) ==
    IF GetRequestLen(buf) = Malformed THEN NotAccepted
    ELSE ParseHttpMessage(SubSeq(buf, 1, GetRequestLen(buf)))

\* is_valid_uri, for the targets of this server.
IsValidUri(uri) == StartsWith(uri, Slash) \/ uri = <<Star>>

\* The errors of on_recv_data.
IsBadRequest(ri) == ~(ri.accepted /\ IsValidUri(ri.uri))
IsBadVersion(ri) == ri.version \notin {<<Version10>>, <<Version11>>}
=============================================================================
