------------------------------ MODULE UrlCoding ------------------------------
(***************************************************************************)
(* The conversions of Util that requests pass through: the URL coding of   *)
(* the daemon's own requests and of the queries it is sent, the parsing of *)
(* a query, and trim.  A string is a sequence of bytes.                    *)
(***************************************************************************)
EXTENDS Naturals, SequencesExt

Tab == 9   LineFeed == 10   Return == 13   Blank == 32
Percent == 37   Ampersand == 38   Plus == 43   EqualsSign == 61

Digits == 48..57
Uppers == 65..90
Lowers == 97..122
Unreserved == Digits \cup Uppers \cup Lowers \cup {45, 46, 95, 126}

HexDigits == Digits \cup 65..70 \cup 97..102
HexDigit(n) == IF n < 10 THEN 48 + n ELSE 87 + n

\* HEXTOI after tolower.
HexToInt(c) ==
    IF c \in Digits THEN c - 48 ELSE IF c \in Uppers THEN c - 55 ELSE c - 87

\* mongooseClient doubles percent signs, for requests that go through a printf
\* format; the requests to the box do not.
UrlEncode(data, mongooseClient) ==
    LET escape == IF mongooseClient THEN <<Percent, Percent>> ELSE <<Percent>>
        coded(c) ==
            IF c \in Unreserved THEN <<c>>
            ELSE escape \o <<HexDigit(c \div 16), HexDigit(c % 16)>>
    IN  FlattenSeq([i \in DOMAIN data |-> coded(data[i])])

\* Fault: the last escape of a string is not recognised.
IsEscapeShort(src, i) ==
    /\ src[i] = Percent
    /\ i + 2 < Len(src)
    /\ {src[i + 1], src[i + 2]} \subseteq HexDigits

IsEscape(src, i) ==
    /\ src[i] = Percent
    /\ i + 2 <= Len(src)
    /\ {src[i + 1], src[i + 2]} \subseteq HexDigits

\* Escapes become bytes; in a form, plus signs become blanks.
Decoded(src, isForm) ==
    LET from[i \in 1..Len(src) + 1] ==
            IF i > Len(src) THEN <<>>
            ELSE IF IsEscape(src, i)
            THEN <<16 * HexToInt(src[i + 1]) + HexToInt(src[i + 2])>> \o from[i + 3]
            ELSE <<IF isForm /\ src[i] = Plus THEN Blank ELSE src[i]>> \o from[i + 1]
    IN  from[1]

\* The string that is left in a buffer of dstLen bytes.
UrlDecode(src, dstLen) ==
    LET all == Decoded(src, TRUE)
    IN  SubSeq(all, 1, Min({dstLen - 1, Len(all)}))

Positions(s, c) == {i \in DOMAIN s : s[i] = c}

ParamName(param) ==
    LET signs == Positions(param, EqualsSign)
    IN  IF signs = {} THEN param ELSE SubSeq(param, 1, Min(signs) - 1)

\* The value of one parameter of a query, as the buffer of parseQuery holds it.
ParamValue(param, bufSize) ==
    LET signs == Positions(param, EqualsSign)
    IN  IF signs = {} THEN <<>>
        ELSE UrlDecode(SubSeq(param, Min(signs) + 1, Len(param)), bufSize)

\* The map parseQuery returns: of two parameters of a name the later one counts.
ParseQuery(query, bufSize) ==
    LET starts == {1} \cup {i + 1 : i \in Positions(query, Ampersand)}
        end(p) == Min({Len(query)} \cup {i - 1 : i \in {j \in Positions(query, Ampersand) : j >= p}})
        param(p) == SubSeq(query, p, end(p))
    IN  [name \in {ParamName(param(p)) : p \in starts} |->
            ParamValue(param(Max({p \in starts : ParamName(param(p)) = name})), bufSize)]

WhiteSpace == {Blank, LineFeed, Return, Tab}

Trim(s) ==
    LET ink == {i \in DOMAIN s : s[i] \notin WhiteSpace}
    IN  IF ink = {} THEN <<>> ELSE SubSeq(s, Min(ink), Max(ink))
=============================================================================
