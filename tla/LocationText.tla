---------------------------- MODULE LocationText ----------------------------
(***************************************************************************)
(* The location in a text, "Content-Location: <url>" and a line end: how   *)
(* clients write it, how getLocationAndPostionFromText finds it, and the   *)
(* way of the URL from there to the box.  The fixed text that is looked    *)
(* for is one unit, beyond the bytes.                                      *)
(***************************************************************************)
EXTENDS UrlCoding

ContentLocation == <<1000>>      \* "Content-Location: "
OtherEntry == <<1004>>           \* an entry nobody looks for, without line ends

-----------------------------------------------------------------------------
(* The client *)

Entry(ahead) == IF ahead THEN OtherEntry \o <<LineFeed>> ELSE <<>>

TextContent(url, ahead) ==
    Entry(ahead) \o ContentLocation \o url \o <<Return, LineFeed>> \o OtherEntry

-----------------------------------------------------------------------------
(* The finder *)

Refused == [found |-> FALSE, location |-> <<>>]
Found(text) == [found |-> TRUE, location |-> text]

\* string::find: the positions at which text occurs from a position on.
Occurrences(text, data, from) ==
    {i \in from..Len(data) - Len(text) + 1 : SubSeq(data, i, i + Len(text) - 1) = text}

Occurs(text, data, from) == Occurrences(text, data, from) # {}

LineAt(data, from) ==
    SubSeq(data, from,
        Min({Len(data)} \cup {i - 1 : i \in {j \in from..Len(data) : data[j] \in {Return, LineFeed}}}))

GetLocationFromText(data) ==
    IF Occurs(ContentLocation, data, 1)
    THEN Found(Trim(LineAt(data, Min(Occurrences(ContentLocation, data, 1)) + 1)))
    ELSE Refused

-----------------------------------------------------------------------------
(* TitanRemote::play and the request to the box *)

\* Fault: what follows the first blank.
RestWords(url) ==
    LET blanks == Positions(url, Blank)
    IN  IF blanks = {} \/ Min(blanks) = Len(url) THEN url
        ELSE SubSeq(url, Min(blanks) + 1, Len(url))

\* The URL that play asks for: what follows the last blank, unless that is last.
LastWord(url) ==
    LET blanks == Positions(url, Blank)
    IN  IF blanks = {} \/ Max(blanks) = Len(url) THEN url
        ELSE SubSeq(url, Max(blanks) + 1, Len(url))

\* Its bytes in the request to the box.
Encoded(url) == UrlEncode(url, FALSE)

-----------------------------------------------------------------------------
(* What it means *)

Ink(url) == {i \in DOMAIN url : url[i] # Blank}

\* The part of a URL between its last inner blank and its end, by another way
\* than the program's: the longest blank-free stretch that ends at its last ink.
FinalWord(url) ==
    LET last == Max(Ink(url))
        first == Min({i \in 1..last : i..last \subseteq Ink(url)})
    IN  SubSeq(url, first, last)
=============================================================================
