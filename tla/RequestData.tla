----------------------------- MODULE RequestData -----------------------------
(***************************************************************************)
(* What the server makes of the body of a request: behind the way of its   *)
(* header (RequestHeader), for /play, getDataForPlayback and the request   *)
(* to the box.                                                             *)
(***************************************************************************)
EXTENDS RequestHeader, PlaybackData

VARIABLES
    dict,        \* the property list in its body
    location,    \* what getDataForPlayback has found
    asked        \* the URL the box reads in the request it gets

vars == <<headerVars, dict, location, asked>>

Init ==
    /\ HeaderInit
    /\ dict = NotRead
    /\ location = <<>> /\ asked = <<>>

Data == GetDataForPlayback(GetHeader(ri.headers, ContentTypeName), Content(sent.body))

GetData ==
    /\ dict' = ReadDict(GetHeader(ri.headers, ContentTypeName), Content(sent.body))
    /\ location' = Data.location
    /\ UNCHANGED <<sent, ri, queryParam>>

Play ==
    /\ pc = "play"
    /\ Data.found
    /\ GetData
    /\ asked' = Decoded(Encoded(LastWord(Data.location)), FALSE)
    /\ pc' = "asked"

\* 400 Bad Request, "location not set" in the log
LocationNotSet ==
    /\ pc = "play"
    /\ ~Data.found
    /\ GetData
    /\ pc' = "bad"
    /\ UNCHANGED asked

Next ==
    \/ HeaderNext /\ UNCHANGED <<dict, location, asked>>
    \/ Play \/ LocationNotSet

Spec == Init /\ [][Next]_vars

-----------------------------------------------------------------------------
(* Properties: the body *)

\* A property list is read as it was written, with counts below and above 15,
\* numbers and offsets of one byte and of more, shared and nested objects, and
\* entries the reader cannot decode beside those it can (PropList.cpp 58-268).
\* Arrays whose references are wider than a byte are ArraysReadBack's.
ReadsBack ==
    dict # NotRead /\ sent.body.kind = "binary"
        /\ (sent.body.widths.ref = 1 \/ LongArrays(sent.body.document) = {}) =>
        dict = Understood(sent.body.document)

\* PropList.h:55 has the "byte size of object refs in arrays and dicts" in the
\* trailer: arrays are read back for every such size (PropList.cpp 206-209).
ArraysReadBack ==
    dict # NotRead /\ sent.body.kind = "binary" /\ LongArrays(sent.body.document) # {} =>
        dict = Understood(sent.body.document)

Playable(url) == url # NoUrl /\ Ink(url) # {}

\* What the box is asked to play is the last word of what a client that writes a
\* text or a binary property list means, byte by byte, through three conversions
\* (AirPlay.cpp 427-501, TitanRemote.cpp 103-109, Util.cpp 178-227).  A blank at
\* the very end is taken off a text only.  This does not hold for locations of
\* two-byte characters: the reader takes the bytes for the characters (PropList.cpp
\* 156-166 against PropList.h:37), and both bytes of each are sent to the box.
UrlArrives ==
    LET url == UrlOf(sent.body)
    IN  /\ pc = "asked" /\ sent.body.kind # "xml" /\ ~IsWide(sent.body) /\ Playable(url)
        /\ sent.body.kind = "binary" => Last(url) # Blank
        => asked = FinalWord(url)

\* A text or an XML property list that names a location is never answered with
\* "location not set", whatever content type is claimed, nor is a binary one under
\* its own type, with characters of one byte or of two (AirPlay.cpp 436-464).
NamedIsFound ==
    pc = "bad" =>
        \/ UrlOf(sent.body) \in {NoUrl, <<>>}
        \/ sent.body.kind = "binary" /\ dict = NotRead

\* README.md:5: "Using AirPlay you can stream videos from iOS devices".  What the
\* box is asked to play is what a client sent in an XML property list, too
\* (AirPlay.cpp 504-532).
XmlUrlArrives ==
    LET url == UrlOf(sent.body)
    IN  pc = "asked" /\ sent.body.kind = "xml" /\ Playable(url) => asked = FinalWord(url)
=============================================================================
