---------------------------- MODULE PlaybackData ----------------------------
(***************************************************************************)
(* The body of a /play request, as clients write it, and                   *)
(* getDataForPlayback, which looks for a location in it.  As in            *)
(* LocationText, the fixed texts that are looked for are one unit each,    *)
(* except that "</string>" is "<" and the rest.                            *)
(***************************************************************************)
EXTENDS PropList, LocationText

ContentLocationKey == <<1001>>   \* "<key>Content-Location</key>"
StringBegin == <<1002>>          \* "<string>"
StringEnd == <<60, 1003>>        \* "</string>"
LocationName == <<1005>>         \* "Content-Location", the key of a dictionary
AmpEntity == <<Ampersand, 59>>   \* "&amp;"

TextParameters == <<1010>>       \* "text/parameters"
BinaryPropList == <<1011>>       \* "application/x-apple-binary-plist"

-----------------------------------------------------------------------------
(* The client *)

NoUrl == <<0>>

\* A body without a location has another entry instead.
TextBody(url, ahead) == [kind |-> "text", url |-> url, ahead |-> ahead]
XmlBody(url, ahead) == [kind |-> "xml", url |-> url, ahead |-> ahead]
BinaryBody(document, widths) == [kind |-> "binary", document |-> document, widths |-> widths]

Escaped(url) ==
    FlattenSeq([i \in DOMAIN url |-> IF url[i] = Ampersand THEN AmpEntity ELSE <<url[i]>>])

Content(body) ==
    CASE body.kind = "binary" -> FileOf(body.document, body.widths)
      [] body.url = NoUrl -> Entry(body.ahead) \o OtherEntry
      [] body.kind = "text" -> TextContent(body.url, body.ahead)
      [] body.kind = "xml" ->
            Entry(body.ahead) \o ContentLocationKey \o <<LineFeed>> \o StringBegin
                \o Escaped(body.url) \o StringEnd \o OtherEntry

\* What a string says: its characters have one byte each, or two, the higher first.
Characters(v) ==
    CASE v.type = "TEXT" -> v.str
      [] v.type = "WIDE" -> [i \in 1..Len(v.str) \div 2 |-> 256 * v.str[2 * i - 1] + v.str[2 * i]]
      [] OTHER -> NoUrl

NamesLocation(document) == document.type = "DICT" /\ LocationName \in DOMAIN document.dict

\* The location a body names, as its client means it.
UrlOf(body) ==
    IF body.kind # "binary" THEN body.url
    ELSE IF NamesLocation(body.document) THEN Characters(body.document.dict[LocationName])
    ELSE NoUrl

\* It names the location in characters of two bytes.
IsWide(body) ==
    /\ body.kind = "binary" /\ NamesLocation(body.document)
    /\ body.document.dict[LocationName].type = "WIDE"

-----------------------------------------------------------------------------
(* The finders *)

\* substr takes one character of "</string>" with the string.
GetLocationFromPList(data) ==
    LET key == Min(Occurrences(ContentLocationKey, data, 1))
        begin == Min(Occurrences(StringBegin, data, key))
        end == Min(Occurrences(StringEnd, data, begin))
    IN  IF /\ Occurs(ContentLocationKey, data, 1)
           /\ Occurs(StringBegin, data, key)
           /\ Occurs(StringEnd, data, begin)
        THEN Found(Trim(SubSeq(data, begin + 1, end)))
        ELSE Refused

-----------------------------------------------------------------------------
(* getDataForPlayback *)

\* Property::get
GetEntry(dict, key) == IF key \in DOMAIN dict.dict THEN dict.dict[key] ELSE Null

NotRead == [type |-> "NOT_READ"]

\* The Property that is read: only from a body that is said to be one.
ReadDict(contentType, data) ==
    IF contentType.present /\ contentType.value = BinaryPropList THEN ReadFile(data) ELSE NotRead

FromDict(dict) ==
    LET location == Ascii(GetEntry(dict, LocationName))
    IN  IF location = <<>> THEN Refused ELSE Found(location)

\* Fault: a body is taken for what its content type says.
GetDataByType(contentType, data) ==
    LET dict == ReadDict(contentType, data)
    IN  IF dict.type = "DICT" THEN FromDict(dict)
        ELSE IF contentType.value = TextParameters THEN GetLocationFromText(data)
        ELSE GetLocationFromPList(data)

\* A text that is said to be one is looked at first, others are, too.
GetDataForPlayback(contentType, data) ==
    LET dict == ReadDict(contentType, data)
    IN  IF dict.type = "DICT" THEN FromDict(dict)
        ELSE IF GetLocationFromText(data).found THEN GetLocationFromText(data)
        ELSE GetLocationFromPList(data)

=============================================================================
