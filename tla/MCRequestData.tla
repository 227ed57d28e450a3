---------------------------- MODULE MCRequestData ----------------------------
(* Requests that differ from a plain one in one respect each. *)
EXTENDS RequestData

NoBody == TextBody(NoUrl, FALSE)
Plain == [method |-> Get, path |-> <<Slash, 97>>, params |-> <<>>, version |-> Version11,
          headers |-> <<>>, body |-> NoBody]

\* Request lines: paths of all shapes, escaped bytes, methods, versions.
Paths ==
    {<<Slash>> \o p : p \in BoundedSeq({Slash, Dot, 97, QuestionMark}, 5)}
    \cup {<<Slash>> \o p : p \in BoundedSeq({Slash, Percent, Plus, Blank, 233}, 2)}
    \cup {<<97>>, <<Star>>, <<Dot, Slash, 97>>, <<Slash, 97, BackSlash, Slash>>}

RequestLines ==
    {[Plain EXCEPT !.path = p] : p \in Paths}
    \cup {[Plain EXCEPT !.method = m, !.version = v] :
            m \in {Get, Post, 1299}, v \in {Version10, Version11, Version20}}

\* Headers: names in two cases, empty values, values with delimiters in them.
Headers == [name : {<<65>>, <<97>>, <<66, 45, 67>>}, blanks : {<<>>, <<Blank>>},
            value : {<<>>, <<49>>, <<50, Colon, Blank, 51>>, <<52, Blank>>}]

WithHeaders ==
    {[Plain EXCEPT !.headers = hs] : hs \in BoundedSeq(Headers, 2)}
    \cup {[Plain EXCEPT !.headers = hs] :
            hs \in [1..4 -> {[name |-> <<n>>, blanks |-> <<>>, value |-> <<49>>] : n \in {65, 97, 66, 67}}]}

\* Control characters: escaped in a path or in a value, as they are elsewhere.
WithControls ==
    {[Plain EXCEPT !.path = <<Slash, c, c, 97>>] : c \in {Tab, LineFeed, Return, 127}}
    \cup {[Plain EXCEPT !.headers = <<[name |-> n, blanks |-> <<>>, value |-> v]>>] :
            n \in {<<65>>, <<65, 127>>, <<65, 128>>}, v \in {<<>>, <<49, Tab>>, <<31, 49>>, <<49, 233>>}}
    \cup {[Plain EXCEPT !.params = <<[name |-> <<97, c>>, value |-> v, equals |-> TRUE,
                                      codes |-> [i \in DOMAIN v |-> UrlEncode(<<v[i]>>, FALSE)]]>>] :
            c \in {Tab, 127, 128}, v \in BoundedSeq({Tab, LineFeed, 127}, 2)}
    \cup {[Plain EXCEPT !.version = Tab]}

\* Queries: values of bytes that mean something to the coding, and of others.
Bytes7 == {Percent, Ampersand, Plus, EqualsSign, Blank, 50, 233}
Values == BoundedSeq(Bytes7, 2) \cup {<<50, 233, 50, 102, 37>>}

\* A client may write a blank as a plus sign, and digits of either case.
UpperCase(code) == [i \in DOMAIN code |-> IF code[i] \in 97..102 THEN code[i] - 32 ELSE code[i]]
Escape(byte, i) ==
    LET code == UrlEncode(<<byte>>, FALSE) IN IF i = 2 /\ Len(code) = 3 THEN UpperCase(code) ELSE code
Codings(value) ==
    {[i \in DOMAIN value |-> Escape(value[i], i)],
     [i \in DOMAIN value |-> IF value[i] = Blank THEN <<Plus>> ELSE Escape(value[i], i)]}

\* A parameter without a value may lack the equals sign.
MCParams ==
    UNION {[name : {n}, value : {v}, codes : Codings(v),
            equals : IF v = <<>> THEN BOOLEAN ELSE {TRUE}] : n \in {<<97>>, <<98, 99>>}, v \in Values}

\* Of two values one has at most one byte.
WithQuery ==
    {[Plain EXCEPT !.params = <<p>>] : p \in MCParams}
    \cup {[Plain EXCEPT !.params = pair] :
            pair \in {q \in MCParams \X MCParams : \E i \in 1..2 : Len(q[i].value) < 2}}

\* Bodies: a URL in each form, under each content type.
ContentTypes ==
    {<<>>} \cup {<<[name |-> n, blanks |-> <<Blank>>, value |-> t]>> :
                    n \in {ContentTypeName, <<99, 45, 116>>}, t \in {TextParameters, BinaryPropList, <<49>>}}

PlayRequest(body, headers) ==
    [Plain EXCEPT !.method = Post, !.path = PlayPath, !.headers = headers, !.body = body]

Urls == BoundedSeq({Blank, Percent, Ampersand, Plus, 97, 233}, 3)
Widths == [offset : {2, 3}, ref : {1, 2}]
Location(url) == Dict([k \in {LocationName} |-> Text(url)])
Narrow == [offset |-> 2, ref |-> 1]

Bodies ==
    {TextBody(u, a) : u \in Urls \cup {NoUrl}, a \in BOOLEAN}
    \cup {XmlBody(u, a) : u \in Urls \cup {NoUrl}, a \in BOOLEAN}
    \cup {BinaryBody(Location(u), Narrow) : u \in Urls}

WithBody == {PlayRequest(b, h) : b \in Bodies, h \in ContentTypes}

\* Property lists: a value of every kind, alone and in dictionaries.
Str(n) == Text([i \in 1..n |-> 96 + (i % 26)])

Scalars ==
    {Simple(8), Simple(9), Integer(0), Integer(255), Integer(256), Integer(70000), Str(0), Str(1),
     Str(14), Str(15), Str(16), Str(300), Wide(<<0, 97>>), Wide(<<3, 32, 0, Blank, 0, 98>>),
     Real(<<66, 0, 0, 0>>)}
Few == {Simple(9), Integer(256), Str(1), Str(15)}

Containers ==
    {Array(items) : items \in BoundedSeq(Few, 2)}
    \cup {Array([i \in 1..15 |-> Integer(i)])}
    \cup {Dict([k \in {} |-> Null])}
    \cup {Dict([k \in {<<97>>} |-> v]) : v \in Few \cup {Array(<<Integer(1), Str(1)>>)}}

Entries == Scalars \cup Containers

Documents ==
    Entries
    \cup {Dict([k \in {<<97>>} |-> v]) : v \in Entries}
    \cup {Dict([k \in {<<97>>, LocationName} |-> IF k = <<97>> THEN v ELSE w]) :
            v \in Entries, w \in Scalars}

PropListType == <<[name |-> ContentTypeName, blanks |-> <<Blank>>, value |-> BinaryPropList]>>

WithPropList == {PlayRequest(BinaryBody(d, w), PropListType) : d \in Documents, w \in Widths}

MCRequests == WithPropList \cup WithBody \cup WithHeaders \cup WithControls \cup RequestLines \cup WithQuery
=============================================================================
