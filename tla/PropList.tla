------------------------------ MODULE PropList ------------------------------
(***************************************************************************)
(* Property::read, the reader of binary property lists, and the writer it  *)
(* is made for: a file is a header, the objects, a table of their offsets  *)
(* and a trailer (the format is described at the head of PropList.h).      *)
(* Bytes are numbers, positions count from 0 as in the code.               *)
(***************************************************************************)
EXTENDS Naturals, SequencesExt

-----------------------------------------------------------------------------
(* Values: Property *)

Simple(v) == [type |-> "SIMPLE", simple |-> v]
Integer(n) == [type |-> "INT", int |-> n]
Text(s) == [type |-> "TEXT", str |-> s]      \* ASCII, data and UTF-16 strings
Array(items) == [type |-> "ARRAY", array |-> items]
Dict(entries) == [type |-> "DICT", dict |-> entries]

\* What clients write and the reader has no value of its own for.
Wide(s) == [type |-> "WIDE", str |-> s]      \* a UTF-16 string of Len(s) bytes
Real(bytes) == [type |-> "REAL", real |-> bytes]

Null == Simple(0)

\* getAscii: m_str is empty unless the value is a string.
Ascii(p) == IF p.type = "TEXT" THEN p.str ELSE <<>>

\* The upper half of a marker byte: Property::Type.
Kind == [simple |-> 0, int |-> 1, data |-> 4, ascii |-> 5, unicode |-> 6,
         array |-> 10, set |-> 12, dict |-> 13]

-----------------------------------------------------------------------------
(* The reader *)

\* A big-endian number of n bytes.
Number(file, pos, n) ==
    FoldLeft(LAMBDA v, i : v * 256 + file[pos + i], 0, [i \in 1..n |-> i])

\* Fault: a count of 15 is taken for a count.
GetLenShort(file, pos) == [len |-> file[pos + 1] % 16, offset |-> 1]

\* The count of an object at pos, and the offset of what follows it.
GetLen(file, pos) ==
    LET info == file[pos + 1] % 16
        bytes == 2 ^ (file[pos + 2] % 16)
    IN  IF info = 15 THEN [len |-> Number(file, pos + 2, bytes), offset |-> 2 + bytes]
        ELSE [len |-> info, offset |-> 1]

\* The references of an array lie one byte apart, however wide they are.
ArrayRefs(file, pos, refWidth) ==
    LET count == GetLen(file, pos)
    IN  [i \in 1..count.len |-> Number(file, pos + count.offset + i - 1, refWidth)]

\* The references of a dictionary: those of its keys, then those of its values.
DictRefs(file, pos, refWidth) ==
    LET count == GetLen(file, pos)
        at(i) == Number(file, pos + count.offset + i * refWidth, refWidth)
    IN  [i \in 1..count.len |-> [key |-> at(i - 1), value |-> at(count.len + i - 1)]]

RECURSIVE ReadObject(_, _, _, _)

\* readObject into a fresh Property.  A container without entries, and what the
\* reader does not decode, leave that as it is.
ReadObject(file, refWidth, table, index) ==
    LET pos == table[index + 1]
        kind == file[pos + 1] \div 16
        count == GetLen(file, pos)
        bytes(n) == Text(SubSeq(file, pos + count.offset + 1, pos + count.offset + n))
        read(i) == ReadObject(file, refWidth, table, i)
        refs == ArrayRefs(file, pos, refWidth)
        pairs == DictRefs(file, pos, refWidth)
        key(i) == Ascii(read(pairs[i].key))
    IN  IF index >= Len(table) THEN Null
        ELSE CASE kind = Kind.simple -> Simple(file[pos + 1])
               [] kind = Kind.int -> Integer(Number(file, pos + 1, 2 ^ (file[pos + 1] % 16)))
               [] kind \in {Kind.data, Kind.ascii} -> bytes(count.len)
               [] kind = Kind.unicode -> bytes(2 * count.len)
               [] kind \in {Kind.array, Kind.set} ->
                    IF refs = <<>> THEN Null ELSE Array([i \in DOMAIN refs |-> read(refs[i])])
               [] kind = Kind.dict ->
                    IF pairs = <<>> THEN Null
                    ELSE Dict([k \in {key(i) : i \in DOMAIN pairs} |->
                            read(pairs[Max({i \in DOMAIN pairs : key(i) = k})].value)])
               [] OTHER -> Null

Magic == <<98, 112, 108, 105, 115, 116>>    \* "bplist"
TrailerSize == 32
Invalid == [type |-> "INVALID"]

\* The trailer's fields, the last 26 bytes of the file.
Trailer(file) ==
    LET at == Len(file) - 26
    IN  [offsetBytes |-> file[at + 1],
         objectBytes |-> file[at + 2],
         numOfObjects |-> Number(file, at + 2, 8),
         rootId |-> Number(file, at + 10, 8),
         offsetTablePos |-> Number(file, at + 18, 8)]

\* The version is refused only if both digits of it are wrong.
HeaderValid(file) ==
    /\ Len(file) >= 40
    /\ SubSeq(file, 1, 6) = Magic
    /\ file[7] = 48 \/ file[8] = 48

TrailerValid(file, t) ==
    /\ t.offsetBytes \in 1..8
    /\ t.objectBytes \in 1..8
    /\ t.offsetTablePos >= 8
    /\ t.offsetTablePos + t.offsetBytes * t.numOfObjects + TrailerSize <= Len(file)

OffsetTable(file, t) ==
    [i \in 1..t.numOfObjects |->
        Number(file, t.offsetTablePos + (i - 1) * t.offsetBytes, t.offsetBytes)]

ReadFile(file) ==
    LET t == Trailer(file)
    IN  IF HeaderValid(file) /\ TrailerValid(file, t)
        THEN ReadObject(file, t.objectBytes, OffsetTable(file, t), t.rootId)
        ELSE Invalid

-----------------------------------------------------------------------------
(* The writer: the clients, as PropList.h describes their files *)

Keys(v) == SetToSeq(DOMAIN v.dict)

\* The values an object refers to, in the order of its references.
Children(v) ==
    CASE v.type = "ARRAY" -> v.array
      [] v.type = "DICT" -> [i \in DOMAIN Keys(v) |-> Text(Keys(v)[i])]
                            \o [i \in DOMAIN Keys(v) |-> v.dict[Keys(v)[i]]]
      [] OTHER -> <<>>

RECURSIVE Preorder(_)
Preorder(v) ==
    <<v>> \o FlattenSeq([i \in DOMAIN Children(v) |-> Preorder(Children(v)[i])])

\* Every value is written once, however often it occurs.
Objects(v) ==
    FoldLeft(LAMBDA all, u : IF Contains(all, u) THEN all ELSE Append(all, u), <<>>, Preorder(v))

\* Big-endian; the numbers of the documents are below 2^24.
Bytes(n, width) ==
    [i \in 1..width |-> IF width - i > 2 THEN 0 ELSE (n \div 256 ^ (width - i)) % 256]

IntWidth(n) == IF n < 256 THEN 0 ELSE IF n < 65536 THEN 1 ELSE 2
IntObject(n) == <<16 + IntWidth(n)>> \o Bytes(n, 2 ^ IntWidth(n))

Marker(kind, n) ==
    IF n < 15 THEN <<16 * kind + n>> ELSE <<16 * kind + 15>> \o IntObject(n)

Position(v, all) == CHOOSE i \in DOMAIN all : all[i] = v

Refs(v, all, width) ==
    FlattenSeq([i \in DOMAIN Children(v) |-> Bytes(Position(Children(v)[i], all) - 1, width)])

ObjectBytes(v, all, width) ==
    CASE v.type = "SIMPLE" -> <<v.simple>>
      [] v.type = "INT" -> IntObject(v.int)
      [] v.type = "TEXT" -> Marker(Kind.ascii, Len(v.str)) \o v.str
      [] v.type = "WIDE" -> Marker(Kind.unicode, Len(v.str) \div 2) \o v.str
      [] v.type = "REAL" -> <<34>> \o v.real
      [] v.type = "ARRAY" -> Marker(Kind.array, Len(v.array)) \o Refs(v, all, width)
      [] v.type = "DICT" -> Marker(Kind.dict, Len(Keys(v))) \o Refs(v, all, width)

Header == Magic \o <<48, 48>>

\* The file of a value; offsets and references have the given widths.
FileOf(v, w) ==
    LET all == Objects(v)
        parts == [i \in DOMAIN all |-> ObjectBytes(all[i], all, w.ref)]
        start(i) == Len(Header) + Len(FlattenSeq(SubSeq(parts, 1, i - 1)))
        body == Header \o FlattenSeq(parts)
    IN  body \o FlattenSeq([i \in DOMAIN all |-> Bytes(start(i), w.offset)])
             \o Bytes(0, 6) \o <<w.offset, w.ref>>
             \o Bytes(Len(all), 8) \o Bytes(0, 8) \o Bytes(Len(body), 8)

-----------------------------------------------------------------------------
(* What is read of a value that is written *)

RECURSIVE Understood(_)

\* The reader knows no reals, no widths of characters, and takes a container
\* without entries for nothing.
Understood(v) ==
    CASE v.type = "WIDE" -> Text(v.str)
      [] v.type = "REAL" -> Null
      [] v.type = "ARRAY" ->
            IF v.array = <<>> THEN Null
            ELSE Array([i \in DOMAIN v.array |-> Understood(v.array[i])])
      [] v.type = "DICT" ->
            IF DOMAIN v.dict = {} THEN Null
            ELSE Dict([k \in DOMAIN v.dict |-> Understood(v.dict[k])])
      [] OTHER -> v

LongArrays(v) == {u \in ToSet(Preorder(v)) : u.type = "ARRAY" /\ Len(u.array) > 1}
=============================================================================
