----------------------------- MODULE AmfObjects -----------------------------
(***************************************************************************)
(* The ActionScript objects of src/as_objects.cpp: trees of values that    *)
(* are measured (Size), written to a byte stream and read from one.  The   *)
(* muxer measures the tree of onMetaData, allocates that much and writes.  *)
(*                                                                         *)
(* A string is its length: all its bytes are Char.  A number is the first  *)
(* byte of its eight.  Bytes read past the end of the stream are an error  *)
(* here; AS_Bytestream does not look at `end'.                             *)
(***************************************************************************)
EXTENDS Integers, Sequences, SequencesExt

CONSTANTS Lengths,      \* bound: lengths of names and strings
          MaxValues,    \* bound: values added to a document
          AmfNumbers    \* the numbers tried with AS_AMF3Number

LOCAL Writer == INSTANCE FlvWriter

Char == 97
Double == 0
UInt8 == 1
String == 2
Object == 3
MovieClip == 4      \* read as a string, never written
NullType == 5
UInt16 == 7
EcmaArray == 8
StrictArray == 10
Date == 11
LongString == 12
Containers == {Object, EcmaArray, StrictArray}

\* A value: its type, its number or length, and its variables.
Leaf(type, n) == [type |-> type, n |-> n, child |-> <<>>]
Container(type, child) == [type |-> type, n |-> 0, child |-> child]
Variable(hasname, name, v) == [hasname |-> hasname, name |-> name, value |-> v]

VARIABLE doc        \* a document: the container under construction

-----------------------------------------------------------------------------
(* Bytes, most significant first.                                          *)

U16(n) == <<n \div 256, n % 256>>
U32(n) == <<0, 0>> \o U16(n)
EndMarker == <<0, 0, 9>>
Chars(n) == [i \in 1..n |-> Char]
Number(n) == [i \in 1..8 |-> IF i = 1 THEN n ELSE 0]

ContainerSize(v) == CASE v.type = Object -> 1 + 3 [] v.type = EcmaArray -> 5 + 3 [] OTHER -> 5

RECURSIVE Size(_)
Size(v) ==
    CASE v.type = Double -> 9
      [] v.type = UInt8 -> 2
      [] v.type = UInt16 -> 3
      [] v.type = NullType -> 1
      [] v.type = Date -> 11
      [] v.type = String -> 3 + v.n
      [] v.type = LongString -> 5 + v.n
      [] OTHER -> FoldLeft(LAMBDA sum, var : sum + Size(var.value) + (IF var.hasname THEN 2 + var.name ELSE 0),
                           ContainerSize(v), v.child)

\* Writing a strict array makes its variables nameless, for good.
RECURSIVE AsWritten(_)
AsWritten(v) ==
    [v EXCEPT !.child = [i \in DOMAIN v.child |->
        [v.child[i] EXCEPT !.hasname = @ /\ v.type # StrictArray, !.name = IF v.type = StrictArray THEN 0 ELSE @,
                           !.value = AsWritten(@)]]]

RECURSIVE Bytes(_)
Bytes(v) ==
    LET variable(var) == (IF var.hasname THEN U16(var.name) \o Chars(var.name) ELSE <<>>) \o Bytes(var.value)
        children == FoldLeft(LAMBDA b, var : b \o variable(var), <<>>, v.child)
    IN  <<v.type>> \o
        CASE v.type = Double -> Number(v.n)
          [] v.type = UInt8 -> <<v.n>>
          [] v.type = UInt16 -> U16(v.n)
          [] v.type = NullType -> <<>>
          [] v.type = Date -> Number(v.n) \o U16(0)
          [] v.type = String -> U16(v.n) \o Chars(v.n)
          [] v.type = LongString -> U32(v.n) \o Chars(v.n)
          [] v.type = Object -> children \o EndMarker
          [] v.type = EcmaArray -> U32(Len(v.child)) \o children \o EndMarker
          [] v.type = StrictArray -> U32(Len(v.child)) \o children

Write(v) == Bytes(AsWritten(v))

-----------------------------------------------------------------------------
(* Reading: [ok, v, rest] of a stream.                                     *)

Failed(rest) == [ok |-> FALSE, v |-> Leaf(NullType, 0), rest |-> rest]
After(b, n) == SubSeq(b, n + 1, Len(b))
Got(v, rest) == [ok |-> TRUE, v |-> v, rest |-> rest]

RECURSIVE ReadValue(_), ReadVariables(_, _, _, _)

\* AS_Variable::Read, repeated: a strict array's are nameless.  An object stops at the end marker and gives up when one
\* cannot be read; an array leaves it out.
ReadVariables(b, type, count, sofar) ==
    LET nameLen == IF type = StrictArray \/ Len(b) < 2 THEN 0 ELSE b[1] * 256 + b[2]
        afterName == IF type = StrictArray THEN b ELSE After(b, 2 + nameLen)
        one == ReadValue(afterName)
        var == Variable(type # StrictArray, nameLen, one.v)
    IN  IF type = Object /\ Len(b) >= 3 /\ SubSeq(b, 1, 3) = EndMarker
        THEN [ok |-> TRUE, child |-> sofar, rest |-> After(b, 3)]
        ELSE IF type # Object /\ count = 0 THEN [ok |-> TRUE, child |-> sofar, rest |-> b]
        ELSE IF type = Object /\ ~one.ok THEN [ok |-> FALSE, child |-> <<>>, rest |-> one.rest]
        ELSE ReadVariables(one.rest, type, count - 1, IF one.ok THEN Append(sofar, var) ELSE sofar)

\* Mutant: the marker at the end of an object is left in the stream.
ReadContainerLeavesMarker(b, type) ==
    LET r == ReadVariables(After(b, 1), type, 0, <<>>)
    IN  IF r.ok THEN Got(Container(type, r.child), EndMarker \o r.rest) ELSE Failed(r.rest)

\* ECMA arrays: "sometimes it is there, sometimes not" - but the marker looked for is 3, and Write puts 9.
ReadContainer(b, type) ==
    LET head == IF type = Object THEN 1 ELSE 5
        r == ReadVariables(After(b, head), type, IF type = Object THEN 0 ELSE b[4] * 256 + b[5], <<>>)
        marked == type = EcmaArray /\ Len(r.rest) >= 3 /\ SubSeq(r.rest, 1, 3) = <<0, 0, 3>>
    IN  IF r.ok THEN Got(Container(type, r.child), IF marked THEN After(r.rest, 3) ELSE r.rest) ELSE Failed(r.rest)

ReadValue(b) ==
    LET type == b[1]
        len16 == b[2] * 256 + b[3]
        len32 == b[4] * 256 + b[5]
        needs == CASE type = Double -> 9 [] type = UInt8 -> 2 [] type \in {UInt16, String, MovieClip} -> 3 [] type = Date -> 11
                   [] type \in {LongString, EcmaArray, StrictArray} -> 5 [] OTHER -> 1
    IN  IF b = <<>> \/ Len(b) < needs THEN Failed(<<>>)
        ELSE CASE type \in {Double, Date, UInt8} -> Got(Leaf(type, b[2]), After(b, needs))
               [] type = UInt16 -> Got(Leaf(type, len16), After(b, 3))
               [] type = NullType -> Got(Leaf(type, 0), After(b, 1))
               [] type \in {String, MovieClip} -> Got(Leaf(type, len16), After(b, 3 + len16))
               [] type = LongString -> Got(Leaf(type, len32), After(b, 5 + len32))
               [] type \in Containers -> ReadContainer(b, type)
               [] OTHER -> Failed(b)

-----------------------------------------------------------------------------
(* AS_DataObject: a name, which is a string value, and one value; reading  *)
(* one takes the four bytes that follow it in a file.                      *)

DataSize(name, v) == IF name <= 0 THEN 0 ELSE 3 + name + Size(v)
DataWrite(name, v) == <<String>> \o U16(name) \o Chars(name) \o Write(v)
DataRead(b) ==
    LET name == b[2] * 256 + b[3]
        r == ReadValue(After(b, 3 + name))
    IN  IF b[1] # String \/ ~r.ok THEN Failed(r.rest) ELSE Got(r.v, After(r.rest, 4))

\* What WriteMetaData puts together: the lengths are those of the names in the source.
MetaData(video, audio) ==
    LET number8(len) == Variable(TRUE, len, Leaf(Double, 0))
        flag(len) == Variable(TRUE, len, Leaf(UInt8, 0))
    IN  Container(EcmaArray,
          <<number8(8), number8(8), Variable(TRUE, 15, Leaf(String, 16)), flag(12), flag(12), flag(12), number8(13)>>
          \o (IF video THEN <<flag(8), number8(5), number8(6), number8(9), number8(12), number8(13)>> ELSE <<flag(8)>>)
          \o (IF audio THEN <<flag(8), number8(12), number8(15), number8(15), flag(6)>> ELSE <<flag(8)>>))

-----------------------------------------------------------------------------
(* AS_AMF3Number: groups of seven bits, the top bit set on all but the     *)
(* last byte.  What does not fit 29 bits keeps the default, zero.          *)

Group(n, i) == 128 + ((n \div (128 ^ i)) % 128)

\* The last of four bytes has eight bits, but the groups above it are taken as if it had seven.
AmfEncoded(n) ==
    CASE n <= 127 -> <<n>>
      [] n > 127 /\ n < 16383 -> <<Group(n, 1), n % 128>>
      [] n >= 16383 /\ n < 2097151 -> <<Group(n, 2), Group(n, 1), n % 128>>
      [] n >= 2097151 /\ n < 536870911 -> <<Group(n, 3), Group(n, 2), Group(n, 1), n % 256>>
      [] OTHER -> <<0>>

-----------------------------------------------------------------------------
(* A document is built value by value, then written.                       *)

AmfInit == doc \in {Container(type, <<>>) : type \in Containers}

LeafValues == {Leaf(type, 0) : type \in {NullType, Double, Date}} \cup {Leaf(UInt8, 3), Leaf(UInt16, 9)}
          \cup {Leaf(type, n) : type \in {String, LongString}, n \in Lengths}

RECURSIVE Count(_)
Count(v) == FoldLeft(LAMBDA sum, var : sum + Count(var.value), 1, v.child)

\* Added to the document or to its last value; only the elements of a strict array need no name.
AddValue ==
    \E v \in LeafValues \cup {Container(type, <<>>) : type \in Containers}, name \in Lengths, hasname \in BOOLEAN :
        LET add(c) == [c EXCEPT !.child = Append(@, Variable(hasname, IF hasname THEN name ELSE 0, v))]
            n == Len(doc.child)
        IN  /\ Count(doc) <= MaxValues
            /\ \/ (hasname \/ doc.type = StrictArray) /\ doc' = add(doc)
               \/ /\ n > 0 /\ doc.child[n].value.type \in Containers
                  /\ hasname \/ doc.child[n].value.type = StrictArray
                  /\ doc' = [doc EXCEPT !.child[n].value = add(@)]

WriteDocument == doc' = AsWritten(doc)

AmfNext == AddValue \/ WriteDocument

-----------------------------------------------------------------------------
(* Properties.                                                             *)

RECURSIVE Holds(_, _)
Holds(v, type) == v.type = type \/ \E i \in DOMAIN v.child : Holds(v.child[i].value, type)
RECURSIVE NamedElement(_)
NamedElement(v) == \E i \in DOMAIN v.child :
    (v.type = StrictArray /\ v.child[i].hasname) \/ NamedElement(v.child[i].value)

\* A buffer of Size is never overrun and, unless a strict array has named elements (whose names are measured and not
\* written), filled exactly: the tag is as long as announced.
SizeIsWritten ==
    /\ Len(Write(doc)) <= Size(doc)
    /\ ~NamedElement(doc) => Len(Write(doc)) = Size(doc)
    /\ \A name \in Lengths \ {0} : ~NamedElement(doc) => Len(DataWrite(name, doc)) = DataSize(name, doc)

\* Reading what was written gives it back and stops where it ended, for any nesting without ECMA arrays.
ReadsBack ==
    LET tail == <<0, 0, 0, 7, 9>>
    IN  ~Holds(doc, EcmaArray) =>
            /\ ReadValue(Write(doc) \o tail) = Got(AsWritten(doc), tail)
            /\ \A name \in Lengths : DataRead(DataWrite(name, doc) \o tail) = Got(AsWritten(doc), <<9>>)

\* The size the muxer's model takes for onMetaData is that of the tree the code builds.
MetaDataMeasured ==
    \A video, audio \in BOOLEAN :
        3 + 10 + Size(MetaData(video, audio)) =
            Writer!MetaSize([Writer!NewWriter EXCEPT !.video = IF video THEN "FLV4" ELSE "none", !.audio = IF audio THEN "MP3" ELSE "none"])

AmfDecoded(bytes) ==
    LET groups == FoldLeft(LAMBDA r, byte : (r * 128) + (byte % 128), 0, Front(bytes))
    IN  IF Len(bytes) = 4 THEN groups * 256 + Last(bytes) ELSE groups * 128 + Last(bytes)

\* Numbers below 2^21 - 1 survive the encoding, on both sides of each change of its length.
AmfNumberKept == \A n \in AmfNumbers : n < 2097151 => AmfDecoded(AmfEncoded(n)) = n

\* The AMF values (as_objects.cpp): Size tells what Write writes, Read takes back what Write wrote, and the one document
\* the muxer writes is as long as the writer counts on.
AmfSafe == SizeIsWritten /\ ReadsBack /\ MetaDataMeasured /\ AmfNumberKept
=============================================================================
