-------------------------- MODULE FlvFilterProofs --------------------------
(***************************************************************************)
(* Theorems about FlvFilter, for every set of media types, times and       *)
(* sizes.                                                                  *)
(***************************************************************************)
EXTENDS FlvFilter, WellFoundedInduction, TLAPS

USE DEF vars, pinVars, sessionVars

(* A pin is connected with something the filter can write, or not at all.  *)
PinsTyped ==
  pinType \in [Pins -> {mt \in MediaTypes : Writable(mt)} \cup {NoType}]

FlagsInv == PinsTyped /\ FlagsMatchPins

(* What tells a connected pin from another: its kind is video or audio.    *)
LEMMA Kinds ==
  /\ NoType.major = "none"
  /\ \A mt \in MediaTypes : Writable(mt) => /\ mt # NoType
                                            /\ mt.major \in {"video", "audio"}
  BY DEF NoType, Writable

LEMMA FlagsInit == Init => FlagsInv
  BY Kinds DEF Init, FlagsInv, PinsTyped, FlagsMatchPins, Pins

LEMMA FlagsStep == FlagsInv /\ [Next]_vars => FlagsInv'
<1> SUFFICES ASSUME FlagsInv, [Next]_vars PROVE FlagsInv'
  OBVIOUS
<1>0. /\ pinType[0] \in {mt \in MediaTypes : Writable(mt)} \cup {NoType}
      /\ pinType[1] \in {mt \in MediaTypes : Writable(mt)} \cup {NoType}
  BY DEF FlagsInv, PinsTyped, Pins
<1> USE DEF FlagsInv, PinsTyped, FlagsMatchPins, Pins
<1>1. ASSUME UNCHANGED <<pinType, hasVideo, hasAudio>> PROVE FlagsInv'
  BY <1>1
<1>2. ASSUME NEW p \in Pins, NEW mt \in MediaTypes,
             ConnectRefused(p, mt) \/ ConnectUnsupported(p, mt)
      PROVE  FlagsInv'
  BY <1>0, <1>2, Kinds
  DEF ConnectRefused, ConnectUnsupported, BreakInputConnect, Connected
<1>3. ASSUME NEW p \in Pins, NEW mt \in MediaTypes, Connect(p, mt)
      PROVE  FlagsInv'
  <2>1. Writable(mt)
    BY <1>3 DEF Connect, CheckInputType, Writable
  <2>2. mt \in {m \in MediaTypes : Writable(m)}
    BY <2>1
  <2>3. PinsTyped'
    BY <1>3, <2>2 DEF Connect
  <2>4. pinType' = [pinType EXCEPT ![p] = mt] /\ pinType[p] = NoType
    BY <1>3 DEF Connect, Connected
  <2>5. /\ mt.major = "video" => ~hasVideo
        /\ mt.major = "audio" => ~hasAudio
        /\ hasVideo' <=> hasVideo \/ mt.major = "video"
        /\ hasAudio' <=> hasAudio \/ mt.major = "audio"
    BY <1>3 DEF Connect, CheckInputType
  <2>6. CASE p = 0
    <3>1. pinType'[0] = mt /\ pinType'[1] = pinType[1] /\ pinType[0].major = "none"
      BY <2>4, <2>6, Kinds
    <3>2. mt.major \in {"video", "audio"}
      BY <2>1, Kinds
    <3> QED
      BY <1>0, <2>3, <2>5, <3>1, <3>2, Kinds
  <2>7. CASE p = 1
    <3>1. pinType'[1] = mt /\ pinType'[0] = pinType[0] /\ pinType[1].major = "none"
      BY <2>4, <2>7, Kinds
    <3>2. mt.major \in {"video", "audio"}
      BY <2>1, Kinds
    <3> QED
      BY <1>0, <2>3, <2>5, <3>1, <3>2, Kinds
  <2> QED
    BY <2>6, <2>7
<1>4. ASSUME NEW p \in Pins, Disconnect(p) PROVE FlagsInv'
  BY <1>0, <1>4, Kinds DEF Disconnect, BreakInputConnect, Connected
<1> QED
  BY <1>1, <1>2, <1>3, <1>4
  DEF Next, Dead, PinStep, SessionStep, CompleteOutputConnect,
      BreakOutputConnect, OnStartStreaming, OnMuxPacket, OnStopStreaming

(***************************************************************************)
(* has_video and has_audio tell the truth about the pins, and the filter   *)
(* never has two streams of one kind, whatever upstream offers and however *)
(* often a connection is refused halfway.                                  *)
(***************************************************************************)
THEOREM FlagsTellTheTruth == Spec => []FlagsMatchPins
<1>1. FlagsInv => FlagsMatchPins
  BY DEF FlagsInv
<1> QED
  BY <1>1, FlagsInit, FlagsStep, PTL DEF Spec

-----------------------------------------------------------------------------
(* The bytes of a file: what the recursion of FileBytes adds up to.        *)

(* Induction over the natural numbers, for a set: its complement would     *)
(* have a least member.                                                    *)
LEMMA Induction ==
  ASSUME NEW S \in SUBSET Nat, 0 \in S, \A n \in S : n + 1 \in S
  PROVE  S = Nat
<1> DEFINE T == Nat \ S
<1>1. SUFFICES ASSUME T # {} PROVE FALSE
  OBVIOUS
<1>2. PICK x \in T : \A y \in T : <<y, x>> \notin OpToRel(<, Nat)
  <2>1. T \subseteq Nat
    OBVIOUS
  <2> HIDE DEF T
  <2> QED
    BY <1>1, <2>1, WFMin, NatLessThanWellFounded, Zenon
<1>3. \A y \in T : ~(y < x)
  <2> SUFFICES ASSUME NEW y \in T, y < x PROVE FALSE
    OBVIOUS
  <2>1. y \in Nat /\ x \in Nat
    OBVIOUS
  <2>2. <<y, x>> \in OpToRel(<, Nat)
    BY <2>1, Zenon DEF OpToRel
  <2> QED
    BY <1>2, <2>2, Zenon
<1>4. x - 1 \in Nat /\ x - 1 < x /\ x - 1 + 1 = x
  OBVIOUS
<1>5. x - 1 \in T
  <2>1. x - 1 \in S => x - 1 + 1 \in S
    BY Zenon
  <2> QED
    BY <1>4, <2>1
<1> QED
  BY <1>3, <1>4, <1>5

(* f[i] is the size of the file when its first i tags have been written.   *)
Adds(f, n, tags) ==
  f = [i \in 0 .. n |-> IF i = 0 THEN 9 ELSE f[i - 1] + 15 + tags[i].written]

(* There are such sums for every number of tags ...                        *)
LEMMA SumsExist == \A tags : \A n \in Nat : \E f : Adds(f, n, tags)
<1> SUFFICES ASSUME NEW tags PROVE \A n \in Nat : \E f : Adds(f, n, tags)
  OBVIOUS
<1> DEFINE S == {n \in Nat : \E f : Adds(f, n, tags)}
<1>1. 0 \in S
  <2>1. Adds([i \in 0 .. 0 |-> 9], 0, tags)
    BY DEF Adds
  <2> QED
    BY <2>1
<1>2. ASSUME NEW n \in S PROVE n + 1 \in S
  <2>1. PICK f : Adds(f, n, tags)
    OBVIOUS
  <2> DEFINE g == [i \in 0 .. n + 1 |-> IF i = n + 1 THEN f[n] + 15 + tags[i].written ELSE f[i]]
  <2>2. \A i \in 0 .. n : g[i] = f[i] /\ f[i] = IF i = 0 THEN 9 ELSE f[i - 1] + 15 + tags[i].written
    BY <2>1 DEF Adds
  <2>3. \A i \in 0 .. n + 1 : g[i] = IF i = 0 THEN 9 ELSE g[i - 1] + 15 + tags[i].written
    <3> SUFFICES ASSUME NEW i \in 0 .. n + 1
                 PROVE  g[i] = IF i = 0 THEN 9 ELSE g[i - 1] + 15 + tags[i].written
      OBVIOUS
    <3>1. CASE i = n + 1
      <4>1. i # 0 /\ i - 1 = n /\ g[n] = f[n]
        BY <2>2, <3>1
      <4> QED
        BY <3>1, <4>1
    <3>2. CASE i # n + 1
      <4>1. i \in 0 .. n /\ (i # 0 => i - 1 \in 0 .. n)
        BY <3>2
      <4> QED
        BY <2>2, <4>1
    <3> QED
      BY <3>1, <3>2
  <2>4. Adds(g, n + 1, tags)
    BY <2>3 DEF Adds
  <2> QED
    BY <2>4
<1>3. S = Nat
  <2> HIDE DEF S
  <2>1. S \in SUBSET Nat
    BY DEF S
  <2> QED
    BY <1>1, <1>2, <2>1, Induction
<1> QED
  BY <1>3

(* ... and two of them agree as far as their tags do.                      *)
LEMMA SumsAgree ==
  ASSUME NEW k \in Nat, NEW f, NEW g, NEW s, NEW t, Adds(f, k, s), Adds(g, k + 1, t),
         \A i \in 1 .. k : s[i].written = t[i].written
  PROVE  f[k] = g[k]
<1> DEFINE S == {i \in Nat : i <= k => f[i] = g[i]}
<1>1. /\ \A i \in 0 .. k : f[i] = IF i = 0 THEN 9 ELSE f[i - 1] + 15 + s[i].written
      /\ \A i \in 0 .. k + 1 : g[i] = IF i = 0 THEN 9 ELSE g[i - 1] + 15 + t[i].written
  BY DEF Adds
<1>2. 0 \in S
  BY <1>1
<1>3. ASSUME NEW i \in S PROVE i + 1 \in S
  <2> SUFFICES ASSUME i + 1 <= k PROVE f[i + 1] = g[i + 1]
    OBVIOUS
  <2>1. i + 1 \in 0 .. k /\ i + 1 \in 0 .. k + 1 /\ i + 1 \in 1 .. k /\ i + 1 # 0 /\ i + 1 - 1 = i
    OBVIOUS
  <2>2. f[i] = g[i]
    OBVIOUS
  <2>3. f[i + 1] = f[i] + 15 + s[i + 1].written /\ g[i + 1] = g[i] + 15 + t[i + 1].written
    BY <1>1, <2>1
  <2>4. s[i + 1].written = t[i + 1].written
    BY <2>1
  <2> QED
    BY <2>2, <2>3, <2>4
<1>4. S = Nat
  <2> HIDE DEF S
  <2>1. S \in SUBSET Nat
    BY DEF S
  <2> QED
    BY <1>2, <1>3, <2>1, Induction
<1> QED
  BY <1>4

(* FileBytes, of any tags, without the trailer.                            *)
Bytes(tags) ==
  LET sum[i \in 0 .. Len(tags)] ==
        IF i = 0 THEN 9 ELSE sum[i - 1] + 15 + tags[i].written
  IN  sum[Len(tags)]

LEMMA BytesAreSums ==
  ASSUME NEW tags, Len(tags) \in Nat
  PROVE  \E f : Adds(f, Len(tags), tags) /\ Bytes(tags) = f[Len(tags)]
<1> DEFINE sum == CHOOSE f : Adds(f, Len(tags), tags)
<1>1. Adds(sum, Len(tags), tags)
  BY SumsExist
<1>2. Bytes(tags) = sum[Len(tags)]
  BY DEF Bytes, Adds
<1> QED
  BY <1>1, <1>2

(* A tag adds the size of its predecessor's, its header and its data.      *)
LEMMA BytesOfAppend ==
  ASSUME NEW T, NEW tags \in Seq(T), NEW tag \in T
  PROVE  Bytes(Append(tags, tag)) = Bytes(tags) + 15 + tag.written
<1> DEFINE longer == Append(tags, tag)
           n == Len(tags)
<1>1. n \in Nat /\ Len(longer) = n + 1 /\ longer[n + 1] = tag /\ \A i \in 1 .. n : longer[i] = tags[i]
  OBVIOUS
<1> HIDE DEF longer
<1>2. PICK f : Adds(f, n, tags) /\ Bytes(tags) = f[n]
  BY <1>1, BytesAreSums
<1>3. PICK g : Adds(g, n + 1, longer) /\ Bytes(longer) = g[n + 1]
  BY <1>1, BytesAreSums
<1>4. g[n + 1] = g[n] + 15 + tag.written
  BY <1>1, <1>3 DEF Adds
<1>5. g[n] = f[n]
  <2>1. \A i \in 1 .. n : tags[i].written = longer[i].written
    BY <1>1
  <2> HIDE DEF n
  <2>2. f[n] = g[n]
    BY <1>1, <1>2, <1>3, <2>1, SumsAgree
  <2> QED
    BY <2>2
<1> QED
  BY <1>2, <1>3, <1>4, <1>5 DEF longer

LEMMA BytesOfOne == \A tag : Bytes(<<tag>>) = 24 + tag.written
<1> SUFFICES ASSUME NEW tag PROVE Bytes(<<tag>>) = 24 + tag.written
  OBVIOUS
<1>1. PICK f : Adds(f, 1, <<tag>>) /\ Bytes(<<tag>>) = f[1]
  <2>1. Len(<<tag>>) = 1
    OBVIOUS
  <2> QED
    BY <2>1, BytesAreSums
<1>2. f[0] = 9 /\ f[1] = f[0] + 15 + tag.written
  BY <1>1 DEF Adds
<1> QED
  BY <1>1, <1>2

-----------------------------------------------------------------------------
(* The writer.                                                             *)

TagKinds == {"meta", "videoHeader", "audioHeader", "video", "audio"}
Tags == [kind : TagKinds, prev : Int, announced : Int, written : Nat, time : Int, ex : BOOLEAN]

Writers ==
  [video : VideoCodecs \cup {NoCodec}, audio : AudioCodecs \cup {NoCodec}, videoExtra : Nat, audioExtra : Nat,
   isFirst : BOOLEAN, first : Int, last : Int, lastTag : Int, fileSize : Int, io : BOOLEAN, pos : Int,
   tags : Seq(Tags), meta : [duration : Int, fileSize : Int], trailer : Int, fault : {"none", "nullRead"}]

(* onMetaData, the first tag of every file.                                *)
MetaTag(w) ==
  [kind |-> "meta", prev |-> 0, announced |-> UI24(MetaSize(w)), written |-> MetaSize(w), time |-> 0, ex |-> FALSE]

LastTag(w) == w.tags[Len(w.tags)]
DurationOf(tag) == IF IsMedia(tag) THEN tag.time ELSE 0

(***************************************************************************)
(* An open file: it begins with the onMetaData that Stop will write again, *)
(* the stream stands at its end, and m_last is what its last tag says.     *)
(***************************************************************************)
FileBegun(w) ==
  /\ Len(w.tags) > 0 /\ w.tags[1] = MetaTag(w)
  /\ w.trailer = NoTrailer
  /\ w.pos = Bytes(w.tags)

FileOpen(w) ==
  /\ FileBegun(w)
  /\ w.isFirst => Len(w.tags) = 1
  /\ w.fault = "none" => w.last = DurationOf(LastTag(w))

(* A finished one: the second onMetaData told its size and its duration.   *)
FileClosed(w) ==
  w.trailer # NoTrailer =>
    /\ Len(w.tags) > 0
    /\ w.meta.fileSize = Bytes(w.tags) + 4
    /\ w.meta.duration = DurationOf(LastTag(w))

(* What a session does not change of its writer.                           *)
SameStreams(w, v) ==
  /\ v.video = w.video /\ v.videoExtra = w.videoExtra /\ v.audio = w.audio /\ v.audioExtra = w.audioExtra
  /\ v.io = w.io /\ v.trailer = w.trailer

LEMMA MetaSizes ==
  ASSUME NEW w \in Writers
  PROVE  /\ MetaSize(w) \in Nat /\ UI24(MetaSize(w)) = MetaSize(w)
         /\ MetaTag(w) \in Tags
<1>1. MetaSize(w) \in 0 .. 400
  BY DEF MetaSize
<1>2. UI24(MetaSize(w)) = MetaSize(w)
  BY <1>1 DEF UI24
<1> QED
  BY <1>1, <1>2 DEF MetaTag, Tags, TagKinds

(* v is w with one more tag; the stream stands behind it.                  *)
Grown(w, v, tag) ==
  /\ v \in Writers /\ tag \in Tags
  /\ SameStreams(w, v)
  /\ v.isFirst = w.isFirst /\ v.first = w.first /\ v.last = w.last /\ v.fault = w.fault
  /\ v.tags = Append(w.tags, tag)
  /\ tag.prev = w.lastTag
  /\ v.pos = w.pos + 15 + tag.written

(* What Emit(w, kind, announced, written, time, ex) has done when v is it. *)
Emitted(w, v, kind, announced, written, time, ex) ==
  /\ v.lastTag = announced + 11
  /\ \E tag \in Tags :
       /\ Grown(w, v, tag)
       /\ tag.kind = kind /\ tag.announced = UI24(announced) /\ tag.written = written
       /\ tag.time = time /\ tag.ex = ex

(* Emit appends one tag and moves the stream behind it.                    *)
LEMMA EmitAppends ==
  ASSUME NEW w \in Writers, NEW kind \in TagKinds, NEW announced \in Int, NEW written \in Nat, NEW time \in Int,
         NEW ex \in BOOLEAN
  PROVE  Emitted(w, Emit(w, kind, announced, written, time, ex), kind, announced, written, time, ex)
<1> DEFINE tag == [kind |-> kind, prev |-> w.lastTag, announced |-> UI24(announced),
                   written |-> written, time |-> time, ex |-> ex]
           v == Emit(w, kind, announced, written, time, ex)
<1>1. UI24(announced) \in Int
  BY DEF UI24
<1>2. tag \in Tags
  BY <1>1 DEF Tags, Writers
<1>3. /\ tag.kind = kind /\ tag.prev = w.lastTag /\ tag.announced = UI24(announced)
      /\ tag.written = written /\ tag.time = time /\ tag.ex = ex
  OBVIOUS
<1>4. v = [w EXCEPT !.tags = Append(@, tag), !.lastTag = announced + 11, !.pos = @ + 15 + written]
  BY DEF Emit
<1> HIDE DEF tag, v
<1>5. w.tags \in Seq(Tags) /\ w.pos \in Int
  BY DEF Writers
<1>6. PICK ts \in Seq(Tags), l \in Int, p \in Int :
        ts = Append(w.tags, tag) /\ l = announced + 11 /\ p = w.pos + 15 + written
  <2>1. Append(w.tags, tag) \in Seq(Tags)
    BY <1>2, <1>5
  <2>2. announced + 11 \in Int /\ w.pos + 15 + written \in Int
    BY <1>5
  <2> QED
    BY <2>1, <2>2, Zenon
<1>7. v = [w EXCEPT !.tags = ts, !.lastTag = l, !.pos = p]
  BY <1>4, <1>6
<1>8. v \in Writers
  BY <1>7 DEF Writers
<1>9. /\ v.tags = ts /\ v.lastTag = l /\ v.pos = p
      /\ SameStreams(w, v)
      /\ v.isFirst = w.isFirst /\ v.first = w.first /\ v.last = w.last /\ v.fault = w.fault
  BY <1>7 DEF Writers, SameStreams
<1>10. Grown(w, v, tag)
  BY <1>2, <1>3, <1>6, <1>8, <1>9 DEF Grown
<1>11. Emitted(w, v, kind, announced, written, time, ex)
  BY <1>2, <1>3, <1>6, <1>9, <1>10 DEF Emitted
<1> QED
  BY <1>11 DEF v

(* One tag more: the others stay where they are.                           *)
LEMMA AppendedTags ==
  ASSUME NEW tags \in Seq(Tags), NEW tag \in Tags, NEW longer, longer = Append(tags, tag)
  PROVE  /\ longer \in Seq(Tags) /\ Len(tags) \in Nat /\ Len(longer) = Len(tags) + 1
         /\ DOMAIN tags = 1 .. Len(tags) /\ DOMAIN longer = 1 .. Len(longer)
         /\ \A i \in 1 .. Len(tags) : longer[i] = tags[i] /\ i \in 1 .. Len(longer)
         /\ longer[Len(longer)] = tag
OBVIOUS

LEMMA GrownBegun ==
  ASSUME NEW w \in Writers, NEW v, NEW tag, FileBegun(w), Grown(w, v, tag)
  PROVE  FileBegun(v)
<1>1. w.tags \in Seq(Tags) /\ w.pos \in Int /\ tag \in Tags /\ v.tags = Append(w.tags, tag)
  BY DEF Writers, Grown
<1>2. Len(v.tags) = Len(w.tags) + 1 /\ Len(v.tags) > 0 /\ v.tags[1] = w.tags[1]
  BY <1>1, AppendedTags DEF FileBegun
<1>3. Bytes(v.tags) = Bytes(w.tags) + 15 + tag.written
  BY <1>1, BytesOfAppend
<1>4. MetaTag(v) = MetaTag(w)
  BY DEF MetaTag, MetaSize, Grown, SameStreams
<1>5. v.pos = Bytes(v.tags)
  BY <1>3 DEF FileBegun, Grown
<1> QED
  BY <1>2, <1>4, <1>5 DEF FileBegun, Grown, SameStreams

(* The tags FirstPacket writes: the record of the parameter sets, which    *)
(* may not fit, and the AAC header.                                        *)
HeaderTag(tag, kind) == tag.kind = kind /\ tag.time = 0 /\ ~tag.ex

LEMMA VideoExtradata ==
  ASSUME NEW w \in Writers
  PROVE  LET v == WriteExtradataVideo(w)
         IN  \/ v = w
             \/ \E tag \in Tags : /\ Grown(w, v, tag) /\ HeaderTag(tag, "videoHeader")
                                  /\ \/ tag.announced = 4
                                     \/ tag.announced = tag.written /\ v.lastTag = 11 + tag.written
<1> DEFINE v == WriteExtradataVideo(w)
           n == MakeAVCc(w.videoExtra)
<1>1. w.videoExtra \in Nat /\ (w.videoExtra <= 0) \in BOOLEAN
  BY DEF Writers
<1>2. n = -1 \/ n \in 0 .. 100
  BY <1>1 DEF MakeAVCc, AvccFits
<1>3. "videoHeader" \in TagKinds /\ FALSE \in BOOLEAN
  BY DEF TagKinds
<1>4. PICK a \in Int, b \in Nat : a = 5 + n /\ b = IF n < 0 THEN 5 ELSE 5 + n
  BY <1>2
<1>5. v = w \/ v = Emit(w, "videoHeader", a, b, 0, FALSE)
  BY <1>4, Zenon DEF WriteExtradataVideo
<1>6. a = 4 \/ (a = b /\ UI24(a) = a)
  BY <1>2, <1>4 DEF UI24
<1>7. UI24(4) = 4
  BY DEF UI24
<1> HIDE DEF v
<1>8. CASE v = Emit(w, "videoHeader", a, b, 0, FALSE)
  <2>1. Emitted(w, v, "videoHeader", a, b, 0, FALSE)
    <3>1. 0 \in Int
      OBVIOUS
    <3> QED
      BY <1>3, <1>8, <3>1, EmitAppends, Zenon
  <2>2. PICK tag \in Tags : /\ Grown(w, v, tag)
                            /\ tag.kind = "videoHeader" /\ tag.announced = UI24(a) /\ tag.written = b
                            /\ tag.time = 0 /\ tag.ex = FALSE
    BY <2>1 DEF Emitted
  <2>3. v.lastTag = a + 11
    BY <2>1 DEF Emitted
  <2>4. HeaderTag(tag, "videoHeader")
    BY <2>2 DEF HeaderTag
  <2> QED
    BY <1>6, <1>7, <2>2, <2>3, <2>4 DEF v
<1> QED
  BY <1>5, <1>8 DEF v

LEMMA AudioExtradata ==
  ASSUME NEW w \in Writers
  PROVE  LET v == WriteExtradataAudio(w)
         IN  IF w.audio = "AAC" /\ w.audioExtra > 0
               THEN \E tag \in Tags :
                      /\ Grown(w, v, tag) /\ HeaderTag(tag, "audioHeader")
                      /\ tag.announced = UI24(tag.written) /\ tag.written = 2 + w.audioExtra
                      /\ v.lastTag = 11 + tag.written
               ELSE v = w
<1> DEFINE v == WriteExtradataAudio(w)
<1>1. "audioHeader" \in TagKinds /\ FALSE \in BOOLEAN
  BY DEF TagKinds
<1>2. PICK n \in Nat : n = 2 + w.audioExtra
  BY DEF Writers
<1>3. w.audioExtra <= 0 <=> ~(w.audioExtra > 0)
  BY DEF Writers
<1>4. CASE ~(w.audio = "AAC" /\ w.audioExtra > 0)
  BY <1>3, <1>4, Zenon DEF WriteExtradataAudio
<1>5. CASE w.audio = "AAC" /\ w.audioExtra > 0
  <2>1. v = Emit(w, "audioHeader", n, n, 0, FALSE)
    BY <1>2, <1>3, <1>5, Zenon DEF WriteExtradataAudio
  <2> HIDE DEF v
  <2>2. Emitted(w, v, "audioHeader", n, n, 0, FALSE)
    <3>1. n \in Int /\ 0 \in Int
      OBVIOUS
    <3> QED
      BY <1>1, <2>1, <3>1, EmitAppends, Zenon
  <2>3. PICK tag \in Tags : /\ Grown(w, v, tag)
                            /\ tag.kind = "audioHeader" /\ tag.announced = UI24(n) /\ tag.written = n
                            /\ tag.time = 0 /\ tag.ex = FALSE
    BY <2>2 DEF Emitted
  <2>4. v.lastTag = n + 11 /\ n + 11 = 11 + n
    BY <2>2 DEF Emitted
  <2>5. HeaderTag(tag, "audioHeader")
    BY <2>3 DEF HeaderTag
  <2> QED
    BY <1>2, <1>5, <2>3, <2>4, <2>5 DEF v
<1> QED
  BY <1>4, <1>5

-----------------------------------------------------------------------------
(* A packet.                                                               *)

(* The same file under the same origin of time.                            *)
SameFile(w, v) ==
  /\ SameStreams(w, v)
  /\ v.isFirst = w.isFirst /\ v.first = w.first
  /\ v.tags = w.tags /\ v.pos = w.pos /\ v.lastTag = w.lastTag

(* Before the first packet is written there are headers only.              *)
HeadersOnly(tags) == \A i \in DOMAIN tags : tags[i].time = 0 /\ ~IsMedia(tags[i])

(* The AAC header is there once, and before every packet.                  *)
HeaderFirst(tags) ==
  \E i \in DOMAIN tags : /\ \A k \in DOMAIN tags : tags[k].kind = "audioHeader" <=> k = i
                         /\ \A j \in DOMAIN tags : IsMedia(tags[j]) => i < j

NeedsHeader(w) == w.audio = "AAC" /\ w.audioExtra > 0

LEMMA GrownHeaders ==
  ASSUME NEW w \in Writers, NEW v, NEW tag, Grown(w, v, tag), HeadersOnly(w.tags),
         HeaderTag(tag, "videoHeader") \/ HeaderTag(tag, "audioHeader")
  PROVE  HeadersOnly(v.tags) /\ Len(v.tags) > 0 /\ ~IsMedia(LastTag(v))
<1>1. w.tags \in Seq(Tags) /\ tag \in Tags /\ v.tags = Append(w.tags, tag)
  BY DEF Grown, Writers
<1>2. tag.time = 0 /\ ~IsMedia(tag)
  BY DEF HeaderTag, IsMedia
<1>3. \A i \in DOMAIN v.tags : (i \in DOMAIN w.tags /\ v.tags[i] = w.tags[i]) \/ v.tags[i] = tag
  BY <1>1, AppendedTags
<1>4. Len(v.tags) > 0 /\ LastTag(v) = tag
  BY <1>1, AppendedTags DEF LastTag
<1> QED
  BY <1>2, <1>3, <1>4 DEF HeadersOnly

(* The first packet of a file.                                             *)
LEMMA FirstPacketWrites ==
  ASSUME NEW w \in Writers, NEW stamp \in Int, w.isFirst, FileBegun(w), Len(w.tags) = 1
  PROVE  LET v == FirstPacket(w, stamp)
         IN  /\ v \in Writers /\ SameStreams(w, v) /\ FileBegun(v)
             /\ ~v.isFirst /\ v.first = stamp /\ v.last = w.last /\ v.fault = w.fault
             /\ HeadersOnly(v.tags) /\ ~IsMedia(LastTag(v))
             /\ NeedsHeader(w) => HeaderFirst(v.tags)
<1> DEFINE a == [w EXCEPT !.isFirst = FALSE, !.first = stamp]
           b == WriteExtradataVideo(a)
           v == WriteExtradataAudio(b)
<1>1. v = FirstPacket(w, stamp)
  BY DEF FirstPacket
<1>2. /\ a \in Writers /\ ~a.isFirst /\ a.first = stamp /\ SameStreams(w, a)
      /\ a.tags = w.tags /\ a.pos = w.pos /\ a.last = w.last /\ a.fault = w.fault
  BY DEF Writers, SameStreams
<1>3. FileBegun(a)
  BY <1>2 DEF FileBegun, SameStreams, MetaTag, MetaSize
<1>4. HeadersOnly(a.tags) /\ ~IsMedia(LastTag(a)) /\ a.tags[1].kind = "meta" /\ DOMAIN a.tags = {1}
  <2>1. a.tags \in Seq(Tags) /\ Len(a.tags) = 1 /\ a.tags[1] = MetaTag(w)
    BY <1>2 DEF FileBegun, Writers
  <2>2. DOMAIN a.tags = {1} /\ a.tags[1].kind = "meta" /\ a.tags[1].time = 0 /\ LastTag(a) = a.tags[1]
    BY <2>1 DEF MetaTag, LastTag
  <2> QED
    BY <2>2 DEF HeadersOnly, IsMedia
<1> HIDE DEF a, b, v
<1>5. /\ b \in Writers /\ SameStreams(a, b) /\ FileBegun(b)
      /\ b.isFirst = a.isFirst /\ b.first = a.first /\ b.last = a.last /\ b.fault = a.fault
      /\ HeadersOnly(b.tags) /\ ~IsMedia(LastTag(b))
      /\ \A i \in DOMAIN b.tags : b.tags[i].kind # "audioHeader"
  <2>1. CASE b = a
    <3>1. \A i \in DOMAIN a.tags : a.tags[i].kind # "audioHeader"
      BY <1>4
    <3> QED
      BY <1>2, <1>3, <1>4, <2>1, <3>1 DEF SameStreams
  <2>2. ASSUME NEW tag \in Tags, Grown(a, b, tag), HeaderTag(tag, "videoHeader")
        PROVE  /\ b \in Writers /\ SameStreams(a, b) /\ FileBegun(b)
               /\ b.isFirst = a.isFirst /\ b.first = a.first /\ b.last = a.last /\ b.fault = a.fault
               /\ HeadersOnly(b.tags) /\ ~IsMedia(LastTag(b))
               /\ \A i \in DOMAIN b.tags : b.tags[i].kind # "audioHeader"
    <3>1. /\ b \in Writers /\ SameStreams(a, b) /\ b.isFirst = a.isFirst /\ b.first = a.first
          /\ b.last = a.last /\ b.fault = a.fault /\ b.tags = Append(a.tags, tag)
      BY <2>2 DEF Grown
    <3>2. FileBegun(b)
      BY <1>2, <1>3, <2>2, GrownBegun
    <3>3. HeadersOnly(b.tags) /\ ~IsMedia(LastTag(b))
      BY <1>2, <1>4, <2>2, GrownHeaders
    <3>4. a.tags \in Seq(Tags)
      BY <1>2 DEF Writers
    <3>5. \A i \in DOMAIN b.tags : (i = 1 /\ b.tags[i] = a.tags[i]) \/ b.tags[i] = tag
      BY <1>4, <3>1, <3>4, AppendedTags
    <3>6. \A i \in DOMAIN b.tags : b.tags[i].kind # "audioHeader"
      BY <1>4, <2>2, <3>5 DEF HeaderTag
    <3> QED
      BY <3>1, <3>2, <3>3, <3>6
  <2>3. b = a \/ \E tag \in Tags : Grown(a, b, tag) /\ HeaderTag(tag, "videoHeader")
    BY <1>2, VideoExtradata, Zenon DEF b
  <2> QED
    BY <2>1, <2>2, <2>3
<1>6. NeedsHeader(w) <=> b.audio = "AAC" /\ b.audioExtra > 0
  BY <1>2, <1>5 DEF NeedsHeader, SameStreams
<1>7. CASE v = b /\ ~NeedsHeader(w)
  BY <1>1, <1>2, <1>5, <1>7 DEF SameStreams
<1>8. ASSUME NEW tag \in Tags, Grown(b, v, tag), HeaderTag(tag, "audioHeader")
      PROVE  /\ v \in Writers /\ SameStreams(w, v) /\ FileBegun(v)
             /\ ~v.isFirst /\ v.first = stamp /\ v.last = w.last /\ v.fault = w.fault
             /\ HeadersOnly(v.tags) /\ ~IsMedia(LastTag(v))
             /\ HeaderFirst(v.tags)
  <2>1. /\ v \in Writers /\ SameStreams(b, v) /\ v.isFirst = b.isFirst /\ v.first = b.first
        /\ v.last = b.last /\ v.fault = b.fault /\ v.tags = Append(b.tags, tag)
    BY <1>8 DEF Grown
  <2>2. FileBegun(v)
    BY <1>5, <1>8, GrownBegun
  <2>3. HeadersOnly(v.tags) /\ ~IsMedia(LastTag(v))
    BY <1>5, <1>8, GrownHeaders
  <2>4. HeaderFirst(v.tags)
    <3>1. b.tags \in Seq(Tags)
      BY <1>5 DEF Writers
    <3>2. PICK n \in DOMAIN v.tags : v.tags[n] = tag /\ \A k \in DOMAIN v.tags : k # n => k \in DOMAIN b.tags /\ v.tags[k] = b.tags[k]
      <4>1. LastTag(v) = tag /\ Len(v.tags) \in DOMAIN v.tags
        BY <2>1, <3>1, AppendedTags DEF LastTag
      <4>2. \A k \in DOMAIN v.tags : k # Len(v.tags) => k \in DOMAIN b.tags /\ v.tags[k] = b.tags[k]
        BY <2>1, <3>1, AppendedTags
      <4> QED
        BY <4>1, <4>2 DEF LastTag
    <3>3. \A k \in DOMAIN v.tags : v.tags[k].kind = "audioHeader" <=> k = n
      BY <1>5, <1>8, <3>2 DEF HeaderTag
    <3> QED
      BY <2>3, <3>3 DEF HeaderFirst, HeadersOnly
  <2>5. SameStreams(w, v)
    BY <1>2, <1>5, <2>1 DEF SameStreams
  <2> QED
    BY <1>2, <1>5, <2>1, <2>2, <2>3, <2>4, <2>5
<1> QED
  BY <1>1, <1>5, <1>6, <1>7, <1>8, AudioExtradata DEF v

StampOf(packet) == IF packet.ex THEN packet.dts ELSE packet.start
CodecOf(w, major) == IF major = "video" THEN w.video ELSE w.audio

(* What WritePacket makes of a packet: dropped, because it comes from      *)
(* before the origin; read through NULL; or one tag more.                  *)
Dropped(v, u, t) == t < 0 /\ u = v

NullRead(v, u, t) == t >= 0 /\ u \in Writers /\ SameFile(v, u) /\ u.last = t /\ u.fault = "nullRead"

TagWritten(v, u, packet, major, t) ==
  /\ t >= 0 /\ u \in Writers /\ u.last = t /\ u.fault = v.fault
  /\ \E d \in Writers :
       /\ SameFile(d, u)
       /\ Emitted(v, d, major, packet.size + Counted(CodecOf(v, major)),
                  packet.size + HeaderWritten(major, CodecOf(v, major)), t, packet.ex)

LEMMA PacketTyped ==
  ASSUME NEW packet \in Packet
  PROVE  packet.start \in Int /\ packet.dts \in Int /\ packet.ex \in BOOLEAN /\ packet.size \in Nat
         /\ StampOf(packet) \in Int
  BY StampsAssumption, SizesAssumption DEF Packet, StampOf

LEMMA HeaderSizes ==
  \A codec, kind : Counted(codec) \in {1, 2, 5} /\ HeaderWritten(kind, codec) \in {0, 1, 2, 5}
<1> SUFFICES ASSUME NEW codec, NEW kind PROVE Counted(codec) \in {1, 2, 5} /\ HeaderWritten(kind, codec) \in {0, 1, 2, 5}
  OBVIOUS
<1>1. CASE codec = "H264"
  BY <1>1 DEF Counted, HeaderWritten
<1>2. CASE codec \in {"FLV4", "AAC"}
  BY <1>2 DEF Counted, HeaderWritten
<1>3. CASE codec \notin {"H264", "FLV4", "AAC"}
  BY <1>3 DEF Counted, HeaderWritten
<1> QED
  BY <1>1, <1>2, <1>3

LEMMA PacketWrites ==
  ASSUME NEW w \in Writers, w.io, NEW packet \in Packet, NEW major \in {"video", "audio"},
         NEW v \in Writers, v = FirstPacket(w, StampOf(packet)), SameStreams(w, v)
  PROVE  LET u == WritePacket(w, packet, major)
             t == StampOf(packet) - v.first
         IN  Dropped(v, u, t) \/ NullRead(v, u, t) \/ TagWritten(v, u, packet, major, t)
<1> DEFINE u == WritePacket(w, packet, major)
           t == StampOf(packet) - v.first
           a == packet.size + Counted(CodecOf(v, major))
           n == packet.size + HeaderWritten(major, CodecOf(v, major))
           done == Emit(v, major, a, n, t, packet.ex)
<1>1. t \in Int /\ a \in Int /\ n \in Nat /\ packet.ex \in BOOLEAN /\ packet.size \in Nat /\ (t < 0 <=> ~(t >= 0))
  <2>1. v.first \in Int
    BY DEF Writers
  <2>2. packet.ex \in BOOLEAN /\ packet.size \in Nat /\ StampOf(packet) \in Int
    BY PacketTyped, Zenon
  <2>3. Counted(CodecOf(v, major)) \in {1, 2, 5} /\ HeaderWritten(major, CodecOf(v, major)) \in {0, 1, 2, 5}
    BY HeaderSizes, Zenon
  <2> QED
    BY <2>1, <2>2, <2>3
<1>2. CodecOf(v, major) = IF major = "video" THEN w.video ELSE w.audio
  BY DEF CodecOf, SameStreams
<1>3. /\ t < 0 => u = v
      /\ t >= 0 /\ major = "video" /\ packet.size = 0 => u = [v EXCEPT !.last = t, !.fault = "nullRead"]
      /\ t >= 0 /\ ~(major = "video" /\ packet.size = 0) => u = [done EXCEPT !.last = t, !.fileSize = done.pos]
  BY <1>1, <1>2, Zenon DEF WritePacket, StampOf
<1>4. Emitted(v, done, major, a, n, t, packet.ex)
  <2>1. major \in TagKinds
    BY DEF TagKinds
  <2> HIDE DEF a, n, t
  <2> QED
    BY <1>1, <2>1, EmitAppends, Zenon
<1> HIDE DEF u, t, a, n, done
<1>5. CASE t < 0
  BY <1>3, <1>5 DEF Dropped, u, t
<1>6. CASE t >= 0 /\ major = "video" /\ packet.size = 0
  <2>1. u = [v EXCEPT !.last = t, !.fault = "nullRead"] /\ t \in Int
    BY <1>1, <1>3, <1>6
  <2>2. u \in Writers
    BY <2>1 DEF Writers
  <2>3. SameFile(v, u) /\ u.last = t /\ u.fault = "nullRead"
    BY <2>1 DEF Writers, SameFile, SameStreams
  <2> QED
    BY <1>6, <2>2, <2>3 DEF NullRead, u, t
<1>7. CASE t >= 0 /\ ~(major = "video" /\ packet.size = 0)
  <2>1. done \in Writers /\ done.fault = v.fault /\ done.pos \in Int
    BY <1>4 DEF Emitted, Grown, Writers
  <2>2. PICK p \in Int : p = done.pos
    BY <2>1
  <2>3. u = [done EXCEPT !.last = t, !.fileSize = p] /\ t \in Int
    BY <1>1, <1>3, <1>7, <2>2
  <2>4. u \in Writers
    BY <2>1, <2>3 DEF Writers
  <2>5. SameFile(done, u) /\ u.last = t /\ u.fault = v.fault
    BY <2>1, <2>3 DEF Writers, SameFile, SameStreams
  <2> QED
    BY <1>4, <1>7, <2>1, <2>4, <2>5 DEF TagWritten, u, t, a, n
<1> QED
  BY <1>1, <1>5, <1>6, <1>7

-----------------------------------------------------------------------------
(* What is kept of a file.                                                 *)

(* TagTimesSorted, of any tags.                                            *)
Sorted(tags) ==
  \A i, j \in DOMAIN tags :
    /\ tags[i].time >= 0
    /\ (i < j /\ IsMedia(tags[i]) /\ IsMedia(tags[j])
          /\ ~tags[i].ex /\ ~tags[j].ex) => tags[i].time <= tags[j].time

(* No packet in the file starts after the time now.                        *)
NoneAfter(w, now) ==
  \A i \in DOMAIN w.tags : IsMedia(w.tags[i]) /\ ~w.tags[i].ex => w.tags[i].time + w.first <= now

LEMMA HeadersAreSorted ==
  \A w : \A now : HeadersOnly(w.tags) => Sorted(w.tags) /\ NoneAfter(w, now)
  BY DEF HeadersOnly, Sorted, NoneAfter

(* A tag with the time of the packet that comes now.                       *)
LEMMA GrownSorted ==
  ASSUME NEW w \in Writers, NEW v, NEW tag, Grown(w, v, tag), NEW now \in Int, NEW start \in Int,
         Sorted(w.tags), NoneAfter(w, now), now <= start \/ HeadersOnly(w.tags),
         tag.time >= 0, ~tag.ex => tag.time + w.first = start
  PROVE  Sorted(v.tags) /\ NoneAfter(v, start)
<1>1. w.tags \in Seq(Tags) /\ tag \in Tags /\ v.tags = Append(w.tags, tag) /\ v.first = w.first /\ w.first \in Int
  BY DEF Grown, Writers
<1>2. /\ Len(w.tags) \in Nat /\ DOMAIN v.tags = 1 .. Len(w.tags) + 1 /\ DOMAIN w.tags = 1 .. Len(w.tags)
      /\ v.tags[Len(w.tags) + 1] = tag
      /\ \A i \in 1 .. Len(w.tags) : v.tags[i] = w.tags[i]
      /\ \A i \in 1 .. Len(w.tags) : w.tags[i].time \in Int
      /\ tag.time \in Int
  <2>1. \A i \in DOMAIN w.tags : w.tags[i] \in Tags
    BY <1>1
  <2>2. \A x \in Tags : x.time \in Int
    BY DEF Tags
  <2> QED
    BY <1>1, <2>1, <2>2, AppendedTags
<1>3. NoneAfter(w, start)
  <2>1. CASE HeadersOnly(w.tags)
    BY <2>1, HeadersAreSorted
  <2>2. CASE now <= start
    BY <1>1, <1>2, <2>2 DEF NoneAfter
  <2> QED
    BY <2>1, <2>2
<1>4. NoneAfter(v, start)
  BY <1>1, <1>2, <1>3 DEF NoneAfter
<1>5. \A i \in 1 .. Len(w.tags) : IsMedia(w.tags[i]) /\ ~w.tags[i].ex /\ ~tag.ex => w.tags[i].time <= tag.time
  <2> SUFFICES ASSUME NEW i \in 1 .. Len(w.tags), IsMedia(w.tags[i]), ~w.tags[i].ex, ~tag.ex
               PROVE  w.tags[i].time <= tag.time
    BY Zenon
  <2>1. w.tags[i].time + w.first <= start
    BY <1>2, <1>3, Zenon DEF NoneAfter
  <2>2. tag.time + w.first = start
    OBVIOUS
  <2> QED
    BY <1>1, <1>2, <2>1, <2>2
<1>6. Sorted(v.tags)
  BY <1>1, <1>2, <1>5 DEF Sorted
<1> QED
  BY <1>4, <1>6

LEMMA GrownHeaderFirst ==
  ASSUME NEW w \in Writers, NEW v, NEW tag, Grown(w, v, tag), HeaderFirst(w.tags), IsMedia(tag)
  PROVE  HeaderFirst(v.tags)
<1>1. w.tags \in Seq(Tags) /\ tag \in Tags /\ v.tags = Append(w.tags, tag)
  BY DEF Grown, Writers
<1>2. /\ Len(w.tags) \in Nat /\ DOMAIN v.tags = 1 .. Len(w.tags) + 1 /\ DOMAIN w.tags = 1 .. Len(w.tags)
      /\ v.tags[Len(w.tags) + 1] = tag
      /\ \A i \in 1 .. Len(w.tags) : v.tags[i] = w.tags[i]
  BY <1>1, AppendedTags
<1>3. tag.kind # "audioHeader"
  BY DEF IsMedia
<1> QED
  BY <1>1, <1>2, <1>3 DEF HeaderFirst

-----------------------------------------------------------------------------
(* The invariant.                                                          *)

(* Between sessions, and in one without an output, no file is open.        *)
WriterInv ==
  /\ writer \in Writers /\ count \in Nat /\ clock \in Int /\ active \in BOOLEAN
  /\ writer.io => active /\ FileOpen(writer) /\ (count = 0 <=> writer.isFirst)
  /\ ~writer.io => FileClosed(writer)

TimesInv == Sorted(writer.tags) /\ (writer.io => NoneAfter(writer, clock))

AudioInv == writer.io /\ NeedsHeader(writer) /\ ~writer.isFirst => HeaderFirst(writer.tags)

FileInv == FlagsInv /\ WriterInv /\ WriterKnowsPins /\ TimesInv /\ AudioInv

(* A configured stream is the one its pin is connected with.               *)
LEMMA ConfigPinKnows ==
  ASSUME NEW w \in Writers, NEW p \in Pins, FlagsInv
  PROVE  LET v == ConfigPin(w, p)
         IN  /\ v \in Writers
             /\ v.isFirst = w.isFirst /\ v.last = w.last /\ v.fault = w.fault
             /\ IF pinType[p].major = "video" /\ w.video = NoCodec
                  THEN v.video = pinType[p].sub /\ v.videoExtra = pinType[p].extra
                  ELSE v.video = w.video /\ v.videoExtra = w.videoExtra
             /\ IF pinType[p].major = "audio" /\ w.audio = NoCodec
                  THEN v.audio = pinType[p].sub /\ v.audioExtra = pinType[p].extra
                  ELSE v.audio = w.audio /\ v.audioExtra = w.audioExtra
<1> DEFINE v == ConfigPin(w, p)
           mt == pinType[p]
<1>1. mt = NoType \/ (mt \in MediaTypes /\ Writable(mt))
  <2>1. mt \in {m \in MediaTypes : Writable(m)} \cup {NoType}
    BY Zenon DEF FlagsInv, PinsTyped
  <2> QED
    BY <2>1
<1>2. CASE mt = NoType
  <2>1. v = w /\ mt.major = "none"
    BY <1>2, Kinds DEF ConfigPin, Connected
  <2> QED
    BY <2>1
<1>3. CASE mt \in MediaTypes /\ Writable(mt)
  <2>1. mt # NoType /\ mt.extra \in Nat
    BY <1>3, Kinds, MediaTypesAssumption
  <2>2. v = ConfigStream(w, mt)
    BY <2>1 DEF ConfigPin, Connected
  <2> HIDE DEF v, mt
  <2>3. CASE mt.major = "video"
    <3>1. mt.sub \in VideoCodecs
      BY <1>3, <2>3 DEF Writable
    <3>2. v = IF w.video = NoCodec THEN [w EXCEPT !.video = mt.sub, !.videoExtra = mt.extra] ELSE w
      BY <2>2, <2>3, <3>1 DEF ConfigStream
    <3>3. v \in Writers
      BY <2>1, <3>1, <3>2 DEF Writers
    <3>4. /\ v.isFirst = w.isFirst /\ v.last = w.last /\ v.fault = w.fault
          /\ v.audio = w.audio /\ v.audioExtra = w.audioExtra
          /\ IF w.video = NoCodec THEN v.video = mt.sub /\ v.videoExtra = mt.extra
                                  ELSE v.video = w.video /\ v.videoExtra = w.videoExtra
      BY <3>2 DEF Writers
    <3> QED
      BY <2>3, <3>3, <3>4 DEF v, mt
  <2>4. CASE mt.major = "audio"
    <3>1. mt.sub \in AudioCodecs
      BY <1>3, <2>4 DEF Writable
    <3>2. v = IF w.audio = NoCodec THEN [w EXCEPT !.audio = mt.sub, !.audioExtra = mt.extra] ELSE w
      BY <2>2, <2>4, <3>1 DEF ConfigStream
    <3>3. v \in Writers
      BY <2>1, <3>1, <3>2 DEF Writers
    <3>4. /\ v.isFirst = w.isFirst /\ v.last = w.last /\ v.fault = w.fault
          /\ v.video = w.video /\ v.videoExtra = w.videoExtra
          /\ IF w.audio = NoCodec THEN v.audio = mt.sub /\ v.audioExtra = mt.extra
                                  ELSE v.audio = w.audio /\ v.audioExtra = w.audioExtra
      BY <3>2 DEF Writers
    <3> QED
      BY <2>4, <3>3, <3>4 DEF v, mt
  <2> QED
    BY <1>3, <2>3, <2>4, Kinds
<1> QED
  BY <1>1, <1>2, <1>3

LEMMA ResetForgets ==
  ASSUME NEW w \in Writers
  PROVE  LET v == Reset(w)
         IN  /\ v \in Writers /\ v.video = NoCodec /\ v.audio = NoCodec /\ v.isFirst /\ v.last = 0 /\ ~v.io
             /\ v.fault = w.fault /\ v.tags = w.tags /\ v.meta = w.meta /\ v.trailer = w.trailer
             /\ v.audioExtra = w.audioExtra
<1> DEFINE v == Reset(w)
<1>1. v = [w EXCEPT !.video = NoCodec, !.audio = NoCodec, !.isFirst = TRUE,
            !.first = 0, !.last = 0, !.lastTag = 0, !.fileSize = 0, !.io = FALSE]
  BY DEF Reset
<1> HIDE DEF v
<1>2. v \in Writers
  <2>0. PICK zero \in Int : zero = 0
    OBVIOUS
  <2>1. PICK a : a = [w EXCEPT !.video = NoCodec, !.audio = NoCodec]
    OBVIOUS
  <2>2. PICK b : b = [a EXCEPT !.isFirst = TRUE, !.first = zero]
    OBVIOUS
  <2>3. PICK c : c = [b EXCEPT !.last = zero, !.lastTag = zero]
    OBVIOUS
  <2>4. v = [c EXCEPT !.fileSize = zero, !.io = FALSE]
    BY <2>0, <1>1, <2>1, <2>2, <2>3
  <2>5. a \in Writers
    BY <2>1 DEF Writers
  <2>6. b \in Writers
    BY <2>2, <2>5 DEF Writers
  <2>7. c \in Writers
    BY <2>3, <2>6 DEF Writers
  <2> QED
    BY <2>4, <2>7 DEF Writers
<1>3. /\ v.video = NoCodec /\ v.audio = NoCodec /\ v.isFirst /\ v.last = 0 /\ ~v.io
      /\ v.fault = w.fault /\ v.tags = w.tags /\ v.meta = w.meta /\ v.trailer = w.trailer
      /\ v.audioExtra = w.audioExtra
  BY <1>1 DEF Writers
<1> QED
  BY <1>2, <1>3 DEF v

(* A new file holds onMetaData and nothing else.                           *)
LEMMA StartBegins ==
  ASSUME NEW w \in Writers
  PROVE  LET v == Start(w)
         IN  /\ v \in Writers /\ v.io /\ FileBegun(v) /\ v.tags = <<MetaTag(v)>>
             /\ v.video = w.video /\ v.videoExtra = w.videoExtra /\ v.audio = w.audio /\ v.audioExtra = w.audioExtra
             /\ v.isFirst = w.isFirst /\ v.last = w.last /\ v.fault = w.fault
             /\ v.lastTag = 11 + MetaSize(w)
<1> DEFINE v == Start(w)
<1>1. /\ MetaSize(w) \in Nat /\ MetaTag(w) \in Tags /\ MetaTag(w).written = MetaSize(w)
  BY MetaSizes DEF MetaTag
<1>2. PICK n \in Nat : n = MetaSize(w)
  BY <1>1
<1>3. v = [w EXCEPT !.io = TRUE, !.fileSize = 24 + n, !.trailer = NoTrailer, !.tags = <<MetaTag(w)>>,
                    !.meta = [duration |-> w.last, fileSize |-> 0], !.lastTag = 11 + n, !.pos = 24 + n]
  <2> DEFINE a == [w EXCEPT !.io = TRUE, !.fileSize = 0, !.tags = <<>>, !.trailer = NoTrailer]
             b == WriteMetaData(a)
  <2>1. v = [b EXCEPT !.fileSize = b.pos]
    BY DEF Start
  <2>2. MetaSize(a) = n /\ MetaTag(a) = MetaTag(w) /\ a.tags = <<>> /\ a.last = w.last /\ a.fileSize = 0
    BY <1>2 DEF MetaSize, MetaTag, Writers
  <2>3. b = [a EXCEPT !.tags = <<MetaTag(w)>>, !.meta = [duration |-> w.last, fileSize |-> 0],
                      !.lastTag = n + 11, !.pos = 9 + 15 + n]
    <3> HIDE DEF a
    <3> QED
      BY <2>2, Zenon DEF WriteMetaData, MetaTag
  <2>4. n + 11 = 11 + n /\ 9 + 15 + n = 24 + n
    OBVIOUS
  <2> HIDE DEF b
  <2>5. b.pos = 24 + n
    BY <2>3, <2>4 DEF Writers
  <2> HIDE DEF v
  <2> QED
    BY <2>1, <2>3, <2>4, <2>5 DEF Writers
<1> HIDE DEF v
<1>4. <<MetaTag(w)>> \in Seq(Tags)
  BY <1>1
<1>5. PICK ts \in Seq(Tags), m \in [duration : Int, fileSize : Int], k \in Int, l \in Int :
        ts = <<MetaTag(w)>> /\ m = [duration |-> w.last, fileSize |-> 0] /\ k = 24 + n /\ l = 11 + n
  <2>1. [duration |-> w.last, fileSize |-> 0] \in [duration : Int, fileSize : Int]
    BY DEF Writers
  <2>2. 24 + n \in Int /\ 11 + n \in Int
    OBVIOUS
  <2> QED
    BY <1>4, <2>1, <2>2, Zenon
<1>6. v = [w EXCEPT !.io = TRUE, !.fileSize = k, !.trailer = NoTrailer, !.tags = ts,
                    !.meta = m, !.lastTag = l, !.pos = k]
  BY <1>3, <1>5
<1>7. v \in Writers
  <2>1. NoTrailer \in Int
    BY DEF NoTrailer
  <2>2. PICK a : a = [w EXCEPT !.io = TRUE, !.fileSize = k, !.trailer = NoTrailer]
    OBVIOUS
  <2>3. a \in Writers
    BY <2>1, <2>2 DEF Writers
  <2>4. PICK b : b = [a EXCEPT !.tags = ts, !.meta = m]
    OBVIOUS
  <2>5. b \in Writers
    BY <2>3, <2>4 DEF Writers
  <2>6. v = [b EXCEPT !.lastTag = l, !.pos = k]
    BY <1>6, <2>2, <2>4
  <2> QED
    BY <2>5, <2>6 DEF Writers
<1>8. /\ v.io /\ v.tags = ts /\ v.pos = k /\ v.trailer = NoTrailer /\ v.lastTag = l
      /\ v.video = w.video /\ v.videoExtra = w.videoExtra /\ v.audio = w.audio /\ v.audioExtra = w.audioExtra
      /\ v.isFirst = w.isFirst /\ v.last = w.last /\ v.fault = w.fault
  BY <1>6 DEF Writers
<1>9. MetaTag(v) = MetaTag(w)
  BY <1>8 DEF MetaTag, MetaSize
<1>10. FileBegun(v)
  <2>1. Bytes(v.tags) = 24 + n
    BY <1>1, <1>2, <1>5, <1>8, BytesOfOne
  <2>2. Len(v.tags) = 1 /\ v.tags[1] = MetaTag(w)
    BY <1>5, <1>8
  <2> QED
    BY <1>5, <1>8, <1>9, <2>1, <2>2 DEF FileBegun
<1> QED
  BY <1>2, <1>5, <1>7, <1>8, <1>9, <1>10 DEF v

(* Stop puts onMetaData in its own place: the tags stay what they are.     *)
LEMMA StopCloses ==
  ASSUME NEW w \in Writers, FileOpen(w), w.fault = "none"
  PROVE  LET v == Stop(w)
         IN  /\ v \in Writers /\ v.tags = w.tags /\ v.fault = w.fault /\ v.trailer = w.lastTag
             /\ v.audioExtra = w.audioExtra
             /\ v.meta.fileSize = Bytes(v.tags) + 4 /\ v.meta.duration = DurationOf(LastTag(v))
<1> DEFINE v == Stop(w)
<1>1. /\ MetaSize(w) \in Nat /\ MetaTag(w) \in Tags
  BY MetaSizes
<1>2. PICK n \in Nat : n = MetaSize(w)
  BY <1>1
<1>3. PICK size \in Int, t \in Int, l \in Int : size = w.pos + 4 /\ t = w.last /\ l = w.lastTag
  BY DEF Writers
<1>4. w.tags \in Seq(Tags) /\ Len(w.tags) > 0 /\ w.tags[1] = MetaTag(w)
  BY DEF FileOpen, FileBegun, Writers
<1>5. [w.tags EXCEPT ![1] = MetaTag(w)] = w.tags /\ w.tags # <<>>
  BY <1>4
<1>6. PICK m \in [duration : Int, fileSize : Int] : m = [duration |-> t, fileSize |-> size]
  OBVIOUS
<1>7. v = [w EXCEPT !.trailer = l, !.fileSize = size, !.meta = m, !.lastTag = n + 11, !.pos = 24 + n]
  <2> DEFINE a == [w EXCEPT !.trailer = w.lastTag, !.fileSize = w.pos + 4]
  <2>1. v = WriteMetaData(a)
    BY DEF Stop
  <2>2. MetaSize(a) = n /\ MetaTag(a) = MetaTag(w) /\ a.tags = w.tags /\ a.last = t /\ a.fileSize = size
    BY <1>2, <1>3 DEF MetaSize, MetaTag, Writers
  <2>3. v = [a EXCEPT !.tags = w.tags, !.meta = m, !.lastTag = n + 11, !.pos = 9 + 15 + n]
    <3> HIDE DEF a, v
    <3> QED
      BY <1>5, <1>6, <2>1, <2>2, Zenon DEF WriteMetaData, MetaTag
  <2>4. 9 + 15 + n = 24 + n
    OBVIOUS
  <2> HIDE DEF v
  <2> QED
    BY <1>3, <2>3, <2>4 DEF Writers
<1> HIDE DEF v
<1>8. v \in Writers
  <2>1. n + 11 \in Int /\ 24 + n \in Int
    OBVIOUS
  <2>2. PICK a : a = [w EXCEPT !.trailer = l, !.fileSize = size]
    OBVIOUS
  <2>3. a \in Writers
    BY <2>2 DEF Writers
  <2>4. v = [a EXCEPT !.meta = m, !.lastTag = n + 11, !.pos = 24 + n]
    BY <1>7, <2>2
  <2> QED
    BY <2>1, <2>3, <2>4 DEF Writers
<1>9. v.tags = w.tags /\ v.fault = w.fault /\ v.trailer = l /\ v.meta = m /\ v.audioExtra = w.audioExtra
  BY <1>7 DEF Writers
<1>10. m.fileSize = Bytes(w.tags) + 4 /\ m.duration = DurationOf(LastTag(w)) /\ LastTag(v) = LastTag(w)
  BY <1>3, <1>6, <1>9 DEF FileOpen, FileBegun, LastTag
<1> QED
  BY <1>3, <1>8, <1>9, <1>10 DEF v

-----------------------------------------------------------------------------
(* The invariant is one.                                                   *)

LEMMA FileInit == Init => FileInv
<1> SUFFICES ASSUME Init PROVE FileInv
  OBVIOUS
<1>1. FlagsInv
  BY FlagsInit
<1>2. /\ NewWriter.io = FALSE /\ NewWriter.tags = <<>> /\ NewWriter.trailer = NoTrailer
      /\ writer = NewWriter /\ count = 0 /\ clock = 0 /\ active = FALSE
  BY DEF Init, NewWriter
<1>3. NewWriter \in Writers
  BY DEF NewWriter, Writers, NoTrailer
<1>4. WriterInv
  <2>1. ~writer.io /\ writer.trailer = NoTrailer /\ writer \in Writers
    BY <1>2, <1>3
  <2>2. FileClosed(writer)
    BY <2>1 DEF FileClosed
  <2>3. count \in Nat /\ clock \in Int
    BY <1>2
  <2>4. active \in BOOLEAN
    BY <1>2, Zenon
  <2> QED
    BY <2>1, <2>2, <2>3, <2>4, Zenon DEF WriterInv
<1>5. TimesInv /\ AudioInv /\ WriterKnowsPins
  BY <1>2 DEF TimesInv, Sorted, AudioInv, WriterKnowsPins
<1> QED
  BY <1>1, <1>4, <1>5 DEF FileInv

(* A file with packets in it, at the time now.                             *)
FileAt(u, now) ==
  /\ u \in Writers /\ FileBegun(u) /\ ~u.isFirst
  /\ u.fault = "none" => u.last = DurationOf(LastTag(u))
  /\ Sorted(u.tags) /\ NoneAfter(u, now)
  /\ NeedsHeader(u) => HeaderFirst(u.tags)

LEMMA LaterNoneAfter ==
  ASSUME NEW w \in Writers, NEW now \in Int, NEW start \in Int, NoneAfter(w, now),
         now <= start \/ HeadersOnly(w.tags)
  PROVE  NoneAfter(w, start)
<1>1. w.first \in Int /\ \A i \in DOMAIN w.tags : w.tags[i].time \in Int
  <2>1. w.first \in Int /\ w.tags \in Seq(Tags)
    BY DEF Writers
  <2>2. \A i \in DOMAIN w.tags : w.tags[i] \in Tags
    BY <2>1
  <2> QED
    BY <2>1, <2>2 DEF Tags
<1>2. CASE HeadersOnly(w.tags)
  BY <1>2, HeadersAreSorted
<1>3. CASE now <= start
  BY <1>1, <1>3 DEF NoneAfter
<1> QED
  BY <1>2, <1>3

(* After FirstPacket: as if it had happened before.                        *)
LEMMA FirstPacketDone ==
  ASSUME FileInv, writer.io, writer.fault = "none", NEW packet \in Packet,
         count = 0 \/ clock <= packet.start
  PROVE  LET v == FirstPacket(writer, StampOf(packet))
         IN  /\ SameStreams(writer, v) /\ v.fault = "none"
             /\ FileAt(v, clock)
             /\ clock <= packet.start \/ HeadersOnly(v.tags)
<1> DEFINE v == FirstPacket(writer, StampOf(packet))
<1>1. /\ writer \in Writers /\ FileOpen(writer) /\ FileBegun(writer) /\ (count = 0 <=> writer.isFirst)
      /\ Sorted(writer.tags) /\ NoneAfter(writer, clock)
  BY Zenon DEF FileInv, WriterInv, TimesInv, FileOpen
<1>2. writer.last = DurationOf(LastTag(writer)) /\ (writer.isFirst => Len(writer.tags) = 1)
  BY <1>1 DEF FileOpen
<1>3. CASE ~writer.isFirst
  <2>1. v = writer
    BY <1>3 DEF FirstPacket
  <2>2. FileAt(writer, clock)
    BY <1>1, <1>2, <1>3, Zenon DEF FileAt, FileInv, AudioInv
  <2>3. SameStreams(writer, writer)
    BY DEF SameStreams
  <2> QED
    BY <1>1, <1>3, <2>1, <2>2, <2>3
<1>4. CASE writer.isFirst
  <2>1. StampOf(packet) \in Int
    BY PacketTyped
  <2>2. /\ v \in Writers /\ SameStreams(writer, v) /\ FileBegun(v)
        /\ ~v.isFirst /\ v.first = StampOf(packet) /\ v.last = writer.last /\ v.fault = writer.fault
        /\ HeadersOnly(v.tags) /\ ~IsMedia(LastTag(v))
        /\ NeedsHeader(writer) => HeaderFirst(v.tags)
    BY <1>1, <1>2, <1>4, <2>1, FirstPacketWrites, Zenon
  <2> HIDE DEF v
  <2>3. writer.last = 0 /\ DurationOf(LastTag(v)) = 0
    <3>1. LastTag(writer) = MetaTag(writer)
      BY <1>1, <1>2, <1>4 DEF LastTag, FileBegun
    <3>2. ~IsMedia(LastTag(writer))
      BY <3>1 DEF MetaTag, IsMedia
    <3> QED
      BY <1>2, <2>2, <3>2 DEF DurationOf
  <2>4. Sorted(v.tags) /\ NoneAfter(v, clock)
    BY <2>2, HeadersAreSorted
  <2>5. NeedsHeader(v) <=> NeedsHeader(writer)
    BY <2>2 DEF NeedsHeader, SameStreams
  <2>6. FileAt(v, clock)
    BY <2>2, <2>3, <2>4, <2>5 DEF FileAt
  <2> QED
    BY <2>2, <2>6 DEF v
<1> QED
  BY <1>3, <1>4

(* The same file, whatever else WritePacket notes down.                    *)
LEMMA SameFileAt ==
  ASSUME NEW v, NEW u \in Writers, NEW now, FileAt(v, now), SameFile(v, u),
         u.fault = "none" => u.last = DurationOf(LastTag(u))
  PROVE  FileAt(u, now)
<1>1. MetaTag(u) = MetaTag(v)
  BY DEF SameFile, SameStreams, MetaTag, MetaSize
<1>2. FileBegun(u)
  BY <1>1 DEF FileAt, FileBegun, SameFile, SameStreams
<1> QED
  BY <1>2 DEF FileAt, SameFile, SameStreams, NoneAfter, NeedsHeader

(* And after the packet itself, whatever becomes of it.                    *)
LEMMA PacketKeepsFile ==
  ASSUME NEW w \in Writers, w.io, NEW packet \in Packet, NEW major \in {"video", "audio"}, NEW now \in Int,
         NEW v, v = FirstPacket(w, StampOf(packet)), SameStreams(w, v), v.fault = "none",
         FileAt(v, now), now <= packet.start \/ HeadersOnly(v.tags)
  PROVE  LET u == WritePacket(w, packet, major)
         IN  SameStreams(w, u) /\ FileAt(u, packet.start)
<1> DEFINE u == WritePacket(w, packet, major)
           t == StampOf(packet) - v.first
<1>1. v \in Writers /\ v.first \in Int /\ packet.start \in Int /\ StampOf(packet) \in Int
  BY PacketTyped DEF FileAt, Writers
<1>2. Dropped(v, u, t) \/ NullRead(v, u, t) \/ TagWritten(v, u, packet, major, t)
  BY <1>1, PacketWrites, Zenon
<1>3. NoneAfter(v, packet.start)
  BY <1>1, LaterNoneAfter DEF FileAt
<1>4. FileAt(v, packet.start)
  BY <1>3 DEF FileAt
<1>5. t \in Int /\ t + v.first = StampOf(packet)
  BY <1>1
<1> HIDE DEF u, t
<1>6. CASE Dropped(v, u, t)
  BY <1>4, <1>6 DEF Dropped, u
<1>7. CASE NullRead(v, u, t)
  <2>1. u \in Writers /\ SameFile(v, u) /\ u.fault # "none"
    BY <1>7 DEF NullRead
  <2>2. FileAt(u, packet.start)
    BY <1>4, <2>1, SameFileAt
  <2> QED
    BY <2>1, <2>2 DEF SameFile, SameStreams, u
<1>8. CASE TagWritten(v, u, packet, major, t)
  <2>1. t >= 0 /\ u \in Writers /\ u.last = t /\ u.fault = v.fault
    BY <1>8 DEF TagWritten
  <2>2. PICK d \in Writers, tag \in Tags :
          SameFile(d, u) /\ Grown(v, d, tag) /\ tag.kind = major /\ tag.time = t /\ tag.ex = packet.ex
    BY <1>8, Zenon DEF TagWritten, Emitted
  <2>3. d.isFirst = v.isFirst /\ d.fault = v.fault /\ SameStreams(v, d)
    BY <2>2 DEF Grown
  <2>4. FileBegun(d)
    BY <1>1, <2>2, GrownBegun DEF FileAt
  <2>5. IsMedia(tag)
    BY <2>2 DEF IsMedia
  <2>6. Sorted(d.tags) /\ NoneAfter(d, packet.start)
    <3>1. ~tag.ex => tag.time + v.first = packet.start
      BY <1>5, <2>2 DEF StampOf
    <3>2. Sorted(v.tags) /\ NoneAfter(v, now) /\ tag.time >= 0
      BY <2>1, <2>2 DEF FileAt
    <3> QED
      BY <1>1, <2>2, <3>1, <3>2, GrownSorted
  <2>7. NeedsHeader(d) => HeaderFirst(d.tags)
    <3>1. NeedsHeader(d) => HeaderFirst(v.tags)
      BY <2>3 DEF FileAt, NeedsHeader, SameStreams
    <3> QED
      BY <1>1, <2>2, <2>5, <3>1, GrownHeaderFirst
  <2>8. LastTag(d) = tag
    <3>1. v.tags \in Seq(Tags) /\ d.tags = Append(v.tags, tag)
      BY <1>1, <2>2 DEF Grown, Writers
    <3> QED
      BY <3>1, AppendedTags DEF LastTag
  <2>9. u.last = DurationOf(LastTag(u))
    BY <2>1, <2>2, <2>5, <2>8 DEF DurationOf, SameFile, LastTag
  <2>10. FileAt(u, packet.start)
    <3>1. MetaTag(u) = MetaTag(d)
      BY <2>2 DEF SameFile, SameStreams, MetaTag, MetaSize
    <3>2. FileBegun(u)
      BY <2>2, <2>4, <3>1 DEF FileBegun, SameFile, SameStreams
    <3>3. ~u.isFirst
      BY <2>2, <2>3 DEF SameFile, FileAt
    <3>4. Sorted(u.tags) /\ NoneAfter(u, packet.start)
      BY <2>2, <2>6 DEF SameFile, NoneAfter
    <3>5. NeedsHeader(u) => HeaderFirst(u.tags)
      BY <2>2, <2>7 DEF SameFile, SameStreams, NeedsHeader
    <3> QED
      BY <2>1, <2>9, <3>2, <3>3, <3>4, <3>5 DEF FileAt
  <2>11. SameStreams(w, u)
    BY <2>2, <2>3 DEF SameFile, SameStreams
  <2> QED
    BY <2>10, <2>11 DEF u
<1> QED
  BY <1>2, <1>6, <1>7, <1>8

(* While a file is open the pins cannot change.                            *)
LEMMA PinsWhileStopped ==
  ASSUME FileInv, PinStep PROVE ~writer.io /\ UNCHANGED sessionVars
<1>1. ~active /\ UNCHANGED sessionVars
  BY DEF PinStep, ConnectRefused, ConnectUnsupported, Connect, Disconnect, CompleteOutputConnect, BreakOutputConnect
<1> QED
  BY <1>1, Zenon DEF FileInv, WriterInv

LEMMA PinsKeepFile ==
  ASSUME FileInv, FlagsInv', ~writer.io, UNCHANGED sessionVars
  PROVE  FileInv'
<1>1. writer' = writer /\ count' = count /\ clock' = clock /\ active' = active
  OBVIOUS
<1>2. WriterInv'
  BY <1>1 DEF FileInv, WriterInv
<1>3. ~writer'.io
  BY <1>1
<1>4. WriterKnowsPins' /\ AudioInv'
  BY <1>3, Zenon DEF WriterKnowsPins, AudioInv
<1>5. TimesInv'
  BY <1>1, Zenon DEF FileInv, TimesInv
<1> QED
  BY <1>2, <1>4, <1>5 DEF FileInv

(* Before the first packet the file is what Start made it.                 *)
LEMMA NewFileTags ==
  ASSUME NEW w \in Writers, w.tags = <<MetaTag(w)>>
  PROVE  HeadersOnly(w.tags) /\ ~IsMedia(LastTag(w)) /\ Len(w.tags) = 1
<1>1. Len(w.tags) = 1 /\ DOMAIN w.tags = {1} /\ w.tags[1] = MetaTag(w)
  OBVIOUS
<1>2. MetaTag(w).time = 0 /\ ~IsMedia(MetaTag(w))
  BY DEF MetaTag, IsMedia
<1> QED
  BY <1>1, <1>2 DEF HeadersOnly, LastTag

LEMMA StartKeepsFile ==
  ASSUME FileInv, FlagsInv', OnStartStreaming
  PROVE  FileInv'
<1>1. /\ active' = TRUE /\ count' = 0 /\ clock' = clock /\ pinType' = pinType /\ ~writer.io
      /\ writer \in Writers /\ clock \in Int /\ FlagsInv
  <2>1. active' = TRUE /\ count' = 0 /\ clock' = clock /\ pinType' = pinType /\ ~active
    BY DEF OnStartStreaming
  <2> QED
    BY <2>1, Zenon DEF FileInv, WriterInv
<1>2. CASE ~outstream
  <2>1. writer' = writer
    BY <1>2 DEF OnStartStreaming
  <2>2. WriterInv'
    BY <1>1, <2>1 DEF FileInv, WriterInv
  <2>3. ~writer'.io
    BY <1>1, <2>1
  <2>4. WriterKnowsPins' /\ AudioInv'
    BY <2>3, Zenon DEF WriterKnowsPins, AudioInv
  <2>5. TimesInv'
    BY <1>1, <2>1, Zenon DEF FileInv, TimesInv
  <2> QED
    BY <2>2, <2>4, <2>5 DEF FileInv
<1>3. CASE outstream
  <2> DEFINE a == Reset(writer)
             b == ConfigPin(a, 0)
             c == ConfigPin(b, 1)
  <2>1. writer' = Start(c)
    BY <1>3 DEF OnStartStreaming
  <2>2. a \in Writers /\ a.video = NoCodec /\ a.audio = NoCodec /\ a.isFirst /\ a.last = 0
    BY <1>1, ResetForgets, Zenon
  <2> HIDE DEF a
  <2>3. 0 \in Pins /\ 1 \in Pins
    BY DEF Pins
  <2>4. /\ b \in Writers
        /\ b.isFirst = a.isFirst /\ b.last = a.last
        /\ IF pinType[0].major = "video" /\ a.video = NoCodec
             THEN b.video = pinType[0].sub /\ b.videoExtra = pinType[0].extra
             ELSE b.video = a.video /\ b.videoExtra = a.videoExtra
        /\ IF pinType[0].major = "audio" /\ a.audio = NoCodec
             THEN b.audio = pinType[0].sub /\ b.audioExtra = pinType[0].extra
             ELSE b.audio = a.audio /\ b.audioExtra = a.audioExtra
    BY <1>1, <2>2, <2>3, ConfigPinKnows, ZenonT(40)
  <2> HIDE DEF b
  <2>5. /\ c \in Writers
        /\ c.isFirst = b.isFirst /\ c.last = b.last
        /\ IF pinType[1].major = "video" /\ b.video = NoCodec
             THEN c.video = pinType[1].sub /\ c.videoExtra = pinType[1].extra
             ELSE c.video = b.video /\ c.videoExtra = b.videoExtra
        /\ IF pinType[1].major = "audio" /\ b.audio = NoCodec
             THEN c.audio = pinType[1].sub /\ c.audioExtra = pinType[1].extra
             ELSE c.audio = b.audio /\ c.audioExtra = b.audioExtra
    BY <1>1, <2>3, <2>4, ConfigPinKnows, Zenon
  <2> HIDE DEF c
  <2>6. pinType[0].major \in {"video", "audio"} => pinType[0].major # pinType[1].major
    BY <1>1, Kinds DEF FlagsInv, FlagsMatchPins
  <2>7. \A p \in Pins : /\ pinType[p].major = "video" => c.video = pinType[p].sub /\ c.videoExtra = pinType[p].extra
                        /\ pinType[p].major = "audio" => c.audio = pinType[p].sub /\ c.audioExtra = pinType[p].extra
    <3>1. /\ pinType[0].major = "video" => c.video = pinType[0].sub /\ c.videoExtra = pinType[0].extra
          /\ pinType[0].major = "audio" => c.audio = pinType[0].sub /\ c.audioExtra = pinType[0].extra
      BY <2>2, <2>4, <2>5, <2>6
    <3>2. /\ pinType[1].major = "video" => c.video = pinType[1].sub /\ c.videoExtra = pinType[1].extra
          /\ pinType[1].major = "audio" => c.audio = pinType[1].sub /\ c.audioExtra = pinType[1].extra
      BY <2>2, <2>4, <2>5, <2>6
    <3> QED
      BY <3>1, <3>2 DEF Pins
  <2> DEFINE v == Start(c)
  <2>8. /\ v \in Writers /\ v.io /\ FileBegun(v) /\ v.tags = <<MetaTag(v)>>
        /\ v.video = c.video /\ v.videoExtra = c.videoExtra /\ v.audio = c.audio /\ v.audioExtra = c.audioExtra
        /\ v.isFirst = c.isFirst /\ v.last = c.last
    BY <2>5, StartBegins, Zenon
  <2> HIDE DEF v
  <2>9. writer' = v /\ v.isFirst /\ v.last = 0
    BY <2>1, <2>2, <2>4, <2>5, <2>8 DEF v
  <2>10. HeadersOnly(v.tags) /\ ~IsMedia(LastTag(v)) /\ Len(v.tags) = 1
    BY <2>8, NewFileTags
  <2>11. FileOpen(v)
    BY <2>8, <2>9, <2>10 DEF FileOpen, DurationOf
  <2>12. WriterInv'
    <3>1. FileOpen(writer)' /\ writer' \in Writers /\ writer'.io /\ writer'.isFirst
      BY <2>8, <2>9, <2>11 DEF FileOpen, FileBegun, DurationOf, LastTag, MetaTag
    <3>2. count' = 0 /\ count' \in Nat /\ clock' \in Int /\ active' = TRUE
      BY <1>1
    <3> QED
      BY <3>1, <3>2 DEF WriterInv
  <2>13. TimesInv'
    <3>1. Sorted(v.tags) /\ NoneAfter(v, clock)
      BY <2>10, HeadersAreSorted
    <3> QED
      BY <1>1, <2>9, <3>1 DEF TimesInv, Sorted, NoneAfter
  <2>14. AudioInv'
    BY <2>9 DEF AudioInv
  <2>15. WriterKnowsPins'
    BY <1>1, <2>7, <2>8, <2>9 DEF WriterKnowsPins
  <2> QED
    BY <2>12, <2>13, <2>14, <2>15 DEF FileInv
<1> QED
  BY <1>2, <1>3

LEMMA PacketKeepsInv ==
  ASSUME FileInv, FlagsInv', writer.fault = "none",
         NEW p \in Pins, NEW packet \in Packet, OnMuxPacket(p, packet)
  PROVE  FileInv'
<1>1. /\ active' = active /\ count' = count + 1 /\ clock' = packet.start /\ pinType' = pinType
      /\ count = 0 \/ clock <= packet.start
      /\ pinType[p] # NoType /\ active
  BY DEF OnMuxPacket, Connected
<1>2. /\ writer \in Writers /\ count \in Nat /\ clock \in Int /\ active \in BOOLEAN
      /\ writer.io \in BOOLEAN
  BY DEF FileInv, WriterInv, Writers
<1>3. packet.start \in Int /\ count' \in Nat /\ count' # 0
  BY <1>1, <1>2, PacketTyped
<1>4. CASE ~writer.io
  <2>1. writer' = writer
    BY <1>4 DEF OnMuxPacket
  <2>2. ~writer'.io
    BY <1>4, <2>1
  <2>3. WriterInv'
    <3>1. FileClosed(writer)
      BY <1>4, Zenon DEF FileInv, WriterInv
    <3>2. FileClosed(writer)'
      BY <2>1, <3>1 DEF FileClosed, DurationOf, LastTag
    <3>3. writer' \in Writers /\ active' \in BOOLEAN /\ clock' \in Int
      BY <1>1, <1>2, <1>3, <2>1
    <3> QED
      BY <1>3, <2>2, <3>2, <3>3, Zenon DEF WriterInv
  <2>4. WriterKnowsPins' /\ AudioInv'
    BY <2>2, Zenon DEF WriterKnowsPins, AudioInv
  <2>5. TimesInv'
    BY <2>1, <2>2, Zenon DEF FileInv, TimesInv
  <2> QED
    BY <2>3, <2>4, <2>5 DEF FileInv
<1>5. CASE writer.io
  <2> DEFINE v == FirstPacket(writer, StampOf(packet))
             major == pinType[p].major
             u == WritePacket(writer, packet, major)
  <2>1. writer' = u
    BY <1>5 DEF OnMuxPacket
  <2>2. major \in {"video", "audio"}
    <3>1. pinType[p] \in {mt \in MediaTypes : Writable(mt)}
      BY <1>1, Zenon DEF FileInv, FlagsInv, PinsTyped
    <3> QED
      BY <3>1, Kinds
  <2>3. /\ SameStreams(writer, v) /\ v.fault = "none" /\ FileAt(v, clock)
        /\ clock <= packet.start \/ HeadersOnly(v.tags)
    BY <1>1, <1>5, FirstPacketDone, Zenon
  <2>4. SameStreams(writer, u) /\ FileAt(u, packet.start)
    <3> HIDE DEF major
    <3> QED
      BY <1>2, <1>5, <2>2, <2>3, PacketKeepsFile, Zenon
  <2> HIDE DEF u
  <2>5. u \in Writers /\ FileBegun(u) /\ ~u.isFirst /\ u.io
    BY <1>5, <2>4 DEF FileAt, SameStreams
  <2>6. FileOpen(u)
    BY <2>4, <2>5 DEF FileOpen, FileAt
  <2>7. WriterInv'
    <3>1. FileOpen(writer)' /\ writer' \in Writers /\ writer'.io /\ ~writer'.isFirst
      BY <2>1, <2>5, <2>6 DEF FileOpen, FileBegun, DurationOf, LastTag, MetaTag
    <3>2. active' = TRUE /\ clock' \in Int
      BY <1>1, <1>2, <1>3
    <3> QED
      BY <1>3, <3>1, <3>2 DEF WriterInv
  <2>8. TimesInv'
    BY <1>1, <2>1, <2>4 DEF TimesInv, FileAt, Sorted, NoneAfter
  <2>9. AudioInv'
    BY <2>1, <2>4 DEF AudioInv, FileAt, NeedsHeader, HeaderFirst
  <2>10. WriterKnowsPins'
    <3>1. WriterKnowsPins
      BY DEF FileInv
    <3> QED
      BY <1>1, <1>5, <2>1, <2>4, <3>1 DEF WriterKnowsPins, SameStreams
  <2> QED
    BY <2>7, <2>8, <2>9, <2>10 DEF FileInv
<1> QED
  BY <1>4, <1>5

LEMMA StopKeepsFile ==
  ASSUME FileInv, FlagsInv', writer.fault = "none", OnStopStreaming
  PROVE  FileInv'
<1>1. /\ active' = FALSE /\ count' = count /\ clock' = clock
      /\ writer \in Writers /\ count \in Nat /\ clock \in Int /\ Sorted(writer.tags)
  BY DEF FileInv, WriterInv, TimesInv, OnStopStreaming
<1>2. /\ writer' \in Writers /\ ~writer'.io /\ writer'.tags = writer.tags /\ FileClosed(writer)'
  <2>1. CASE ~writer.io
    <3>1. writer' = writer
      BY <2>1 DEF OnStopStreaming
    <3>2. FileClosed(writer)
      BY <2>1, Zenon DEF FileInv, WriterInv
    <3> QED
      BY <1>1, <2>1, <3>1, <3>2 DEF FileClosed, DurationOf, LastTag
  <2>2. CASE writer.io
    <3> DEFINE v == Stop(writer)
               u == Reset(v)
    <3>1. writer' = u
      BY <2>2 DEF OnStopStreaming
    <3>2. FileOpen(writer)
      BY <2>2, Zenon DEF FileInv, WriterInv
    <3>3. /\ v \in Writers /\ v.tags = writer.tags
          /\ v.meta.fileSize = Bytes(v.tags) + 4 /\ v.meta.duration = DurationOf(LastTag(v))
      BY <1>1, <3>2, StopCloses, Zenon
    <3> HIDE DEF v
    <3>4. u \in Writers /\ ~u.io /\ u.tags = v.tags /\ u.meta = v.meta
      BY <3>3, ResetForgets, Zenon
    <3> HIDE DEF u
    <3>5. Len(u.tags) > 0
      BY <3>2, <3>3, <3>4 DEF FileOpen, FileBegun
    <3>6. u.meta.fileSize = Bytes(u.tags) + 4 /\ u.meta.duration = DurationOf(LastTag(u))
      BY <3>3, <3>4 DEF LastTag
    <3>7. FileClosed(writer)'
      BY <3>1, <3>5, <3>6 DEF FileClosed, DurationOf, LastTag
    <3> QED
      BY <3>1, <3>3, <3>4, <3>7
  <2> QED
    BY <2>1, <2>2
<1>3. WriterInv'
  <2>1. count' \in Nat /\ clock' \in Int /\ active' \in BOOLEAN
    BY <1>1
  <2> QED
    BY <1>2, <2>1, Zenon DEF WriterInv
<1>4. TimesInv'
  <2>1. Sorted(writer.tags)'
    BY <1>1, <1>2, Zenon DEF Sorted
  <2> QED
    BY <1>2, <2>1, Zenon DEF TimesInv
<1>5. WriterKnowsPins' /\ AudioInv'
  BY <1>2, Zenon DEF WriterKnowsPins, AudioInv
<1> QED
  BY <1>3, <1>4, <1>5 DEF FileInv

LEMMA FileStep == FileInv /\ [Next]_vars => FileInv'
<1> SUFFICES ASSUME FileInv, [Next]_vars PROVE FileInv'
  OBVIOUS
<1>1. FlagsInv'
  BY FlagsStep DEF FileInv
<1>2. CASE UNCHANGED vars
  <2>1. /\ writer' = writer /\ count' = count /\ clock' = clock /\ active' = active /\ pinType' = pinType
    BY <1>2
  <2>2. WriterInv'
    BY <2>1 DEF FileInv, WriterInv
  <2>3. TimesInv' /\ AudioInv' /\ WriterKnowsPins'
    BY <2>1 DEF FileInv, TimesInv, AudioInv, WriterKnowsPins
  <2> QED
    BY <1>1, <2>2, <2>3 DEF FileInv
<1>3. CASE PinStep
  BY <1>1, <1>3, PinsWhileStopped, PinsKeepFile
<1>4. CASE SessionStep /\ writer.fault = "none"
  BY <1>1, <1>4, StartKeepsFile, PacketKeepsInv, StopKeepsFile DEF SessionStep
<1> QED
  BY <1>2, <1>3, <1>4 DEF Next, Dead

LEMMA FileInvariant == Spec => []FileInv
  BY FileInit, FileStep, PTL DEF Spec

(***************************************************************************)
(* While a file is open the writer is configured for what the pins are     *)
(* connected with: ConfigStream has seen them since Reset, and no pin      *)
(* changes in a session.                                                   *)
(***************************************************************************)
THEOREM WriterIsConfigured == Spec => []WriterKnowsPins
<1>1. FileInv => WriterKnowsPins
  BY DEF FileInv
<1> QED
  BY <1>1, FileInvariant, PTL

(***************************************************************************)
(* A finished file tells its true size and duration, however many packets  *)
(* were written, dropped or headers: the second onMetaData is as long as   *)
(* the first, and the stream stood at the end of the file.                 *)
(***************************************************************************)
THEOREM MetadataIsTrue == Spec => []MetadataTrue
<1>1. FileInv => MetadataTrue
  <2> SUFFICES ASSUME FileInv, writer.trailer # NoTrailer
               PROVE  /\ writer.meta.fileSize = FileBytes
                      /\ writer.meta.duration = IF IsMedia(LastTag(writer)) THEN LastTag(writer).time ELSE 0
    BY DEF MetadataTrue, LastTag
  <2>1. writer.io => writer.trailer = NoTrailer
    BY Zenon DEF FileInv, WriterInv, FileOpen, FileBegun
  <2>2. FileClosed(writer)
    BY <2>1, Zenon DEF FileInv, WriterInv
  <2>3. FileBytes = Bytes(writer.tags) + 4
    BY DEF FileBytes, Bytes
  <2> QED
    BY <2>2, <2>3 DEF FileClosed, DurationOf
<1> QED
  BY <1>1, FileInvariant, PTL

(***************************************************************************)
(* Tag times never go back, whatever the packets' start times, and the AAC *)
(* header is there once, before the first packet of either stream.         *)
(***************************************************************************)
THEOREM TagsAreInOrder == Spec => []TagsInOrder
<1>1. FileInv => TagTimesSorted
  BY DEF FileInv, TimesInv, Sorted, TagTimesSorted
<1>2. FileInv => AudioHeaderFirst
  <2> SUFFICES ASSUME FileInv, writer.io, writer.audio = "AAC", writer.audioExtra > 0,
                      NEW j \in DOMAIN writer.tags, IsMedia(writer.tags[j])
               PROVE  LET headers == {i \in DOMAIN writer.tags : writer.tags[i].kind = "audioHeader"}
                      IN  \E i \in headers : i < j /\ headers = {i}
    BY DEF AudioHeaderFirst
  <2>1. writer \in Writers /\ FileOpen(writer)
    BY Zenon DEF FileInv, WriterInv
  <2>2. ~writer.isFirst
    <3> SUFFICES ASSUME writer.isFirst PROVE FALSE
      OBVIOUS
    <3>1. Len(writer.tags) = 1 /\ writer.tags[1] = MetaTag(writer) /\ writer.tags \in Seq(Tags)
      BY <2>1 DEF FileOpen, FileBegun, Writers
    <3>2. j = 1 /\ ~IsMedia(MetaTag(writer))
      BY <3>1 DEF MetaTag, IsMedia
    <3> QED
      BY <3>1, <3>2
  <2>3. HeaderFirst(writer.tags)
    BY <2>2 DEF FileInv, AudioInv, NeedsHeader
  <2>4. PICK i \in DOMAIN writer.tags : /\ \A k \in DOMAIN writer.tags : writer.tags[k].kind = "audioHeader" <=> k = i
                                        /\ \A k \in DOMAIN writer.tags : IsMedia(writer.tags[k]) => i < k
    BY <2>3 DEF HeaderFirst
  <2>5. {k \in DOMAIN writer.tags : writer.tags[k].kind = "audioHeader"} = {i}
    BY <2>4
  <2> QED
    BY <2>4, <2>5
<1> QED
  BY <1>1, <1>2, FileInvariant, PTL DEF TagsInOrder

-----------------------------------------------------------------------------
(* The chain of tags.                                                      *)

(* What 24 bits hold: packets and extradata of less than 16 megabytes.     *)
Fits(n) == n < 16777216

FitsUI24 ==
  /\ \A n \in Sizes : Fits(n + 5)
  /\ \A mt \in MediaTypes : Fits(mt.extra + 2)

(* BadAvcc, of any tags.                                                   *)
Truncated(tags) == \E i \in DOMAIN tags : tags[i].kind = "videoHeader" /\ tags[i].announced = 4

Linked(tags) ==
  \A i \in DOMAIN tags : /\ tags[i].announced = tags[i].written
                         /\ tags[i].prev = IF i = 1 THEN 0 ELSE 11 + tags[i - 1].written

(* The next tag, or the trailer, will name the size of the last one.       *)
Chained(w) == ~Truncated(w.tags) => Linked(w.tags) /\ w.lastTag = 11 + LastTag(w).written

ChainInv ==
  /\ ~Truncated(writer.tags) => Linked(writer.tags)
  /\ writer.io => Chained(writer)
  /\ writer.trailer # NoTrailer /\ ~Truncated(writer.tags) => writer.trailer = 11 + LastTag(writer).written
  /\ Fits(writer.audioExtra + 2)

LEMMA GrownChained ==
  ASSUME NEW w \in Writers, NEW v, NEW tag, Grown(w, v, tag), Len(w.tags) > 0, Chained(w),
         \/ tag.kind = "videoHeader" /\ tag.announced = 4
         \/ tag.announced = tag.written /\ v.lastTag = 11 + tag.written
  PROVE  Chained(v) /\ Len(v.tags) > 0
<1>1. w.tags \in Seq(Tags) /\ tag \in Tags /\ v.tags = Append(w.tags, tag) /\ tag.prev = w.lastTag
  BY DEF Grown, Writers
<1>2. PICK n \in Nat : n = Len(w.tags) /\ n > 0
  BY <1>1
<1>3. /\ DOMAIN v.tags = 1 .. n + 1 /\ DOMAIN w.tags = 1 .. n /\ Len(v.tags) = n + 1
      /\ v.tags[n + 1] = tag
      /\ \A i \in 1 .. n : v.tags[i] = w.tags[i]
  BY <1>1, <1>2, AppendedTags
<1>4. LastTag(v) = tag /\ LastTag(w) = w.tags[n]
  BY <1>2, <1>3 DEF LastTag
<1>5. CASE tag.kind = "videoHeader" /\ tag.announced = 4
  <2>1. n + 1 \in DOMAIN v.tags
    BY <1>3
  <2>2. Truncated(v.tags)
    BY <1>3, <1>5, <2>1 DEF Truncated
  <2> QED
    BY <1>2, <1>3, <2>2 DEF Chained
<1>6. CASE tag.announced = tag.written /\ v.lastTag = 11 + tag.written
  <2> SUFFICES ASSUME ~Truncated(v.tags) PROVE Linked(v.tags)
    BY <1>2, <1>3, <1>4, <1>6 DEF Chained
  <2>1. ~Truncated(w.tags)
    <3>1. \A i \in 1 .. n : i \in 1 .. n + 1
      OBVIOUS
    <3> QED
      BY <1>3, <3>1 DEF Truncated
  <2>2. Linked(w.tags) /\ tag.prev = 11 + w.tags[n].written
    BY <1>1, <1>4, <2>1 DEF Chained
  <2>3. ASSUME NEW i \in DOMAIN v.tags
        PROVE  /\ v.tags[i].announced = v.tags[i].written
               /\ v.tags[i].prev = IF i = 1 THEN 0 ELSE 11 + v.tags[i - 1].written
    <3>1. CASE i = n + 1
      <4>1. i # 1 /\ i - 1 = n /\ v.tags[n] = w.tags[n]
        BY <1>2, <1>3, <3>1
      <4> QED
        BY <1>3, <1>6, <2>2, <3>1, <4>1
    <3>2. CASE i # n + 1
      <4>1. i \in DOMAIN w.tags /\ v.tags[i] = w.tags[i] /\ (i # 1 => v.tags[i - 1] = w.tags[i - 1])
        BY <1>3, <3>2
      <4> QED
        BY <2>2, <4>1 DEF Linked
    <3> QED
      BY <3>1, <3>2
  <2> QED
    BY <2>3, Zenon DEF Linked
<1> QED
  BY <1>5, <1>6

LEMMA FirstPacketChained ==
  ASSUME NEW w \in Writers, NEW stamp \in Int, Len(w.tags) > 0, Chained(w), Fits(w.audioExtra + 2)
  PROVE  LET v == FirstPacket(w, stamp)
         IN  Chained(v) /\ Len(v.tags) > 0
<1>1. CASE ~w.isFirst
  BY <1>1 DEF FirstPacket
<1>2. CASE w.isFirst
  <2> DEFINE a == [w EXCEPT !.isFirst = FALSE, !.first = stamp]
             b == WriteExtradataVideo(a)
             v == WriteExtradataAudio(b)
  <2>1. v = FirstPacket(w, stamp)
    BY <1>2 DEF FirstPacket
  <2>2. a \in Writers /\ a.tags = w.tags /\ a.lastTag = w.lastTag /\ a.audioExtra = w.audioExtra
    BY DEF Writers
  <2> HIDE DEF a
  <2>3. Chained(a) /\ Len(a.tags) > 0
    BY <2>2 DEF Chained, LastTag
  <2>4. \/ b = a
        \/ \E tag \in Tags : /\ Grown(a, b, tag) /\ HeaderTag(tag, "videoHeader")
                             /\ \/ tag.announced = 4
                                \/ tag.announced = tag.written /\ b.lastTag = 11 + tag.written
    BY <2>2, VideoExtradata, Zenon
  <2> HIDE DEF b
  <2>5. b \in Writers /\ b.audioExtra = a.audioExtra
    BY <2>2, <2>4 DEF Grown, SameStreams
  <2>6. Chained(b) /\ Len(b.tags) > 0
    BY <2>2, <2>3, <2>4, GrownChained DEF HeaderTag
  <2>7. \/ v = b
        \/ \E tag \in Tags : /\ Grown(b, v, tag) /\ tag.announced = UI24(tag.written)
                             /\ tag.written = 2 + b.audioExtra /\ v.lastTag = 11 + tag.written
    BY <2>5, AudioExtradata, Zenon
  <2> HIDE DEF v
  <2>8. UI24(2 + b.audioExtra) = 2 + b.audioExtra
    <3>1. b.audioExtra \in Nat /\ Fits(b.audioExtra + 2)
      BY <2>2, <2>5 DEF Writers
    <3> QED
      BY <3>1 DEF UI24, Fits
  <2>9. Chained(v) /\ Len(v.tags) > 0
    BY <2>5, <2>6, <2>7, <2>8, GrownChained
  <2> QED
    BY <2>1, <2>9
<1> QED
  BY <1>1, <1>2

LEMMA PacketChained ==
  ASSUME NEW w \in Writers, w.io, NEW packet \in Packet, NEW major \in {"video", "audio"}, NEW v \in Writers,
         v = FirstPacket(w, StampOf(packet)), SameStreams(w, v), Chained(v), Len(v.tags) > 0,
         major = "audio" => v.audio # NoCodec, Fits(packet.size + 5)
  PROVE  Chained(WritePacket(w, packet, major))
<1> DEFINE u == WritePacket(w, packet, major)
           t == StampOf(packet) - v.first
           codec == CodecOf(v, major)
<1>1. Dropped(v, u, t) \/ NullRead(v, u, t) \/ TagWritten(v, u, packet, major, t)
  BY PacketWrites, Zenon
<1> HIDE DEF u, t
<1>2. CASE Dropped(v, u, t)
  BY <1>2 DEF Dropped, u
<1>3. CASE NullRead(v, u, t)
  BY <1>3 DEF NullRead, SameFile, Chained, LastTag, u
<1>4. CASE TagWritten(v, u, packet, major, t)
  <2>1. PICK d \in Writers, tag \in Tags :
          /\ SameFile(d, u) /\ Grown(v, d, tag) /\ d.lastTag = packet.size + Counted(codec) + 11
          /\ tag.announced = UI24(packet.size + Counted(codec))
          /\ tag.written = packet.size + HeaderWritten(major, codec)
    BY <1>4, Zenon DEF TagWritten, Emitted
  <2>2. HeaderWritten(major, codec) = Counted(codec)
    BY DEF HeaderWritten, CodecOf
  <2>3. PICK n \in Nat : n = packet.size + Counted(codec) /\ Fits(n)
    <3>1. packet.size \in Nat
      BY PacketTyped
    <3>2. Counted(codec) \in {1, 2, 5}
      BY HeaderSizes, Zenon
    <3> QED
      BY <3>1, <3>2 DEF Fits
  <2>4. UI24(n) = n
    BY <2>3 DEF UI24, Fits
  <2>5. tag.announced = tag.written /\ d.lastTag = 11 + tag.written
    BY <2>1, <2>2, <2>3, <2>4
  <2>6. Chained(d)
    BY <2>1, <2>5, GrownChained
  <2> QED
    BY <2>1, <2>6 DEF SameFile, Chained, LastTag, u
<1> QED
  BY <1>1, <1>2, <1>3, <1>4 DEF u

LEMMA ChainInit == Init => ChainInv
<1> SUFFICES ASSUME Init PROVE ChainInv
  OBVIOUS
<1>1. writer.tags = <<>> /\ writer.trailer = NoTrailer /\ ~writer.io /\ writer.audioExtra = 0
  BY DEF Init, NewWriter
<1>2. Linked(writer.tags)
  BY <1>1 DEF Linked
<1> QED
  BY <1>1, <1>2 DEF ChainInv, Fits

LEMMA SameWriterChained ==
  ASSUME ChainInv, writer' = writer PROVE ChainInv'
  BY DEF ChainInv, Chained, LastTag

LEMMA StartChained ==
  ASSUME FitsUI24, FileInv, ChainInv, OnStartStreaming PROVE ChainInv'
<1>1. CASE ~outstream
  BY <1>1, SameWriterChained DEF OnStartStreaming
<1>2. CASE outstream
  <2> DEFINE a == Reset(writer)
             b == ConfigPin(a, 0)
             c == ConfigPin(b, 1)
             v == Start(c)
  <2>1. writer' = v
    BY <1>2 DEF OnStartStreaming
  <2>2. writer \in Writers /\ FlagsInv /\ 0 \in Pins /\ 1 \in Pins
    BY DEF FileInv, WriterInv, Pins
  <2>3. \A p \in Pins : pinType[p].major = "audio" => Fits(pinType[p].extra + 2)
    <3>1. \A p \in Pins : pinType[p] = NoType \/ pinType[p] \in MediaTypes
      BY <2>2 DEF FlagsInv, PinsTyped
    <3> QED
      BY <3>1, Kinds DEF FitsUI24
  <2>4. a \in Writers /\ a.audioExtra = writer.audioExtra
    BY <2>2, ResetForgets, Zenon
  <2> HIDE DEF a
  <2>5. /\ b \in Writers
        /\ IF pinType[0].major = "audio" /\ a.audio = NoCodec
             THEN b.audio = pinType[0].sub /\ b.audioExtra = pinType[0].extra
             ELSE b.audio = a.audio /\ b.audioExtra = a.audioExtra
    BY <2>2, <2>4, ConfigPinKnows, Zenon
  <2> HIDE DEF b
  <2>6. /\ c \in Writers
        /\ IF pinType[1].major = "audio" /\ b.audio = NoCodec
             THEN c.audio = pinType[1].sub /\ c.audioExtra = pinType[1].extra
             ELSE c.audio = b.audio /\ c.audioExtra = b.audioExtra
    BY <2>2, <2>5, ConfigPinKnows, Zenon
  <2> HIDE DEF c
  <2>7. Fits(c.audioExtra + 2)
    <3>1. Fits(a.audioExtra + 2)
      BY <2>4 DEF ChainInv
    <3>2. Fits(b.audioExtra + 2)
      BY <2>2, <2>3, <2>5, <3>1, Zenon
    <3> QED
      BY <2>2, <2>3, <2>6, <3>2, Zenon
  <2>8. /\ v \in Writers /\ FileBegun(v) /\ v.tags = <<MetaTag(v)>>
        /\ v.video = c.video /\ v.audio = c.audio /\ v.audioExtra = c.audioExtra
        /\ v.lastTag = 11 + MetaSize(c)
    BY <2>6, StartBegins, Zenon
  <2> HIDE DEF v
  <2>9. MetaSize(v) = MetaSize(c) /\ UI24(MetaSize(v)) = MetaSize(v)
    BY <2>8, MetaSizes DEF MetaSize
  <2>10. /\ MetaTag(v).announced = MetaTag(v).written /\ MetaTag(v).prev = 0
         /\ v.lastTag = 11 + MetaTag(v).written
    BY <2>8, <2>9 DEF MetaTag
  <2>11. Linked(v.tags) /\ LastTag(v) = MetaTag(v)
    BY <2>8, <2>10 DEF Linked, LastTag
  <2>12. v.trailer = NoTrailer
    BY <2>8 DEF FileBegun
  <2>13. ChainInv'
    BY <2>1, <2>7, <2>8, <2>10, <2>11, <2>12 DEF ChainInv, Chained, LastTag
  <2> QED
    BY <2>13
<1> QED
  BY <1>1, <1>2

LEMMA PacketKeepsChain ==
  ASSUME FitsUI24, FileInv, ChainInv, writer.fault = "none",
         NEW p \in Pins, NEW packet \in Packet, OnMuxPacket(p, packet)
  PROVE  ChainInv'
<1>1. count = 0 \/ clock <= packet.start
  BY DEF OnMuxPacket
<1>2. CASE ~writer.io
  BY <1>2, SameWriterChained DEF OnMuxPacket
<1>3. CASE writer.io
  <2> DEFINE v == FirstPacket(writer, StampOf(packet))
             major == pinType[p].major
             u == WritePacket(writer, packet, major)
  <2>1. writer' = u
    BY <1>3 DEF OnMuxPacket
  <2>2. pinType[p] \in MediaTypes /\ Writable(pinType[p]) /\ pinType[p].major \in {"video", "audio"}
    <3>1. pinType[p] # NoType
      BY DEF OnMuxPacket, Connected
    <3>2. pinType[p] \in {mt \in MediaTypes : Writable(mt)}
      BY <3>1, Zenon DEF FileInv, FlagsInv, PinsTyped
    <3> QED
      BY <3>2, Kinds
  <2>3. /\ SameStreams(writer, v) /\ v.fault = "none" /\ FileAt(v, clock)
        /\ clock <= packet.start \/ HeadersOnly(v.tags)
    BY <1>1, <1>3, FirstPacketDone, Zenon
  <2>4. major = "audio" => v.audio # NoCodec
    <3>1. major = "audio" => writer.audio = pinType[p].sub /\ pinType[p].sub \in AudioCodecs
      BY <1>3, <2>2 DEF FileInv, WriterKnowsPins, Writable
    <3> QED
      BY <2>3, <3>1 DEF SameStreams, AudioCodecs, NoCodec
  <2>5. writer \in Writers /\ Len(writer.tags) > 0 /\ Fits(writer.audioExtra + 2) /\ Chained(writer)
        /\ writer.trailer = NoTrailer /\ StampOf(packet) \in Int
    <3>1. writer \in Writers /\ FileBegun(writer)
      BY <1>3, Zenon DEF FileInv, WriterInv, FileOpen
    <3>2. StampOf(packet) \in Int
      BY PacketTyped
    <3> QED
      BY <1>3, <3>1, <3>2, Zenon DEF FileBegun, ChainInv
  <2>6. Chained(v) /\ Len(v.tags) > 0 /\ v \in Writers
    BY <2>3, <2>5, FirstPacketChained, Zenon DEF FileAt
  <2>7. Fits(packet.size + 5)
    BY DEF FitsUI24, Packet
  <2>8. Chained(u)
    <3> HIDE DEF major
    <3>1. major \in {"video", "audio"}
      BY <2>2 DEF major
    <3> QED
      BY <1>3, <2>3, <2>4, <2>5, <2>6, <2>7, <3>1, PacketChained, Zenon
  <2>9. SameStreams(writer, u)
    <3>1. clock \in Int /\ major \in {"video", "audio"}
      BY <2>2 DEF FileInv, WriterInv
    <3> HIDE DEF major
    <3> QED
      BY <1>3, <2>3, <2>5, <3>1, PacketKeepsFile, Zenon
  <2> HIDE DEF u
  <2> QED
    BY <2>1, <2>5, <2>8, <2>9 DEF ChainInv, Chained, SameStreams, LastTag
<1> QED
  BY <1>2, <1>3

LEMMA StopChained ==
  ASSUME FileInv, ChainInv, writer.fault = "none", OnStopStreaming PROVE ChainInv'
<1>1. CASE ~writer.io
  BY <1>1, SameWriterChained DEF OnStopStreaming
<1>2. CASE writer.io
  <2> DEFINE v == Stop(writer)
             u == Reset(v)
  <2>1. writer' = u
    BY <1>2 DEF OnStopStreaming
  <2>2. writer \in Writers /\ FileOpen(writer)
    BY <1>2, Zenon DEF FileInv, WriterInv
  <2>3. /\ v \in Writers /\ v.tags = writer.tags /\ v.trailer = writer.lastTag /\ v.audioExtra = writer.audioExtra
    BY <2>2, StopCloses, Zenon
  <2> HIDE DEF v
  <2>4. ~u.io /\ u.tags = v.tags /\ u.trailer = v.trailer /\ u.audioExtra = v.audioExtra
    BY <2>3, ResetForgets, Zenon
  <2> HIDE DEF u
  <2> QED
    BY <1>2, <2>1, <2>3, <2>4 DEF ChainInv, Chained, LastTag
<1> QED
  BY <1>1, <1>2

LEMMA ChainStep == FitsUI24 /\ FileInv /\ ChainInv /\ [Next]_vars => ChainInv'
<1> SUFFICES ASSUME FitsUI24, FileInv, ChainInv, [Next]_vars PROVE ChainInv'
  OBVIOUS
<1>1. CASE UNCHANGED vars
  BY <1>1, SameWriterChained
<1>2. CASE PinStep
  BY <1>2, PinsWhileStopped, SameWriterChained
<1>3. CASE SessionStep /\ writer.fault = "none"
  BY <1>3, StartChained, PacketKeepsChain, StopChained DEF SessionStep
<1> QED
  BY <1>1, <1>2, <1>3 DEF Next, Dead

(***************************************************************************)
(* A player can walk every file both ways, for all packets and extradata   *)
(* that fit in the 24 bits of a tag's size, unless an avcC record was too  *)
(* long for its buffer.                                                    *)
(***************************************************************************)
THEOREM FilesAreWalkable == FitsUI24 => (Spec => []Walkable)
<1>1. ChainInv => Walkable
  BY DEF ChainInv, Truncated, BadAvcc, Linked, Walkable, LastTag
<1>2. FitsUI24 => (Spec => []ChainInv)
  <2> SUFFICES ASSUME FitsUI24 PROVE Spec => []ChainInv
    OBVIOUS
  <2>1. FileInv /\ ChainInv /\ [Next]_vars => ChainInv'
    BY ChainStep
  <2> QED
    BY <2>1, ChainInit, FileInvariant, PTL DEF Spec
<1> QED
  BY <1>1, <1>2, PTL
=============================================================================
