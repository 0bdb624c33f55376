------------------------- MODULE OutputQueueProofs -------------------------
(***************************************************************************)
(* What COutputQueue promises, for every size of batch, every pool and any *)
(* number of items: the queue owns exactly the samples it has, and the     *)
(* allocator it takes them from keeps its promises; a flush leaves nothing *)
(* behind and never waits for what cannot come; and items are delivered in *)
(* order and without loss.                                                 *)
(*                                                                         *)
(* Four invariants build on each other: QueueTypes and PlaceInv (what can  *)
(* be where, and when), OwnsInv with the AllocInv of the allocator (whose  *)
(* the samples are), ControlInv (what a control call may rely on while it  *)
(* waits) and OrderInv (the line of numbers through the five places an     *)
(* item can be in).                                                        *)
(***************************************************************************)
EXTENDS OutputQueue, MemAllocatorProofs, WellFoundedInduction

(* What stands in the list or ends a batch.                                *)
Kinds == {"sample", "segment", "eos", "send", "reset", "none"}

Items ==
  {x \in [kind : Kinds, sample : Samples \cup {0}, n : Nat] :
     /\ x.kind = "sample" <=> x.sample # 0
     /\ x.kind \in {"sample", "segment", "eos"} <=> x.n # 0}

AllSamples(items) == \A i \in DOMAIN items : items[i].kind = "sample"

In(kind, items) == \E i \in DOMAIN items : items[i].kind = kind

OneReset(items) ==
  \A i, j \in DOMAIN items : items[i].kind = "reset" /\ items[j].kind = "reset" => i = j

\* What is in the list, the batch and in hand, and where the three threads are.
QueueTypes ==
  /\ mode \in [queued : BOOLEAN, exact : BOOLEAN, opt : BOOLEAN]
  /\ list \in Seq(Items) /\ batch \in Seq(Items) /\ hand \in Seq(Items)
  /\ AllSamples(batch) /\ AllSamples(hand) /\ Len(batch) < BatchSize
  /\ special \in Items /\ special.kind # "sample"
  /\ number \in Nat /\ sent \in Seq(Nat)
  /\ hr \in {"ok", "stop", "error"}
  /\ tpc \in {"none", "loop", "wait", "freeing", "send", "receiving", "releasing", "ended"}
  /\ spc \in {"idle", "sending", "releasing"}
  /\ fpc \in {"idle", "passing", "locking", "begun", "flushing", "freeing", "leaving",
              "resetting", "closing", "closed"}

\* With a thread nothing is sent by the caller; without one nothing is listed.
ByMode ==
  /\ mode.queued => spc = "idle" /\ tpc # "none" /\ fpc \notin {"locking", "freeing"}
  /\ ~mode.queued => tpc = "none" /\ list = <<>> /\ fpc \notin {"passing", "flushing", "resetting", "closing"}
  /\ ~mode.queued => special.kind \in {"none", "segment", "eos"}

\* Something is in hand only between taking it off the queue and releasing it.
InHand ==
  /\ tpc \in {"loop", "wait", "freeing", "ended"} => hand = <<>> /\ special = None
  /\ tpc = "receiving" => hand # <<>>
  /\ ~mode.queued /\ spc = "idle" => hand = <<>> /\ special = None

\* The thread is counted before it sleeps, once, and takes its unit of the semaphore when it wakes.
Counted ==
  /\ qWaiting \in Nat /\ qSem \in Nat
  /\ qWaiting + qSem = IF tpc = "wait" THEN 1 ELSE 0

\* The thread frees only when it is asked to, and ends only with nothing left.
Asked ==
  /\ fpc \in {"idle", "locking", "leaving", "resetting", "closing", "closed"} => ~qFlushing
  /\ terminate => ~qFlushing /\ fpc \in {"freeing", "closing", "closed"}
  /\ fpc \in {"closing", "closed"} => terminate
  /\ tpc = "ended" => terminate /\ list = <<>> /\ batch = <<>>
  /\ fpc = "closing" /\ tpc = "wait" => qSem > 0
  /\ fpc = "closed" => list = <<>> /\ batch = <<>> /\ (mode.queued => tpc = "ended")

\* A direct call that is still under way in a flush, or in the destructor, only passes a new segment on.
OnlySegment ==
  ~mode.queued /\ fpc \in {"begun", "freeing", "leaving", "closed"}
    => Unlocked

PlaceInv ==
  ByMode /\ InHand /\ Counted /\ Asked /\ OnlySegment

\* Nothing is there to free in a queue that has been flushed.
FlushedMeans ==
  mode.queued /\ flushed =>
    /\ batch = <<>> /\ hand = <<>> /\ special.kind # "eos"
    /\ ~In("sample", list) /\ ~In("eos", list)

Skipped == mode.queued /\ mode.opt /\ flushed

\* A flush that is not skipped wakes the thread, and the event says that all is free and the thread asleep.
FlushTold ==
  /\ tpc = "freeing" => qFlushing \/ terminate
  /\ fpc = "passing" => ~Skipped
  /\ fpc \in {"locking", "flushing"} => sinkFlush
  /\ fpc = "flushing" => ~Skipped
  /\ fpc = "begun" /\ ~Skipped => sinkFlush
  /\ mode.queued /\ fpc \in {"passing", "begun", "flushing"} => qFlushing /\ ~terminate
  /\ mode.queued /\ fpc \in {"passing", "begun", "flushing"} /\ ~Skipped =>
       /\ evFlush => tpc = "wait" /\ qSem = 0 /\ list = <<>> /\ batch = <<>>
       /\ tpc = "wait" /\ ~evFlush => qSem > 0
  /\ fpc = "leaving" =>
       /\ batch = <<>>
       /\ mode.queued => tpc = "wait" /\ list = <<>> /\ qSem = 0

\* There is one request to reset for the call that waits for it, and none otherwise.
ResetTold ==
  /\ mode.opt => fpc # "resetting"
  /\ ~mode.opt /\ fpc \in {"idle", "leaving"} => ~evFlush
  /\ ~mode.queued => ~evFlush
  /\ fpc # "resetting" \/ evFlush =>
       special.kind # "reset" /\ ~In("reset", list)
  /\ fpc = "resetting" /\ ~evFlush =>
       special.kind = "reset" \/ In("reset", list)
  /\ OneReset(list)
  /\ special.kind = "reset" => ~In("reset", list)

\* The thread sleeps over nothing but samples that do not fill an exact batch.
SleepsOver ==
  tpc = "wait" /\ qSem = 0 =>
    /\ AllSamples(list)
    /\ ~Exact => list = <<>>

ControlInv ==
  FlushedMeans /\ FlushTold /\ ResetTold /\ SleepsOver

\* Order: the numbers of a sequence of items, what is being sent, and the five places an item can be in, in
\* the order in which the next filter gets what is in them.
NM(items) == Marks(Numbers(items))
Risen(items) == Ascending(Numbers(items))
Below(S, T) == \A x \in S, y \in T : x < y
Own(x) == {x.n} \ {0}

Going == IF Unsent THEN hand ELSE <<>>

Lined(s, b, x, d, l) ==
  /\ Ascending(s) /\ Risen(b) /\ Risen(d) /\ Risen(l)
  /\ Below(Marks(s), NM(b)) /\ Below(Marks(s), Own(x)) /\ Below(Marks(s), NM(d)) /\ Below(Marks(s), NM(l))
  /\ Below(NM(b), Own(x)) /\ Below(NM(b), NM(d)) /\ Below(NM(b), NM(l))
  /\ Below(Own(x), NM(d)) /\ Below(Own(x), NM(l))
  /\ Below(NM(d), NM(l))

Every(s, b, x, d, l) == Marks(s) \cup NM(b) \cup Own(x) \cup NM(d) \cup NM(l)

\* An error is sticky only after a failure, or in a flush that asks for it.
Sticky ==
  hr # "ok" /\ ~failed /\ ~terminate => fpc \in {"passing", "begun", "flushing", "freeing", "leaving"}

\* No failure and no flush explains that anything is missing.
Sound ==
  ~failed /\ ~terminate /\ (hr = "ok" \/ ~mode.queued \/ (fpc = "begun" /\ Skipped))

\* Nothing overtakes, and nothing is missing.
Line == Lined(sent, Going, special, batch, list)
Present == Every(sent, Going, special, batch, list)

OrderInv ==
  /\ Ordered
  /\ Line
  /\ \A m \in Present : m <= number
  /\ Sticky
  /\ Sound => Present = 1 .. number

\* Samples.
Ids(items) == SampleIds(items) \ {0}
Distinct(items) == \A i, j \in DOMAIN items : items[i].sample # 0 /\ items[i].sample = items[j].sample => i = j

OwnsInv ==
  /\ holds["queue"] = Ids(list) \cup Ids(batch) \cup Ids(hand)
  /\ holds["source"] \cap holds["queue"] = {}
  /\ Distinct(list) /\ Distinct(batch) /\ Distinct(hand)
  /\ Ids(list) \cap Ids(batch) = {} /\ Ids(list) \cap Ids(hand) = {} /\ Ids(batch) \cap Ids(hand) = {}

USE DEF Layouts, poolVars, semVars, sampleVars, lifeVars, allocVars

-----------------------------------------------------------------------------
(* Items and sequences of them.                                            *)

\* The fields of an item, and the items the queue makes.
LEMMA ItemFields ==
  ASSUME NEW x \in Items
  PROVE  /\ x.kind \in Kinds /\ x.sample \in Samples \cup {0} /\ x.n \in Nat
         /\ x.sample \in Nat
         /\ x.kind = "sample" <=> x.sample # 0
         /\ x.kind \in {"sample", "segment", "eos"} <=> x.n # 0
BY BoundsAssumption DEF Items, Samples

LEMMA ItemsMade ==
  /\ \A s \in Samples, n \in Nat : Item("sample", s, n + 1) \in Items
  /\ \A n \in Nat : Item("segment", 0, n + 1) \in Items /\ Item("eos", 0, n + 1) \in Items
  /\ Control("send") \in Items /\ Control("reset") \in Items /\ None \in Items
<1>1. \A s \in Samples : s # 0
  BY BoundsAssumption DEF Samples
<1>2. \A n \in Nat : n + 1 \in Nat /\ n + 1 # 0
  OBVIOUS
<1>3. \A s \in Samples, n \in Nat : Item("sample", s, n + 1) \in Items
  BY <1>1, <1>2 DEF Items, Kinds, Item
<1>4. \A n \in Nat : Item("segment", 0, n + 1) \in Items /\ Item("eos", 0, n + 1) \in Items
  BY <1>2 DEF Items, Kinds, Item
<1>5. Control("send") \in Items /\ Control("reset") \in Items /\ None \in Items
  BY DEF Items, Kinds, Item, Control, None
<1> QED BY <1>3, <1>4, <1>5

\* The least of a set of places.
LEMMA LeastPlace ==
  ASSUME NEW I \in SUBSET Nat, I # {}
  PROVE  /\ Min(I) \in I
         /\ \A i \in I : Min(I) <= i
<1>1. \E i \in I : \A j \in I : ~(<<j, i>> \in OpToRel(<, Nat))
  BY WFMin, NatLessThanWellFounded, Zenon
<1>2. \A i, j \in Nat : j < i => <<j, i>> \in OpToRel(<, Nat)
  BY Zenon DEF OpToRel
<1>3. PICK i \in I : \A j \in I : ~(<<j, i>> \in OpToRel(<, Nat))
  BY <1>1
<1>4. \A j \in I : i <= j
  <2> SUFFICES ASSUME NEW j \in I, j < i PROVE FALSE
    OBVIOUS
  <2>1. <<j, i>> \in OpToRel(<, Nat)
    BY <1>2, Zenon
  <2> QED BY <1>3, <2>1, Zenon
<1>5. \E x \in I : \A y \in I : x =< y
  BY <1>4, Zenon
<1> QED BY <1>5, Zenon DEF Min

\* What SelectInSeq finds: the first item that is not of a kind, if there is one.
LEMMA FirstNotFound ==
  ASSUME NEW l \in Seq(Items), NEW kind
  PROVE  LET i == SelectInSeq(l, LAMBDA x : x.kind # kind)
         IN /\ i \in 0 .. Len(l)
            /\ i = 0 => \A j \in 1 .. Len(l) : l[j].kind = kind
            /\ i > 0 => l[i].kind # kind /\ \A j \in 1 .. i - 1 : l[j].kind = kind
<1> DEFINE I == {j \in 1 .. Len(l) : l[j].kind # kind}
           i == IF I # {} THEN Min(I) ELSE 0
<1>1. Len(l) \in Nat /\ I \in SUBSET Nat
  OBVIOUS
<1>2. \A j : j \in I <=> j \in 1 .. Len(l) /\ l[j].kind # kind
  OBVIOUS
<1>3. /\ i \in 0 .. Len(l)
      /\ i = 0 => \A j \in 1 .. Len(l) : l[j].kind = kind
      /\ i > 0 => l[i].kind # kind /\ \A j \in 1 .. i - 1 : l[j].kind = kind
  <2> HIDE DEF I
  <2>1. CASE I = {}
    <3>1. \A j \in 1 .. Len(l) : l[j].kind = kind
      BY <1>2, <2>1
    <3> QED BY <1>1, <2>1, <3>1
  <2>2. CASE I # {}
    <3>1. i \in I /\ \A j \in I : i <= j
      BY <1>1, <2>2, LeastPlace
    <3> HIDE DEF i
    <3>2. i \in 1 .. Len(l) /\ l[i].kind # kind
      BY <1>2, <3>1
    <3>3. \A j \in 1 .. i - 1 : l[j].kind = kind
      <4> SUFFICES ASSUME NEW j \in 1 .. i - 1, l[j].kind # kind PROVE FALSE
        OBVIOUS
      <4>1. j \in 1 .. Len(l) /\ ~(i <= j)
        BY <1>1, <3>2
      <4>2. j \in I
        BY <1>2, <4>1
      <4> QED BY <3>1, <4>1, <4>2
    <3> QED BY <1>1, <3>2, <3>3
  <2> QED BY <2>1, <2>2
<1> QED BY <1>3, Zenon DEF SelectInSeq

\* A part of a sequence.
LEMMA PartOf ==
  ASSUME NEW S, NEW l \in Seq(S), NEW a \in 1 .. Len(l) + 1, NEW b \in 0 .. Len(l), a <= b + 1
  PROVE  /\ SubSeq(l, a, b) \in Seq(S)
         /\ Len(SubSeq(l, a, b)) = b - a + 1
         /\ \A i \in 1 .. b - a + 1 : SubSeq(l, a, b)[i] = l[a + i - 1] /\ a + i - 1 \in 1 .. Len(l)
<1>1. Len(l) \in Nat /\ a \in Nat /\ b \in Nat /\ b - a + 1 \in Nat
  OBVIOUS
<1>2. \A i \in 1 .. b - a + 1 : a + i - 1 \in 1 .. Len(l)
  BY <1>1
<1>3. SubSeq(l, a, b) = [i \in 1 .. b - a + 1 |-> l[a + i - 1]]
  BY <1>1
<1>4. \A i \in 1 .. b - a + 1 : l[a + i - 1] \in S
  BY <1>2
<1> DEFINE part == [i \in 1 .. b - a + 1 |-> l[a + i - 1]]
<1>5. part \in Seq(S) /\ Len(part) = b - a + 1
  BY <1>1, <1>4
<1>6. \A i \in 1 .. b - a + 1 : part[i] = l[a + i - 1]
  OBVIOUS
<1> HIDE DEF part
<1> QED BY <1>2, <1>3, <1>5, <1>6 DEF part

\* What is appended, taken from the head or the end, and put together stays a sequence of items.
LEMMA Appended ==
  ASSUME NEW S, NEW l \in Seq(S), NEW x \in S
  PROVE  /\ Append(l, x) \in Seq(S) /\ Len(Append(l, x)) = Len(l) + 1
         /\ \A i \in 1 .. Len(l) : Append(l, x)[i] = l[i]
         /\ Append(l, x)[Len(l) + 1] = x /\ Append(l, x) # <<>>
OBVIOUS

LEMMA HeadOff ==
  ASSUME NEW S, NEW l \in Seq(S), l # <<>>
  PROVE  /\ Tail(l) \in Seq(S) /\ Len(Tail(l)) = Len(l) - 1 /\ Len(l) \in Nat \ {0}
         /\ \A i \in 1 .. Len(l) - 1 : Tail(l)[i] = l[i + 1]
         /\ Head(l) \in S /\ Head(l) = l[1]
OBVIOUS

LEMMA EndOff ==
  ASSUME NEW S, NEW l \in Seq(S), l # <<>>
  PROVE  /\ Front(l) \in Seq(S) /\ Len(Front(l)) = Len(l) - 1 /\ Len(l) \in Nat \ {0}
         /\ \A i \in 1 .. Len(l) - 1 : Front(l)[i] = l[i]
         /\ l[Len(l)] \in S
<1>1. Len(l) \in Nat \ {0} /\ Len(l) - 1 \in 0 .. Len(l)
  OBVIOUS
<1>2. Front(l) = SubSeq(l, 1, Len(l) - 1)
  BY DEF Front
<1>3. /\ SubSeq(l, 1, Len(l) - 1) \in Seq(S)
      /\ Len(SubSeq(l, 1, Len(l) - 1)) = Len(l) - 1 - 1 + 1
      /\ \A i \in 1 .. Len(l) - 1 - 1 + 1 : SubSeq(l, 1, Len(l) - 1)[i] = l[1 + i - 1]
  <2>1. 1 \in 1 .. Len(l) + 1 /\ 1 <= Len(l) - 1 + 1
    BY <1>1
  <2> DEFINE b == Len(l) - 1
  <2>2. b \in 0 .. Len(l) /\ 1 <= b + 1
    BY <1>1
  <2> HIDE DEF b
  <2>3. /\ SubSeq(l, 1, b) \in Seq(S) /\ Len(SubSeq(l, 1, b)) = b - 1 + 1
        /\ \A i \in 1 .. b - 1 + 1 : SubSeq(l, 1, b)[i] = l[1 + i - 1]
    BY <2>1, <2>2, PartOf, Zenon
  <2> QED BY <2>3 DEF b
<1>4. Len(l) - 1 - 1 + 1 = Len(l) - 1 /\ \A i \in 1 .. Len(l) - 1 : 1 + i - 1 = i
  BY <1>1
<1> QED BY <1>1, <1>2, <1>3, <1>4

LEMMA Joined ==
  ASSUME NEW S, NEW a \in Seq(S), NEW b \in Seq(S)
  PROVE  /\ a \o b \in Seq(S) /\ Len(a \o b) = Len(a) + Len(b)
         /\ \A i \in 1 .. Len(a) : (a \o b)[i] = a[i]
         /\ \A i \in 1 .. Len(b) : (a \o b)[Len(a) + i] = b[i]
         /\ a \o b = <<>> <=> a = <<>> /\ b = <<>>
OBVIOUS

\* What a taken packet leaves: Sendable and Fill cut the list in three, dropped requests, samples and the rest.
LEMMA Cut ==
  ASSUME QueueTypes
  PROVE  \E d \in 0 .. Len(list), k \in Nat :
           LET l == SubSeq(list, d + 1, Len(list))
           IN /\ Sendable = l /\ Fill(l) = k
              /\ d > 0 => batch = <<>>
              /\ \A i \in 1 .. d : list[i].kind = "send"
              /\ batch = <<>> /\ d < Len(list) => list[d + 1].kind # "send"
              /\ d + k <= Len(list) /\ Len(batch) + k <= BatchSize
              /\ \A i \in d + 1 .. d + k : list[i].kind = "sample"
              /\ d + k < Len(list) /\ Len(batch) + k # BatchSize => list[d + k + 1].kind # "sample"
<1>1. list \in Seq(Items) /\ Len(list) \in Nat /\ Len(batch) \in Nat /\ Len(batch) < BatchSize /\ BatchSize \in Nat
  BY BatchSizeAssumption DEF QueueTypes
<1>2. PICK d \in 0 .. Len(list) :
        /\ Sendable = SubSeq(list, d + 1, Len(list))
        /\ d > 0 => batch = <<>>
        /\ \A i \in 1 .. d : list[i].kind = "send"
        /\ batch = <<>> /\ d < Len(list) => list[d + 1].kind # "send"
  <2>1. CASE batch # <<>>
    <3>1. Sendable = list
      BY <2>1, Zenon DEF Sendable
    <3>2. list = SubSeq(list, 0 + 1, Len(list))
      BY <1>1
    <3>3. 0 \in 0 .. Len(list) /\ ~(0 > 0) /\ \A i \in 1 .. 0 : FALSE
      BY <1>1
    <3> QED BY <2>1, <3>1, <3>2, <3>3
  <2>2. CASE batch = <<>>
    <3> DEFINE i == SelectInSeq(list, LAMBDA x : x.kind # "send")
    <3>1. Sendable = IF i = 0 THEN <<>> ELSE SubSeq(list, i, Len(list))
      BY <2>2, Zenon DEF Sendable
    <3>2. /\ i \in 0 .. Len(list)
          /\ i = 0 => \A j \in 1 .. Len(list) : list[j].kind = "send"
          /\ i > 0 => list[i].kind # "send" /\ \A j \in 1 .. i - 1 : list[j].kind = "send"
      BY <1>1, FirstNotFound, Zenon
    <3> HIDE DEF i
    <3>3. CASE i = 0
      <4>1. SubSeq(list, Len(list) + 1, Len(list)) = <<>>
        BY <1>1
      <4>2. Len(list) \in 0 .. Len(list)
        BY <1>1
      <4> QED BY <1>1, <2>2, <3>1, <3>2, <3>3, <4>1, <4>2
    <3>4. CASE i # 0
      <4>1. i > 0 /\ i - 1 \in 0 .. Len(list) /\ i - 1 + 1 = i
        BY <1>1, <3>2, <3>4
      <4> QED BY <2>2, <3>1, <3>2, <3>4, <4>1
    <3> QED BY <3>3, <3>4
  <2> QED BY <2>1, <2>2
<1> DEFINE l == SubSeq(list, d + 1, Len(list))
           i == SelectInSeq(l, LAMBDA x : x.kind # "sample")
           plain == IF i = 0 THEN Len(l) ELSE i - 1
           room == BatchSize - Len(batch)
           k == IF plain < room THEN plain ELSE room
<1>3. /\ l \in Seq(Items) /\ Len(l) = Len(list) - d
      /\ \A j \in 1 .. Len(list) - d : l[j] = list[d + j]
  <2>1. d + 1 \in 1 .. Len(list) + 1 /\ Len(list) \in 0 .. Len(list) /\ d + 1 <= Len(list) + 1
        /\ Len(list) - (d + 1) + 1 = Len(list) - d /\ \A j \in Nat : d + 1 + j - 1 = d + j
    BY <1>1
  <2> DEFINE a == d + 1
             b == Len(list)
  <2>2. list \in Seq(Items) /\ a \in 1 .. Len(list) + 1 /\ b \in 0 .. Len(list) /\ a <= b + 1
    BY <1>1, <2>1
  <2> HIDE DEF a, b
  <2>3. /\ SubSeq(list, a, b) \in Seq(Items) /\ Len(SubSeq(list, a, b)) = b - a + 1
        /\ \A j \in 1 .. b - a + 1 : SubSeq(list, a, b)[j] = list[a + j - 1]
    BY <2>2, PartOf, Zenon
  <2>4. b - a + 1 = Len(list) - d /\ \A j \in 1 .. Len(list) - d : a + j - 1 = d + j
    BY <1>1, <2>1 DEF a, b
  <2> QED BY <2>3, <2>4 DEF a, b
<1>4. Fill(l) = k
  BY Zenon DEF Fill
<1>5. /\ i \in 0 .. Len(l)
      /\ i = 0 => \A j \in 1 .. Len(l) : l[j].kind = "sample"
      /\ i > 0 => l[i].kind # "sample" /\ \A j \in 1 .. i - 1 : l[j].kind = "sample"
  BY <1>3, FirstNotFound, Zenon
<1> HIDE DEF i
<1> HIDE DEF l
<1>6. /\ plain \in 0 .. Len(l) /\ plain \in Nat
      /\ \A j \in 1 .. plain : l[j].kind = "sample"
      /\ plain < Len(l) => l[plain + 1].kind # "sample"
  BY <1>1, <1>3, <1>5
<1> HIDE DEF plain
<1>7. /\ k \in Nat /\ k <= plain /\ k <= room /\ Len(batch) + k <= BatchSize
      /\ Len(batch) + k # BatchSize => k = plain
  BY <1>1, <1>6
<1> HIDE DEF k
<1>8. d + k <= Len(list)
  BY <1>1, <1>3, <1>6, <1>7
<1>9. \A j \in d + 1 .. d + k : list[j].kind = "sample"
  <2> SUFFICES ASSUME NEW j \in d + 1 .. d + k PROVE list[j].kind = "sample"
    OBVIOUS
  <2>1. j - d \in 1 .. plain /\ j - d \in 1 .. Len(list) - d /\ d + (j - d) = j
    <3>1. d \in Nat /\ k \in Nat /\ plain \in Nat /\ Len(list) \in Nat /\ j \in Int /\ d + 1 <= j /\ j <= d + k
      BY <1>1, <1>6, <1>7
    <3> QED BY <1>7, <1>8, <3>1
  <2> QED BY <1>3, <1>6, <2>1
<1>10. d + k < Len(list) /\ Len(batch) + k # BatchSize => list[d + k + 1].kind # "sample"
  <2> SUFFICES ASSUME d + k < Len(list), Len(batch) + k # BatchSize PROVE list[d + k + 1].kind # "sample"
    OBVIOUS
  <2>1. k = plain /\ plain < Len(l) /\ k + 1 \in 1 .. Len(list) - d /\ d + (k + 1) = d + k + 1
    BY <1>1, <1>3, <1>7
  <2> QED BY <1>3, <1>6, <2>1
<1> QED BY <1>2, <1>4, <1>7, <1>8, <1>9, <1>10 DEF l

\* The part of a sequence behind d, of k members, and the rest of it.
LEMMA Piece ==
  ASSUME NEW S, NEW l \in Seq(S), NEW d \in Nat, NEW k \in Nat, d + k <= Len(l)
  PROVE  /\ SubSeq(l, d + 1, d + k) \in Seq(S) /\ Len(SubSeq(l, d + 1, d + k)) = k
         /\ \A i \in 1 .. k : SubSeq(l, d + 1, d + k)[i] = l[d + i] /\ d + i \in 1 .. Len(l)
<1> DEFINE a == d + 1
           b == d + k
<1>1. a \in 1 .. Len(l) + 1 /\ b \in 0 .. Len(l) /\ a <= b + 1 /\ b - a + 1 = k
      /\ \A i \in 1 .. k : a + i - 1 = d + i
  OBVIOUS
<1> HIDE DEF a, b
<1>2. /\ SubSeq(l, a, b) \in Seq(S) /\ Len(SubSeq(l, a, b)) = b - a + 1
      /\ \A i \in 1 .. b - a + 1 : SubSeq(l, a, b)[i] = l[a + i - 1] /\ a + i - 1 \in 1 .. Len(l)
  BY <1>1, PartOf, Zenon
<1>3. /\ SubSeq(l, a, b) \in Seq(S) /\ Len(SubSeq(l, a, b)) = k
      /\ \A i \in 1 .. k : SubSeq(l, a, b)[i] = l[d + i] /\ d + i \in 1 .. Len(l)
  BY <1>1, <1>2
<1> QED BY <1>3 DEF a, b

LEMMA RestOf ==
  ASSUME NEW S, NEW l \in Seq(S), NEW e \in 0 .. Len(l)
  PROVE  /\ SubSeq(l, e + 1, Len(l)) \in Seq(S) /\ Len(SubSeq(l, e + 1, Len(l))) = Len(l) - e
         /\ \A i \in 1 .. Len(l) - e : SubSeq(l, e + 1, Len(l))[i] = l[e + i] /\ e + i \in 1 .. Len(l)
<1> DEFINE k == Len(l) - e
<1>1. k \in Nat /\ e \in Nat /\ e + k <= Len(l) /\ e + k = Len(l)
  OBVIOUS
<1> HIDE DEF k
<1>2. /\ SubSeq(l, e + 1, e + k) \in Seq(S) /\ Len(SubSeq(l, e + 1, e + k)) = k
      /\ \A i \in 1 .. k : SubSeq(l, e + 1, e + k)[i] = l[e + i] /\ e + i \in 1 .. Len(l)
  BY <1>1, Piece, Zenon
<1> QED BY <1>1, <1>2 DEF k

\* A part of a part.
Inner(s, d, a, c) == 1 <= a /\ a <= c + 1 /\ d + c <= Len(s)

LEMMA PartOfPart ==
  ASSUME NEW S, NEW s \in Seq(S), NEW d \in 0 .. Len(s), NEW a \in Nat, NEW c \in Nat, Inner(s, d, a, c)
  PROVE  SubSeq(SubSeq(s, d + 1, Len(s)), a, c) = SubSeq(s, d + a, d + c)
<1> DEFINE l == SubSeq(s, d + 1, Len(s))
           t == SubSeq(l, a, c)
           u == SubSeq(s, d + a, d + c)
           m == d + a
           n == d + c
           e == d + 1
           f == Len(s)
<1>1. /\ Len(s) \in Nat /\ d \in Nat /\ f \in Nat
      /\ 1 <= a /\ a <= c + 1 /\ d + c <= Len(s)
  BY DEF Inner
<1>2. /\ e \in 1 .. Len(s) + 1 /\ f \in 0 .. Len(s) /\ e <= f + 1
      /\ m \in 1 .. Len(s) + 1 /\ n \in 0 .. Len(s) /\ m <= n + 1
  BY <1>1
<1>3. /\ l \in Seq(S) /\ Len(l) = f - e + 1
      /\ \A i \in 1 .. f - e + 1 : l[i] = s[e + i - 1]
  <2> HIDE DEF e, f
  <2> SUFFICES /\ SubSeq(s, e, f) \in Seq(S) /\ Len(SubSeq(s, e, f)) = f - e + 1
               /\ \A i \in 1 .. f - e + 1 : SubSeq(s, e, f)[i] = s[e + i - 1]
    BY DEF e, f
  <2> QED BY <1>2, PartOf, Zenon
<1>4. /\ u \in Seq(S) /\ Len(u) = n - m + 1
      /\ \A i \in 1 .. n - m + 1 : u[i] = s[m + i - 1]
  <2> HIDE DEF m, n
  <2> SUFFICES /\ SubSeq(s, m, n) \in Seq(S) /\ Len(SubSeq(s, m, n)) = n - m + 1
               /\ \A i \in 1 .. n - m + 1 : SubSeq(s, m, n)[i] = s[m + i - 1]
    BY DEF m, n
  <2> QED BY <1>2, PartOf, Zenon
<1>5. a \in 1 .. Len(l) + 1 /\ c \in 0 .. Len(l) /\ a <= c + 1
  <2>1. Len(l) = Len(s) - d
    BY <1>1, <1>3
  <2> HIDE DEF l
  <2> QED BY <1>1, <2>1
<1>6. /\ t \in Seq(S) /\ Len(t) = c - a + 1
      /\ \A i \in 1 .. c - a + 1 : t[i] = l[a + i - 1]
  <2>1. l \in Seq(S) /\ a \in 1 .. Len(l) + 1 /\ c \in 0 .. Len(l) /\ a <= c + 1
    BY <1>3, <1>5, Zenon
  <2> HIDE DEF l
  <2>2. /\ SubSeq(l, a, c) \in Seq(S) /\ Len(SubSeq(l, a, c)) = c - a + 1
        /\ \A i \in 1 .. c - a + 1 : SubSeq(l, a, c)[i] = l[a + i - 1] /\ a + i - 1 \in 1 .. Len(l)
    BY <2>1, PartOf, Zenon
  <2> QED BY <2>2
<1>7. Len(t) = Len(u) /\ Len(t) \in Nat
  BY <1>1, <1>4, <1>6
<1>8. \A i \in 1 .. Len(t) : t[i] = u[i]
  <2> SUFFICES ASSUME NEW i \in 1 .. Len(t) PROVE t[i] = u[i]
    OBVIOUS
  <2>1. i \in 1 .. c - a + 1 /\ a + i - 1 \in 1 .. f - e + 1 /\ e + (a + i - 1) - 1 = d + a + i - 1
        /\ i \in 1 .. n - m + 1 /\ m + i - 1 = d + a + i - 1
    BY <1>1, <1>6
  <2> HIDE DEF l, u, t
  <2> QED BY <1>3, <1>4, <1>6, <2>1
<1> HIDE DEF l, u, t
<1>9. t = u
  <2>1. t = [i \in 1 .. Len(t) |-> t[i]] /\ u = [i \in 1 .. Len(u) |-> u[i]]
    BY <1>4, <1>6
  <2>2. [i \in 1 .. Len(t) |-> t[i]] = [i \in 1 .. Len(u) |-> u[i]]
    BY <1>7, <1>8
  <2> QED BY <2>1, <2>2, Zenon
<1> QED BY <1>9 DEF l, u, t

\* One locked section of the thread: requests to send that mean nothing are dropped up to d, k samples
\* join the batch, and the list goes on behind e, one further if a packet ended the batch.
Taken(d, k, e) ==
  LET b == batch \o SubSeq(list, d + 1, d + k)
  IN /\ e \in 0 .. Len(list) /\ e \in {d + k, d + k + 1}
     /\ d > 0 => batch = <<>>
     /\ \A i \in 1 .. d : list[i].kind = "send"
     /\ \A i \in d + 1 .. d + k : list[i].kind = "sample"
     /\ list' = SubSeq(list, e + 1, Len(list))
     /\ \/ /\ tpc' = "wait" /\ e = Len(list) /\ e = d + k
           /\ batch' = b /\ hand' = hand /\ special' = special
           /\ Len(b) < BatchSize /\ (Exact \/ b = <<>>)
           /\ qWaiting' = qWaiting + 1
        \/ /\ tpc' = "send"
           /\ hand' = b /\ batch' = <<>>
           /\ special' = IF e = d + k THEN None ELSE list[e]
           /\ e # d + k => list[e].kind # "sample"
           /\ qWaiting' = qWaiting

LEMMA TakesCuts ==
  ASSUME QueueTypes, ThreadTakes
  PROVE  \E d \in 0 .. Len(list), k \in Nat, e \in 0 .. Len(list) : Taken(d, k, e)
<1>1. /\ list \in Seq(Items) /\ Len(list) \in Nat
      /\ batch \in Seq(Items) /\ Len(batch) \in Nat /\ BatchSize \in Nat
  BY BatchSizeAssumption DEF QueueTypes
<1>2. PICK d \in 0 .. Len(list), k \in Nat :
           LET l == SubSeq(list, d + 1, Len(list))
           IN /\ Sendable = l /\ Fill(l) = k
              /\ d > 0 => batch = <<>>
              /\ \A i \in 1 .. d : list[i].kind = "send"
              /\ batch = <<>> /\ d < Len(list) => list[d + 1].kind # "send"
              /\ d + k <= Len(list) /\ Len(batch) + k <= BatchSize
              /\ \A i \in d + 1 .. d + k : list[i].kind = "sample"
              /\ d + k < Len(list) /\ Len(batch) + k # BatchSize => list[d + k + 1].kind # "sample"
  BY Cut, Zenon
<1> DEFINE l == SubSeq(list, d + 1, Len(list))
           pre == SubSeq(l, 1, k)
           b == batch \o pre
           rest == SubSeq(l, k + 1, Len(l))
           full == Len(b) = BatchSize
<1>3. \/ /\ ~full /\ rest = <<>> /\ (Exact \/ b = <<>>)
         /\ list' = <<>> /\ batch' = b /\ qWaiting' = qWaiting + 1 /\ tpc' = "wait"
         /\ hand' = hand /\ special' = special
      \/ /\ batch' = <<>> /\ hand' = b
         /\ \/ (full \/ rest = <<>>) /\ special' = None /\ list' = rest
            \/ ~full /\ rest # <<>> /\ special' = Head(rest) /\ list' = Tail(rest)
         /\ tpc' = "send" /\ qWaiting' = qWaiting
  <2>1. Sendable = l /\ Fill(l) = k
    BY <1>2
  <2> HIDE DEF l
  <2> QED BY <2>1, Zenon DEF ThreadTakes
<1>4. Len(l) = Len(list) - d /\ l \in Seq(Items)
  BY <1>1
<1>5. pre = SubSeq(list, d + 1, d + k)
  <2>1. 1 \in Nat /\ Inner(list, d, 1, k)
    BY <1>2 DEF Inner
  <2> QED BY <1>1, <2>1, PartOfPart, Zenon
<1>6. rest = SubSeq(list, d + k + 1, Len(list))
  <2> DEFINE a == k + 1
             c == Len(list) - d
  <2>1. a \in Nat /\ c \in Nat /\ Inner(list, d, a, c)
        /\ d + a = d + k + 1 /\ d + c = Len(list) /\ Len(l) = c
    BY <1>1, <1>2, <1>4 DEF Inner
  <2> HIDE DEF a, c
  <2>2. SubSeq(SubSeq(list, d + 1, Len(list)), a, c) = SubSeq(list, d + a, d + c)
    <3>1. list \in Seq(Items) /\ a \in Nat /\ c \in Nat /\ Inner(list, d, a, c)
      BY <1>1, <2>1
    <3> QED BY <3>1, PartOfPart, Zenon
  <2>3. SubSeq(l, a, c) = SubSeq(list, d + k + 1, Len(list))
    BY <2>1, <2>2, Zenon
  <2>4. a = k + 1 /\ c = Len(l)
    BY <2>1 DEF a
  <2> HIDE DEF l
  <2> QED BY <2>3, <2>4, Zenon
<1>7. /\ Len(pre) = k /\ pre \in Seq(Items)
      /\ Len(rest) = Len(list) - (d + k) /\ rest \in Seq(Items)
      /\ Len(b) = Len(batch) + k
  <2>1. Len(pre) = k /\ pre \in Seq(Items)
    BY <1>1, <1>2, <1>4
  <2>2. Len(rest) = Len(list) - (d + k) /\ rest \in Seq(Items)
    BY <1>1, <1>2, <1>4
  <2> HIDE DEF pre
  <2> QED BY <1>1, <2>1, <2>2
<1> HIDE DEF l, pre, rest
<1>8. d + k \in 0 .. Len(list)
  BY <1>1, <1>2
<1>9. CASE tpc' = "wait"
  <2>1. /\ ~full /\ rest = <<>> /\ (Exact \/ b = <<>>)
        /\ list' = <<>> /\ batch' = b /\ qWaiting' = qWaiting + 1
        /\ hand' = hand /\ special' = special
    BY <1>3, <1>9
  <2>2. d + k = Len(list) /\ Len(b) < BatchSize
    <3>1. Len(rest) = 0 /\ Len(b) # BatchSize
      BY <2>1
    <3>2. d + k = Len(list)
      BY <1>1, <1>2, <1>7, <3>1
    <3> HIDE DEF b
    <3>3. Len(b) < BatchSize
      BY <1>1, <1>2, <1>7, <3>1
    <3> QED BY <3>2, <3>3
  <2>3. list' = SubSeq(list, d + k + 1, Len(list))
    BY <1>6, <2>1
  <2>4. Taken(d, k, d + k)
    BY <1>2, <1>5, <1>8, <1>9, <2>1, <2>2, <2>3 DEF Taken
  <2> QED BY <1>8, <2>4
<1>10. CASE tpc' # "wait"
  <2>1. /\ batch' = <<>> /\ hand' = b /\ tpc' = "send" /\ qWaiting' = qWaiting
        /\ \/ (full \/ rest = <<>>) /\ special' = None /\ list' = rest
           \/ ~full /\ rest # <<>> /\ special' = Head(rest) /\ list' = Tail(rest)
    BY <1>3, <1>10
  <2>2. CASE special' = None /\ list' = rest
    <3>1. Taken(d, k, d + k)
      BY <1>2, <1>5, <1>6, <1>8, <2>1, <2>2 DEF Taken
    <3> QED BY <1>8, <3>1
  <2>3. CASE ~full /\ rest # <<>> /\ special' = Head(rest) /\ list' = Tail(rest)
    <3>1. d + k + 1 \in 0 .. Len(list) /\ d + k < Len(list) /\ d + k + 1 # d + k
      <4>1. Len(rest) # 0
        BY <1>7, <2>3
      <4>2. Len(rest) = Len(list) - (d + k)
        BY <1>7
      <4>3. d + k <= Len(list) /\ Len(list) \in Nat /\ d + k \in Nat
        BY <1>8
      <4> QED BY <4>1, <4>2, <4>3
    <3>2. list[d + k + 1].kind # "sample"
      BY <1>2, <1>7, <2>3, <3>1
    <3>3. Head(rest) = list[d + k + 1]
      BY <1>1, <1>6, <1>7, <1>8, <3>1
    <3>4. Tail(rest) = SubSeq(list, d + k + 1 + 1, Len(list))
      BY <1>1, <1>6, <1>7, <1>8, <3>1
    <3>5. Taken(d, k, d + k + 1)
      BY <1>2, <1>5, <1>8, <2>1, <2>3, <3>1, <3>2, <3>3, <3>4 DEF Taken
    <3> QED BY <3>1, <3>5
  <2> QED BY <2>1, <2>2, <2>3
<1> QED BY <1>9, <1>10

-----------------------------------------------------------------------------
(* Types.                                                                  *)

USE DEF threadVars, lockVars, flushVars, ghostVars, queueVars

\* The numbers of items.
LEMMA NumbersOf ==
  ASSUME NEW l \in Seq(Items)
  PROVE  /\ Numbers(l) \in Seq(Nat) /\ Len(Numbers(l)) = Len(l)
         /\ \A i \in 1 .. Len(l) : Numbers(l)[i] = l[i].n
<1>1. DOMAIN l = 1 .. Len(l) /\ Len(l) \in Nat /\ \A i \in 1 .. Len(l) : l[i] \in Items
  OBVIOUS
<1>2. \A i \in 1 .. Len(l) : l[i].n \in Nat
  BY <1>1, ItemFields
<1>3. Numbers(l) = [i \in 1 .. Len(l) |-> l[i].n]
  BY <1>1 DEF Numbers
<1> QED BY <1>1, <1>2, <1>3

\* Sequences of samples.
LEMMA SampleSeqs ==
  /\ AllSamples(<<>>) /\ <<>> \in Seq(Items)
  /\ \A l \in Seq(Items) : AllSamples(l) /\ l # <<>> => AllSamples(Tail(l)) /\ AllSamples(Front(l))
  /\ \A l \in Seq(Items), x \in Items : AllSamples(l) /\ x.kind = "sample" => AllSamples(Append(l, x))
<1>1. AllSamples(<<>>) /\ <<>> \in Seq(Items)
  BY DEF AllSamples
<1>2. ASSUME NEW l \in Seq(Items), AllSamples(l), l # <<>> PROVE AllSamples(Tail(l)) /\ AllSamples(Front(l))
  <2>1. /\ Tail(l) \in Seq(Items) /\ Len(Tail(l)) = Len(l) - 1 /\ Len(l) \in Nat \ {0}
        /\ \A i \in 1 .. Len(l) - 1 : Tail(l)[i] = l[i + 1]
    BY <1>2, HeadOff
  <2>2. /\ Front(l) \in Seq(Items) /\ Len(Front(l)) = Len(l) - 1
        /\ \A i \in 1 .. Len(l) - 1 : Front(l)[i] = l[i]
    BY <1>2, EndOff
  <2>3. DOMAIN Tail(l) = 1 .. Len(l) - 1 /\ DOMAIN Front(l) = 1 .. Len(l) - 1 /\ DOMAIN l = 1 .. Len(l)
    BY <2>1, <2>2
  <2>4. \A i \in 1 .. Len(l) - 1 : i \in 1 .. Len(l) /\ i + 1 \in 1 .. Len(l)
    BY <2>1
  <2> QED BY <1>2, <2>1, <2>2, <2>3, <2>4 DEF AllSamples
<1>3. ASSUME NEW l \in Seq(Items), NEW x \in Items, AllSamples(l), x.kind = "sample" PROVE AllSamples(Append(l, x))
  <2>1. /\ Append(l, x) \in Seq(Items) /\ Len(Append(l, x)) = Len(l) + 1
        /\ \A i \in 1 .. Len(l) : Append(l, x)[i] = l[i]
        /\ Append(l, x)[Len(l) + 1] = x
    BY Appended
  <2>2. DOMAIN Append(l, x) = 1 .. Len(l) + 1 /\ DOMAIN l = 1 .. Len(l)
    BY <2>1
  <2>3. \A i \in 1 .. Len(l) + 1 : i \in 1 .. Len(l) \/ i = Len(l) + 1
    OBVIOUS
  <2> QED BY <1>3, <2>1, <2>2, <2>3 DEF AllSamples
<1> QED BY <1>1, <1>2, <1>3

\* A step of the thread that takes samples keeps the types.
LEMMA TakenTypes ==
  ASSUME QueueTypes, NEW d \in 0 .. Len(list), NEW k \in Nat, NEW e \in 0 .. Len(list), Taken(d, k, e)
  PROVE  /\ list' \in Seq(Items) /\ batch' \in Seq(Items) /\ hand' \in Seq(Items)
         /\ AllSamples(batch') /\ AllSamples(hand') /\ Len(batch') < BatchSize
         /\ special' \in Items /\ special'.kind # "sample"
<1>1. /\ list \in Seq(Items) /\ Len(list) \in Nat
      /\ batch \in Seq(Items) /\ Len(batch) \in Nat /\ BatchSize \in Nat \ {0}
      /\ hand \in Seq(Items) /\ special \in Items /\ special.kind # "sample"
  BY BatchSizeAssumption DEF QueueTypes
<1> DEFINE pre == SubSeq(list, d + 1, d + k)
           b == batch \o pre
<1>2. d + k \in 0 .. Len(list) /\ \A i \in d + 1 .. d + k : list[i].kind = "sample"
  BY <1>1 DEF Taken
<1>3. pre \in Seq(Items) /\ Len(pre) = k /\ \A i \in 1 .. k : pre[i] = list[d + i] /\ d + i \in d + 1 .. d + k
  <2>1. d \in Nat /\ d + k <= Len(list) /\ \A i \in 1 .. k : d + i \in d + 1 .. d + k
    BY <1>1, <1>2
  <2>2. /\ pre \in Seq(Items) /\ Len(pre) = k
        /\ \A i \in 1 .. k : pre[i] = list[d + i] /\ d + i \in 1 .. Len(list)
    BY <1>1, <2>1, Piece, Zenon
  <2> HIDE DEF pre
  <2> QED BY <2>1, <2>2
<1>4. b \in Seq(Items) /\ AllSamples(b)
  <2> HIDE DEF pre
  <2>1. /\ b \in Seq(Items) /\ Len(b) = Len(batch) + k
        /\ \A i \in 1 .. Len(batch) : b[i] = batch[i]
        /\ \A i \in 1 .. k : b[Len(batch) + i] = pre[i]
    <3>1. /\ b \in Seq(Items) /\ Len(b) = Len(batch) + Len(pre)
          /\ \A i \in 1 .. Len(batch) : b[i] = batch[i]
          /\ \A i \in 1 .. Len(pre) : b[Len(batch) + i] = pre[i]
      <4>1. batch \in Seq(Items) /\ pre \in Seq(Items)
        BY <1>1, <1>3
      <4> QED BY <4>1, Joined
    <3> HIDE DEF b
    <3> QED BY <1>3, <3>1
  <2> HIDE DEF b
  <2>0. \A i \in 1 .. Len(batch) : batch[i].kind = "sample"
    BY <1>1 DEF QueueTypes, AllSamples
  <2>2. ASSUME NEW i \in 1 .. Len(b) PROVE b[i].kind = "sample"
    <3>1. CASE i \in 1 .. Len(batch)
      BY <2>0, <2>1, <3>1
    <3>2. CASE i \notin 1 .. Len(batch)
      <4> PICK j \in 1 .. k : i = Len(batch) + j
        <5>1. i - Len(batch) \in 1 .. k /\ Len(batch) + (i - Len(batch)) = i
          BY <1>1, <2>1, <3>2
        <5> QED BY <5>1
      <4>1. b[Len(batch) + j] = pre[j]
        BY <2>1
      <4>2. pre[j] = list[d + j] /\ list[d + j].kind = "sample"
        BY <1>2, <1>3
      <4> QED BY <4>1, <4>2
    <3> QED BY <3>1, <3>2
  <2>3. DOMAIN b = 1 .. Len(b)
    BY <2>1
  <2> QED BY <2>1, <2>2, <2>3 DEF AllSamples
<1> HIDE DEF pre
<1>5. list' \in Seq(Items)
  BY <1>1 DEF Taken
<1>6. \/ batch' = b /\ hand' = hand /\ special' = special /\ Len(b) < BatchSize
      \/ hand' = b /\ batch' = <<>> /\ (special' = None \/ (special' = list[e] /\ e # d + k /\ list[e].kind # "sample"))
  BY DEF Taken, pre
<1> HIDE DEF b
<1>7. special' \in Items /\ special'.kind # "sample"
  <2>1. e # d + k => e \in 1 .. Len(list)
    BY <1>1, <1>2 DEF Taken
  <2>2. e # d + k => list[e] \in Items
    BY <1>1, <2>1
  <2>3. None \in Items /\ None.kind # "sample"
    BY ItemsMade DEF None, Item
  <2> QED BY <1>1, <1>6, <2>2, <2>3
<1>8. AllSamples(batch) /\ AllSamples(hand) /\ AllSamples(<<>>) /\ <<>> \in Seq(Items) /\ Len(<<>>) < BatchSize
  BY <1>1, SampleSeqs DEF QueueTypes
<1> QED BY <1>1, <1>4, <1>5, <1>6, <1>7, <1>8

\* What the streaming thread does to the queue.
LEMMA SourceTypes ==
  ASSUME QueueTypes, SourceStep
  PROVE  QueueTypes'
<1>1. /\ list \in Seq(Items) /\ batch \in Seq(Items) /\ hand \in Seq(Items) /\ number \in Nat /\ number + 1 \in Nat
      /\ Len(batch) \in Nat /\ BatchSize \in Nat \ {0} /\ Len(batch) < BatchSize
      /\ AllSamples(batch) /\ AllSamples(hand) /\ special \in Items /\ special.kind # "sample"
  BY BatchSizeAssumption DEF QueueTypes
<1>2. UNCHANGED queueVars => QueueTypes'
  BY DEF QueueTypes, AllSamples
<1>3. ASSUME NEW x \in Items PROVE Append(list, x) \in Seq(Items)
  BY <1>1
<1>4. ASSUME NEW s \in Samples, ReceiveQueued(s) PROVE QueueTypes'
  <2>1. list' \in Seq(Items)
    BY <1>1, <1>3, <1>4, ItemsMade DEF ReceiveQueued
  <2> QED BY <1>1, <1>4, <2>1 DEF ReceiveQueued, QueueTypes, AllSamples
<1>5. ASSUME NEW s \in Samples, ReceiveRefused(s) PROVE QueueTypes'
  BY <1>2, <1>5 DEF ReceiveRefused
<1>6. ASSUME NEW s \in Samples, ReceiveDirect(s) PROVE QueueTypes'
  <2> DEFINE b == Append(batch, Item("sample", s, number + 1))
  <2>1. Item("sample", s, number + 1) \in Items /\ Item("sample", s, number + 1).kind = "sample"
    BY <1>1, ItemsMade DEF Item
  <2>2. b \in Seq(Items) /\ AllSamples(b) /\ Len(b) = Len(batch) + 1
    BY <1>1, <2>1, SampleSeqs
  <2>3. \/ Len(b) = BatchSize /\ batch' = <<>> /\ hand' = b /\ spc' = "sending"
        \/ Len(b) # BatchSize /\ batch' = b /\ hand' = hand /\ spc' = spc
    BY <1>6 DEF ReceiveDirect
  <2> HIDE DEF b
  <2>4. /\ batch' \in Seq(Items) /\ hand' \in Seq(Items) /\ AllSamples(batch') /\ AllSamples(hand')
        /\ Len(batch') < BatchSize /\ spc' \in {"idle", "sending", "releasing"}
    <3>1. AllSamples(<<>>) /\ <<>> \in Seq(Items) /\ Len(<<>>) = 0 /\ spc \in {"idle", "sending", "releasing"}
      BY SampleSeqs DEF QueueTypes
    <3>2. Len(b) # BatchSize => Len(b) < BatchSize
      BY <1>1, <2>2
    <3>3. CASE batch' = <<>> /\ hand' = b /\ spc' = "sending"
      BY <1>1, <2>2, <3>1, <3>3
    <3>4. CASE Len(b) # BatchSize /\ batch' = b /\ hand' = hand /\ spc' = spc
      BY <1>1, <2>2, <3>1, <3>2, <3>4
    <3> QED BY <2>3, <3>3, <3>4
  <2>5. UNCHANGED <<mode, list, special, tpc, hr, fpc, sent>> /\ number' = number + 1
    BY <1>6 DEF ReceiveDirect
  <2> QED BY <1>1, <2>4, <2>5 DEF QueueTypes, AllSamples
<1>7. CASE SendAnywayDirect
  BY <1>1, <1>7, SampleSeqs DEF SendAnywayDirect, QueueTypes, AllSamples
<1>8. CASE SendAnywayQueued
  <2>1. list' \in Seq(Items)
    BY <1>3, <1>8, ItemsMade DEF SendAnywayQueued
  <2> QED BY <1>1, <1>8, <2>1 DEF SendAnywayQueued, QueueTypes, AllSamples
<1>9. CASE NewSegmentQueued
  <2>1. list' \in Seq(Items)
    BY <1>1, <1>3, <1>9, ItemsMade DEF NewSegmentQueued
  <2> QED BY <1>1, <1>9, <2>1 DEF NewSegmentQueued, QueueTypes, AllSamples
<1>10. CASE EosQueued
  <2>1. list' \in Seq(Items)
    BY <1>1, <1>3, <1>10, ItemsMade DEF EosQueued
  <2> QED BY <1>1, <1>10, <2>1 DEF EosQueued, QueueTypes, AllSamples
<1>11. ASSUME NEW kind \in {"eos", "segment"}, MarkDirect(kind) PROVE QueueTypes'
  <2>1. special' \in Items /\ special'.kind # "sample"
    BY <1>1, <1>11, ItemsMade DEF MarkDirect, Item
  <2>2. /\ batch' \in Seq(Items) /\ hand' \in Seq(Items) /\ AllSamples(batch') /\ AllSamples(hand')
        /\ Len(batch') < BatchSize
    <3>1. (batch' = <<>> /\ hand' = batch) \/ (batch' = batch /\ hand' = hand)
      BY <1>11 DEF MarkDirect
    <3>2. AllSamples(<<>>) /\ <<>> \in Seq(Items) /\ Len(<<>>) = 0
      BY SampleSeqs
    <3>3. CASE batch' = <<>> /\ hand' = batch
      BY <1>1, <3>2, <3>3
    <3>4. CASE batch' = batch /\ hand' = hand
      BY <1>1, <3>4
    <3> QED BY <3>1, <3>3, <3>4
  <2>3. UNCHANGED <<mode, list, tpc, hr, fpc, sent>> /\ number' = number + 1 /\ spc' = "sending"
    BY <1>11 DEF MarkDirect
  <2> QED BY <1>1, <2>1, <2>2, <2>3 DEF QueueTypes, AllSamples
<1> QED BY <1>2, <1>4, <1>5, <1>6, <1>7, <1>8, <1>9, <1>10, <1>11 DEF SourceStep

\* The next filter's answer.
LEMMA DownstreamTypes ==
  ASSUME QueueTypes, Downstream
  PROVE  sent' \in Seq(Nat) /\ hr' \in {"ok", "stop", "error"}
<1>1. hand \in Seq(Items) /\ sent \in Seq(Nat) /\ hr \in {"ok", "stop", "error"}
  BY DEF QueueTypes
<1>2. Numbers(hand) \in Seq(Nat)
  BY <1>1, NumbersOf
<1>3. sent \o Numbers(hand) \in Seq(Nat)
  BY <1>1, <1>2
<1> QED BY <1>1, <1>3 DEF Downstream

\* What sending and freeing do to it.
LEMMA SendTypes ==
  ASSUME QueueTypes, SendStep
  PROVE  QueueTypes'
<1>1. /\ list \in Seq(Items) /\ batch \in Seq(Items) /\ hand \in Seq(Items) /\ sent \in Seq(Nat)
      /\ Len(batch) \in Nat /\ BatchSize \in Nat \ {0} /\ Len(batch) < BatchSize
      /\ AllSamples(batch) /\ AllSamples(hand) /\ special \in Items /\ special.n \in Nat
      /\ None \in Items /\ None.kind # "sample"
  BY BatchSizeAssumption, ItemFields, ItemsMade DEF QueueTypes, None, Item
<1>2. CASE DirectSend
  <2>1. sent' \in Seq(Nat) /\ hr' \in {"ok", "stop", "error"}
    BY <1>1, <1>2, DownstreamTypes DEF DirectSend
  <2> QED BY <1>2, <2>1 DEF DirectSend, QueueTypes, AllSamples
<1>3. CASE DirectDone
  <2>1. sent' \in Seq(Nat)
    BY <1>1, <1>3 DEF DirectDone
  <2> QED BY <1>1, <1>3, <2>1 DEF DirectDone, QueueTypes, AllSamples
<1>4. CASE ReleaseHand
  <2>1. hand # <<>> /\ hand' = Front(hand)
    BY <1>4 DEF ReleaseHand
  <2>2. hand' \in Seq(Items) /\ AllSamples(hand')
    BY <1>1, <2>1, EndOff, SampleSeqs
  <2> QED BY <1>4, <2>2 DEF ReleaseHand, QueueTypes, AllSamples
<1>5. CASE FreeOne
  <2>1. \/ list # <<>> /\ list' = Tail(list) /\ batch' = batch
        \/ (list = <<>> /\ batch # <<>> /\ batch' = Tail(batch) /\ list' = list)
    BY <1>1, <1>5 DEF FreeOne
  <2>2. list # <<>> => Tail(list) \in Seq(Items)
    BY <1>1
  <2>3. batch # <<>> => Tail(batch) \in Seq(Items) /\ AllSamples(Tail(batch)) /\ Len(Tail(batch)) < BatchSize
    <3>1. batch # <<>> => Len(Tail(batch)) = Len(batch) - 1 /\ Tail(batch) \in Seq(Items)
      BY <1>1
    <3>2. batch # <<>> => AllSamples(Tail(batch))
      BY <1>1, SampleSeqs
    <3> QED BY <1>1, <3>1, <3>2
  <2>4. list' \in Seq(Items) /\ batch' \in Seq(Items) /\ AllSamples(batch') /\ Len(batch') < BatchSize
    BY <1>1, <2>1, <2>2, <2>3
  <2>5. UNCHANGED <<mode, hand, special, number, sent, hr, tpc, spc, fpc>>
    BY <1>5 DEF FreeOne
  <2> QED BY <1>1, <2>4, <2>5 DEF QueueTypes, AllSamples
<1> QED BY <1>2, <1>3, <1>4, <1>5 DEF SendStep

LEMMA ThreadTypes ==
  ASSUME QueueTypes, ThreadStep
  PROVE  QueueTypes'
<1>1. /\ hand \in Seq(Items) /\ sent \in Seq(Nat) /\ special \in Items /\ special.n \in Nat
      /\ None \in Items /\ None.kind # "sample"
  BY ItemFields, ItemsMade DEF QueueTypes, None, Item
<1>2. CASE ThreadFrees
  BY <1>2 DEF ThreadFrees, QueueTypes, AllSamples
<1>3. CASE ThreadFreed
  BY <1>3 DEF ThreadFreed, QueueTypes, AllSamples
<1>4. CASE ThreadTakes
  <2>1. /\ list' \in Seq(Items) /\ batch' \in Seq(Items) /\ hand' \in Seq(Items)
        /\ AllSamples(batch') /\ AllSamples(hand') /\ Len(batch') < BatchSize
        /\ special' \in Items /\ special'.kind # "sample"
    BY <1>4, TakesCuts, TakenTypes
  <2>2. tpc' \in {"wait", "send"}
    BY <1>4, TakesCuts DEF Taken
  <2>3. UNCHANGED <<mode, number, sent, hr, spc, fpc>>
    BY <1>4 DEF ThreadTakes
  <2> QED BY <2>1, <2>2, <2>3 DEF QueueTypes, AllSamples
<1>5. CASE ThreadWakes
  BY <1>5 DEF ThreadWakes, QueueTypes, AllSamples
<1>6. CASE ThreadSends
  BY <1>6 DEF ThreadSends, QueueTypes, AllSamples
<1>7. CASE ThreadSent
  <2>1. sent' \in Seq(Nat) /\ hr' \in {"ok", "stop", "error"}
    BY <1>1, <1>7, DownstreamTypes DEF ThreadSent
  <2> QED BY <1>7, <2>1 DEF ThreadSent, QueueTypes, AllSamples
<1>8. CASE ThreadMark
  <2>1. sent' \in Seq(Nat) /\ hr' \in {"ok", "stop", "error"}
    BY <1>1, <1>8 DEF ThreadMark, QueueTypes
  <2> QED BY <1>1, <1>8, <2>1 DEF ThreadMark, QueueTypes, AllSamples
<1> QED BY <1>2, <1>3, <1>4, <1>5, <1>6, <1>7, <1>8 DEF ThreadStep

LEMMA ControlStepTypes ==
  ASSUME QueueTypes, ControlStep
  PROVE  QueueTypes'
<1>1. list \in Seq(Items) /\ hr \in {"ok", "stop", "error"} /\ Append(list, Control("reset")) \in Seq(Items)
  BY ItemsMade DEF QueueTypes
<1>2. /\ UNCHANGED <<mode, batch, hand, special, tpc, spc>>
      /\ list' = list \/ list' = Append(list, Control("reset"))
  BY DEF ControlStep, BeginFlushQueued, BeginFlushPassed, BeginFlushDirect, EndFlush, EndFlushWaited,
      EndFlushDone,
     ResetDirect, ResetQueued, ResetWaited, Destroy, Destroyed
<1>3. (number' = number \/ number' = 0) /\ (sent' = sent \/ sent' = <<>>)
  BY DEF ControlStep, BeginFlushQueued, BeginFlushPassed, BeginFlushDirect, EndFlush, EndFlushWaited,
      EndFlushDone,
     ResetDirect, ResetQueued, ResetWaited, Destroy, Destroyed
<1>4. hr' \in {"ok", "stop", "error"}
  BY <1>1 DEF ControlStep, BeginFlushQueued, BeginFlushPassed, BeginFlushDirect, EndFlush, EndFlushWaited,
      EndFlushDone,
     ResetDirect, ResetQueued, ResetWaited, Destroy, Destroyed, Discard
<1>5. fpc' \in {"idle", "passing", "locking", "begun", "flushing", "freeing", "leaving", "resetting",
               "closing", "closed"}
  BY DEF ControlStep, BeginFlushQueued, BeginFlushPassed, BeginFlushDirect, EndFlush, EndFlushWaited,
      EndFlushDone,
     ResetDirect, ResetQueued, ResetWaited, Destroy, Destroyed, QueueTypes
<1>6. list' \in Seq(Items) /\ number' \in Nat /\ sent' \in Seq(Nat)
  <2>1. number \in Nat /\ sent \in Seq(Nat) /\ 0 \in Nat /\ <<>> \in Seq(Nat)
    BY DEF QueueTypes
  <2>2. list' \in Seq(Items)
    BY <1>1, <1>2
  <2> QED BY <1>3, <2>1, <2>2
<1> QED BY <1>2, <1>4, <1>5, <1>6 DEF QueueTypes, AllSamples

LEMMA TypesKept ==
  ASSUME QueueTypes, [DeliveryNext]_deliveryVars
  PROVE  QueueTypes'
<1>1. UNCHANGED queueVars => QueueTypes'
  BY DEF QueueTypes, AllSamples
<1>2. SinkStep => UNCHANGED queueVars
  BY DEF SinkStep, SinkKeeps, SinkReleases
<1> QED BY <1>1, <1>2, SourceTypes, SendTypes, ThreadTypes, ControlStepTypes DEF DeliveryNext, deliveryVars

-----------------------------------------------------------------------------
(* Places.                                                                 *)

LEMMA PlacesSource ==
  ASSUME QueueTypes, PlaceInv, SourceStep
  PROVE  PlaceInv'
<1>0. UNCHANGED queueVars => PlaceInv'
  BY DEF PlaceInv, ByMode, InHand, Counted, Asked, OnlySegment, Unlocked, QueueTypes
<1>1. ASSUME NEW s \in Samples, ReceiveQueued(s) PROVE PlaceInv'
  BY <1>1 DEF ReceiveQueued, SourceMayCall, NotifyThread, PlaceInv, ByMode, InHand, Counted, Asked,
      OnlySegment, Unlocked, QueueTypes
<1>2. ASSUME NEW s \in Samples, ReceiveRefused(s) PROVE PlaceInv'
  BY <1>2 DEF ReceiveRefused, PlaceInv, ByMode, InHand, Counted, Asked, OnlySegment, Unlocked, QueueTypes
<1>3. ASSUME NEW s \in Samples, ReceiveDirect(s) PROVE PlaceInv'
  BY <1>3 DEF ReceiveDirect, SourceMayCall, PlaceInv, ByMode, InHand, Counted, Asked, OnlySegment, Unlocked,
      QueueTypes
<1>4. CASE SendAnywayDirect
  BY <1>4 DEF SendAnywayDirect, SourceMayCall, PlaceInv, ByMode, InHand, Counted, Asked, OnlySegment,
      Unlocked, QueueTypes
<1>5. CASE SendAnywayQueued
  BY <1>5 DEF SendAnywayQueued, SourceMayCall, NotifyThread, PlaceInv, ByMode, InHand, Counted, Asked,
      OnlySegment, Unlocked, QueueTypes
<1>6. CASE NewSegmentQueued
  BY <1>6 DEF NewSegmentQueued, SourceMayCall, NotifyThread, PlaceInv, ByMode, InHand, Counted, Asked,
      OnlySegment, Unlocked, QueueTypes
<1>7. CASE EosQueued
  BY <1>7 DEF EosQueued, SourceMayCall, NotifyThread, PlaceInv, ByMode, InHand, Counted, Asked, OnlySegment,
      Unlocked, QueueTypes
<1>8. ASSUME NEW kind \in {"eos", "segment"}, MarkDirect(kind) PROVE PlaceInv'
  BY <1>8 DEF MarkDirect, SourceMayCall, Item, PlaceInv, ByMode, InHand, Counted, Asked, OnlySegment,
      Unlocked, QueueTypes
<1> QED BY <1>0, <1>1, <1>2, <1>3, <1>4, <1>5, <1>6, <1>7, <1>8 DEF SourceStep

LEMMA PlacesSend ==
  ASSUME QueueTypes, PlaceInv, SendStep
  PROVE  PlaceInv'
<1>1. CASE DirectSend
  BY <1>1 DEF DirectSend, Downstream, PlaceInv, ByMode, InHand, Counted, Asked, OnlySegment, Unlocked,
      QueueTypes
<1>2. CASE DirectDone
  BY <1>2 DEF DirectDone, None, Item, PlaceInv, ByMode, InHand, Counted, Asked, OnlySegment, Unlocked,
      QueueTypes
<1>3. CASE ReleaseHand
  BY <1>3 DEF ReleaseHand, PlaceInv, ByMode, InHand, Counted, Asked, OnlySegment, Unlocked, QueueTypes
<1>4. CASE FreeOne
  BY <1>4 DEF FreeOne, PlaceInv, ByMode, InHand, Counted, Asked, OnlySegment, Unlocked, QueueTypes
<1> QED BY <1>1, <1>2, <1>3, <1>4 DEF SendStep

LEMMA PlacesThread ==
  ASSUME QueueTypes, PlaceInv, ThreadStep
  PROVE  PlaceInv'
<1>1. CASE ThreadFrees
  BY <1>1 DEF ThreadFrees, PlaceInv, ByMode, InHand, Counted, Asked, OnlySegment, Unlocked, QueueTypes
<1>2. CASE ThreadFreed
  <2>1. /\ UNCHANGED <<mode, hand, special, list, batch, qSem, qFlushing, fpc, terminate, spc>>
        /\ list = <<>> /\ batch = <<>> /\ hand = <<>> /\ special = None /\ qWaiting = 0 /\ qSem = 0
        /\ mode.queued /\ (fpc = "closed" => FALSE)
    BY <1>2 DEF ThreadFreed, PlaceInv, ByMode, InHand, Counted, Asked
  <2>2. CASE terminate /\ tpc' = "ended" /\ qWaiting' = qWaiting
    BY <2>1, <2>2 DEF PlaceInv, ByMode, InHand, Counted, Asked, OnlySegment
  <2>3. CASE ~terminate /\ tpc' = "wait" /\ qWaiting' = qWaiting + 1
    BY <2>1, <2>3 DEF PlaceInv, ByMode, InHand, Counted, Asked, OnlySegment
  <2> QED BY <1>2, <2>2, <2>3 DEF ThreadFreed
<1>3. CASE ThreadTakes
  <2>1. /\ UNCHANGED <<mode, qSem, qFlushing, fpc, terminate, spc>>
        /\ hand = <<>> /\ special = None /\ qWaiting = 0 /\ qSem = 0
        /\ mode.queued /\ ~terminate
    BY <1>3 DEF ThreadTakes, PlaceInv, ByMode, InHand, Counted
  <2>2. \/ tpc' = "send" /\ qWaiting' = qWaiting
        \/ tpc' = "wait" /\ qWaiting' = qWaiting + 1 /\ hand' = hand /\ special' = special
    BY <1>3, TakesCuts DEF Taken
  <2> QED BY <2>1, <2>2 DEF PlaceInv, ByMode, InHand, Counted, Asked, OnlySegment
<1>4. CASE ThreadWakes
  BY <1>4 DEF ThreadWakes, PlaceInv, ByMode, InHand, Counted, Asked, OnlySegment, Unlocked, QueueTypes
<1>5. CASE ThreadSends
  BY <1>5 DEF ThreadSends, PlaceInv, ByMode, InHand, Counted, Asked, OnlySegment, Unlocked, QueueTypes
<1>6. CASE ThreadSent
  BY <1>6 DEF ThreadSent, Downstream, PlaceInv, ByMode, InHand, Counted, Asked, OnlySegment, Unlocked,
      QueueTypes
<1>7. CASE ThreadMark
  BY <1>7 DEF ThreadMark, None, Item, PlaceInv, ByMode, InHand, Counted, Asked, OnlySegment, Unlocked,
      QueueTypes
<1> QED BY <1>1, <1>2, <1>3, <1>4, <1>5, <1>6, <1>7 DEF ThreadStep

LEMMA PlacesControl ==
  ASSUME QueueTypes, PlaceInv, ControlStep
  PROVE  PlaceInv'
<1>1. CASE BeginFlushQueued
  BY <1>1 DEF BeginFlushQueued, Discard, NotifyThread, PlaceInv, ByMode, InHand, Counted, Asked, OnlySegment,
      Unlocked, QueueTypes
<1>2. CASE BeginFlushPassed
  BY <1>2 DEF BeginFlushPassed, PlaceInv, ByMode, InHand, Counted, Asked, OnlySegment, Unlocked, QueueTypes
<1>3. CASE BeginFlushDirect
  BY <1>3 DEF BeginFlushDirect, Discard, PlaceInv, ByMode, InHand, Counted, Asked, OnlySegment, Unlocked,
      QueueTypes
<1>4. CASE EndFlush
  BY <1>4 DEF EndFlush, PlaceInv, ByMode, InHand, Counted, Asked, OnlySegment, Unlocked, QueueTypes
<1>5. CASE EndFlushWaited
  BY <1>5 DEF EndFlushWaited, PlaceInv, ByMode, InHand, Counted, Asked, OnlySegment, Unlocked, QueueTypes
<1>6. CASE EndFlushDone
  BY <1>6 DEF EndFlushDone, PlaceInv, ByMode, InHand, Counted, Asked, OnlySegment, Unlocked, QueueTypes
<1>7. CASE ResetDirect
  BY <1>7 DEF ResetDirect, PlaceInv, ByMode, InHand, Counted, Asked, OnlySegment, Unlocked, QueueTypes
<1>8. CASE ResetQueued
  BY <1>8 DEF ResetQueued, NotifyThread, PlaceInv, ByMode, InHand, Counted, Asked, OnlySegment, Unlocked,
      QueueTypes
<1>9. CASE ResetWaited
  BY <1>9 DEF ResetWaited, PlaceInv, ByMode, InHand, Counted, Asked, OnlySegment, Unlocked, QueueTypes
<1>10. CASE Destroy
  BY <1>10 DEF Destroy, NotifyThread, PlaceInv, ByMode, InHand, Counted, Asked, OnlySegment, Unlocked,
      QueueTypes
<1>11. CASE Destroyed
  BY <1>11 DEF Destroyed, PlaceInv, ByMode, InHand, Counted, Asked, OnlySegment, Unlocked, QueueTypes
<1> QED BY <1>1, <1>2, <1>3, <1>4, <1>5, <1>6, <1>7, <1>8, <1>9, <1>10, <1>11 DEF ControlStep

LEMMA PlacesKept ==
  ASSUME QueueTypes, PlaceInv, [DeliveryNext]_deliveryVars
  PROVE  PlaceInv'
<1>1. UNCHANGED queueVars => PlaceInv'
  BY DEF PlaceInv, ByMode, InHand, Counted, Asked, OnlySegment, Unlocked, QueueTypes
<1>2. SinkStep => UNCHANGED queueVars
  BY DEF SinkStep, SinkKeeps, SinkReleases
<1> QED BY <1>1, <1>2, PlacesSource, PlacesSend, PlacesThread, PlacesControl DEF DeliveryNext, deliveryVars

-----------------------------------------------------------------------------
(* The samples of the queue.                                               *)

\* A set of samples, by place.
LEMMA IdsAt ==
  ASSUME NEW l \in Seq(Items)
  PROVE  /\ \A s : s \in Ids(l) <=> s # 0 /\ \E i \in 1 .. Len(l) : l[i].sample = s
         /\ Distinct(l) <=> \A i, j \in 1 .. Len(l) : l[i].sample # 0 /\ l[i].sample = l[j].sample => i = j
<1>1. DOMAIN l = 1 .. Len(l) /\ Len(l) \in Nat
  OBVIOUS
<1> QED BY <1>1 DEF Ids, SampleIds, Distinct

LEMMA IdsEmpty == Ids(<<>>) = {} /\ Distinct(<<>>)
BY DEF Ids, SampleIds, Distinct

\* A sequence made of two others, or of what is left of one: every place of the one is a place of the others.
PartsOf(l, a, b, p, q) ==
  /\ \A i \in 1 .. Len(a) : p[i] \in 1 .. Len(l) /\ l[p[i]].sample = a[i].sample
  /\ \A i \in 1 .. Len(b) : q[i] \in 1 .. Len(l) /\ l[q[i]].sample = b[i].sample
  /\ \A i \in 1 .. Len(l) : \/ l[i].sample = 0
                            \/ \E j \in 1 .. Len(a) : i = p[j]
                            \/ \E j \in 1 .. Len(b) : i = q[j]
  /\ \A i, j \in 1 .. Len(a) : p[i] = p[j] => i = j
  /\ \A i, j \in 1 .. Len(b) : q[i] = q[j] => i = j
  /\ \A i \in 1 .. Len(a), j \in 1 .. Len(b) : p[i] # q[j]

\* Their samples together are its samples.
LEMMA IdsParts ==
  ASSUME NEW l \in Seq(Items), NEW a \in Seq(Items), NEW b \in Seq(Items), NEW p, NEW q,
         PartsOf(l, a, b, p, q)
  PROVE  /\ Ids(l) = Ids(a) \cup Ids(b)
         /\ Distinct(l) <=> Distinct(a) /\ Distinct(b) /\ Ids(a) \cap Ids(b) = {}
<1>0. /\ \A i \in 1 .. Len(a) : p[i] \in 1 .. Len(l) /\ l[p[i]].sample = a[i].sample
      /\ \A i \in 1 .. Len(b) : q[i] \in 1 .. Len(l) /\ l[q[i]].sample = b[i].sample
  BY DEF PartsOf
<1>9. /\ \A i, j \in 1 .. Len(a) : p[i] = p[j] => i = j
      /\ \A i, j \in 1 .. Len(b) : q[i] = q[j] => i = j
      /\ \A i \in 1 .. Len(a), j \in 1 .. Len(b) : p[i] # q[j]
  BY DEF PartsOf
<1>1. /\ \A s : s \in Ids(l) <=> s # 0 /\ \E i \in 1 .. Len(l) : l[i].sample = s
      /\ Distinct(l) <=> \A i, j \in 1 .. Len(l) : l[i].sample # 0 /\ l[i].sample = l[j].sample => i = j
  BY IdsAt
<1>2. /\ \A s : s \in Ids(a) <=> s # 0 /\ \E i \in 1 .. Len(a) : a[i].sample = s
      /\ Distinct(a) <=> \A i, j \in 1 .. Len(a) : a[i].sample # 0 /\ a[i].sample = a[j].sample => i = j
  BY IdsAt
<1>3. /\ \A s : s \in Ids(b) <=> s # 0 /\ \E i \in 1 .. Len(b) : b[i].sample = s
      /\ Distinct(b) <=> \A i, j \in 1 .. Len(b) : b[i].sample # 0 /\ b[i].sample = b[j].sample => i = j
  BY IdsAt
<1>4. ASSUME NEW s, s \in Ids(l) PROVE s \in Ids(a) \cup Ids(b)
  <2> PICK i \in 1 .. Len(l) : l[i].sample = s /\ s # 0
    BY <1>1, <1>4, Zenon
  <2>1. ASSUME NEW j \in 1 .. Len(a), i = p[j] PROVE s \in Ids(a)
    <3>1. a[j].sample = s
      BY <1>0, <2>1
    <3> QED BY <1>2, <3>1, Zenon
  <2>2. ASSUME NEW j \in 1 .. Len(b), i = q[j] PROVE s \in Ids(b)
    <3>1. b[j].sample = s
      BY <1>0, <2>2
    <3> QED BY <1>3, <3>1, Zenon
  <2> QED BY <2>1, <2>2 DEF PartsOf
<1>5. ASSUME NEW s, s \in Ids(a) PROVE s \in Ids(l)
  <2> PICK i \in 1 .. Len(a) : a[i].sample = s /\ s # 0
    BY <1>2, <1>5, Zenon
  <2>1. p[i] \in 1 .. Len(l) /\ l[p[i]].sample = s
    BY <1>0
  <2> QED BY <1>1, <2>1, Zenon
<1>6. ASSUME NEW s, s \in Ids(b) PROVE s \in Ids(l)
  <2> PICK i \in 1 .. Len(b) : b[i].sample = s /\ s # 0
    BY <1>3, <1>6, Zenon
  <2>1. q[i] \in 1 .. Len(l) /\ l[q[i]].sample = s
    BY <1>0
  <2> QED BY <1>1, <2>1, Zenon
<1>7. ASSUME Distinct(l) PROVE Distinct(a) /\ Distinct(b) /\ Ids(a) \cap Ids(b) = {}
  <2>0. \A i, j \in 1 .. Len(l) : l[i].sample # 0 /\ l[i].sample = l[j].sample => i = j
    BY <1>1, <1>7, Zenon
  <2>1. ASSUME NEW i \in 1 .. Len(a), NEW j \in 1 .. Len(a), a[i].sample # 0, a[i].sample = a[j].sample PROVE i = j
    <3>1. /\ p[i] \in 1 .. Len(l) /\ p[j] \in 1 .. Len(l)
          /\ l[p[i]].sample # 0 /\ l[p[i]].sample = l[p[j]].sample
      BY <1>0, <2>1
    <3>2. p[i] = p[j]
      BY <2>0, <3>1, Zenon
    <3> QED BY <1>9, <3>2
  <2>2. ASSUME NEW i \in 1 .. Len(b), NEW j \in 1 .. Len(b), b[i].sample # 0, b[i].sample = b[j].sample PROVE i = j
    <3>1. /\ q[i] \in 1 .. Len(l) /\ q[j] \in 1 .. Len(l)
          /\ l[q[i]].sample # 0 /\ l[q[i]].sample = l[q[j]].sample
      BY <1>0, <2>2
    <3>2. q[i] = q[j]
      BY <2>0, <3>1, Zenon
    <3> QED BY <1>9, <3>2
  <2>3. ASSUME NEW s, s \in Ids(a), s \in Ids(b) PROVE FALSE
    <3> PICK i \in 1 .. Len(a) : a[i].sample = s /\ s # 0
      BY <1>2, <2>3, Zenon
    <3> PICK j \in 1 .. Len(b) : b[j].sample = s
      BY <1>3, <2>3, Zenon
    <3>1. /\ p[i] \in 1 .. Len(l) /\ q[j] \in 1 .. Len(l)
          /\ l[p[i]].sample # 0 /\ l[p[i]].sample = l[q[j]].sample
      BY <1>0
    <3>2. p[i] = q[j]
      BY <2>0, <3>1, Zenon
    <3> QED BY <1>9, <3>2
  <2> QED BY <1>2, <1>3, <2>1, <2>2, <2>3, Zenon
<1>8. ASSUME Distinct(a), Distinct(b), Ids(a) \cap Ids(b) = {} PROVE Distinct(l)
  <2>0. /\ \A i, j \in 1 .. Len(a) : a[i].sample # 0 /\ a[i].sample = a[j].sample => i = j
        /\ \A i, j \in 1 .. Len(b) : b[i].sample # 0 /\ b[i].sample = b[j].sample => i = j
    BY <1>2, <1>3, <1>8, Zenon
  <2>1. ASSUME NEW i \in 1 .. Len(a), NEW j \in 1 .. Len(b), a[i].sample # 0 PROVE a[i].sample # b[j].sample
    <3>1. a[i].sample \in Ids(a)
      BY <1>2, <2>1, Zenon
    <3>2. a[i].sample = b[j].sample => a[i].sample \in Ids(b)
      BY <1>3, <2>1, Zenon
    <3> QED BY <1>8, <3>1, <3>2
  <2>2. ASSUME NEW i \in 1 .. Len(l), NEW j \in 1 .. Len(l), l[i].sample # 0, l[i].sample = l[j].sample PROVE i = j
    <3>1. \/ \E x \in 1 .. Len(a) : i = p[x]
          \/ \E x \in 1 .. Len(b) : i = q[x]
      BY <2>2 DEF PartsOf
    <3>2. \/ \E x \in 1 .. Len(a) : j = p[x]
          \/ \E x \in 1 .. Len(b) : j = q[x]
      BY <2>2 DEF PartsOf
    <3>3. ASSUME NEW x \in 1 .. Len(a), i = p[x], NEW y \in 1 .. Len(a), j = p[y] PROVE i = j
      <4>1. l[i].sample = a[x].sample /\ l[j].sample = a[y].sample
        BY <1>0, <3>3
      <4>2. a[x].sample # 0 /\ a[x].sample = a[y].sample
        BY <2>2, <4>1
      <4>3. x = y
        BY <2>0, <4>2, Zenon
      <4> QED BY <3>3, <4>3
    <3>4. ASSUME NEW x \in 1 .. Len(b), i = q[x], NEW y \in 1 .. Len(b), j = q[y] PROVE i = j
      <4>1. l[i].sample = b[x].sample /\ l[j].sample = b[y].sample
        BY <1>0, <3>4
      <4>2. b[x].sample # 0 /\ b[x].sample = b[y].sample
        BY <2>2, <4>1
      <4>3. x = y
        BY <2>0, <4>2, Zenon
      <4> QED BY <3>4, <4>3
    <3>5. ASSUME NEW x \in 1 .. Len(a), i = p[x], NEW y \in 1 .. Len(b), j = q[y] PROVE i = j
      <4>1. l[i].sample = a[x].sample /\ l[j].sample = b[y].sample
        BY <1>0, <3>5
      <4>2. a[x].sample # 0 /\ a[x].sample = b[y].sample
        BY <2>2, <4>1
      <4> QED BY <2>1, <4>2, Zenon
    <3>6. ASSUME NEW x \in 1 .. Len(b), i = q[x], NEW y \in 1 .. Len(a), j = p[y] PROVE i = j
      <4>1. l[i].sample = b[x].sample /\ l[j].sample = a[y].sample
        BY <1>0, <3>6
      <4>2. b[x].sample # 0 /\ b[x].sample = a[y].sample
        BY <2>2, <4>1
      <4> QED BY <2>1, <4>2, Zenon
    <3> QED BY <3>1, <3>2, <3>3, <3>4, <3>5, <3>6
  <2> QED BY <1>1, <2>2, Zenon
<1> QED BY <1>4, <1>5, <1>6, <1>7, <1>8

LEMMA IdsOne ==
  ASSUME NEW x \in Items
  PROVE  Ids(<<x>>) = {x.sample} \ {0} /\ Distinct(<<x>>) /\ <<x>> \in Seq(Items)
<1>1. <<x>> \in Seq(Items) /\ DOMAIN <<x>> = {1} /\ <<x>>[1] = x
  OBVIOUS
<1> QED BY <1>1 DEF Ids, SampleIds, Distinct

LEMMA IdsJoined ==
  ASSUME NEW a \in Seq(Items), NEW b \in Seq(Items)
  PROVE  /\ Ids(a \o b) = Ids(a) \cup Ids(b)
         /\ Distinct(a \o b) <=> Distinct(a) /\ Distinct(b) /\ Ids(a) \cap Ids(b) = {}
<1> DEFINE m == a \o b
           p == [i \in 1 .. Len(a) |-> i]
           q == [i \in 1 .. Len(b) |-> Len(a) + i]
<1>1. /\ m \in Seq(Items) /\ Len(m) = Len(a) + Len(b) /\ Len(a) \in Nat /\ Len(b) \in Nat
      /\ \A i \in 1 .. Len(a) : m[i] = a[i]
      /\ \A i \in 1 .. Len(b) : m[Len(a) + i] = b[i]
  BY Joined
<1> HIDE DEF m
<1>2. /\ \A i \in 1 .. Len(a) : p[i] \in 1 .. Len(m) /\ m[p[i]].sample = a[i].sample
      /\ \A i \in 1 .. Len(b) : q[i] \in 1 .. Len(m) /\ m[q[i]].sample = b[i].sample
  BY <1>1
<1>3. \A i \in 1 .. Len(m) : \/ m[i].sample = 0
                             \/ \E j \in 1 .. Len(a) : i = p[j]
                             \/ \E j \in 1 .. Len(b) : i = q[j]
  <2> SUFFICES ASSUME NEW i \in 1 .. Len(m), i \notin 1 .. Len(a) PROVE \E j \in 1 .. Len(b) : i = q[j]
    <3>1. \A i \in 1 .. Len(a) : i = p[i]
      OBVIOUS
    <3> QED BY <3>1
  <2>1. i - Len(a) \in 1 .. Len(b) /\ i = Len(a) + (i - Len(a))
    BY <1>1
  <2> QED BY <2>1
<1>4. /\ \A i, j \in 1 .. Len(a) : p[i] = p[j] => i = j
      /\ \A i, j \in 1 .. Len(b) : q[i] = q[j] => i = j
      /\ \A i \in 1 .. Len(a), j \in 1 .. Len(b) : p[i] # q[j]
  BY <1>1
<1> HIDE DEF p, q
<1>5. /\ Ids(m) = Ids(a) \cup Ids(b)
      /\ Distinct(m) <=> Distinct(a) /\ Distinct(b) /\ Ids(a) \cap Ids(b) = {}
  <2>1. PartsOf(m, a, b, p, q)
    BY <1>2, <1>3, <1>4 DEF PartsOf
  <2> QED BY <1>1, <2>1, IdsParts, Zenon
<1> QED BY <1>5 DEF m

\* A sequence is its first or last member and the others.
LEMMA SplitOff ==
  ASSUME NEW l \in Seq(Items), l # <<>>
  PROVE  l = <<Head(l)>> \o Tail(l) /\ l = Front(l) \o <<l[Len(l)]>>
<1>1. l = <<Head(l)>> \o Tail(l)
  OBVIOUS
<1>2. /\ Front(l) \in Seq(Items) /\ Len(Front(l)) = Len(l) - 1 /\ Len(l) \in Nat \ {0}
      /\ \A i \in 1 .. Len(l) - 1 : Front(l)[i] = l[i]
      /\ l[Len(l)] \in Items
  BY EndOff
<1> DEFINE f == Front(l)
           x == l[Len(l)]
<1>3. f \in Seq(Items) /\ <<x>> \in Seq(Items) /\ Len(<<x>>) = 1 /\ <<x>>[1] = x
  BY <1>2
<1> HIDE DEF f, x
<1>4. /\ f \o <<x>> \in Seq(Items) /\ Len(f \o <<x>>) = Len(f) + 1
      /\ \A i \in 1 .. Len(f) : (f \o <<x>>)[i] = f[i]
      /\ (f \o <<x>>)[Len(f) + 1] = x
  <2> DEFINE o == <<x>>
  <2>1. o \in Seq(Items) /\ Len(o) = 1 /\ o[1] = x
    BY <1>3
  <2> HIDE DEF o
  <2>2. /\ f \o o \in Seq(Items) /\ Len(f \o o) = Len(f) + Len(o)
        /\ \A i \in 1 .. Len(f) : (f \o o)[i] = f[i]
        /\ \A i \in 1 .. Len(o) : (f \o o)[Len(f) + i] = o[i]
    <3>1. f \in Seq(Items) /\ o \in Seq(Items)
      BY <1>3, <2>1
    <3> QED BY <3>1, Joined
  <2>3. 1 \in 1 .. Len(o)
    BY <2>1
  <2> QED BY <2>1, <2>2, <2>3 DEF o
<1>5. /\ l = [i \in 1 .. Len(l) |-> l[i]]
      /\ f \o <<x>> = [i \in 1 .. Len(f \o <<x>>) |-> (f \o <<x>>)[i]]
  BY <1>4
<1>6. Len(f) = Len(l) - 1 /\ \A i \in 1 .. Len(l) - 1 : f[i] = l[i]
  BY <1>2 DEF f
<1>7. \A i \in 1 .. Len(l) : (f \o <<x>>)[i] = l[i]
  <2> SUFFICES ASSUME NEW i \in 1 .. Len(l) PROVE (f \o <<x>>)[i] = l[i]
    OBVIOUS
  <2>1. CASE i \in 1 .. Len(l) - 1
    BY <1>4, <1>6, <2>1
  <2>2. CASE i = Len(l)
    BY <1>2, <1>4, <1>6, <2>2 DEF x
  <2>3. Len(l) \in Nat \ {0}
    BY <1>2
  <2>4. i \in 1 .. Len(l) - 1 \/ i = Len(l)
    BY <2>3
  <2> QED BY <2>1, <2>2, <2>4
<1>8. Len(f \o <<x>>) = Len(l)
  BY <1>2, <1>4, <1>6
<1> DEFINE g == f \o <<x>>
<1>9. l = g
  <2>1. /\ Len(g) = Len(l) /\ (\A i \in 1 .. Len(l) : g[i] = l[i]) /\ l = [i \in 1 .. Len(l) |-> l[i]]
        /\ g = [i \in 1 .. Len(g) |-> g[i]]
    BY <1>5, <1>7, <1>8
  <2> HIDE DEF g
  <2> QED BY <2>1
<1> QED BY <1>1, <1>9 DEF f, x

LEMMA IdsAppended ==
  ASSUME NEW l \in Seq(Items), NEW x \in Items
  PROVE  /\ Ids(Append(l, x)) = Ids(l) \cup ({x.sample} \ {0})
         /\ Distinct(Append(l, x)) <=> Distinct(l) /\ x.sample \notin Ids(l)
<1>1. Append(l, x) = l \o <<x>>
  OBVIOUS
<1>2. Ids(<<x>>) = {x.sample} \ {0} /\ Distinct(<<x>>) /\ <<x>> \in Seq(Items)
  BY IdsOne
<1>3. 0 \notin Ids(l)
  BY DEF Ids
<1> DEFINE o == <<x>>
<1> HIDE DEF o
<1>4. o \in Seq(Items) /\ Ids(o) = {x.sample} \ {0} /\ Distinct(o)
  BY <1>2 DEF o
<1>5. /\ Ids(l \o o) = Ids(l) \cup Ids(o)
      /\ Distinct(l \o o) <=> Distinct(l) /\ Distinct(o) /\ Ids(l) \cap Ids(o) = {}
  BY <1>4, IdsJoined
<1>6. Append(l, x) = l \o o
  BY <1>1 DEF o
<1>7. Ids(l) \cap Ids(o) = {} <=> x.sample \notin Ids(l)
  BY <1>3, <1>4
<1> QED BY <1>4, <1>5, <1>6, <1>7, Zenon

LEMMA IdsHeadOff ==
  ASSUME NEW l \in Seq(Items), l # <<>>
  PROVE  /\ Ids(l) = Ids(Tail(l)) \cup ({Head(l).sample} \ {0})
         /\ Distinct(l) <=> Distinct(Tail(l)) /\ Head(l).sample \notin Ids(Tail(l))
<1> DEFINE o == <<Head(l)>>
           t == Tail(l)
<1>1. t \in Seq(Items) /\ Head(l) \in Items
  BY HeadOff
<1>2. o \in Seq(Items) /\ Ids(o) = {Head(l).sample} \ {0} /\ Distinct(o)
  BY <1>1, IdsOne
<1>3. l = o \o t
  BY SplitOff
<1> HIDE DEF o, t
<1>4. /\ Ids(o \o t) = Ids(o) \cup Ids(t)
      /\ Distinct(o \o t) <=> Distinct(o) /\ Distinct(t) /\ Ids(o) \cap Ids(t) = {}
  BY <1>1, <1>2, IdsJoined
<1>5. 0 \notin Ids(t)
  BY DEF Ids
<1>6. Ids(o) \cap Ids(t) = {} <=> Head(l).sample \notin Ids(t)
  BY <1>2, <1>5
<1>7. /\ Ids(l) = Ids(t) \cup ({Head(l).sample} \ {0})
      /\ Distinct(l) <=> Distinct(t) /\ Head(l).sample \notin Ids(t)
  BY <1>2, <1>3, <1>4, <1>6
<1> QED BY <1>7 DEF t

LEMMA IdsEndOff ==
  ASSUME NEW l \in Seq(Items), l # <<>>
  PROVE  /\ Ids(l) = Ids(Front(l)) \cup ({l[Len(l)].sample} \ {0})
         /\ Distinct(l) <=> Distinct(Front(l)) /\ l[Len(l)].sample \notin Ids(Front(l))
<1> DEFINE x == l[Len(l)]
           o == <<x>>
           t == Front(l)
<1>1. t \in Seq(Items) /\ x \in Items
  BY EndOff
<1>2. o \in Seq(Items) /\ Ids(o) = {x.sample} \ {0} /\ Distinct(o)
  BY <1>1, IdsOne
<1>3. l = t \o o
  BY SplitOff
<1> HIDE DEF x, o, t
<1>4. /\ Ids(t \o o) = Ids(t) \cup Ids(o)
      /\ Distinct(t \o o) <=> Distinct(t) /\ Distinct(o) /\ Ids(t) \cap Ids(o) = {}
  BY <1>1, <1>2, IdsJoined
<1>5. 0 \notin Ids(t)
  BY DEF Ids
<1>6. Ids(t) \cap Ids(o) = {} <=> x.sample \notin Ids(t)
  BY <1>2, <1>5
<1>7. /\ Ids(l) = Ids(t) \cup ({x.sample} \ {0})
      /\ Distinct(l) <=> Distinct(t) /\ x.sample \notin Ids(t)
  BY <1>2, <1>3, <1>4, <1>6
<1> QED BY <1>7 DEF t, x

\* A list that is cut in two, what is in neither part carrying no sample.
LEMMA IdsCut ==
  ASSUME NEW l \in Seq(Items), NEW d \in 0 .. Len(l), NEW k \in Nat, NEW e \in 0 .. Len(l),
         e \in {d + k, d + k + 1}, \A i \in 1 .. d : l[i].sample = 0, e # d + k => l[e].sample = 0
  PROVE  LET a == SubSeq(l, d + 1, d + k)
             b == SubSeq(l, e + 1, Len(l))
         IN /\ Ids(l) = Ids(a) \cup Ids(b)
            /\ Distinct(l) <=> Distinct(a) /\ Distinct(b) /\ Ids(a) \cap Ids(b) = {}
            /\ a \in Seq(Items) /\ b \in Seq(Items)
<1> DEFINE a == SubSeq(l, d + 1, d + k)
           b == SubSeq(l, e + 1, Len(l))
           p == [i \in 1 .. Len(a) |-> d + i]
           q == [i \in 1 .. Len(b) |-> e + i]
<1>1. Len(l) \in Nat /\ d \in Nat /\ e \in Nat /\ d + k <= Len(l) /\ d + k <= e
  OBVIOUS
<1>2. /\ a \in Seq(Items) /\ Len(a) = k
      /\ \A i \in 1 .. k : a[i] = l[d + i] /\ d + i \in 1 .. Len(l)
  BY <1>1, Piece, Zenon
<1>3. /\ b \in Seq(Items) /\ Len(b) = Len(l) - e
      /\ \A i \in 1 .. Len(l) - e : b[i] = l[e + i] /\ e + i \in 1 .. Len(l)
  BY <1>1, RestOf, Zenon
<1> HIDE DEF a, b
<1>4. /\ \A i \in 1 .. Len(a) : p[i] \in 1 .. Len(l) /\ l[p[i]].sample = a[i].sample
      /\ \A i \in 1 .. Len(b) : q[i] \in 1 .. Len(l) /\ l[q[i]].sample = b[i].sample
  BY <1>1, <1>2, <1>3
<1>5. \A i \in 1 .. Len(l) : \/ l[i].sample = 0
                             \/ \E j \in 1 .. Len(a) : i = p[j]
                             \/ \E j \in 1 .. Len(b) : i = q[j]
  <2> SUFFICES ASSUME NEW i \in 1 .. Len(l), l[i].sample # 0
               PROVE  (\E j \in 1 .. Len(a) : i = p[j]) \/ \E j \in 1 .. Len(b) : i = q[j]
    OBVIOUS
  <2>1. i \notin 1 .. d /\ (e # d + k => i # e)
    OBVIOUS
  <2>2. CASE i <= d + k
    <3>1. i - d \in 1 .. Len(a) /\ i = d + (i - d)
      BY <1>1, <1>2, <2>1, <2>2
    <3> QED BY <3>1
  <2>3. CASE ~(i <= d + k)
    <3>1. i - e \in 1 .. Len(b) /\ i = e + (i - e)
      BY <1>1, <1>3, <2>1, <2>3
    <3> QED BY <3>1
  <2> QED BY <2>2, <2>3
<1>6. /\ \A i, j \in 1 .. Len(a) : p[i] = p[j] => i = j
      /\ \A i, j \in 1 .. Len(b) : q[i] = q[j] => i = j
      /\ \A i \in 1 .. Len(a), j \in 1 .. Len(b) : p[i] # q[j]
  <2>1. Len(a) = k /\ Len(b) \in Nat
    BY <1>1, <1>2, <1>3
  <2>2. \A i, j \in 1 .. Len(a) : p[i] = p[j] => i = j
    BY <1>1, <2>1
  <2>3. \A i, j \in 1 .. Len(b) : q[i] = q[j] => i = j
    BY <1>1, <2>1
  <2>4. \A i \in 1 .. Len(a), j \in 1 .. Len(b) : p[i] # q[j]
    BY <1>1, <2>1
  <2> QED BY <2>2, <2>3, <2>4
<1> HIDE DEF p, q
<1>7. /\ Ids(l) = Ids(a) \cup Ids(b)
      /\ Distinct(l) <=> Distinct(a) /\ Distinct(b) /\ Ids(a) \cap Ids(b) = {}
  <2>1. PartsOf(l, a, b, p, q)
    BY <1>4, <1>5, <1>6 DEF PartsOf
  <2> QED BY <1>2, <1>3, <2>1, IdsParts, Zenon
<1> QED BY <1>2, <1>3, <1>7 DEF a, b

-----------------------------------------------------------------------------
(* The queue and the allocator.                                            *)

\* A sample that is passed on has another holder, as many as before.
LEMMA HandOverKeeps ==
  ASSUME AllocInv, NEW s \in Samples, HandOver(s), s \notin holds["queue"]
  PROVE  AllocInv'
<1>1. /\ holds \in [Clients -> SUBSET Samples] /\ "source" \in Clients /\ "queue" \in Clients
      /\ s \in holds["source"]
      /\ holds' = [holds EXCEPT !["source"] = holds["source"] \ {s}, !["queue"] = holds["queue"] \cup {s}]
      /\ UNCHANGED <<props, changed, committed, inProgress, layout, free, waiting, sem, cRef, gpc, selfRefs, releasing>>
  BY UsersAssumption DEF AllocInv, AllocTypeOK, HandOver
<1>2. /\ holds'["source"] = holds["source"] \ {s} /\ holds'["queue"] = holds["queue"] \cup {s}
      /\ \A c \in Clients : c # "source" /\ c # "queue" => holds'[c] = holds[c]
      /\ holds' \in [Clients -> SUBSET Samples]
  BY <1>1
<1>3. ASSUME NEW x \in Samples PROVE Cardinality(Holders(x)') = Cardinality(Holders(x))
  <2>1. CASE x # s
    <3>1. Holders(x)' = Holders(x)
      BY <1>1, <1>2, <2>1 DEF Holders
    <3> QED BY <3>1
  <2>2. CASE x = s
    <3> DEFINE H == Holders(s)
               G == H \ {"source"}
    <3>1. Holders(s)' = G \cup {"queue"} /\ "source" \in H /\ "queue" \notin H
      BY <1>1, <1>2 DEF Holders
    <3>2. IsFiniteSet(H) /\ IsFiniteSet(G) /\ Cardinality(H) \in Nat
      BY Finite, FS_Subset
    <3>3. Cardinality(G) = Cardinality(H) - 1
      BY <3>1, <3>2, FS_RemoveElement
    <3>4. Cardinality(G \cup {"queue"}) = Cardinality(G) + 1
      <4>1. "queue" \notin G
        BY <3>1
      <4> QED BY <3>2, <4>1, FS_AddElement
    <3> HIDE DEF H, G
    <3>5. Cardinality(Holders(s)') = Cardinality(H)
      BY <3>1, <3>2, <3>3, <3>4
    <3> QED BY <2>2, <3>5 DEF H
  <2> QED BY <2>1, <2>2
<1>4. AllocTypeOK'
  BY <1>1, <1>2 DEF AllocInv, AllocTypeOK
<1>5. SamplesInv'
  <2>1. Outstanding' = Outstanding
    BY <1>1 DEF Outstanding
  <2> QED BY <1>1, <1>3, <2>1 DEF AllocInv, SamplesInv
<1>6. WaitInv' /\ LifeInv' /\ BuffersFit'
  <2>1. Outstanding' = Outstanding /\ Sleepers' = Sleepers
    BY <1>1 DEF Outstanding, Sleepers
  <2> QED BY <1>1, <2>1 DEF AllocInv, WaitInv, LifeInv, AliveWhileNeeded, BuffersFit
<1> QED BY <1>4, <1>5, <1>6 DEF AllocInv

\* A sample that is free is held by nobody.
LEMMA FreeIsNotHeld ==
  ASSUME AllocTypeOK, SamplesInv, free # <<>>, NEW c \in Clients
  PROVE  Head(free) \in Samples /\ Head(free) \notin holds[c]
<1>1. free \in Seq(Samples) /\ Head(free) = free[1] /\ 1 \in 1 .. Len(free) /\ Head(free) \in Samples
  BY DEF AllocTypeOK
<1>2. cRef[Head(free)] = 0 /\ cRef[Head(free)] = Cardinality(Holders(Head(free)))
  BY <1>1 DEF SamplesInv
<1>3. Holders(Head(free)) = {}
  BY <1>2, Finite, FS_EmptySet
<1> QED BY <1>1, <1>3 DEF Holders

\* Every step of the queue is one of the allocator's or passes a sample on.
LEMMA AllocStepsOnly ==
  ASSUME AllocTypeOK, [DeliveryNext]_deliveryVars
  PROVE  [AllocNext]_allocVars \/ \E s \in Samples : HandOver(s)
<1>0. {"source", "queue", "sink"} \subseteq Clients
  BY UsersAssumption
<1>1. ASSUME SourceStep PROVE [AllocNext]_allocVars \/ \E s \in Samples : HandOver(s)
  <2>1. ASSUME NEW s \in Samples, ReceiveQueued(s) \/ ReceiveDirect(s) PROVE HandOver(s)
    BY <2>1 DEF ReceiveQueued, ReceiveDirect
  <2>2. ASSUME NEW s \in Samples, ReceiveRefused(s) PROVE AllocNext
    <3>1. Release("source", s)
      BY <2>2 DEF ReceiveRefused
    <3> QED BY <1>0, <3>1 DEF AllocNext
  <2>3. Client("source") => AllocNext
    BY <1>0 DEF AllocNext
  <2>4. SendAnywayDirect \/ SendAnywayQueued \/ NewSegmentQueued \/ EosQueued => UNCHANGED allocVars
    BY DEF SendAnywayDirect, SendAnywayQueued, NewSegmentQueued, EosQueued
  <2>5. ASSUME NEW kind, MarkDirect(kind) PROVE UNCHANGED allocVars
    BY <2>5 DEF MarkDirect
  <2> QED BY <1>1, <2>1, <2>2, <2>3, <2>4, <2>5 DEF SourceStep
<1>2. ASSUME SinkStep PROVE AllocNext
  <2>1. \E s \in Samples : AddRef("sink", s) \/ Release("sink", s)
    BY <1>2 DEF SinkStep, SinkKeeps, SinkReleases
  <2> QED BY <1>0, <2>1 DEF AllocNext
<1>3. ASSUME SendStep, ~UNCHANGED allocVars PROVE AllocNext
  <2>1. DirectSend \/ DirectDone => UNCHANGED allocVars
    BY DEF DirectSend, DirectDone
  <2>2. ReleaseHand => \E x : Release("queue", x)
    BY DEF ReleaseHand
  <2>3. FreeOne => UNCHANGED allocVars \/ \E x : Release("queue", x)
    BY DEF FreeOne
  <2> PICK x : Release("queue", x)
    BY <1>3, <2>1, <2>2, <2>3 DEF SendStep
  <2>4. x \in Samples
    BY <1>0 DEF AllocTypeOK, Release
  <2> QED BY <1>0, <2>4 DEF AllocNext
<1>4. ThreadStep => UNCHANGED allocVars
  <2>1. ThreadTakes => UNCHANGED allocVars
    BY Zenon DEF ThreadTakes
  <2> QED BY <2>1 DEF ThreadStep, ThreadFrees, ThreadFreed, ThreadWakes, ThreadSends, ThreadSent, ThreadMark
<1>5. ControlStep => UNCHANGED allocVars
  BY DEF ControlStep, BeginFlushQueued, BeginFlushPassed, BeginFlushDirect, EndFlush, EndFlushWaited,
         EndFlushDone, ResetDirect, ResetQueued, ResetWaited, Destroy, Destroyed
<1>6. PoolControl => AllocNext
  BY DEF AllocNext
<1>7. UNCHANGED deliveryVars => UNCHANGED allocVars
  BY DEF deliveryVars
<1> QED BY <1>0, <1>1, <1>2, <1>3, <1>4, <1>5, <1>6, <1>7 DEF DeliveryNext

\* Nothing but the samples of the pool changes hands.
LEMMA OwnsStutters ==
  ASSUME OwnsInv, UNCHANGED <<list, batch, hand>>, UNCHANGED allocVars
  PROVE  OwnsInv'
BY DEF OwnsInv

\* What the clients have after a step of the allocator.
LEMMA HoldsAfter ==
  ASSUME AllocTypeOK, SamplesInv
  PROVE  /\ {"source", "queue", "sink"} \subseteq Clients /\ holds \in [Clients -> SUBSET Samples]
         /\ \A s \in Samples : HandOver(s) =>
              /\ s \in holds["source"]
              /\ holds'["source"] = holds["source"] \ {s} /\ holds'["queue"] = holds["queue"] \cup {s}
         /\ \A s : Release("queue", s) =>
              /\ s \in holds["queue"]
              /\ holds'["source"] = holds["source"] /\ holds'["queue"] = holds["queue"] \ {s}
         /\ \A s : Release("source", s) =>
              holds'["source"] = holds["source"] \ {s} /\ holds'["queue"] = holds["queue"]
         /\ \A s : AddRef("sink", s) \/ Release("sink", s) =>
              holds'["source"] = holds["source"] /\ holds'["queue"] = holds["queue"]
         /\ Client("source") =>
              /\ holds'["queue"] = holds["queue"]
              /\ holds'["source"] \cap holds["queue"] = holds["source"] \cap holds["queue"]
         /\ PoolControl => holds' = holds
<1>1. {"source", "queue", "sink"} \subseteq Clients /\ holds \in [Clients -> SUBSET Samples]
  BY UsersAssumption DEF AllocTypeOK
<1>2. ASSUME NEW s \in Samples, HandOver(s)
      PROVE  /\ s \in holds["source"]
             /\ holds'["source"] = holds["source"] \ {s} /\ holds'["queue"] = holds["queue"] \cup {s}
  BY <1>1, <1>2 DEF HandOver
<1>3. ASSUME NEW s, Release("queue", s)
      PROVE  /\ s \in holds["queue"]
             /\ holds'["source"] = holds["source"] /\ holds'["queue"] = holds["queue"] \ {s}
  BY <1>1, <1>3 DEF Release
<1>4. ASSUME NEW s, Release("source", s)
      PROVE  holds'["source"] = holds["source"] \ {s} /\ holds'["queue"] = holds["queue"]
  BY <1>1, <1>4 DEF Release
<1>5. ASSUME NEW s, AddRef("sink", s) \/ Release("sink", s)
      PROVE  holds'["source"] = holds["source"] /\ holds'["queue"] = holds["queue"]
  BY <1>1, <1>5 DEF Release, AddRef
<1>6. ASSUME Client("source")
      PROVE  /\ holds'["queue"] = holds["queue"]
             /\ holds'["source"] \cap holds["queue"] = holds["source"] \cap holds["queue"]
  <2>1. CASE GetBuffer("source")
    <3>1. Head(free) \notin holds["queue"]
      BY <1>1, <2>1, FreeIsNotHeld DEF GetBuffer
    <3>2. holds'["source"] = holds["source"] \cup {Head(free)} /\ holds'["queue"] = holds["queue"]
      BY <1>1, <2>1 DEF GetBuffer
    <3> QED BY <3>1, <3>2
  <2>2. CASE ~GetBuffer("source")
    BY <1>6, <2>2 DEF Client, GetBufferNotCommitted, GetBufferEmpty, GetBufferNoWait, GetBufferWakes
  <2> QED BY <2>1, <2>2
<1>7. PoolControl => holds' = holds
  BY DEF PoolControl, SetProperties, CommitAllocates, CommitFails, CommitCancels, Decommit, ReleaseAllocator
<1> QED BY <1>1, <1>2, <1>3, <1>4, <1>5, <1>6, <1>7

\* An item without a sample joins the list.
LEMMA OwnsListed ==
  ASSUME QueueTypes, OwnsInv, NEW x \in Items, x.sample = 0, list' = Append(list, x),
         UNCHANGED <<batch, hand>>, UNCHANGED allocVars
  PROVE  OwnsInv'
<1>1. list \in Seq(Items)
  BY DEF QueueTypes
<1>2. /\ Ids(list') = Ids(list) \cup ({x.sample} \ {0})
      /\ Distinct(list') <=> Distinct(list) /\ x.sample \notin Ids(list)
  BY <1>1, IdsAppended
<1>3. 0 \notin Ids(list)
  BY DEF Ids
<1> QED BY <1>2, <1>3 DEF OwnsInv

LEMMA OwnsSource ==
  ASSUME QueueTypes, PlaceInv, AllocTypeOK, SamplesInv, OwnsInv, SourceStep
  PROVE  OwnsInv'
<1>0. /\ list \in Seq(Items) /\ batch \in Seq(Items) /\ hand \in Seq(Items) /\ number \in Nat
      /\ 0 \notin Ids(list) /\ 0 \notin Ids(batch) /\ 0 \notin Ids(hand)
  BY DEF QueueTypes, Ids
<1>1. ASSUME NEW s \in Samples, ReceiveQueued(s) PROVE OwnsInv'
  <2> DEFINE x == Item("sample", s, number + 1)
  <2>1. x \in Items /\ x.sample = s /\ s # 0
    BY <1>0, ItemsMade, BoundsAssumption DEF Item, Samples
  <2> HIDE DEF x
  <2>2. HandOver(s) /\ list' = Append(list, x) /\ batch' = batch /\ hand' = hand
    BY <1>1 DEF ReceiveQueued, x
  <2>3. /\ s \in holds["source"]
        /\ holds'["source"] = holds["source"] \ {s} /\ holds'["queue"] = holds["queue"] \cup {s}
    BY <2>2, HoldsAfter
  <2>4. /\ Ids(list') = Ids(list) \cup {s}
        /\ Distinct(list') <=> Distinct(list) /\ s \notin Ids(list)
    BY <1>0, <2>1, <2>2, IdsAppended
  <2> QED BY <2>2, <2>3, <2>4 DEF OwnsInv
<1>2. ASSUME NEW s \in Samples, ReceiveRefused(s) PROVE OwnsInv'
  <2>1. Release("source", s) /\ list' = list /\ batch' = batch /\ hand' = hand
    BY <1>2 DEF ReceiveRefused
  <2>2. holds'["source"] = holds["source"] \ {s} /\ holds'["queue"] = holds["queue"]
    BY <2>1, HoldsAfter
  <2> QED BY <2>1, <2>2 DEF OwnsInv
<1>3. ASSUME NEW s \in Samples, ReceiveDirect(s) PROVE OwnsInv'
  <2> DEFINE x == Item("sample", s, number + 1)
             b == Append(batch, x)
  <2>1. x \in Items /\ x.sample = s /\ s # 0
    BY <1>0, ItemsMade, BoundsAssumption DEF Item, Samples
  <2>2. /\ HandOver(s) /\ list' = list /\ hand = <<>>
        /\ \/ batch' = <<>> /\ hand' = b
           \/ batch' = b /\ hand' = hand
    BY <1>3 DEF ReceiveDirect, SourceMayCall, PlaceInv, InHand
  <2> HIDE DEF x
  <2>3. /\ s \in holds["source"]
        /\ holds'["source"] = holds["source"] \ {s} /\ holds'["queue"] = holds["queue"] \cup {s}
    BY <2>2, HoldsAfter
  <2>4. /\ Ids(b) = Ids(batch) \cup {s}
        /\ Distinct(b) <=> Distinct(batch) /\ s \notin Ids(batch)
    BY <1>0, <2>1, IdsAppended
  <2> HIDE DEF b
  <2>5. CASE batch' = <<>> /\ hand' = b
    BY <2>2, <2>3, <2>4, <2>5, IdsEmpty DEF OwnsInv
  <2>6. CASE batch' = b /\ hand' = hand
    BY <2>2, <2>3, <2>4, <2>6, IdsEmpty DEF OwnsInv
  <2> QED BY <2>2, <2>5, <2>6
<1>4. CASE SendAnywayDirect
  <2>1. hand = <<>> /\ hand' = batch /\ batch' = <<>> /\ list' = list /\ holds' = holds
    BY <1>4 DEF SendAnywayDirect, SourceMayCall, PlaceInv, InHand
  <2> QED BY <2>1, IdsEmpty DEF OwnsInv
<1>5. CASE SendAnywayQueued
  <2>1. Control("send") \in Items /\ Control("send").sample = 0
    BY ItemsMade DEF Control, Item
  <2> QED BY <1>5, <2>1, OwnsListed DEF SendAnywayQueued
<1>6. CASE NewSegmentQueued
  <2>1. Item("segment", 0, number + 1) \in Items /\ Item("segment", 0, number + 1).sample = 0
    BY <1>0, ItemsMade DEF Item
  <2> QED BY <1>6, <2>1, OwnsListed DEF NewSegmentQueued
<1>7. CASE EosQueued
  <2>1. Item("eos", 0, number + 1) \in Items /\ Item("eos", 0, number + 1).sample = 0
    BY <1>0, ItemsMade DEF Item
  <2> QED BY <1>7, <2>1, OwnsListed DEF EosQueued
<1>8. ASSUME NEW kind, MarkDirect(kind) PROVE OwnsInv'
  <2>1. /\ hand = <<>> /\ list' = list /\ holds' = holds
        /\ (hand' = batch /\ batch' = <<>>) \/ (hand' = hand /\ batch' = batch)
    BY <1>8 DEF MarkDirect, SourceMayCall, PlaceInv, InHand
  <2> QED BY <2>1, IdsEmpty DEF OwnsInv
<1>9. CASE Client("source") /\ UNCHANGED queueVars
  <2>1. /\ list' = list /\ batch' = batch /\ hand' = hand /\ holds'["queue"] = holds["queue"]
        /\ holds'["source"] \cap holds["queue"] = holds["source"] \cap holds["queue"]
    BY <1>9, HoldsAfter
  <2> QED BY <2>1 DEF OwnsInv
<1> QED BY <1>1, <1>2, <1>3, <1>4, <1>5, <1>6, <1>7, <1>8, <1>9 DEF SourceStep

LEMMA OwnsSend ==
  ASSUME QueueTypes, AllocTypeOK, SamplesInv, OwnsInv, SendStep
  PROVE  OwnsInv'
<1>0. /\ list \in Seq(Items) /\ batch \in Seq(Items) /\ hand \in Seq(Items)
      /\ 0 \notin Ids(list) /\ 0 \notin Ids(batch) /\ 0 \notin Ids(hand)
  BY DEF QueueTypes, Ids
<1>1. CASE DirectSend \/ DirectDone
  BY <1>1, OwnsStutters DEF DirectSend, DirectDone
<1>2. CASE ReleaseHand
  <2> DEFINE s == hand[Len(hand)].sample
  <2>1. hand # <<>> /\ Release("queue", s) /\ hand' = Front(hand) /\ list' = list /\ batch' = batch
    BY <1>2 DEF ReleaseHand
  <2>2. /\ Ids(hand) = Ids(hand') \cup ({s} \ {0})
        /\ Distinct(hand) <=> Distinct(hand') /\ s \notin Ids(hand')
    BY <1>0, <2>1, IdsEndOff
  <2> HIDE DEF s
  <2>3. /\ s \in holds["queue"]
        /\ holds'["source"] = holds["source"] /\ holds'["queue"] = holds["queue"] \ {s}
    BY <2>1, HoldsAfter
  <2>4. s # 0
    BY <1>0, <2>3 DEF OwnsInv
  <2> QED BY <2>1, <2>2, <2>3, <2>4 DEF OwnsInv
<1>3. CASE FreeOne
  <2> DEFINE x == Head(list \o batch)
  <2>1. \/ list # <<>> /\ x = Head(list) /\ list' = Tail(list) /\ batch' = batch
        \/ list = <<>> /\ batch # <<>> /\ x = Head(batch) /\ batch' = Tail(batch) /\ list' = list
    <3>1. list # <<>> => Head(list \o batch) = Head(list)
      BY <1>0
    <3>2. list = <<>> => list \o batch = batch
      BY <1>0
    <3> QED BY <1>3, <3>1, <3>2 DEF FreeOne
  <2>2. /\ hand' = hand
        /\ x.kind = "sample" => Release("queue", x.sample)
        /\ x.kind # "sample" => UNCHANGED allocVars
    BY <1>3 DEF FreeOne
  <2>3. x \in Items
    BY <1>0, <2>1, HeadOff
  <2>4. x.kind = "sample" <=> x.sample # 0
    BY <2>3, ItemFields
  <2> HIDE DEF x
  <2>5. /\ x.sample # 0 => x.sample \in holds["queue"]
        /\ holds'["source"] = holds["source"] /\ holds'["queue"] = holds["queue"] \ ({x.sample} \ {0})
    BY <2>2, <2>4, HoldsAfter
  <2>6. CASE list # <<>> /\ x = Head(list) /\ list' = Tail(list) /\ batch' = batch
    <3>1. /\ Ids(list) = Ids(list') \cup ({x.sample} \ {0})
          /\ Distinct(list) <=> Distinct(list') /\ x.sample \notin Ids(list')
      BY <1>0, <2>6, IdsHeadOff
    <3> QED BY <2>2, <2>5, <2>6, <3>1 DEF OwnsInv
  <2>7. CASE batch # <<>> /\ x = Head(batch) /\ batch' = Tail(batch) /\ list' = list
    <3>1. /\ Ids(batch) = Ids(batch') \cup ({x.sample} \ {0})
          /\ Distinct(batch) <=> Distinct(batch') /\ x.sample \notin Ids(batch')
      BY <1>0, <2>7, IdsHeadOff
    <3> QED BY <2>2, <2>5, <2>7, <3>1 DEF OwnsInv
  <2> QED BY <2>1, <2>6, <2>7
<1> QED BY <1>1, <1>2, <1>3 DEF SendStep

LEMMA OwnsThread ==
  ASSUME QueueTypes, PlaceInv, OwnsInv, ThreadStep
  PROVE  OwnsInv'
<1>0. /\ list \in Seq(Items) /\ batch \in Seq(Items) /\ hand \in Seq(Items)
  BY DEF QueueTypes, Ids
<1>1. CASE ThreadFrees \/ ThreadFreed \/ ThreadWakes \/ ThreadSends \/ ThreadSent \/ ThreadMark
  BY <1>1, OwnsStutters DEF ThreadFrees, ThreadFreed, ThreadWakes, ThreadSends, ThreadSent, ThreadMark
<1>2. CASE ThreadTakes
  <2>1. holds' = holds /\ hand = <<>>
    <3>1. tpc = "loop" /\ holds' = holds
      BY <1>2, Zenon DEF ThreadTakes
    <3> QED BY <3>1 DEF PlaceInv, InHand
  <2> PICK d \in 0 .. Len(list), k \in Nat, e \in 0 .. Len(list) : Taken(d, k, e)
    BY <1>2, TakesCuts
  <2> DEFINE a == SubSeq(list, d + 1, d + k)
             b == SubSeq(list, e + 1, Len(list))
             c == batch \o a
  <2>2. /\ Ids(list) = Ids(a) \cup Ids(b)
        /\ Distinct(list) <=> Distinct(a) /\ Distinct(b) /\ Ids(a) \cap Ids(b) = {}
        /\ a \in Seq(Items) /\ b \in Seq(Items)
    <3>1. e \in {d + k, d + k + 1} /\ \A i \in 1 .. d : list[i].sample = 0
      <4>1. ASSUME NEW i \in 1 .. d PROVE list[i].sample = 0
        <5>1. i \in 1 .. Len(list) /\ list[i].kind = "send"
          BY <1>0 DEF Taken
        <5>2. list[i] \in Items
          BY <1>0, <5>1
        <5> QED BY <5>1, <5>2, ItemFields
      <4> QED BY <4>1 DEF Taken
    <3>2. e # d + k => list[e].sample = 0
      <4> SUFFICES ASSUME e # d + k PROVE list[e].sample = 0
        OBVIOUS
      <4>1. e \in 1 .. Len(list) /\ list[e].kind # "sample"
        BY <1>0 DEF Taken
      <4>2. list[e] \in Items
        BY <1>0, <4>1
      <4> QED BY <4>1, <4>2, ItemFields
    <3> QED BY <1>0, <3>1, <3>2, IdsCut
  <2>3. /\ list' = b
        /\ \/ batch' = c /\ hand' = hand
           \/ batch' = <<>> /\ hand' = c
    BY DEF Taken
  <2> HIDE DEF a, b
  <2>4. /\ Ids(c) = Ids(batch) \cup Ids(a)
        /\ Distinct(c) <=> Distinct(batch) /\ Distinct(a) /\ Ids(batch) \cap Ids(a) = {}
    BY <1>0, <2>2, IdsJoined
  <2> HIDE DEF c
  <2>5. CASE batch' = c /\ hand' = hand
    BY <2>1, <2>2, <2>3, <2>4, <2>5, IdsEmpty DEF OwnsInv
  <2>6. CASE batch' = <<>> /\ hand' = c
    BY <2>1, <2>2, <2>3, <2>4, <2>6, IdsEmpty DEF OwnsInv
  <2> QED BY <2>3, <2>5, <2>6
<1> QED BY <1>1, <1>2 DEF ThreadStep

LEMMA OwnsKept ==
  ASSUME QueueTypes, PlaceInv, AllocTypeOK, SamplesInv, OwnsInv, [DeliveryNext]_deliveryVars
  PROVE  OwnsInv'
<1>1. CASE PoolControl /\ UNCHANGED queueVars
  BY <1>1, HoldsAfter DEF OwnsInv
<1>2. CASE SinkStep
  <2>1. /\ list' = list /\ batch' = batch /\ hand' = hand
        /\ \E s : AddRef("sink", s) \/ Release("sink", s)
    BY <1>2 DEF SinkStep, SinkKeeps, SinkReleases
  <2>2. holds'["source"] = holds["source"] /\ holds'["queue"] = holds["queue"]
    BY <2>1, HoldsAfter
  <2> QED BY <2>1, <2>2 DEF OwnsInv
<1>3. CASE ControlStep
  <2>1. CASE ResetQueued
    <3>1. Control("reset") \in Items /\ Control("reset").sample = 0
      BY ItemsMade DEF Control, Item
    <3> QED BY <2>1, <3>1, OwnsListed DEF ResetQueued
  <2>2. CASE ~ResetQueued
    <3>1. UNCHANGED <<list, batch, hand>> /\ UNCHANGED allocVars
      BY <1>3, <2>2 DEF ControlStep, BeginFlushQueued, BeginFlushPassed, BeginFlushDirect, EndFlush,
                        EndFlushWaited, EndFlushDone, ResetDirect, ResetWaited, Destroy, Destroyed
    <3> QED BY <3>1, OwnsStutters
  <2> QED BY <2>1, <2>2
<1>4. CASE UNCHANGED deliveryVars
  BY <1>4, OwnsStutters DEF deliveryVars
<1> QED BY <1>1, <1>2, <1>3, <1>4, OwnsSource, OwnsSend, OwnsThread DEF DeliveryNext

DeliveryInv == QueueTypes /\ PlaceInv /\ AllocInv /\ OwnsInv

LEMMA DeliveryStart == DeliveryInit => DeliveryInv
<1> SUFFICES ASSUME DeliveryInit PROVE DeliveryInv
  OBVIOUS
<1>1. /\ list = <<>> /\ batch = <<>> /\ hand = <<>> /\ special = None
      /\ mode \in [queued : BOOLEAN, exact : BOOLEAN, opt : BOOLEAN]
      /\ holds = [c \in Clients |-> {}] /\ {"source", "queue"} \subseteq Clients
  BY UsersAssumption DEF DeliveryInit, QueueInit, AllocInit
<1>2. QueueTypes
  BY <1>1, SampleSeqs, ItemsMade, BatchSizeAssumption DEF DeliveryInit, QueueInit, QueueTypes, None, Item
<1>3. PlaceInv
  BY <1>1 DEF DeliveryInit, QueueInit, PlaceInv, ByMode, InHand, Counted, Asked, OnlySegment, Unlocked, None,
      Item
<1>4. OwnsInv
  BY <1>1, IdsEmpty DEF OwnsInv
<1> QED BY <1>2, <1>3, <1>4, AllocStart DEF DeliveryInit, DeliveryInv

LEMMA DeliveryKeeps ==
  ASSUME DeliveryInv, [DeliveryNext]_deliveryVars
  PROVE  DeliveryInv'
<1>1. QueueTypes /\ PlaceInv /\ AllocInv /\ OwnsInv /\ AllocTypeOK /\ SamplesInv
  BY DEF DeliveryInv, AllocInv
<1>2. QueueTypes' /\ PlaceInv' /\ OwnsInv'
  BY <1>1, TypesKept, PlacesKept, OwnsKept
<1>3. AllocInv'
  <2>1. ASSUME NEW s \in Samples, HandOver(s) PROVE AllocInv'
    <3>1. s \notin holds["queue"]
      BY <1>1, <2>1 DEF HandOver, OwnsInv
    <3> QED BY <1>1, <2>1, <3>1, HandOverKeeps
  <2> QED BY <1>1, <2>1, AllocStepsOnly, AllocStepKeeps
<1> QED BY <1>2, <1>3 DEF DeliveryInv

LEMMA DeliveryInvariant == DeliverySpec => []DeliveryInv
<1>1. DeliveryInit => DeliveryInv
  BY DeliveryStart
<1>2. DeliveryInv /\ [DeliveryNext]_deliveryVars => DeliveryInv'
  BY DeliveryKeeps
<1> QED BY <1>1, <1>2, PTL DEF DeliverySpec

\* The pool keeps its promises when its clients are a filter, its output queue and the next filter, which
\* pass samples on: no sleeper of GetBuffer is forgotten and the allocator lives as long as it is needed.
THEOREM DeliveryIsSafeForThePool == DeliverySpec => []AllocatorSafe
<1>1. DeliveryInv => AllocatorSafe
  BY InvIsSafe DEF DeliveryInv
<1> QED BY <1>1, DeliveryInvariant, PTL

\* The queue holds exactly the samples it has in its list, its batch and in hand, in every mode and through
\* errors, flushes and the destructor, and every sample is on the free list or held, once (COutputQueue).
THEOREM QueueOwnsWhatItHolds == DeliverySpec => []QueueOwnsItsSamples
<1>1. DeliveryInv => QueueOwnsItsSamples
  <2> SUFFICES ASSUME DeliveryInv PROVE QueueOwnsItsSamples
    OBVIOUS
  <2>1. /\ list \in Seq(Items) /\ batch \in Seq(Items) /\ hand \in Seq(Items)
        /\ holds["queue"] = Ids(list) \cup Ids(batch) \cup Ids(hand)
    BY DEF DeliveryInv, QueueTypes, OwnsInv
  <2>2. holds["queue"] = SampleIds(list \o batch \o hand) \ {0}
    <3>1. list \o batch \in Seq(Items)
      BY <2>1, Joined
    <3>2. Ids(list \o batch) = Ids(list) \cup Ids(batch)
      BY <2>1, IdsJoined
    <3>3. Ids((list \o batch) \o hand) = Ids(list \o batch) \cup Ids(hand)
      BY <2>1, <3>1, IdsJoined
    <3> QED BY <2>1, <3>2, <3>3 DEF Ids
  <2>3. fpc = "closed" => list = <<>> /\ batch = <<>> /\ hand = <<>>
    BY DEF DeliveryInv, PlaceInv, Asked, InHand, OnlySegment, Unlocked
  <2>4. fpc = "closed" => holds["queue"] = {}
    BY <2>1, <2>3, IdsEmpty
  <2>5. SamplesConserved
    BY InvConserves DEF DeliveryInv
  <2> QED BY <2>2, <2>4, <2>5 DEF QueueOwnsItsSamples
<1> QED BY <1>1, DeliveryInvariant, PTL

-----------------------------------------------------------------------------
(* The kinds of what is listed.                                            *)

LEMMA InAt ==
  ASSUME NEW l \in Seq(Items)
  PROVE  /\ \A kind : In(kind, l) <=> \E i \in 1 .. Len(l) : l[i].kind = kind
         /\ OneReset(l) <=> \A i, j \in 1 .. Len(l) : l[i].kind = "reset" /\ l[j].kind = "reset" => i = j
         /\ AllSamples(l) <=> \A i \in 1 .. Len(l) : l[i].kind = "sample"
<1>1. DOMAIN l = 1 .. Len(l) /\ Len(l) \in Nat
  OBVIOUS
<1> QED BY <1>1 DEF In, OneReset, AllSamples

LEMMA InEmpty == OneReset(<<>>) /\ AllSamples(<<>>) /\ \A kind : ~In(kind, <<>>)
BY DEF In, OneReset, AllSamples

LEMMA InAppended ==
  ASSUME NEW l \in Seq(Items), NEW x \in Items
  PROVE  /\ \A kind : In(kind, Append(l, x)) <=> In(kind, l) \/ x.kind = kind
         /\ OneReset(l) /\ (x.kind = "reset" => ~In("reset", l)) => OneReset(Append(l, x))
         /\ AllSamples(Append(l, x)) <=> AllSamples(l) /\ x.kind = "sample"
<1> DEFINE m == Append(l, x)
<1>1. /\ m \in Seq(Items) /\ Len(m) = Len(l) + 1 /\ Len(l) \in Nat
      /\ \A i \in 1 .. Len(l) : m[i] = l[i] /\ i \in 1 .. Len(m)
      /\ m[Len(l) + 1] = x /\ Len(l) + 1 \in 1 .. Len(m)
  BY Appended
<1> HIDE DEF m
<1>2. \A i \in 1 .. Len(m) : i \in 1 .. Len(l) \/ i = Len(l) + 1
  BY <1>1
<1>3. /\ \A kind : In(kind, l) <=> \E i \in 1 .. Len(l) : l[i].kind = kind
      /\ OneReset(l) <=> \A i, j \in 1 .. Len(l) : l[i].kind = "reset" /\ l[j].kind = "reset" => i = j
      /\ AllSamples(l) <=> \A i \in 1 .. Len(l) : l[i].kind = "sample"
  BY InAt
<1>4. /\ \A kind : In(kind, m) <=> \E i \in 1 .. Len(m) : m[i].kind = kind
      /\ OneReset(m) <=> \A i, j \in 1 .. Len(m) : m[i].kind = "reset" /\ m[j].kind = "reset" => i = j
      /\ AllSamples(m) <=> \A i \in 1 .. Len(m) : m[i].kind = "sample"
  BY <1>1, InAt
<1>5. ASSUME NEW kind PROVE In(kind, m) <=> In(kind, l) \/ x.kind = kind
  BY <1>1, <1>2, <1>3, <1>4
<1>6. ASSUME OneReset(l), x.kind = "reset" => ~In("reset", l) PROVE OneReset(m)
  <2> SUFFICES ASSUME NEW i \in 1 .. Len(m), NEW j \in 1 .. Len(m), m[i].kind = "reset", m[j].kind = "reset" PROVE i = j
    BY <1>4
  <2>1. CASE i \in 1 .. Len(l) /\ j \in 1 .. Len(l)
    BY <1>1, <1>3, <1>6, <2>1
  <2>2. CASE i = Len(l) + 1 \/ j = Len(l) + 1
    BY <1>1, <1>2, <1>3, <1>6, <2>2
  <2> QED BY <1>2, <2>1, <2>2
<1>7. AllSamples(m) <=> AllSamples(l) /\ x.kind = "sample"
  BY <1>1, <1>2, <1>3, <1>4
<1> QED BY <1>5, <1>6, <1>7 DEF m

LEMMA InHeadOff ==
  ASSUME NEW l \in Seq(Items), l # <<>>
  PROVE  /\ \A kind : In(kind, l) <=> Head(l).kind = kind \/ In(kind, Tail(l))
         /\ OneReset(l) => OneReset(Tail(l)) /\ (Head(l).kind = "reset" => ~In("reset", Tail(l)))
         /\ AllSamples(l) => AllSamples(Tail(l))
<1> DEFINE m == Tail(l)
<1>1. /\ m \in Seq(Items) /\ Len(m) = Len(l) - 1 /\ Len(l) \in Nat \ {0} /\ Head(l) = l[1]
      /\ \A i \in 1 .. Len(l) - 1 : m[i] = l[i + 1]
  BY HeadOff
<1> HIDE DEF m
<1>2. /\ \A i \in 1 .. Len(m) : /\ m[i] = l[i + 1] /\ i + 1 \in 1 .. Len(l) /\ i + 1 # 1
                                 /\ \A j \in 1 .. Len(m) : i + 1 = j + 1 => i = j
      /\ 1 \in 1 .. Len(l)
  BY <1>1
<1>3. \A i \in 1 .. Len(l) : i = 1 \/ \E j \in 1 .. Len(m) : i = j + 1
  <2> SUFFICES ASSUME NEW i \in 1 .. Len(l), i # 1 PROVE \E j \in 1 .. Len(m) : i = j + 1
    OBVIOUS
  <2>1. i - 1 \in 1 .. Len(m) /\ i = (i - 1) + 1
    BY <1>1
  <2> QED BY <2>1
<1>4. /\ \A kind : In(kind, l) <=> \E i \in 1 .. Len(l) : l[i].kind = kind
      /\ OneReset(l) <=> \A i, j \in 1 .. Len(l) : l[i].kind = "reset" /\ l[j].kind = "reset" => i = j
      /\ AllSamples(l) <=> \A i \in 1 .. Len(l) : l[i].kind = "sample"
  BY InAt
<1>5. /\ \A kind : In(kind, m) <=> \E i \in 1 .. Len(m) : m[i].kind = kind
      /\ OneReset(m) <=> \A i, j \in 1 .. Len(m) : m[i].kind = "reset" /\ m[j].kind = "reset" => i = j
      /\ AllSamples(m) <=> \A i \in 1 .. Len(m) : m[i].kind = "sample"
  BY <1>1, InAt
<1>6. ASSUME NEW kind PROVE In(kind, l) <=> Head(l).kind = kind \/ In(kind, m)
  <2>1. In(kind, l) => Head(l).kind = kind \/ In(kind, m)
    <3> SUFFICES ASSUME NEW i \in 1 .. Len(l), l[i].kind = kind PROVE Head(l).kind = kind \/ In(kind, m)
      BY <1>4
    <3>1. ASSUME NEW j \in 1 .. Len(m), i = j + 1 PROVE In(kind, m)
      <4>1. m[j].kind = kind
        BY <1>2, <3>1
      <4> QED BY <1>5, <4>1, Zenon
    <3> QED BY <1>1, <1>3, <3>1
  <2> QED BY <1>1, <1>2, <1>4, <1>5, <2>1
<1>7. ASSUME OneReset(l) PROVE OneReset(m) /\ (Head(l).kind = "reset" => ~In("reset", m))
  <2>1. OneReset(m)
    <3> SUFFICES ASSUME NEW i \in 1 .. Len(m), NEW j \in 1 .. Len(m), m[i].kind = "reset", m[j].kind = "reset"
                 PROVE  i = j
      BY <1>5, Zenon
    <3>1. /\ i + 1 \in 1 .. Len(l) /\ l[i + 1].kind = "reset"
          /\ j + 1 \in 1 .. Len(l) /\ l[j + 1].kind = "reset"
      BY <1>2
    <3>2. i + 1 = j + 1
      BY <1>4, <1>7, <3>1, Zenon
    <3> QED BY <1>2, <3>2
  <2>2. ASSUME NEW i \in 1 .. Len(m), l[1].kind = "reset", m[i].kind = "reset" PROVE FALSE
    BY <1>2, <1>4, <1>7, <2>2
  <2> QED BY <1>1, <1>5, <2>1, <2>2
<1>8. AllSamples(l) => AllSamples(m)
  BY <1>2, <1>4, <1>5
<1> QED BY <1>6, <1>7, <1>8 DEF m

\* d requests to send, k samples, and what then stands at e, if that is one further.
KindsCut(l, d, k, e) ==
  /\ e \in {d + k, d + k + 1}
  /\ \A i \in 1 .. d : l[i].kind = "send"
  /\ \A i \in d + 1 .. d + k : l[i].kind = "sample"

\* What taking samples and a packet from the list leaves of the other kinds.
LEMMA InCut ==
  ASSUME NEW l \in Seq(Items), NEW d \in 0 .. Len(l), NEW k \in Nat, NEW e \in 0 .. Len(l), KindsCut(l, d, k, e)
  PROVE  LET b == SubSeq(l, e + 1, Len(l))
         IN /\ \A kind : In(kind, b) => In(kind, l)
            /\ \A kind : kind \notin {"send", "sample"} /\ In(kind, l) => In(kind, b) \/ (e # d + k /\ l[e].kind = kind)
            /\ e # d + k => In(l[e].kind, l)
            /\ k > 0 => In("sample", l)
            /\ OneReset(l) => OneReset(b) /\ (e # d + k /\ l[e].kind = "reset" => ~In("reset", b))
<1> DEFINE b == SubSeq(l, e + 1, Len(l))
<1>0. /\ e \in {d + k, d + k + 1}
      /\ \A i \in 1 .. d : l[i].kind = "send"
      /\ \A i \in d + 1 .. d + k : l[i].kind = "sample"
  BY DEF KindsCut
<1>1. Len(l) \in Nat /\ d \in Nat /\ e \in Nat /\ d + k <= Len(l) /\ d + k <= e
  BY <1>0
<1>2. /\ b \in Seq(Items) /\ Len(b) = Len(l) - e
      /\ \A i \in 1 .. Len(l) - e : b[i] = l[e + i] /\ e + i \in 1 .. Len(l)
  BY <1>1, RestOf, Zenon
<1> HIDE DEF b
<1>3. \A i \in 1 .. Len(b) : /\ b[i] = l[e + i] /\ e + i \in 1 .. Len(l) /\ e + i # e
                              /\ \A j \in 1 .. Len(b) : e + i = e + j => i = j
  BY <1>1, <1>2
<1>4. /\ \A kind : In(kind, l) <=> \E i \in 1 .. Len(l) : l[i].kind = kind
      /\ OneReset(l) <=> \A i, j \in 1 .. Len(l) : l[i].kind = "reset" /\ l[j].kind = "reset" => i = j
  BY InAt
<1>5. /\ \A kind : In(kind, b) <=> \E i \in 1 .. Len(b) : b[i].kind = kind
      /\ OneReset(b) <=> \A i, j \in 1 .. Len(b) : b[i].kind = "reset" /\ b[j].kind = "reset" => i = j
  BY <1>2, InAt
<1>6. ASSUME NEW kind, In(kind, b) PROVE In(kind, l)
  <2> PICK i \in 1 .. Len(b) : b[i].kind = kind
    BY <1>5, <1>6, Zenon
  <2>1. e + i \in 1 .. Len(l) /\ l[e + i].kind = kind
    BY <1>3
  <2> QED BY <1>4, <2>1, Zenon
<1>7. ASSUME NEW kind, kind # "send", kind # "sample", In(kind, l) PROVE In(kind, b) \/ (e # d + k /\ l[e].kind = kind)
  <2> PICK i \in 1 .. Len(l) : l[i].kind = kind
    BY <1>4, <1>7
  <2>1. i \notin 1 .. d /\ i \notin d + 1 .. d + k
    BY <1>0, <1>7
  <2>2. CASE i = e
    BY <1>1, <2>1, <2>2
  <2>3. CASE i # e
    <3>1. i - e \in 1 .. Len(b) /\ i = e + (i - e)
      BY <1>0, <1>1, <1>2, <2>1, <2>3
    <3>2. b[i - e].kind = kind
      BY <1>3, <3>1
    <3> QED BY <1>5, <3>1, <3>2
  <2> QED BY <2>2, <2>3
<1>8. e # d + k => In(l[e].kind, l)
  <2>1. e # d + k => e \in 1 .. Len(l)
    BY <1>0, <1>1
  <2> QED BY <1>4, <2>1
<1>9. k > 0 => In("sample", l)
  <2>1. k > 0 => d + 1 \in 1 .. Len(l) /\ d + 1 \in d + 1 .. d + k
    BY <1>1
  <2> QED BY <1>0, <1>4, <2>1
<1>10. ASSUME OneReset(l) PROVE OneReset(b) /\ (e # d + k /\ l[e].kind = "reset" => ~In("reset", b))
  <2>1. OneReset(b)
    <3> SUFFICES ASSUME NEW i \in 1 .. Len(b), NEW j \in 1 .. Len(b), b[i].kind = "reset", b[j].kind = "reset"
                 PROVE  i = j
      BY <1>5, Zenon
    <3>1. /\ e + i \in 1 .. Len(l) /\ l[e + i].kind = "reset"
          /\ e + j \in 1 .. Len(l) /\ l[e + j].kind = "reset"
      BY <1>3
    <3>2. e + i = e + j
      BY <1>4, <1>10, <3>1, Zenon
    <3> QED BY <1>3, <3>2
  <2>2. ASSUME e # d + k, l[e].kind = "reset", NEW i \in 1 .. Len(b), b[i].kind = "reset" PROVE FALSE
    <3>1. e \in 1 .. Len(l)
      BY <1>0, <1>1, <2>2
    <3> QED BY <1>3, <1>4, <1>10, <2>2, <3>1
  <2> QED BY <1>5, <2>1, <2>2
<1> QED BY <1>6, <1>7, <1>8, <1>9, <1>10 DEF b

-----------------------------------------------------------------------------
(* Flushes and the control thread.                                         *)

LEMMA ControlSourceSteps ==
  ASSUME QueueTypes, PlaceInv, ControlInv, mode.opt => fpc' # "resetting", SourceStep
  PROVE  ControlInv'
<1>0. UNCHANGED queueVars => ControlInv'
  BY DEF ControlInv, FlushedMeans, FlushTold, ResetTold, SleepsOver, PlaceInv, ByMode, InHand, Counted,
      Asked, OnlySegment, Unlocked, QueueTypes, Exact, Skipped, None, Item
<1>1. ASSUME NEW s \in Samples, ReceiveQueued(s) PROVE ControlInv'
  <2>1. /\ Item("sample", s, number + 1) \in Items /\ list \in Seq(Items)
        /\ list' = Append(list, Item("sample", s, number + 1))
    BY <1>1, ItemsMade DEF ReceiveQueued, QueueTypes
  <2>2. /\ \A kind : In(kind, list') <=> In(kind, list) \/ Item("sample", s, number + 1).kind = kind
        /\ OneReset(list) /\ (Item("sample", s, number + 1).kind = "reset" => ~In("reset", list)) => OneReset(list')
        /\ AllSamples(list') <=> AllSamples(list) /\ Item("sample", s, number + 1).kind = "sample"
    BY <2>1, InAppended
  <2>3. /\ In("sample", list') <=> In("sample", list) \/ Item("sample", s, number + 1).kind = "sample"
        /\ In("eos", list') <=> In("eos", list) \/ Item("sample", s, number + 1).kind = "eos"
        /\ In("reset", list') <=> In("reset", list) \/ Item("sample", s, number + 1).kind = "reset"
        /\ list' # <<>>
    BY <2>1, <2>2, Appended
  <2> QED BY <1>1, <2>2, <2>3 DEF ReceiveQueued, SourceMayCall, NotifyThread, ControlInv, FlushedMeans,
      FlushTold, ResetTold, SleepsOver, PlaceInv, ByMode, InHand, Counted, Asked, OnlySegment, Unlocked,
      QueueTypes, Exact, Skipped, None, Item
<1>2. ASSUME NEW s \in Samples, ReceiveRefused(s) PROVE ControlInv'
  BY <1>2 DEF ReceiveRefused, ControlInv, FlushedMeans, FlushTold, ResetTold, SleepsOver, PlaceInv, ByMode,
      InHand, Counted, Asked, OnlySegment, Unlocked, QueueTypes, Exact, Skipped, None, Item
<1>3. ASSUME NEW s \in Samples, ReceiveDirect(s) PROVE ControlInv'
  BY <1>3 DEF ReceiveDirect, SourceMayCall, ControlInv, FlushedMeans, FlushTold, ResetTold, SleepsOver,
      PlaceInv, ByMode, InHand, Counted, Asked, OnlySegment, Unlocked, QueueTypes, Exact, Skipped, None,
      Item
<1>4. CASE SendAnywayDirect
  BY <1>4 DEF SendAnywayDirect, SourceMayCall, ControlInv, FlushedMeans, FlushTold, ResetTold, SleepsOver,
      PlaceInv, ByMode, InHand, Counted, Asked, OnlySegment, Unlocked, QueueTypes, Exact, Skipped, None,
      Item
<1>5. CASE SendAnywayQueued
  <2>1. Control("send") \in Items /\ list \in Seq(Items) /\ list' = Append(list, Control("send"))
    BY <1>5, ItemsMade DEF SendAnywayQueued, QueueTypes
  <2>2. /\ \A kind : In(kind, list') <=> In(kind, list) \/ Control("send").kind = kind
        /\ OneReset(list) /\ (Control("send").kind = "reset" => ~In("reset", list)) => OneReset(list')
        /\ AllSamples(list') <=> AllSamples(list) /\ Control("send").kind = "sample"
    BY <2>1, InAppended
  <2>3. /\ In("sample", list') <=> In("sample", list) \/ Control("send").kind = "sample"
        /\ In("eos", list') <=> In("eos", list) \/ Control("send").kind = "eos"
        /\ In("reset", list') <=> In("reset", list) \/ Control("send").kind = "reset"
        /\ list' # <<>>
    BY <2>1, <2>2, Appended
  <2> QED BY <1>5, <2>2, <2>3 DEF SendAnywayQueued, SourceMayCall, Control, NotifyThread, ControlInv,
      FlushedMeans, FlushTold, ResetTold, SleepsOver, PlaceInv, ByMode, InHand, Counted, Asked, OnlySegment,
      Unlocked, QueueTypes, Exact, Skipped, None, Item
<1>6. CASE NewSegmentQueued
  <2>1. /\ Item("segment", 0, number + 1) \in Items /\ list \in Seq(Items)
        /\ list' = Append(list, Item("segment", 0, number + 1))
    BY <1>6, ItemsMade DEF NewSegmentQueued, QueueTypes
  <2>2. /\ \A kind : In(kind, list') <=> In(kind, list) \/ Item("segment", 0, number + 1).kind = kind
        /\ OneReset(list) /\ (Item("segment", 0, number + 1).kind = "reset" => ~In("reset", list)) => OneReset(list')
        /\ AllSamples(list') <=> AllSamples(list) /\ Item("segment", 0, number + 1).kind = "sample"
    BY <2>1, InAppended
  <2>3. /\ In("sample", list') <=> In("sample", list) \/ Item("segment", 0, number + 1).kind = "sample"
        /\ In("eos", list') <=> In("eos", list) \/ Item("segment", 0, number + 1).kind = "eos"
        /\ In("reset", list') <=> In("reset", list) \/ Item("segment", 0, number + 1).kind = "reset"
        /\ list' # <<>>
    BY <2>1, <2>2, Appended
  <2> QED BY <1>6, <2>2, <2>3 DEF NewSegmentQueued, SourceMayCall, NotifyThread, ControlInv, FlushedMeans,
      FlushTold, ResetTold, SleepsOver, PlaceInv, ByMode, InHand, Counted, Asked, OnlySegment, Unlocked,
      QueueTypes, Exact, Skipped, None, Item
<1>7. CASE EosQueued
  <2>1. Item("eos", 0, number + 1) \in Items /\ list \in Seq(Items) /\ list' = Append(list, Item("eos", 0, number + 1))
    BY <1>7, ItemsMade DEF EosQueued, QueueTypes
  <2>2. /\ \A kind : In(kind, list') <=> In(kind, list) \/ Item("eos", 0, number + 1).kind = kind
        /\ OneReset(list) /\ (Item("eos", 0, number + 1).kind = "reset" => ~In("reset", list)) => OneReset(list')
        /\ AllSamples(list') <=> AllSamples(list) /\ Item("eos", 0, number + 1).kind = "sample"
    BY <2>1, InAppended
  <2>3. /\ In("sample", list') <=> In("sample", list) \/ Item("eos", 0, number + 1).kind = "sample"
        /\ In("eos", list') <=> In("eos", list) \/ Item("eos", 0, number + 1).kind = "eos"
        /\ In("reset", list') <=> In("reset", list) \/ Item("eos", 0, number + 1).kind = "reset"
        /\ list' # <<>>
    BY <2>1, <2>2, Appended
  <2> QED BY <1>7, <2>2, <2>3 DEF EosQueued, SourceMayCall, NotifyThread, ControlInv, FlushedMeans,
      FlushTold, ResetTold, SleepsOver, PlaceInv, ByMode, InHand, Counted, Asked, OnlySegment, Unlocked,
      QueueTypes, Exact, Skipped, None, Item
<1>8. ASSUME NEW kind \in {"eos", "segment"}, MarkDirect(kind) PROVE ControlInv'
  BY <1>8 DEF MarkDirect, SourceMayCall, ControlInv, FlushedMeans, FlushTold, ResetTold, SleepsOver,
      PlaceInv, ByMode, InHand, Counted, Asked, OnlySegment, Unlocked, QueueTypes, Exact, Skipped, None,
      Item
<1> QED BY <1>0, <1>1, <1>2, <1>3, <1>4, <1>5, <1>6, <1>7, <1>8 DEF SourceStep

LEMMA ControlSendSteps ==
  ASSUME QueueTypes, PlaceInv, ControlInv, mode.opt => fpc' # "resetting", SendStep
  PROVE  ControlInv'
<1>1. CASE DirectSend
  BY <1>1 DEF DirectSend, Downstream, ControlInv, FlushedMeans, FlushTold, ResetTold, SleepsOver, PlaceInv,
      ByMode, InHand, Counted, Asked, OnlySegment, Unlocked, QueueTypes, Exact, Skipped, None, Item
<1>2. CASE DirectDone
  BY <1>2 DEF DirectDone, ControlInv, FlushedMeans, FlushTold, ResetTold, SleepsOver, PlaceInv, ByMode,
      InHand, Counted, Asked, OnlySegment, Unlocked, QueueTypes, Exact, Skipped, None, Item
<1>3. CASE ReleaseHand
  BY <1>3 DEF ReleaseHand, ControlInv, FlushedMeans, FlushTold, ResetTold, SleepsOver, PlaceInv, ByMode,
      InHand, Counted, Asked, OnlySegment, Unlocked, QueueTypes, Exact, Skipped, None, Item
<1>4. CASE FreeOne
  <2>1. /\ list # <<>> => list' = Tail(list) /\ batch' = batch
        /\ list = <<>> => list' = list /\ batch # <<>>
        /\ UNCHANGED <<mode, threadVars, qWaiting, qSem, hr, flushVars, terminate, spc>>
        /\ tpc = "freeing" \/ fpc = "freeing"
    BY <1>4 DEF FreeOne
  <2>2. /\ In("sample", list') => In("sample", list)
        /\ In("eos", list') => In("eos", list)
        /\ In("reset", list') => In("reset", list)
        /\ OneReset(list) => OneReset(list')
    <3>1. list \in Seq(Items)
      BY DEF QueueTypes
    <3> QED BY <2>1, <3>1, InHeadOff
  <2>3. list = <<>> => ~In("sample", list)
    BY InEmpty
  <2>4. mode.queued /\ flushed => batch' = <<>>
    BY <2>1 DEF ControlInv, FlushedMeans, QueueTypes
  <2> QED BY <2>1, <2>2, <2>4 DEF ControlInv, FlushedMeans, FlushTold, ResetTold, SleepsOver, PlaceInv,
      ByMode, InHand, Counted, Asked, OnlySegment, Unlocked, QueueTypes, Exact, Skipped, None, Item
<1> QED BY <1>1, <1>2, <1>3, <1>4 DEF SendStep

LEMMA ControlThreadSteps ==
  ASSUME QueueTypes, PlaceInv, ControlInv, mode.opt => fpc' # "resetting", ThreadStep
  PROVE  ControlInv'
<1>1. CASE ThreadFrees
  BY <1>1 DEF ThreadFrees, ControlInv, FlushedMeans, FlushTold, ResetTold, SleepsOver, PlaceInv, ByMode,
      InHand, Counted, Asked, OnlySegment, Unlocked, QueueTypes, Exact, Skipped, None, Item
<1>2. CASE ThreadFreed
  BY <1>2 DEF ThreadFreed, ControlInv, FlushedMeans, FlushTold, ResetTold, SleepsOver, PlaceInv, ByMode,
      InHand, Counted, Asked, OnlySegment, Unlocked, QueueTypes, Exact, Skipped, None, Item
<1>3. CASE ThreadTakes
  <2>0. tpc = "loop" /\ ~terminate /\ ~qFlushing /\ UNCHANGED <<mode, qSem, hr, flushVars, terminate, spc>>
    BY <1>3, Zenon DEF ThreadTakes
  <2> PICK d \in 0 .. Len(list), k \in Nat, e \in 0 .. Len(list) : Taken(d, k, e)
    BY <1>3, TakesCuts
  <2> DEFINE b == SubSeq(list, e + 1, Len(list))
             a == SubSeq(list, d + 1, d + k)
             c == batch \o a
  <2>1. /\ \A kind : In(kind, b) => In(kind, list)
        /\ \A kind : kind \notin {"send", "sample"} /\ In(kind, list)
                     => In(kind, b) \/ (e # d + k /\ list[e].kind = kind)
        /\ e # d + k => In(list[e].kind, list)
        /\ k > 0 => In("sample", list)
        /\ OneReset(list) => OneReset(b) /\ (e # d + k /\ list[e].kind = "reset" => ~In("reset", b))
    <3>1. list \in Seq(Items)
      BY DEF QueueTypes
    <3>2. KindsCut(list, d, k, e)
      BY DEF Taken, KindsCut
    <3> QED BY <3>1, <3>2, InCut, Zenon
  <2>2. ~In("sample", list) /\ batch = <<>> => c = <<>>
    <3> SUFFICES ASSUME ~In("sample", list), batch = <<>> PROVE c = <<>>
      OBVIOUS
    <3>1. k = 0
      BY <2>1
    <3>2. SubSeq(list, d + 1, d) = <<>>
      BY DEF QueueTypes
    <3> QED BY <3>1, <3>2
  <2>3. /\ list' = b
        /\ \/ /\ tpc' = "wait" /\ batch' = c /\ hand' = hand /\ special' = special /\ b = <<>> /\ e = d + k
           \/ /\ tpc' = "send" /\ batch' = <<>> /\ hand' = c
              /\ special' = IF e = d + k THEN None ELSE list[e]
    <3>1. e = Len(list) => b = <<>>
      BY DEF QueueTypes
    <3> QED BY <3>1 DEF Taken
  <2> HIDE DEF a, b, c
  <2>4. AllSamples(<<>>)
    BY InEmpty
  <2>5. fpc \notin {"begun", "passing", "flushing"} \/ ~mode.queued
    BY <2>0 DEF ControlInv, FlushTold
  <2>6. hand = <<>> /\ special = None
    BY <2>0 DEF PlaceInv, InHand
  <2>7. /\ In("sample", b) => In("sample", list)
        /\ In("eos", b) => In("eos", list)
        /\ In("reset", b) => In("reset", list)
        /\ In("reset", list) => In("reset", b) \/ (e # d + k /\ list[e].kind = "reset")
        /\ e # d + k => \A kind : list[e].kind = kind => In(kind, list)
    BY <2>1
  <2>8. FlushedMeans'
    BY <2>0, <2>2, <2>3, <2>6, <2>7 DEF ControlInv, FlushedMeans, None, Item
  <2>9. FlushTold'
    BY <2>0, <2>3, <2>5 DEF ControlInv, FlushTold, Skipped, PlaceInv, ByMode, Asked, QueueTypes
  <2>10. ResetTold'
    BY <2>0, <2>1, <2>3, <2>6, <2>7 DEF ControlInv, ResetTold, None, Item
  <2>11. SleepsOver'
    BY <2>3, <2>4 DEF SleepsOver
  <2> QED BY <2>8, <2>9, <2>10, <2>11 DEF ControlInv
<1>4. CASE ThreadWakes
  BY <1>4 DEF ThreadWakes, ControlInv, FlushedMeans, FlushTold, ResetTold, SleepsOver, PlaceInv, ByMode,
      InHand, Counted, Asked, OnlySegment, Unlocked, QueueTypes, Exact, Skipped, None, Item
<1>5. CASE ThreadSends
  BY <1>5 DEF ThreadSends, ControlInv, FlushedMeans, FlushTold, ResetTold, SleepsOver, PlaceInv, ByMode,
      InHand, Counted, Asked, OnlySegment, Unlocked, QueueTypes, Exact, Skipped, None, Item
<1>6. CASE ThreadSent
  BY <1>6 DEF ThreadSent, Downstream, ControlInv, FlushedMeans, FlushTold, ResetTold, SleepsOver, PlaceInv,
      ByMode, InHand, Counted, Asked, OnlySegment, Unlocked, QueueTypes, Exact, Skipped, None, Item
<1>7. CASE ThreadMark
  BY <1>7 DEF ThreadMark, None, Item, ControlInv, FlushedMeans, FlushTold, ResetTold, SleepsOver, PlaceInv,
      ByMode, InHand, Counted, Asked, OnlySegment, Unlocked, QueueTypes, Exact, Skipped, None, Item
<1> QED BY <1>1, <1>2, <1>3, <1>4, <1>5, <1>6, <1>7 DEF ThreadStep

LEMMA ControlSteps ==
  ASSUME QueueTypes, PlaceInv, ControlInv, mode.opt => fpc' # "resetting", ControlStep
  PROVE  ControlInv'
<1>1. CASE BeginFlushQueued
  BY <1>1 DEF BeginFlushQueued, Discard, NotifyThread, ControlInv, FlushedMeans, FlushTold, ResetTold,
      SleepsOver, PlaceInv, ByMode, InHand, Counted, Asked, OnlySegment, Unlocked, QueueTypes, Exact,
      Skipped, None, Item
<1>2. CASE BeginFlushPassed
  BY <1>2 DEF BeginFlushPassed, ControlInv, FlushedMeans, FlushTold, ResetTold, SleepsOver, PlaceInv, ByMode,
      InHand, Counted, Asked, OnlySegment, Unlocked, QueueTypes, Exact, Skipped, None, Item
<1>3. CASE BeginFlushDirect
  BY <1>3 DEF BeginFlushDirect, Discard, ControlInv, FlushedMeans, FlushTold, ResetTold, SleepsOver,
      PlaceInv, ByMode, InHand, Counted, Asked, OnlySegment, Unlocked, QueueTypes, Exact, Skipped, None,
      Item
<1>4. CASE EndFlush
  BY <1>4 DEF EndFlush, ControlInv, FlushedMeans, FlushTold, ResetTold, SleepsOver, PlaceInv, ByMode, InHand,
      Counted, Asked, OnlySegment, Unlocked, QueueTypes, Exact, Skipped, None, Item
<1>5. CASE EndFlushWaited
  <2>1. list = <<>> => ~In("sample", list) /\ ~In("eos", list)
    BY InEmpty
  <2> QED BY <1>5, <2>1 DEF EndFlushWaited, ControlInv, FlushedMeans, FlushTold, ResetTold, SleepsOver,
      PlaceInv, ByMode, InHand, Counted, Asked, OnlySegment, Unlocked, QueueTypes, Exact, Skipped, None,
      Item
<1>6. CASE EndFlushDone
  BY <1>6 DEF EndFlushDone, ControlInv, FlushedMeans, FlushTold, ResetTold, SleepsOver, PlaceInv, ByMode,
      InHand, Counted, Asked, OnlySegment, Unlocked, QueueTypes, Exact, Skipped, None, Item
<1>7. CASE ResetDirect
  BY <1>7 DEF ResetDirect, ControlInv, FlushedMeans, FlushTold, ResetTold, SleepsOver, PlaceInv, ByMode,
      InHand, Counted, Asked, OnlySegment, Unlocked, QueueTypes, Exact, Skipped, None, Item
<1>8. CASE ResetQueued
  <2>1. Control("reset") \in Items /\ list \in Seq(Items) /\ list' = Append(list, Control("reset"))
    BY <1>8, ItemsMade DEF ResetQueued, QueueTypes
  <2>2. /\ \A kind : In(kind, list') <=> In(kind, list) \/ Control("reset").kind = kind
        /\ OneReset(list) /\ (Control("reset").kind = "reset" => ~In("reset", list)) => OneReset(list')
        /\ AllSamples(list') <=> AllSamples(list) /\ Control("reset").kind = "sample"
    BY <2>1, InAppended
  <2>3. /\ In("sample", list') <=> In("sample", list) \/ Control("reset").kind = "sample"
        /\ In("eos", list') <=> In("eos", list) \/ Control("reset").kind = "eos"
        /\ In("reset", list') <=> In("reset", list) \/ Control("reset").kind = "reset"
        /\ list' # <<>>
    BY <2>1, <2>2, Appended
  <2> QED BY <1>8, <2>2, <2>3 DEF ResetQueued, Control, NotifyThread, ControlInv, FlushedMeans, FlushTold,
      ResetTold, SleepsOver, PlaceInv, ByMode, InHand, Counted, Asked, OnlySegment, Unlocked, QueueTypes,
      Exact, Skipped, None, Item
<1>9. CASE ResetWaited
  BY <1>9 DEF ResetWaited, ControlInv, FlushedMeans, FlushTold, ResetTold, SleepsOver, PlaceInv, ByMode,
      InHand, Counted, Asked, OnlySegment, Unlocked, QueueTypes, Exact, Skipped, None, Item
<1>10. CASE Destroy
  BY <1>10 DEF Destroy, NotifyThread, ControlInv, FlushedMeans, FlushTold, ResetTold, SleepsOver, PlaceInv,
      ByMode, InHand, Counted, Asked, OnlySegment, Unlocked, QueueTypes, Exact, Skipped, None, Item
<1>11. CASE Destroyed
  BY <1>11 DEF Destroyed, ControlInv, FlushedMeans, FlushTold, ResetTold, SleepsOver, PlaceInv, ByMode,
      InHand, Counted, Asked, OnlySegment, Unlocked, QueueTypes, Exact, Skipped, None, Item
<1> QED BY <1>1, <1>2, <1>3, <1>4, <1>5, <1>6, <1>7, <1>8, <1>9, <1>10, <1>11 DEF ControlStep

LEMMA ControlKept ==
  ASSUME QueueTypes, PlaceInv, ControlInv, [UsableStep]_deliveryVars
  PROVE  ControlInv'
<1>1. UNCHANGED queueVars => ControlInv'
  BY DEF ControlInv, FlushedMeans, FlushTold, ResetTold, SleepsOver, PlaceInv, ByMode, InHand, Counted,
      Asked, OnlySegment, Unlocked, QueueTypes, Exact, Skipped, None, Item
<1>2. SinkStep => UNCHANGED queueVars
  BY DEF SinkStep, SinkKeeps, SinkReleases
<1>3. UNCHANGED deliveryVars => UNCHANGED queueVars
  BY DEF deliveryVars
<1> QED BY <1>1, <1>2, <1>3, ControlSourceSteps, ControlSendSteps, ControlThreadSteps,
    ControlSteps DEF DeliveryNext, UsableStep

UsableInv == DeliveryInv /\ ControlInv

LEMMA UsableStart == DeliveryInit => UsableInv
<1> SUFFICES ASSUME DeliveryInit PROVE UsableInv
  OBVIOUS
<1>1. ControlInv
  BY InEmpty DEF DeliveryInit, QueueInit, ControlInv, FlushedMeans, FlushTold, ResetTold, SleepsOver,
      Skipped, None, Item
<1> QED BY <1>1, DeliveryStart DEF UsableInv

LEMMA UsableKeeps ==
  ASSUME UsableInv, [UsableStep]_deliveryVars
  PROVE  UsableInv'
<1>1. DeliveryInv /\ ControlInv /\ QueueTypes /\ PlaceInv
  BY DEF UsableInv, DeliveryInv
<1>2. [DeliveryNext]_deliveryVars
  BY DEF UsableStep
<1> QED BY <1>1, <1>2, DeliveryKeeps, ControlKept DEF UsableInv

LEMMA UsableInvariant == UsableSpec => []UsableInv
<1>1. DeliveryInit => UsableInv
  BY UsableStart
<1>2. UsableInv /\ [UsableStep]_deliveryVars => UsableInv'
  BY UsableKeeps
<1> QED BY <1>1, <1>2, PTL DEF UsableSpec

\* When EndFlush passes the flush on nothing accepted before it is left in the queue, its thread or a direct
\* call, however BeginFlush met them (COutputQueue, unless Reset is used while flushing is optimised).
THEOREM FlushLeavesNothing == UsableSpec => []FlushDiscards
<1>1. UsableInv => FlushDiscards
  <2> SUFFICES ASSUME UsableInv, fpc = "leaving"
               PROVE  /\ batch = <<>> /\ hand = <<>> /\ special.kind # "eos" /\ list = <<>>
    BY DEF FlushDiscards
  <2>1. batch = <<>> /\ (mode.queued => tpc = "wait" /\ list = <<>>)
    BY DEF UsableInv, ControlInv, FlushTold
  <2>2. CASE mode.queued
    BY <2>1, <2>2 DEF UsableInv, DeliveryInv, PlaceInv, InHand, None, Item
  <2>3. CASE ~mode.queued
    BY <2>1, <2>3 DEF UsableInv, DeliveryInv, PlaceInv, ByMode, InHand, OnlySegment, Unlocked, None, Item
  <2> QED BY <2>2, <2>3
<1> QED BY <1>1, UsableInvariant, PTL

\* A flush, and Reset and the destructor unless the next filter blocks the thread, never wait for what cannot
\* come: somebody they wait for can always go on (COutputQueue, the same use of it).
THEOREM ControlGoesOn == UsableSpec => []ControlNeverStuck
<1>1. UsableInv => ControlNeverStuck
  <2> SUFFICES ASSUME UsableInv,
                      fpc \in {"locking", "flushing"} \/ (fpc \in {"resetting", "closing"} /\ tpc # "receiving")
               PROVE  ThreadMayRun \/ SenderMayRun \/ ControlMayRun
    BY DEF ControlNeverStuck
  <2>0. QueueTypes /\ PlaceInv /\ ControlInv
    BY DEF UsableInv, DeliveryInv
  <2>1. CASE fpc = "locking"
    <3>1. sinkFlush /\ spc \in {"idle", "sending", "releasing"}
      BY <2>0, <2>1 DEF QueueTypes, ControlInv, FlushTold
    <3> QED BY <2>1, <3>1 DEF Unlocked, ControlMayRun, SenderMayRun
  <2>2. CASE fpc \in {"flushing", "resetting", "closing"}
    <3>1. /\ mode.queued /\ spc = "idle" /\ Unlocked
          /\ tpc \in {"loop", "wait", "freeing", "send", "receiving", "releasing", "ended"}
      BY <2>0, <2>2 DEF QueueTypes, PlaceInv, ByMode, Unlocked
    <3>2. CASE tpc \in {"loop", "freeing", "send", "releasing"}
      BY <3>1, <3>2 DEF ThreadMayRun
    <3>3. CASE tpc = "ended"
      BY <2>0, <2>2, <3>3 DEF PlaceInv, Asked, ControlMayRun, ControlInv, FlushTold
    <3>4. CASE tpc = "receiving"
      BY <2>0, <2>2, <3>1, <3>4 DEF ThreadMayRun, ControlInv, FlushTold
    <3>5. CASE tpc = "wait"
      <4>1. CASE fpc = "flushing"
        BY <2>0, <3>1, <3>5, <4>1 DEF ThreadMayRun, ControlMayRun, ControlInv, FlushTold
      <4>2. CASE fpc = "closing"
        BY <2>0, <3>5, <4>2 DEF ThreadMayRun, PlaceInv, Asked
      <4>3. CASE fpc = "resetting"
        <5>1. evFlush \/ In("reset", list)
          BY <2>0, <3>5, <4>3 DEF ControlInv, ResetTold, PlaceInv, InHand, None, Item
        <5>2. In("reset", list) => ~AllSamples(list)
          BY <2>0, InAt DEF QueueTypes
        <5>3. qSem \in Nat /\ (qSem = 0 => AllSamples(list))
          BY <2>0, <3>5 DEF ControlInv, SleepsOver, PlaceInv, Counted
        <5> QED BY <3>5, <4>3, <5>1, <5>2, <5>3 DEF ThreadMayRun, ControlMayRun
      <4> QED BY <2>2, <4>1, <4>2, <4>3
    <3> QED BY <3>1, <3>2, <3>3, <3>4, <3>5
  <2> QED BY <2>1, <2>2
<1> QED BY <1>1, UsableInvariant, PTL

-----------------------------------------------------------------------------
(* Numbers in line.                                                        *)

\* The marks of a sequence of numbers, and what it is to ascend, by place.
LEMMA MarksAt ==
  ASSUME NEW s \in Seq(Nat)
  PROVE  /\ \A m : m \in Marks(s) <=> m # 0 /\ \E i \in 1 .. Len(s) : s[i] = m
         /\ Ascending(s) <=> \A i, j \in 1 .. Len(s) : i < j /\ s[i] > 0 /\ s[j] > 0 => s[i] < s[j]
         /\ Marks(s) \subseteq Nat \ {0}
<1>1. DOMAIN s = 1 .. Len(s) /\ Len(s) \in Nat /\ \A i \in 1 .. Len(s) : s[i] \in Nat
  OBVIOUS
<1> QED BY <1>1 DEF Marks, Ascending, ToSet

LEMMA NoMarks == Marks(<<>>) = {} /\ Ascending(<<>>) /\ Numbers(<<>>) = <<>> /\ NM(<<>>) = {} /\ Risen(<<>>)
<1>1. Marks(<<>>) = {} /\ Ascending(<<>>)
  BY DEF Marks, Ascending, ToSet
<1>2. Numbers(<<>>) = <<>>
  BY DEF Numbers
<1> QED BY <1>1, <1>2 DEF NM, Risen

LEMMA MarksJoined ==
  ASSUME NEW s \in Seq(Nat), NEW t \in Seq(Nat)
  PROVE  /\ Marks(s \o t) = Marks(s) \cup Marks(t)
         /\ Ascending(s \o t) <=> Ascending(s) /\ Ascending(t) /\ Below(Marks(s), Marks(t))
<1> DEFINE m == s \o t
<1>0. (\A i \in 1 .. Len(s) : s[i] \in Nat) /\ \A i \in 1 .. Len(t) : t[i] \in Nat
  OBVIOUS
<1>1. /\ m \in Seq(Nat) /\ Len(m) = Len(s) + Len(t) /\ Len(s) \in Nat /\ Len(t) \in Nat
      /\ \A i \in 1 .. Len(s) : m[i] = s[i]
      /\ \A i \in 1 .. Len(t) : m[Len(s) + i] = t[i]
  BY Joined
<1> HIDE DEF m
<1>2. /\ \A i \in 1 .. Len(s) : i \in 1 .. Len(m)
      /\ \A i \in 1 .. Len(t) : Len(s) + i \in 1 .. Len(m) /\ \A j \in 1 .. Len(s) : j < Len(s) + i
      /\ \A i, j \in 1 .. Len(t) : i < j <=> Len(s) + i < Len(s) + j
  BY <1>1
<1>3. \A i \in 1 .. Len(m) : i \in 1 .. Len(s) \/ \E j \in 1 .. Len(t) : i = Len(s) + j
  <2> SUFFICES ASSUME NEW i \in 1 .. Len(m), i \notin 1 .. Len(s) PROVE \E j \in 1 .. Len(t) : i = Len(s) + j
    OBVIOUS
  <2>1. i - Len(s) \in 1 .. Len(t) /\ i = Len(s) + (i - Len(s))
    BY <1>1
  <2> QED BY <2>1
<1>4. /\ \A x : x \in Marks(m) <=> x # 0 /\ \E i \in 1 .. Len(m) : m[i] = x
      /\ Ascending(m) <=> \A i, j \in 1 .. Len(m) : i < j /\ m[i] > 0 /\ m[j] > 0 => m[i] < m[j]
  BY <1>1, MarksAt
<1>5. /\ \A x : x \in Marks(s) <=> x # 0 /\ \E i \in 1 .. Len(s) : s[i] = x
      /\ Ascending(s) <=> \A i, j \in 1 .. Len(s) : i < j /\ s[i] > 0 /\ s[j] > 0 => s[i] < s[j]
      /\ \A i \in 1 .. Len(s) : s[i] \in Nat
  BY MarksAt
<1>6. /\ \A x : x \in Marks(t) <=> x # 0 /\ \E i \in 1 .. Len(t) : t[i] = x
      /\ Ascending(t) <=> \A i, j \in 1 .. Len(t) : i < j /\ t[i] > 0 /\ t[j] > 0 => t[i] < t[j]
      /\ \A i \in 1 .. Len(t) : t[i] \in Nat
  BY MarksAt
<1>7. ASSUME NEW x PROVE x \in Marks(m) <=> x \in Marks(s) \cup Marks(t)
  <2>1. ASSUME x \in Marks(s) PROVE x \in Marks(m)
    <3> PICK i \in 1 .. Len(s) : s[i] = x /\ x # 0
      BY <1>5, <2>1, Zenon
    <3>1. i \in 1 .. Len(m) /\ m[i] = x
      BY <1>1, <1>2
    <3> QED BY <1>4, <3>1, Zenon
  <2>2. ASSUME x \in Marks(t) PROVE x \in Marks(m)
    <3> PICK i \in 1 .. Len(t) : t[i] = x /\ x # 0
      BY <1>6, <2>2, Zenon
    <3>1. Len(s) + i \in 1 .. Len(m) /\ m[Len(s) + i] = x
      BY <1>1, <1>2
    <3> QED BY <1>4, <3>1, Zenon
  <2>3. ASSUME x \in Marks(m) PROVE x \in Marks(s) \cup Marks(t)
    <3> PICK i \in 1 .. Len(m) : m[i] = x /\ x # 0
      BY <1>4, <2>3, Zenon
    <3>1. CASE i \in 1 .. Len(s)
      <4>1. s[i] = x
        BY <1>1, <3>1
      <4> QED BY <1>5, <3>1, <4>1, Zenon
    <3>2. ASSUME NEW j \in 1 .. Len(t), i = Len(s) + j PROVE x \in Marks(t)
      <4>1. t[j] = x
        BY <1>1, <3>2
      <4> QED BY <1>6, <4>1, Zenon
    <3> QED BY <1>3, <3>1, <3>2
  <2> QED BY <2>1, <2>2, <2>3
<1>8. ASSUME Ascending(m) PROVE Ascending(s) /\ Ascending(t) /\ Below(Marks(s), Marks(t))
  <2>0. \A i, j \in 1 .. Len(m) : i < j /\ m[i] > 0 /\ m[j] > 0 => m[i] < m[j]
    BY <1>4, <1>8, Zenon
  <2>1. Ascending(s)
    BY <1>1, <1>2, <1>5, <2>0
  <2>2. Ascending(t)
    <3> SUFFICES ASSUME NEW i \in 1 .. Len(t), NEW j \in 1 .. Len(t), i < j, t[i] > 0, t[j] > 0 PROVE t[i] < t[j]
      BY <1>6
    <3>1. Len(s) + i \in 1 .. Len(m) /\ Len(s) + j \in 1 .. Len(m) /\ Len(s) + i < Len(s) + j
      BY <1>2
    <3>2. m[Len(s) + i] = t[i] /\ m[Len(s) + j] = t[j]
      BY <1>1
    <3> QED BY <2>0, <3>1, <3>2
  <2>3. ASSUME NEW x \in Marks(s), NEW y \in Marks(t) PROVE x < y
    <3> PICK i \in 1 .. Len(s) : s[i] = x /\ x # 0
      BY <1>5, Zenon
    <3> PICK j \in 1 .. Len(t) : t[j] = y /\ y # 0
      BY <1>6, Zenon
    <3>1. i \in 1 .. Len(m) /\ Len(s) + j \in 1 .. Len(m) /\ i < Len(s) + j
      BY <1>2
    <3>2. m[i] = x /\ m[Len(s) + j] = y
      BY <1>1
    <3>3. x \in Nat /\ y \in Nat /\ x > 0 /\ y > 0
      <4>1. s[i] \in Nat /\ t[j] \in Nat
        OBVIOUS
      <4> QED BY <4>1
    <3> QED BY <2>0, <3>1, <3>2, <3>3
  <2> QED BY <2>1, <2>2, <2>3 DEF Below
<1>9. ASSUME Ascending(s), Ascending(t), Below(Marks(s), Marks(t)) PROVE Ascending(m)
  <2> SUFFICES ASSUME NEW i \in 1 .. Len(m), NEW j \in 1 .. Len(m), i < j, m[i] > 0, m[j] > 0 PROVE m[i] < m[j]
    BY <1>4
  <2>1. CASE i \in 1 .. Len(s) /\ j \in 1 .. Len(s)
    BY <1>1, <1>5, <1>9, <2>1
  <2>2. ASSUME i \in 1 .. Len(s), NEW q \in 1 .. Len(t), j = Len(s) + q PROVE m[i] < m[j]
    <3>1. m[i] = s[i] /\ m[j] = t[q] /\ s[i] # 0 /\ t[q] # 0
      <4>1. m[i] = s[i] /\ m[j] = t[q]
        BY <1>1, <2>2
      <4>2. s[i] \in Nat /\ t[q] \in Nat
        BY <1>0, <2>2, Zenon
      <4> QED BY <4>1, <4>2
    <3>2. s[i] \in Marks(s) /\ t[q] \in Marks(t)
      BY <1>5, <1>6, <2>2, <3>1, Zenon
    <3> QED BY <1>9, <3>1, <3>2 DEF Below
  <2>3. ASSUME NEW q \in 1 .. Len(t), i = Len(s) + q, j \in 1 .. Len(s) PROVE FALSE
    BY <1>1, <1>2, <2>3
  <2>4. ASSUME NEW p \in 1 .. Len(t), NEW q \in 1 .. Len(t), i = Len(s) + p, j = Len(s) + q PROVE m[i] < m[j]
    <3>1. p < q /\ m[i] = t[p] /\ m[j] = t[q]
      BY <1>1, <1>2, <2>4
    <3> QED BY <1>6, <1>9, <3>1
  <2> QED BY <1>3, <2>1, <2>2, <2>3, <2>4
<1>10. Marks(m) = Marks(s) \cup Marks(t)
  BY <1>7
<1> QED BY <1>8, <1>9, <1>10 DEF m

\* One number.
LEMMA MarksOne ==
  ASSUME NEW n \in Nat
  PROVE  <<n>> \in Seq(Nat) /\ Marks(<<n>>) = {n} \ {0} /\ Ascending(<<n>>)
<1>1. <<n>> \in Seq(Nat) /\ DOMAIN <<n>> = {1} /\ <<n>>[1] = n
  OBVIOUS
<1> QED BY <1>1 DEF Marks, Ascending, ToSet

LEMMA MarksAppended ==
  ASSUME NEW s \in Seq(Nat), NEW n \in Nat
  PROVE  /\ Marks(Append(s, n)) = Marks(s) \cup ({n} \ {0})
         /\ Ascending(Append(s, n)) <=> Ascending(s) /\ Below(Marks(s), {n} \ {0})
<1> DEFINE o == <<n>>
<1>1. o \in Seq(Nat) /\ Marks(o) = {n} \ {0} /\ Ascending(o) /\ Append(s, n) = s \o o
  BY MarksOne
<1> HIDE DEF o
<1>2. /\ Marks(s \o o) = Marks(s) \cup Marks(o)
      /\ Ascending(s \o o) <=> Ascending(s) /\ Ascending(o) /\ Below(Marks(s), Marks(o))
  BY <1>1, MarksJoined
<1> QED BY <1>1, <1>2, Zenon

\* The numbers of items put together.
LEMMA NumbersJoined ==
  ASSUME NEW a \in Seq(Items), NEW b \in Seq(Items)
  PROVE  Numbers(a \o b) = Numbers(a) \o Numbers(b)
<1> DEFINE m == a \o b
           u == Numbers(a)
           v == Numbers(b)
           w == Numbers(m)
           z == u \o v
<1>1. /\ m \in Seq(Items) /\ Len(m) = Len(a) + Len(b) /\ Len(a) \in Nat /\ Len(b) \in Nat
      /\ \A i \in 1 .. Len(a) : m[i] = a[i]
      /\ \A i \in 1 .. Len(b) : m[Len(a) + i] = b[i]
  BY Joined
<1>2. u \in Seq(Nat) /\ Len(u) = Len(a) /\ \A i \in 1 .. Len(a) : u[i] = a[i].n
  BY NumbersOf
<1>3. v \in Seq(Nat) /\ Len(v) = Len(b) /\ \A i \in 1 .. Len(b) : v[i] = b[i].n
  BY NumbersOf
<1> HIDE DEF m, u, v
<1>4. w \in Seq(Nat) /\ Len(w) = Len(m) /\ \A i \in 1 .. Len(m) : w[i] = m[i].n
  BY <1>1, NumbersOf
<1>5. /\ z \in Seq(Nat) /\ Len(z) = Len(u) + Len(v)
      /\ \A i \in 1 .. Len(u) : z[i] = u[i]
      /\ \A i \in 1 .. Len(v) : z[Len(u) + i] = v[i]
  <2>1. u \in Seq(Nat) /\ v \in Seq(Nat)
    BY <1>2, <1>3
  <2> QED BY <2>1, Joined
<1> HIDE DEF w, z
<1>6. ASSUME NEW i \in 1 .. Len(m) PROVE w[i] = z[i]
  <2>1. CASE i \in 1 .. Len(a)
    <3>1. m[i] = a[i] /\ w[i] = m[i].n
      BY <1>1, <1>4, <2>1
    <3>2. z[i] = u[i] /\ u[i] = a[i].n
      BY <1>2, <1>5, <2>1
    <3> QED BY <3>1, <3>2
  <2>2. CASE i \notin 1 .. Len(a)
    <3>1. i - Len(a) \in 1 .. Len(b) /\ Len(a) + (i - Len(a)) = i
      BY <1>1, <2>2
    <3> PICK j \in 1 .. Len(b) : i = Len(a) + j
      BY <3>1
    <3>2. m[i] = b[j] /\ w[i] = m[i].n
      BY <1>1, <1>4
    <3>3. z[i] = v[j] /\ v[j] = b[j].n
      BY <1>2, <1>3, <1>5
    <3> QED BY <3>2, <3>3
  <2> QED BY <2>1, <2>2
<1>7. Len(w) = Len(z) /\ Len(w) = Len(m)
  BY <1>1, <1>2, <1>3, <1>4, <1>5
<1>8. w = [i \in 1 .. Len(w) |-> w[i]] /\ z = [i \in 1 .. Len(z) |-> z[i]]
  BY <1>4, <1>5
<1>9. w = z
  BY <1>6, <1>7, <1>8
<1> QED BY <1>9 DEF w, z, m, u, v

LEMMA NumbersOne ==
  ASSUME NEW x \in Items
  PROVE  Numbers(<<x>>) = <<x.n>> /\ <<x>> \in Seq(Items) /\ NM(<<x>>) = Own(x) /\ Risen(<<x>>) /\ x.n \in Nat
<1>1. x.n \in Nat
  BY ItemFields
<1>2. Numbers(<<x>>) = <<x.n>> /\ <<x>> \in Seq(Items)
  BY DEF Numbers
<1> QED BY <1>1, <1>2, MarksOne DEF NM, Risen, Own

LEMMA RisenJoined ==
  ASSUME NEW a \in Seq(Items), NEW b \in Seq(Items)
  PROVE  /\ NM(a \o b) = NM(a) \cup NM(b)
         /\ Risen(a \o b) <=> Risen(a) /\ Risen(b) /\ Below(NM(a), NM(b))
<1> DEFINE u == Numbers(a)
           v == Numbers(b)
<1>1. u \in Seq(Nat) /\ v \in Seq(Nat) /\ Numbers(a \o b) = u \o v
  BY NumbersOf, NumbersJoined
<1> HIDE DEF u, v
<1>2. /\ Marks(u \o v) = Marks(u) \cup Marks(v)
      /\ Ascending(u \o v) <=> Ascending(u) /\ Ascending(v) /\ Below(Marks(u), Marks(v))
  BY <1>1, MarksJoined
<1> QED BY <1>1, <1>2 DEF NM, Risen, u, v

LEMMA RisenAppended ==
  ASSUME NEW l \in Seq(Items), NEW x \in Items
  PROVE  /\ NM(Append(l, x)) = NM(l) \cup Own(x)
         /\ Risen(Append(l, x)) <=> Risen(l) /\ Below(NM(l), Own(x))
<1> DEFINE o == <<x>>
<1>1. o \in Seq(Items) /\ NM(o) = Own(x) /\ Risen(o) /\ Append(l, x) = l \o o
  BY NumbersOne
<1> HIDE DEF o
<1> QED BY <1>1, RisenJoined

LEMMA RisenHeadOff ==
  ASSUME NEW l \in Seq(Items), l # <<>>
  PROVE  NM(Tail(l)) \subseteq NM(l) /\ (Risen(l) => Risen(Tail(l)))
<1> DEFINE o == <<Head(l)>>
           t == Tail(l)
<1>1. t \in Seq(Items) /\ Head(l) \in Items
  BY HeadOff
<1>2. o \in Seq(Items) /\ l = o \o t
  BY <1>1, NumbersOne, SplitOff
<1> HIDE DEF o, t
<1>3. /\ NM(o \o t) = NM(o) \cup NM(t)
      /\ Risen(o \o t) <=> Risen(o) /\ Risen(t) /\ Below(NM(o), NM(t))
  BY <1>1, <1>2, RisenJoined
<1>4. NM(t) \subseteq NM(l) /\ (Risen(l) => Risen(t))
  BY <1>2, <1>3
<1> QED BY <1>4 DEF t

\* Everything that was accepted, in line.
LEMMA InLine ==
  ASSUME NEW s \in Seq(Nat), NEW b \in Seq(Items), NEW x \in Items, NEW d \in Seq(Items), NEW l \in Seq(Items)
  PROVE  LET w == Numbers(b) \o Numbers(<<x>> \o d \o l)
         IN /\ Ascending(s \o w) <=> Lined(s, b, x, d, l)
            /\ Marks(s \o w) = Every(s, b, x, d, l)
            /\ Marks(w) = NM(b) \cup Own(x) \cup NM(d) \cup NM(l)
<1> DEFINE o == <<x>>
           e == o \o d
           f == e \o l
           u == Numbers(b)
           v == Numbers(f)
           w == u \o v
<1>1. o \in Seq(Items) /\ NM(o) = Own(x) /\ Risen(o)
  BY NumbersOne
<1> HIDE DEF o
<1>2. /\ NM(e) = Own(x) \cup NM(d) /\ e \in Seq(Items)
      /\ Risen(e) <=> Risen(d) /\ Below(Own(x), NM(d))
  BY <1>1, RisenJoined, Joined
<1> HIDE DEF e
<1>3. /\ NM(f) = NM(e) \cup NM(l) /\ f \in Seq(Items)
      /\ Risen(f) <=> Risen(e) /\ Risen(l) /\ Below(NM(e), NM(l))
  BY <1>2, RisenJoined, Joined
<1> HIDE DEF f
<1>4. u \in Seq(Nat) /\ v \in Seq(Nat) /\ Marks(u) = NM(b) /\ Marks(v) = NM(f)
      /\ (Ascending(u) <=> Risen(b)) /\ (Ascending(v) <=> Risen(f))
  BY <1>3, NumbersOf DEF NM, Risen
<1> HIDE DEF u, v
<1>5. /\ Marks(w) = Marks(u) \cup Marks(v) /\ w \in Seq(Nat)
      /\ Ascending(w) <=> Ascending(u) /\ Ascending(v) /\ Below(Marks(u), Marks(v))
  BY <1>4, MarksJoined, Joined
<1> HIDE DEF w
<1>6. /\ Marks(s \o w) = Marks(s) \cup Marks(w)
      /\ Ascending(s \o w) <=> Ascending(s) /\ Ascending(w) /\ Below(Marks(s), Marks(w))
  BY <1>5, MarksJoined
<1>7. \A P, Q, R : Below(P \cup Q, R) <=> Below(P, R) /\ Below(Q, R)
  BY DEF Below
<1>8. \A P, Q, R : Below(P, Q \cup R) <=> Below(P, Q) /\ Below(P, R)
  BY DEF Below
<1>9. Marks(w) = NM(b) \cup Own(x) \cup NM(d) \cup NM(l) /\ Marks(s \o w) = Every(s, b, x, d, l)
  BY <1>2, <1>3, <1>4, <1>5, <1>6 DEF Every
<1>10. Below(NM(e), NM(l)) <=> Below(Own(x), NM(l)) /\ Below(NM(d), NM(l))
  BY <1>2, <1>7
<1>11. Below(Marks(u), Marks(v)) <=> Below(NM(b), Own(x)) /\ Below(NM(b), NM(d)) /\ Below(NM(b), NM(l))
  <2>1. Marks(u) = NM(b) /\ Marks(v) = Own(x) \cup NM(d) \cup NM(l)
    BY <1>2, <1>3, <1>4
  <2>2. Below(NM(b), Own(x) \cup NM(d) \cup NM(l)) <=> Below(NM(b), Own(x) \cup NM(d)) /\ Below(NM(b), NM(l))
    BY <1>8
  <2>3. Below(NM(b), Own(x) \cup NM(d)) <=> Below(NM(b), Own(x)) /\ Below(NM(b), NM(d))
    BY <1>8
  <2> QED BY <2>1, <2>2, <2>3
<1>12. Below(Marks(s), Marks(w)) <=> /\ Below(Marks(s), NM(b)) /\ Below(Marks(s), Own(x))
                                     /\ Below(Marks(s), NM(d)) /\ Below(Marks(s), NM(l))
  <2> DEFINE f1 == NM(b) \cup Own(x)
             f2 == f1 \cup NM(d)
  <2>1. Marks(w) = f2 \cup NM(l)
    BY <1>9
  <2>2. Below(Marks(s), f2 \cup NM(l)) <=> Below(Marks(s), f2) /\ Below(Marks(s), NM(l))
    BY <1>8
  <2>3. Below(Marks(s), f2) <=> Below(Marks(s), f1) /\ Below(Marks(s), NM(d))
    BY <1>8
  <2>4. Below(Marks(s), f1) <=> Below(Marks(s), NM(b)) /\ Below(Marks(s), Own(x))
    BY <1>8
  <2> HIDE DEF f1, f2
  <2> QED BY <2>1, <2>2, <2>3, <2>4
<1>13. Ascending(s \o w) <=> Lined(s, b, x, d, l)
  BY <1>2, <1>3, <1>4, <1>5, <1>6, <1>10, <1>11, <1>12 DEF Lined
<1> QED BY <1>9, <1>13 DEF w, u, v, f, e, o

\* The numbers of items, by place.
LEMMA RisenAt ==
  ASSUME NEW l \in Seq(Items)
  PROVE  /\ \A m : m \in NM(l) <=> m # 0 /\ \E i \in 1 .. Len(l) : l[i].n = m
         /\ Risen(l) <=> \A i, j \in 1 .. Len(l) : i < j /\ l[i].n > 0 /\ l[j].n > 0 => l[i].n < l[j].n
         /\ \A i \in 1 .. Len(l) : l[i].n \in Nat
<1> DEFINE s == Numbers(l)
<1>1. s \in Seq(Nat) /\ Len(s) = Len(l) /\ \A i \in 1 .. Len(l) : s[i] = l[i].n /\ s[i] \in Nat
  <2>1. s \in Seq(Nat) /\ Len(s) = Len(l) /\ \A i \in 1 .. Len(l) : s[i] = l[i].n
    BY NumbersOf
  <2> HIDE DEF s
  <2> QED BY <2>1
<1> HIDE DEF s
<1>2. /\ \A m : m \in Marks(s) <=> m # 0 /\ \E i \in 1 .. Len(s) : s[i] = m
      /\ Ascending(s) <=> \A i, j \in 1 .. Len(s) : i < j /\ s[i] > 0 /\ s[j] > 0 => s[i] < s[j]
  BY <1>1, MarksAt
<1>3. \A m : (\E i \in 1 .. Len(s) : s[i] = m) <=> \E i \in 1 .. Len(l) : l[i].n = m
  BY <1>1
<1>4. (\A i, j \in 1 .. Len(s) : i < j /\ s[i] > 0 /\ s[j] > 0 => s[i] < s[j])
        <=> \A i, j \in 1 .. Len(l) : i < j /\ l[i].n > 0 /\ l[j].n > 0 => l[i].n < l[j].n
  BY <1>1
<1>5. \A i \in 1 .. Len(l) : l[i].n \in Nat
  BY <1>1
<1>6. NM(l) = Marks(s) /\ (Risen(l) <=> Ascending(s))
  BY DEF NM, Risen, s
<1>7. \A m : m \in NM(l) <=> m # 0 /\ \E i \in 1 .. Len(l) : l[i].n = m
  BY <1>2, <1>3, <1>6, Zenon
<1>8. Risen(l) <=> \A i, j \in 1 .. Len(l) : i < j /\ l[i].n > 0 /\ l[j].n > 0 => l[i].n < l[j].n
  BY <1>2, <1>4, <1>6, Zenon
<1> QED BY <1>5, <1>7, <1>8

\* d requests are skipped, k items taken, and what then stands at e, if that is one further.
CutOut(l, d, k, e) == e \in {d + k, d + k + 1} /\ \A i \in 1 .. d : l[i].n = 0

\* What taking samples and a packet leaves, in line.
LEMMA RisenCut ==
  ASSUME NEW l \in Seq(Items), NEW d \in 0 .. Len(l), NEW k \in Nat, NEW e \in 0 .. Len(l),
         CutOut(l, d, k, e)
  PROVE  LET a == SubSeq(l, d + 1, d + k)
             b == SubSeq(l, e + 1, Len(l))
         IN /\ NM(l) = NM(a) \cup NM(b) \cup (IF e = d + k THEN {} ELSE Own(l[e]))
            /\ Risen(l) => /\ Risen(a) /\ Risen(b) /\ Below(NM(a), NM(b))
                           /\ e # d + k => Below(NM(a), Own(l[e])) /\ Below(Own(l[e]), NM(b))
<1> DEFINE a == SubSeq(l, d + 1, d + k)
           b == SubSeq(l, e + 1, Len(l))
<1> USE DEF CutOut
<1>1. Len(l) \in Nat /\ d \in Nat /\ e \in Nat /\ d + k <= Len(l) /\ d + k <= e
  OBVIOUS
<1>2. /\ a \in Seq(Items) /\ Len(a) = k
      /\ \A i \in 1 .. k : a[i] = l[d + i] /\ d + i \in 1 .. Len(l)
  BY <1>1, Piece, Zenon
<1>3. /\ b \in Seq(Items) /\ Len(b) = Len(l) - e
      /\ \A i \in 1 .. Len(l) - e : b[i] = l[e + i] /\ e + i \in 1 .. Len(l)
  BY <1>1, RestOf, Zenon
<1> HIDE DEF a, b
<1>4. /\ \A m : m \in NM(l) <=> m # 0 /\ \E i \in 1 .. Len(l) : l[i].n = m
      /\ Risen(l) <=> \A i, j \in 1 .. Len(l) : i < j /\ l[i].n > 0 /\ l[j].n > 0 => l[i].n < l[j].n
      /\ \A i \in 1 .. Len(l) : l[i].n \in Nat
  BY RisenAt
<1>5. /\ \A m : m \in NM(a) <=> m # 0 /\ \E i \in 1 .. Len(a) : a[i].n = m
      /\ Risen(a) <=> \A i, j \in 1 .. Len(a) : i < j /\ a[i].n > 0 /\ a[j].n > 0 => a[i].n < a[j].n
  BY <1>2, RisenAt
<1>6. /\ \A m : m \in NM(b) <=> m # 0 /\ \E i \in 1 .. Len(b) : b[i].n = m
      /\ Risen(b) <=> \A i, j \in 1 .. Len(b) : i < j /\ b[i].n > 0 /\ b[j].n > 0 => b[i].n < b[j].n
  BY <1>3, RisenAt
<1>7. /\ \A i \in 1 .. Len(a) : a[i].n = l[d + i].n /\ d + i \in 1 .. Len(l)
      /\ \A i \in 1 .. Len(b) : b[i].n = l[e + i].n /\ e + i \in 1 .. Len(l)
      /\ \A i, j \in 1 .. Len(a) : i < j => d + i < d + j
      /\ \A i, j \in 1 .. Len(b) : i < j => e + i < e + j
      /\ \A i \in 1 .. Len(a), j \in 1 .. Len(b) : d + i < e + j
      /\ e # d + k => e \in 1 .. Len(l) /\ (\A i \in 1 .. Len(a) : d + i < e) /\ \A i \in 1 .. Len(b) : e < e + i
  BY <1>1, <1>2, <1>3
<1>8. ASSUME NEW m \in NM(a) PROVE m # 0 /\ \E i \in 1 .. Len(a) : l[d + i].n = m
  BY <1>5, <1>7
<1>9. ASSUME NEW m \in NM(b) PROVE m # 0 /\ \E i \in 1 .. Len(b) : l[e + i].n = m
  BY <1>6, <1>7
<1>10. ASSUME NEW m PROVE m \in NM(l) <=> m \in NM(a) \cup NM(b) \cup (IF e = d + k THEN {} ELSE Own(l[e]))
  <2>1. ASSUME m \in NM(a) PROVE m \in NM(l)
    BY <1>4, <1>7, <1>8, <2>1
  <2>2. ASSUME m \in NM(b) PROVE m \in NM(l)
    BY <1>4, <1>7, <1>9, <2>2
  <2>3. ASSUME e # d + k, m \in Own(l[e]) PROVE m \in NM(l)
    BY <1>4, <1>7, <2>3 DEF Own
  <2>4. ASSUME m \in NM(l) PROVE m \in NM(a) \cup NM(b) \cup (IF e = d + k THEN {} ELSE Own(l[e]))
    <3> PICK i \in 1 .. Len(l) : l[i].n = m /\ m # 0
      BY <1>4, <2>4, Zenon
    <3>1. i \notin 1 .. d
      OBVIOUS
    <3>2. CASE i <= d + k
      <4>1. i - d \in 1 .. Len(a) /\ d + (i - d) = i
        BY <1>1, <1>2, <3>1, <3>2
      <4>2. a[i - d].n = m
        BY <1>7, <4>1
      <4> QED BY <1>5, <4>1, <4>2
    <3>3. CASE i = e /\ e # d + k
      BY <3>3 DEF Own
    <3>4. CASE i > e
      <4>1. i - e \in 1 .. Len(b) /\ e + (i - e) = i
        <5>1. Len(b) = Len(l) - e
          BY <1>3
        <5> QED BY <1>1, <3>4, <5>1
      <4>2. b[i - e].n = m
        BY <1>7, <4>1
      <4> QED BY <1>6, <4>1, <4>2
    <3>5. i <= d + k \/ (i = e /\ e # d + k) \/ i > e
      BY <1>1
    <3> QED BY <3>2, <3>3, <3>4, <3>5
  <2> QED BY <2>1, <2>2, <2>3, <2>4
<1>11. ASSUME Risen(l)
       PROVE  /\ Risen(a) /\ Risen(b) /\ Below(NM(a), NM(b))
              /\ e # d + k => Below(NM(a), Own(l[e])) /\ Below(Own(l[e]), NM(b))
  <2>0. \A i, j \in 1 .. Len(l) : i < j /\ l[i].n # 0 /\ l[j].n # 0 => l[i].n < l[j].n
    BY <1>4, <1>11
  <2>1. Risen(a)
    <3> SUFFICES ASSUME NEW i \in 1 .. Len(a), NEW j \in 1 .. Len(a), i < j, a[i].n > 0, a[j].n > 0
                 PROVE  a[i].n < a[j].n
      BY <1>5
    <3>1. /\ d + i \in 1 .. Len(l) /\ a[i].n = l[d + i].n
          /\ d + j \in 1 .. Len(l) /\ a[j].n = l[d + j].n /\ d + i < d + j
      BY <1>7
    <3>2. a[i].n # 0 /\ a[j].n # 0
      OBVIOUS
    <3>3. l[d + i].n # 0 /\ l[d + j].n # 0
      BY <3>1, <3>2, Zenon
    <3> QED BY <2>0, <3>1, <3>3
  <2>2. Risen(b)
    <3> SUFFICES ASSUME NEW i \in 1 .. Len(b), NEW j \in 1 .. Len(b), i < j, b[i].n > 0, b[j].n > 0
                 PROVE  b[i].n < b[j].n
      BY <1>6
    <3>1. /\ e + i \in 1 .. Len(l) /\ b[i].n = l[e + i].n
          /\ e + j \in 1 .. Len(l) /\ b[j].n = l[e + j].n /\ e + i < e + j
      BY <1>7
    <3>2. b[i].n # 0 /\ b[j].n # 0
      OBVIOUS
    <3>3. l[e + i].n # 0 /\ l[e + j].n # 0
      BY <3>1, <3>2, Zenon
    <3> QED BY <2>0, <3>1, <3>3
  <2>3. ASSUME NEW x \in NM(a), NEW y \in NM(b) PROVE x < y
    <3> PICK i \in 1 .. Len(a) : l[d + i].n = x /\ x # 0
      BY <1>8
    <3> PICK j \in 1 .. Len(b) : l[e + j].n = y /\ y # 0
      BY <1>9
    <3>1. d + i \in 1 .. Len(l) /\ e + j \in 1 .. Len(l) /\ d + i < e + j
      BY <1>7
    <3> QED BY <2>0, <3>1
  <2>4. ASSUME e # d + k, NEW x \in NM(a), NEW y \in Own(l[e]) PROVE x < y
    <3> PICK i \in 1 .. Len(a) : l[d + i].n = x /\ x # 0
      BY <1>8
    <3>1. d + i \in 1 .. Len(l) /\ e \in 1 .. Len(l) /\ d + i < e /\ l[e].n = y /\ y # 0
      BY <1>7, <2>4 DEF Own
    <3> QED BY <2>0, <3>1
  <2>5. ASSUME e # d + k, NEW x \in Own(l[e]), NEW y \in NM(b) PROVE x < y
    <3> PICK j \in 1 .. Len(b) : l[e + j].n = y /\ y # 0
      BY <1>9
    <3>1. e + j \in 1 .. Len(l) /\ e \in 1 .. Len(l) /\ e < e + j /\ l[e].n = x /\ x # 0
      BY <1>7, <2>5 DEF Own
    <3> QED BY <2>0, <3>1
  <2> QED BY <2>1, <2>2, <2>3, <2>4, <2>5 DEF Below
<1> HIDE DEF Own
<1>12. NM(l) = NM(a) \cup NM(b) \cup (IF e = d + k THEN {} ELSE Own(l[e]))
  BY <1>10
<1> QED BY <1>11, <1>12 DEF a, b

-----------------------------------------------------------------------------
(* What steps do to the line.                                              *)

LEMMA EveryNat ==
  ASSUME NEW s \in Seq(Nat), NEW b \in Seq(Items), NEW x \in Items, NEW d \in Seq(Items), NEW l \in Seq(Items)
  PROVE  Every(s, b, x, d, l) \subseteq Nat \ {0}
<1>1. \A m \in Seq(Items) : Numbers(m) \in Seq(Nat)
  BY NumbersOf
<1>2. x.n \in Nat
  BY ItemFields
<1> QED BY <1>1, <1>2, MarksAt DEF Every, NM, Own

\* The item y is the next one after n, or has no number.
MayFollow(s, b, x, d, l, n, y) ==
  Lined(s, b, x, d, l) /\ (\A m \in Every(s, b, x, d, l) : m <= n) /\ y.n \in {0, n + 1}

\* A new item goes behind everything; one without a number changes nothing.
LEMMA LineAccepts ==
  ASSUME NEW s \in Seq(Nat), NEW b \in Seq(Items), NEW x \in Items, NEW d \in Seq(Items), NEW l \in Seq(Items),
         NEW n \in Nat, NEW y \in Items, MayFollow(s, b, x, d, l, n, y)
  PROVE  /\ Lined(s, b, x, d, Append(l, y))
         /\ Every(s, b, x, d, Append(l, y)) = Every(s, b, x, d, l) \cup Own(y)
<1>0. Lined(s, b, x, d, l) /\ (\A m \in Every(s, b, x, d, l) : m <= n) /\ y.n \in {0, n + 1}
  BY DEF MayFollow
<1>1. /\ NM(Append(l, y)) = NM(l) \cup Own(y)
      /\ Risen(Append(l, y)) <=> Risen(l) /\ Below(NM(l), Own(y))
  BY RisenAppended
<1>2. \A m \in Every(s, b, x, d, l) : m \in Nat /\ m < n + 1
  BY <1>0, EveryNat
<1>3. \A S \in SUBSET Every(s, b, x, d, l) : Below(S, Own(y))
  BY <1>0, <1>2 DEF Below, Own
<1>4. /\ Below(Marks(s), Own(y)) /\ Below(NM(b), Own(y)) /\ Below(Own(x), Own(y))
      /\ Below(NM(d), Own(y)) /\ Below(NM(l), Own(y))
  BY <1>3 DEF Every
<1>5. \A P, Q, R : Below(P, Q \cup R) <=> Below(P, Q) /\ Below(P, R)
  BY DEF Below
<1>6. Every(s, b, x, d, Append(l, y)) = Every(s, b, x, d, l) \cup Own(y)
  BY <1>1 DEF Every
<1>7. Lined(s, b, x, d, Append(l, y))
  BY <1>0, <1>1, <1>4, <1>5 DEF Lined
<1> QED BY <1>6, <1>7

\* The same for the batch, with nothing behind it.
LEMMA BatchAccepts ==
  ASSUME NEW s \in Seq(Nat), NEW d \in Seq(Items), Lined(s, <<>>, None, d, <<>>),
         NEW n \in Nat, \A m \in Every(s, <<>>, None, d, <<>>) : m <= n, NEW y \in Items, y.n = n + 1
  PROVE  /\ Lined(s, <<>>, None, Append(d, y), <<>>) /\ Lined(s, Append(d, y), None, <<>>, <<>>)
         /\ Lined(s, d, y, <<>>, <<>>)
         /\ Every(s, <<>>, None, Append(d, y), <<>>) = Every(s, <<>>, None, d, <<>>) \cup {n + 1}
         /\ Every(s, Append(d, y), None, <<>>, <<>>) = Every(s, <<>>, None, d, <<>>) \cup {n + 1}
         /\ Every(s, d, y, <<>>, <<>>) = Every(s, <<>>, None, d, <<>>) \cup {n + 1}
<1>1. /\ NM(Append(d, y)) = NM(d) \cup Own(y)
      /\ Risen(Append(d, y)) <=> Risen(d) /\ Below(NM(d), Own(y))
  BY RisenAppended
<1>2. None \in Items /\ <<>> \in Seq(Items)
  BY ItemsMade
<1>3. \A m \in Every(s, <<>>, None, d, <<>>) : m \in Nat /\ m < n + 1
  <2> DEFINE all == Every(s, <<>>, None, d, <<>>)
  <2>1. all \subseteq Nat \ {0}
    BY <1>2, EveryNat, Zenon
  <2>2. \A m \in all : m <= n
    OBVIOUS
  <2> HIDE DEF all
  <2>3. \A m \in all : m \in Nat /\ m < n + 1
    BY <2>1, <2>2
  <2> QED BY <2>3 DEF all
<1>4. Own(None) = {} /\ NM(<<>>) = {} /\ Risen(<<>>) /\ Own(y) = {n + 1}
  BY NoMarks DEF None, Item, Own
<1>5. Every(s, <<>>, None, d, <<>>) = Marks(s) \cup NM(d)
  BY <1>4 DEF Every
<1>6. Below(Marks(s), Own(y)) /\ Below(NM(d), Own(y))
  BY <1>3, <1>4, <1>5 DEF Below
<1>7. \A P : Below(P, {}) /\ Below({}, P)
  BY DEF Below
<1>8. \A P, Q, R : Below(P, Q \cup R) <=> Below(P, Q) /\ Below(P, R)
  BY DEF Below
<1>9. Ascending(s) /\ Risen(d) /\ Below(Marks(s), NM(d))
  BY DEF Lined
<1>10. Below(Marks(s), NM(d) \cup Own(y)) /\ Risen(Append(d, y))
  BY <1>1, <1>6, <1>8, <1>9
<1>11. /\ Lined(s, <<>>, None, Append(d, y), <<>>) /\ Lined(s, Append(d, y), None, <<>>, <<>>)
       /\ Lined(s, d, y, <<>>, <<>>)
  BY <1>1, <1>4, <1>6, <1>7, <1>9, <1>10 DEF Lined
<1>12. /\ Every(s, <<>>, None, Append(d, y), <<>>) = Marks(s) \cup NM(d) \cup {n + 1}
       /\ Every(s, Append(d, y), None, <<>>, <<>>) = Marks(s) \cup NM(d) \cup {n + 1}
       /\ Every(s, d, y, <<>>, <<>>) = Marks(s) \cup NM(d) \cup {n + 1}
  BY <1>1, <1>4 DEF Every
<1> QED BY <1>5, <1>11, <1>12

\* A batch is sent, or dropped.
LEMMA LineSends ==
  ASSUME NEW s \in Seq(Nat), NEW b \in Seq(Items), NEW x \in Items, NEW d \in Seq(Items), NEW l \in Seq(Items),
         Lined(s, b, x, d, l)
  PROVE  /\ Lined(s \o Numbers(b), <<>>, x, d, l) /\ Lined(s, <<>>, x, d, l)
         /\ Every(s \o Numbers(b), <<>>, x, d, l) = Every(s, b, x, d, l)
         /\ Every(s, <<>>, x, d, l) \subseteq Every(s, b, x, d, l)
<1> DEFINE u == Numbers(b)
<1>1. u \in Seq(Nat)
  BY NumbersOf
<1> HIDE DEF u
<1>2. /\ Marks(s \o u) = Marks(s) \cup Marks(u)
      /\ Ascending(s \o u) <=> Ascending(s) /\ Ascending(u) /\ Below(Marks(s), Marks(u))
  BY <1>1, MarksJoined
<1>3. Marks(u) = NM(b) /\ (Ascending(u) <=> Risen(b))
  BY DEF u, NM, Risen
<1>4. NM(<<>>) = {} /\ Risen(<<>>)
  BY NoMarks
<1>5. \A P : Below(P, {}) /\ Below({}, P)
  BY DEF Below
<1>6. \A P, Q, R : Below(P \cup Q, R) <=> Below(P, R) /\ Below(Q, R)
  BY DEF Below
<1>7. Lined(s \o u, <<>>, x, d, l) /\ Lined(s, <<>>, x, d, l)
  <2>1. /\ Ascending(s) /\ Ascending(u) /\ Risen(d) /\ Risen(l)
        /\ Below(Marks(s), Marks(u)) /\ Below(Marks(s), Own(x)) /\ Below(Marks(s), NM(d)) /\ Below(Marks(s), NM(l))
        /\ Below(Marks(u), Own(x)) /\ Below(Marks(u), NM(d)) /\ Below(Marks(u), NM(l))
        /\ Below(Own(x), NM(d)) /\ Below(Own(x), NM(l)) /\ Below(NM(d), NM(l))
    BY <1>3, Zenon DEF Lined
  <2>2. /\ Ascending(s \o u) /\ Below(Marks(s \o u), Own(x))
        /\ Below(Marks(s \o u), NM(d)) /\ Below(Marks(s \o u), NM(l))
    <3>1. /\ Below(Marks(s) \cup Marks(u), Own(x)) /\ Below(Marks(s) \cup Marks(u), NM(d))
          /\ Below(Marks(s) \cup Marks(u), NM(l))
      BY <1>6, <2>1, Zenon
    <3> QED BY <1>2, <2>1, <3>1
  <2>3. Lined(s, <<>>, x, d, l)
    BY <1>4, <1>5, <2>1 DEF Lined
  <2>4. Lined(s \o u, <<>>, x, d, l)
    BY <1>4, <1>5, <2>1, <2>2 DEF Lined
  <2> QED BY <2>3, <2>4
<1>8. /\ Every(s \o u, <<>>, x, d, l) = Every(s, b, x, d, l)
      /\ Every(s, <<>>, x, d, l) \subseteq Every(s, b, x, d, l)
  BY <1>2, <1>3, <1>4 DEF Every
<1> QED BY <1>7, <1>8 DEF u

\* A mark is passed on, or dropped.
LEMMA LineMarks ==
  ASSUME NEW s \in Seq(Nat), NEW x \in Items, NEW d \in Seq(Items), NEW l \in Seq(Items),
         Lined(s, <<>>, x, d, l)
  PROVE  /\ Lined(Append(s, x.n), <<>>, None, d, l) /\ Lined(s, <<>>, None, d, l)
         /\ Every(Append(s, x.n), <<>>, None, d, l) = Every(s, <<>>, x, d, l)
         /\ Every(s, <<>>, None, d, l) \subseteq Every(s, <<>>, x, d, l)
         /\ x.n = 0 => Every(s, <<>>, None, d, l) = Every(s, <<>>, x, d, l)
<1>1. x.n \in Nat
  BY ItemFields
<1>2. /\ Marks(Append(s, x.n)) = Marks(s) \cup Own(x)
      /\ Ascending(Append(s, x.n)) <=> Ascending(s) /\ Below(Marks(s), Own(x))
  BY <1>1, MarksAppended DEF Own
<1>3. NM(<<>>) = {} /\ Risen(<<>>) /\ Own(None) = {} /\ (x.n = 0 => Own(x) = {})
  BY NoMarks DEF None, Item, Own
<1>4. \A P : Below(P, {}) /\ Below({}, P)
  BY DEF Below
<1>5. \A P, Q, R : Below(P \cup Q, R) <=> Below(P, R) /\ Below(Q, R)
  BY DEF Below
<1>6. Lined(Append(s, x.n), <<>>, None, d, l) /\ Lined(s, <<>>, None, d, l)
  <2> DEFINE t == Append(s, x.n)
  <2>1. /\ Ascending(s) /\ Risen(d) /\ Risen(l)
        /\ Below(Marks(s), Own(x)) /\ Below(Marks(s), NM(d)) /\ Below(Marks(s), NM(l))
        /\ Below(Own(x), NM(d)) /\ Below(Own(x), NM(l)) /\ Below(NM(d), NM(l))
    BY Zenon DEF Lined
  <2>2. Ascending(t) /\ Below(Marks(t), NM(d)) /\ Below(Marks(t), NM(l))
    <3>1. Below(Marks(s) \cup Own(x), NM(d)) /\ Below(Marks(s) \cup Own(x), NM(l))
      BY <1>5, <2>1, Zenon
    <3> QED BY <1>2, <2>1, <3>1
  <2> HIDE DEF t
  <2>3. Lined(s, <<>>, None, d, l)
    BY <1>3, <1>4, <2>1 DEF Lined
  <2>4. Lined(t, <<>>, None, d, l)
    BY <1>3, <1>4, <2>1, <2>2 DEF Lined
  <2> QED BY <2>3, <2>4 DEF t
<1>7. /\ Every(Append(s, x.n), <<>>, None, d, l) = Every(s, <<>>, x, d, l)
      /\ Every(s, <<>>, None, d, l) \subseteq Every(s, <<>>, x, d, l)
      /\ x.n = 0 => Every(s, <<>>, None, d, l) = Every(s, <<>>, x, d, l)
  BY <1>2, <1>3 DEF Every
<1> QED BY <1>6, <1>7

\* The batch goes into the hand.
LEMMA LineBatched ==
  ASSUME NEW s \in Seq(Nat), NEW d \in Seq(Items), NEW l \in Seq(Items), Lined(s, <<>>, None, d, l)
  PROVE  Lined(s, d, None, <<>>, l) /\ Every(s, d, None, <<>>, l) = Every(s, <<>>, None, d, l)
<1>1. NM(<<>>) = {} /\ Risen(<<>>) /\ Own(None) = {}
  BY NoMarks DEF None, Item, Own
<1>2. \A P : Below(P, {}) /\ Below({}, P)
  BY DEF Below
<1> QED BY <1>1, <1>2 DEF Lined, Every

\* The head of the list or of the batch is freed.
LEMMA LineFrees ==
  ASSUME NEW s \in Seq(Nat), NEW b \in Seq(Items), NEW x \in Items, NEW d \in Seq(Items), NEW l \in Seq(Items),
         Lined(s, b, x, d, l)
  PROVE  /\ l # <<>> => Lined(s, b, x, d, Tail(l)) /\ Every(s, b, x, d, Tail(l)) \subseteq Every(s, b, x, d, l)
         /\ d # <<>> => Lined(s, b, x, Tail(d), l) /\ Every(s, b, x, Tail(d), l) \subseteq Every(s, b, x, d, l)
<1>1. \A P, Q, R : Below(P, Q) /\ R \subseteq Q => Below(P, R)
  BY DEF Below
<1>2. \A P, Q, R : Below(Q, P) /\ R \subseteq Q => Below(R, P)
  BY DEF Below
<1>3. ASSUME l # <<>> PROVE Lined(s, b, x, d, Tail(l)) /\ Every(s, b, x, d, Tail(l)) \subseteq Every(s, b, x, d, l)
  <2>1. NM(Tail(l)) \subseteq NM(l) /\ Risen(Tail(l))
    BY <1>3, RisenHeadOff DEF Lined
  <2> QED BY <1>1, <2>1 DEF Lined, Every
<1>4. ASSUME d # <<>> PROVE Lined(s, b, x, Tail(d), l) /\ Every(s, b, x, Tail(d), l) \subseteq Every(s, b, x, d, l)
  <2>1. NM(Tail(d)) \subseteq NM(d) /\ Risen(Tail(d))
    BY <1>4, RisenHeadOff DEF Lined
  <2> QED BY <1>1, <1>2, <2>1 DEF Lined, Every
<1> QED BY <1>3, <1>4

\* The thread takes samples, and perhaps a packet.
LEMMA LineTakes ==
  ASSUME NEW s \in Seq(Nat), NEW f \in Seq(Items), NEW l \in Seq(Items), Lined(s, <<>>, None, f, l),
         NEW d \in 0 .. Len(l), NEW k \in Nat, NEW e \in 0 .. Len(l), CutOut(l, d, k, e)
  PROVE  LET c == f \o SubSeq(l, d + 1, d + k)
             b == SubSeq(l, e + 1, Len(l))
             x == IF e = d + k THEN None ELSE l[e]
         IN /\ Lined(s, c, x, <<>>, b) /\ Every(s, c, x, <<>>, b) = Every(s, <<>>, None, f, l)
            /\ e = d + k => Lined(s, <<>>, None, c, b) /\ Every(s, <<>>, None, c, b) = Every(s, <<>>, None, f, l)
<1> DEFINE a == SubSeq(l, d + 1, d + k)
           b == SubSeq(l, e + 1, Len(l))
           c == f \o a
           x == IF e = d + k THEN None ELSE l[e]
<1>1. /\ NM(l) = NM(a) \cup NM(b) \cup (IF e = d + k THEN {} ELSE Own(l[e]))
      /\ Risen(l) => /\ Risen(a) /\ Risen(b) /\ Below(NM(a), NM(b))
                     /\ e # d + k => Below(NM(a), Own(l[e])) /\ Below(Own(l[e]), NM(b))
  BY RisenCut
<1>2. a \in Seq(Items)
  <2>1. d \in Nat /\ d + k <= Len(l)
    BY DEF CutOut
  <2> QED BY <2>1, Piece, Zenon
<1>3. NM(<<>>) = {} /\ Risen(<<>>) /\ Own(None) = {}
  BY NoMarks DEF None, Item, Own
<1>4. /\ NM(l) = NM(a) \cup NM(b) \cup Own(x) /\ Risen(a) /\ Risen(b) /\ Below(NM(a), NM(b))
      /\ Below(NM(a), Own(x)) /\ Below(Own(x), NM(b)) /\ (e = d + k => Own(x) = {})
  <2>1. Risen(l)
    BY DEF Lined
  <2>2. Below(NM(a), {}) /\ Below({}, NM(b))
    BY DEF Below
  <2> HIDE DEF a, b
  <2> QED BY <1>1, <1>3, <2>1, <2>2
<1> HIDE DEF a, b
<1>5. /\ NM(c) = NM(f) \cup NM(a)
      /\ Risen(c) <=> Risen(f) /\ Risen(a) /\ Below(NM(f), NM(a))
  BY <1>2, RisenJoined
<1> HIDE DEF c, x
<1>6. \A P : Below(P, {}) /\ Below({}, P)
  BY DEF Below
<1>7. \A P, Q, R : Below(P \cup Q, R) <=> Below(P, R) /\ Below(Q, R)
  BY DEF Below
<1>8. \A P, Q, R, T : Below(P, Q \cup R \cup T) <=> Below(P, Q) /\ Below(P, R) /\ Below(P, T)
  BY DEF Below
<1>9. /\ Below(NM(f), NM(a)) /\ Below(NM(f), NM(b)) /\ Below(NM(f), Own(x))
      /\ Below(Marks(s), NM(a)) /\ Below(Marks(s), NM(b)) /\ Below(Marks(s), Own(x))
      /\ Below(Marks(s), NM(f)) /\ Risen(f) /\ Ascending(s)
  <2>1. /\ Below(NM(f), NM(l)) /\ Below(Marks(s), NM(l)) /\ Below(Marks(s), NM(f)) /\ Risen(f) /\ Ascending(s)
    BY Zenon DEF Lined
  <2> DEFINE whole == NM(a) \cup NM(b) \cup Own(x)
  <2>2. NM(l) = whole
    BY <1>4
  <2>3. \A P : Below(P, whole) => Below(P, NM(a)) /\ Below(P, NM(b)) /\ Below(P, Own(x))
    BY <1>8, Zenon
  <2> HIDE DEF whole
  <2> QED BY <2>1, <2>2, <2>3
<1>10. /\ Risen(c) /\ Below(NM(c), NM(b)) /\ Below(NM(c), Own(x))
  BY <1>4, <1>5, <1>7, <1>9
<1>11. Below(Marks(s), NM(c))
  BY <1>5, <1>9 DEF Below
<1>12. Lined(s, c, x, <<>>, b) /\ (e = d + k => Lined(s, <<>>, None, c, b))
  BY <1>3, <1>4, <1>6, <1>9, <1>10, <1>11 DEF Lined
<1>13. /\ Every(s, c, x, <<>>, b) = Every(s, <<>>, None, f, l)
       /\ e = d + k => Every(s, <<>>, None, c, b) = Every(s, <<>>, None, f, l)
  BY <1>3, <1>4, <1>5 DEF Every
<1> QED BY <1>12, <1>13 DEF a, b, c, x

\* Nothing is in line at first, nor after a flush.
LEMMA EmptyLine ==
  Lined(<<>>, <<>>, None, <<>>, <<>>) /\ Every(<<>>, <<>>, None, <<>>, <<>>) = {}
<1>1. Marks(<<>>) = {} /\ Ascending(<<>>) /\ NM(<<>>) = {} /\ Risen(<<>>) /\ Own(None) = {}
  BY NoMarks DEF None, Item, Own
<1>2. Below({}, {})
  BY DEF Below
<1> QED BY <1>1, <1>2 DEF Lined, Every

-----------------------------------------------------------------------------
(* Order.                                                                  *)

\* Steps that leave everything in line, that drop something, and that accept something.
LEMMA OrderSame ==
  ASSUME OrderInv, UNCHANGED <<mode, number>>, Line', Present' = Present, Sticky', Sound' => Sound
  PROVE  OrderInv'
BY DEF OrderInv, Ordered, Exact

LEMMA OrderLess ==
  ASSUME OrderInv, UNCHANGED <<mode, number>>, Line', Present' \subseteq Present, Sticky', ~Sound'
  PROVE  OrderInv'
BY DEF OrderInv, Ordered, Exact

LEMMA OrderMore ==
  ASSUME OrderInv, QueueTypes, UNCHANGED mode, number' = number + 1, Line', Present' = Present \cup {number + 1},
         Sticky', Sound' => Sound
  PROVE  OrderInv'
<1>1. number \in Nat /\ number' = number + 1
  BY DEF QueueTypes
<1>2. Ordered' /\ Line' /\ Sticky'
  BY DEF OrderInv, Ordered, Exact
<1>3. \A m \in Present : m \in Nat
  <2>1. /\ sent \in Seq(Nat) /\ Going \in Seq(Items) /\ special \in Items
        /\ batch \in Seq(Items) /\ list \in Seq(Items)
    BY SampleSeqs DEF QueueTypes, Going
  <2> QED BY <2>1, EveryNat DEF Present
<1>4. \A m \in Present' : m <= number'
  BY <1>1, <1>3 DEF OrderInv
<1>5. Sound' => Present' = 1 .. number'
  <2> SUFFICES ASSUME Sound' PROVE Present' = 1 .. number'
    OBVIOUS
  <2>1. Present' = (1 .. number) \cup {number + 1}
    BY DEF OrderInv
  <2> QED BY <1>1, <2>1
<1> QED BY <1>2, <1>4, <1>5 DEF OrderInv

LEMMA OrderStays ==
  ASSUME OrderInv, UNCHANGED <<mode, number, sent, special, batch, list>>, Going' = Going, Sticky', Sound' => Sound
  PROVE  OrderInv'
<1>1. Line' /\ Present' = Present
  BY DEF OrderInv, Line, Present
<1> QED BY <1>1, OrderSame

\* What the lemmas about the line need to know.
LEMMA LineTypes ==
  ASSUME QueueTypes
  PROVE  /\ sent \in Seq(Nat) /\ Going \in Seq(Items) /\ special \in Items /\ batch \in Seq(Items)
         /\ list \in Seq(Items) /\ hand \in Seq(Items) /\ number \in Nat
BY SampleSeqs DEF QueueTypes, Going

\* An item goes to the end of the list.
LEMMA OrderListed ==
  ASSUME QueueTypes, OrderInv, NEW y \in Items, y.n \in {0, number + 1},
         list' = Append(list, y), number' = (IF y.n = 0 THEN number ELSE y.n),
         UNCHANGED <<mode, sent, special, batch>>, Going' = Going, Sticky', Sound' => Sound
  PROVE  OrderInv'
<1>1. /\ Lined(sent, Going, special, batch, Append(list, y))
      /\ Every(sent, Going, special, batch, Append(list, y)) = Present \cup ({y.n} \ {0})
  <2>1. MayFollow(sent, Going, special, batch, list, number, y)
    BY DEF OrderInv, Line, Present, MayFollow
  <2>2. /\ sent \in Seq(Nat) /\ Going \in Seq(Items) /\ special \in Items /\ batch \in Seq(Items)
        /\ list \in Seq(Items) /\ number \in Nat
    BY LineTypes
  <2>3. /\ Lined(sent, Going, special, batch, Append(list, y))
        /\ Every(sent, Going, special, batch, Append(list, y))
             = Every(sent, Going, special, batch, list) \cup Own(y)
    BY <2>1, <2>2, LineAccepts
  <2> QED BY <2>3 DEF Present, Own
<1>2. Line' /\ Present' = Present \cup ({y.n} \ {0})
  BY <1>1 DEF Line, Present
<1>3. CASE y.n = 0
  BY <1>2, <1>3, OrderSame
<1>4. CASE y.n # 0
  <2>1. number' = number + 1 /\ {y.n} \ {0} = {number + 1}
    BY <1>4
  <2> QED BY <1>2, <2>1, OrderMore
<1> QED BY <1>3, <1>4

LEMMA OrderSource ==
  ASSUME QueueTypes, PlaceInv, OrderInv, SourceStep
  PROVE  OrderInv'
<1> USE DEF SourceMayCall
<1>0. ASSUME UNCHANGED queueVars PROVE OrderInv'
  BY <1>0, OrderStays DEF OrderInv, queueVars, threadVars, lockVars, flushVars, ghostVars, Going, Unsent,
      Sticky, Sound, Skipped
<1>1. ASSUME NEW s \in Samples, ReceiveQueued(s) PROVE OrderInv'
  <2> DEFINE y == Item("sample", s, number + 1)
  <2>1. y \in Items /\ y.n = number + 1 /\ number + 1 # 0
    BY ItemsMade, LineTypes DEF Item
  <2>2. list' = Append(list, y) /\ number' = number + 1
    BY <1>1 DEF ReceiveQueued
  <2>3. UNCHANGED <<mode, sent, special, batch>> /\ Going' = Going /\ Sticky' /\ (Sound' => Sound)
    BY <1>1 DEF ReceiveQueued, OrderInv, threadVars, Going, Unsent, Sticky, Sound
  <2> HIDE DEF y
  <2> QED BY <2>1, <2>2, <2>3, OrderListed
<1>2. ASSUME NEW s \in Samples, ReceiveRefused(s) PROVE OrderInv'
  BY <1>0, <1>2 DEF ReceiveRefused
<1>3. CASE SendAnywayQueued
  <2> DEFINE y == Control("send")
  <2>1. y \in Items /\ y.n = 0
    BY ItemsMade DEF Item, Control
  <2>2. list' = Append(list, y) /\ number' = number
    BY <1>3 DEF SendAnywayQueued, ghostVars
  <2>3. UNCHANGED <<mode, sent, special, batch>> /\ Going' = Going /\ Sticky' /\ (Sound' => Sound)
    BY <1>3 DEF SendAnywayQueued, OrderInv, threadVars, flushVars, ghostVars, Going, Unsent, Sticky, Sound,
        Skipped
  <2> HIDE DEF y
  <2> QED BY <2>1, <2>2, <2>3, OrderListed
<1>4. CASE NewSegmentQueued
  <2> DEFINE y == Item("segment", 0, number + 1)
  <2>1. y \in Items /\ y.n = number + 1 /\ number + 1 # 0
    <3>1. number \in Nat /\ number + 1 # 0
      BY LineTypes
    <3>2. y \in Items
      BY <3>1, ItemsMade, Zenon
    <3> QED BY <3>1, <3>2 DEF Item
  <2>2. list' = Append(list, y) /\ number' = number + 1
    BY <1>4 DEF NewSegmentQueued
  <2>3. UNCHANGED <<mode, sent, special, batch>> /\ Going' = Going /\ Sticky' /\ (Sound' => Sound)
    BY <1>4 DEF NewSegmentQueued, OrderInv, threadVars, flushVars, Going, Unsent, Sticky, Sound, Skipped
  <2> HIDE DEF y
  <2> QED BY <2>1, <2>2, <2>3, OrderListed
<1>5. CASE EosQueued
  <2> DEFINE y == Item("eos", 0, number + 1)
  <2>1. y \in Items /\ y.n = number + 1 /\ number + 1 # 0
    <3>1. number \in Nat /\ number + 1 # 0
      BY LineTypes
    <3>2. y \in Items
      BY <3>1, ItemsMade, Zenon
    <3> QED BY <3>1, <3>2 DEF Item
  <2>2. list' = Append(list, y) /\ number' = number + 1
    BY <1>5 DEF EosQueued
  <2>3. UNCHANGED <<mode, sent, special, batch>> /\ Going' = Going /\ Sticky' /\ (Sound' => Sound)
    BY <1>5 DEF EosQueued, OrderInv, threadVars, Going, Unsent, Sticky, Sound
  <2> HIDE DEF y
  <2> QED BY <2>1, <2>2, <2>3, OrderListed
<1>6. ASSUME ~mode.queued, spc = "idle" PROVE hand = <<>> /\ special = None /\ list = <<>> /\ Going = <<>> /\ Exact
  BY <1>6 DEF PlaceInv, ByMode, InHand, Going, OrderInv, Ordered
<1>7. ASSUME NEW s \in Samples, ReceiveDirect(s) PROVE OrderInv'
  <2> DEFINE y == Item("sample", s, number + 1)
             d == batch
             n == number
  <2>0. hand = <<>> /\ special = None /\ list = <<>> /\ Going = <<>>
    BY <1>6, <1>7 DEF ReceiveDirect
  <2>1. y \in Items /\ y.n = n + 1 /\ n \in Nat /\ d \in Seq(Items) /\ sent \in Seq(Nat)
    BY ItemsMade, LineTypes DEF Item
  <2>2. /\ n' = n + 1
        /\ \/ batch' = <<>> /\ hand' = Append(d, y) /\ spc' = "sending"
           \/ batch' = Append(d, y) /\ hand' = hand /\ spc' = spc
        /\ UNCHANGED <<mode, list, special, sent>>
    BY <1>7 DEF ReceiveDirect
  <2>3. Sticky' /\ (Sound' => Sound)
    BY <1>7 DEF ReceiveDirect, OrderInv, Sticky, Sound
  <2>4. Lined(sent, <<>>, None, d, <<>>) /\ (\A m \in Every(sent, <<>>, None, d, <<>>) : m <= n)
        /\ Present = Every(sent, <<>>, None, d, <<>>)
    BY <2>0 DEF OrderInv, Line, Present
  <2>5. Going' = IF spc' = "sending" THEN hand' ELSE <<>>
    BY <1>7, <2>0, <2>2 DEF ReceiveDirect, Going, Unsent, PlaceInv, ByMode
  <2> HIDE DEF y, d, n
  <2>6. /\ Lined(sent, <<>>, None, Append(d, y), <<>>) /\ Lined(sent, Append(d, y), None, <<>>, <<>>)
        /\ Every(sent, <<>>, None, Append(d, y), <<>>) = Present \cup {n + 1}
        /\ Every(sent, Append(d, y), None, <<>>, <<>>) = Present \cup {n + 1}
    <3>1. /\ Lined(sent, <<>>, None, Append(d, y), <<>>) /\ Lined(sent, Append(d, y), None, <<>>, <<>>)
          /\ Lined(sent, d, y, <<>>, <<>>)
          /\ Every(sent, <<>>, None, Append(d, y), <<>>) = Every(sent, <<>>, None, d, <<>>) \cup {n + 1}
          /\ Every(sent, Append(d, y), None, <<>>, <<>>) = Every(sent, <<>>, None, d, <<>>) \cup {n + 1}
          /\ Every(sent, d, y, <<>>, <<>>) = Every(sent, <<>>, None, d, <<>>) \cup {n + 1}
      BY <2>1, <2>4, BatchAccepts
    <3> QED BY <2>4, <3>1
  <2>7. /\ spc' = "sending" => Going' = Append(d, y) /\ batch' = <<>>
        /\ spc' # "sending" => Going' = <<>> /\ batch' = Append(d, y)
    BY <1>7, <2>2, <2>5 DEF ReceiveDirect
  <2>8. Line' /\ Present' = Present \cup {n + 1}
    BY <2>0, <2>2, <2>6, <2>7 DEF Line, Present
  <2> QED BY <2>2, <2>3, <2>8, OrderMore DEF n
<1>8. CASE SendAnywayDirect
  <2>0. hand = <<>> /\ special = None /\ list = <<>> /\ Going = <<>>
    BY <1>6, <1>8 DEF SendAnywayDirect
  <2>1. Lined(sent, <<>>, None, batch, list) /\ Present = Every(sent, <<>>, None, batch, list)
    BY <2>0 DEF OrderInv, Line, Present
  <2>2. Lined(sent, batch, None, <<>>, list) /\ Every(sent, batch, None, <<>>, list) = Present
    BY <2>1, LineTypes, LineBatched
  <2>3. Going' = batch /\ batch' = <<>> /\ UNCHANGED <<mode, number, sent, special, list>>
    BY <1>8 DEF SendAnywayDirect, Going, Unsent, ghostVars
  <2>4. Line' /\ Present' = Present
    BY <2>0, <2>2, <2>3 DEF Line, Present
  <2>5. Sticky' /\ (Sound' => Sound)
    BY <1>8 DEF SendAnywayDirect, OrderInv, Sticky, Sound, ghostVars
  <2> QED BY <2>3, <2>4, <2>5, OrderSame
<1>9. ASSUME NEW kind \in {"eos", "segment"}, MarkDirect(kind) PROVE OrderInv'
  <2> DEFINE y == Item(kind, 0, number + 1)
             d == batch
             n == number
  <2>0. hand = <<>> /\ special = None /\ list = <<>> /\ Going = <<>> /\ Exact
    BY <1>6, <1>9 DEF MarkDirect
  <2>1. y \in Items /\ y.n = n + 1 /\ n \in Nat /\ d \in Seq(Items) /\ sent \in Seq(Nat)
    BY ItemsMade, LineTypes DEF Item
  <2>2. hand' = d /\ batch' = <<>> /\ n' = n + 1 /\ special' = y /\ spc' = "sending" /\ UNCHANGED <<mode, list, sent>>
    BY <1>9, <2>0 DEF MarkDirect
  <2>3. Sticky' /\ (Sound' => Sound)
    BY <1>9 DEF MarkDirect, OrderInv, Sticky, Sound
  <2>4. Lined(sent, <<>>, None, d, <<>>) /\ (\A m \in Every(sent, <<>>, None, d, <<>>) : m <= n)
        /\ Present = Every(sent, <<>>, None, d, <<>>)
    BY <2>0 DEF OrderInv, Line, Present
  <2>5. Going' = d
    BY <2>2 DEF Going, Unsent
  <2> HIDE DEF y, d, n
  <2>6. /\ Lined(sent, d, y, <<>>, <<>>)
        /\ Every(sent, d, y, <<>>, <<>>) = Present \cup {n + 1}
    <3>1. /\ Lined(sent, <<>>, None, Append(d, y), <<>>) /\ Lined(sent, Append(d, y), None, <<>>, <<>>)
          /\ Lined(sent, d, y, <<>>, <<>>)
          /\ Every(sent, <<>>, None, Append(d, y), <<>>) = Every(sent, <<>>, None, d, <<>>) \cup {n + 1}
          /\ Every(sent, Append(d, y), None, <<>>, <<>>) = Every(sent, <<>>, None, d, <<>>) \cup {n + 1}
          /\ Every(sent, d, y, <<>>, <<>>) = Every(sent, <<>>, None, d, <<>>) \cup {n + 1}
      BY <2>1, <2>4, BatchAccepts
    <3> QED BY <2>4, <3>1
  <2>7. Line' /\ Present' = Present \cup {n + 1}
    BY <2>0, <2>2, <2>5, <2>6 DEF Line, Present
  <2> QED BY <2>2, <2>3, <2>7, OrderMore DEF n
<1>10. ASSUME Client("source") /\ UNCHANGED queueVars PROVE OrderInv'
  BY <1>0, <1>10
<1> QED BY <1>1, <1>2, <1>3, <1>4, <1>5, <1>7, <1>8, <1>9, <1>10, Zenon DEF SourceStep

\* What is being sent is taken by the next filter, or refused.
LEMMA OrderSent ==
  ASSUME QueueTypes, OrderInv, Going = hand, Going' = <<>>, Downstream,
         UNCHANGED <<mode, number, special, batch, list, terminate, fpc, flushed>>
  PROVE  OrderInv'
<1>1. /\ Lined(sent, hand, special, batch, list)
      /\ Present = Every(sent, hand, special, batch, list)
  BY DEF OrderInv, Line, Present
<1>2. /\ Lined(sent \o Numbers(hand), <<>>, special, batch, list) /\ Lined(sent, <<>>, special, batch, list)
      /\ Every(sent \o Numbers(hand), <<>>, special, batch, list) = Present
      /\ Every(sent, <<>>, special, batch, list) \subseteq Present
  <2>1. /\ Lined(sent \o Numbers(hand), <<>>, special, batch, list) /\ Lined(sent, <<>>, special, batch, list)
        /\ Every(sent \o Numbers(hand), <<>>, special, batch, list) = Every(sent, hand, special, batch, list)
        /\ Every(sent, <<>>, special, batch, list) \subseteq Every(sent, hand, special, batch, list)
    BY <1>1, LineTypes, LineSends
  <2> QED BY <1>1, <2>1
<1>3. CASE sent' = sent \o Numbers(hand) /\ UNCHANGED <<hr, failed>>
  <2>1. Line' /\ Present' = Present
    BY <1>2, <1>3 DEF Line, Present
  <2>2. Sticky' /\ (Sound' => Sound)
    BY <1>3 DEF OrderInv, Sticky, Sound, Skipped
  <2> QED BY <2>1, <2>2, OrderSame
<1>4. CASE failed' = TRUE /\ sent' = sent
  <2>1. Line' /\ Present' \subseteq Present
    BY <1>2, <1>4 DEF Line, Present
  <2>2. Sticky' /\ ~Sound'
    BY <1>4 DEF Sticky, Sound
  <2> QED BY <2>1, <2>2, OrderLess
<1> QED BY <1>3, <1>4 DEF Downstream

\* The mark is passed on, or dropped.
LEMMA OrderMarked ==
  ASSUME QueueTypes, OrderInv, Going = <<>>, Going' = <<>>, UNCHANGED <<mode, number, batch, list>>,
         special' = None, sent' \in {sent, Append(sent, special.n)},
         Sticky', Sound' => Sound /\ (special.n = 0 \/ sent' # sent)
  PROVE  OrderInv'
<1>1. /\ Lined(sent, <<>>, special, batch, list)
      /\ Present = Every(sent, <<>>, special, batch, list)
  BY DEF OrderInv, Line, Present
<1>2. /\ Lined(Append(sent, special.n), <<>>, None, batch, list) /\ Lined(sent, <<>>, None, batch, list)
      /\ Every(Append(sent, special.n), <<>>, None, batch, list) = Present
      /\ Every(sent, <<>>, None, batch, list) \subseteq Present
      /\ special.n = 0 => Every(sent, <<>>, None, batch, list) = Present
  <2>1. /\ Lined(Append(sent, special.n), <<>>, None, batch, list) /\ Lined(sent, <<>>, None, batch, list)
        /\ Every(Append(sent, special.n), <<>>, None, batch, list) = Every(sent, <<>>, special, batch, list)
        /\ Every(sent, <<>>, None, batch, list) \subseteq Every(sent, <<>>, special, batch, list)
        /\ special.n = 0 => Every(sent, <<>>, None, batch, list) = Every(sent, <<>>, special, batch, list)
    BY <1>1, LineTypes, LineMarks
  <2> QED BY <1>1, <2>1
<1>3. CASE sent' = Append(sent, special.n)
  <2>1. Line' /\ Present' = Present
    BY <1>2, <1>3 DEF Line, Present
  <2> QED BY <2>1, OrderSame
<1>4. CASE sent' = sent
  <2>1. Line' /\ Present' \subseteq Present /\ (special.n = 0 => Present' = Present)
    BY <1>2, <1>4 DEF Line, Present
  <2>2. CASE special.n = 0
    BY <2>1, <2>2, OrderSame
  <2>3. CASE special.n # 0
    BY <1>4, <2>1, <2>3, OrderLess
  <2> QED BY <2>2, <2>3
<1> QED BY <1>3, <1>4

LEMMA OrderSend ==
  ASSUME QueueTypes, PlaceInv, ControlInv, OrderInv, SendStep
  PROVE  OrderInv'
<1>1. CASE DirectSend
  <2>1. tpc = "none" /\ tpc' = tpc
    BY <1>1 DEF DirectSend, threadVars, PlaceInv, ByMode, QueueTypes
  <2>2. Going = hand /\ Going' = <<>>
    BY <1>1, <2>1 DEF DirectSend, Going, Unsent
  <2>3. Downstream /\ UNCHANGED <<mode, number, special, batch, list, terminate, fpc, flushed>>
    BY <1>1 DEF DirectSend, threadVars, lockVars, flushVars
  <2> QED BY <2>2, <2>3, OrderSent
<1>2. CASE DirectDone
  <2>1. ~mode.queued /\ tpc = "none" /\ hand = <<>> /\ special.kind \in {"none", "segment", "eos"}
    BY <1>2 DEF DirectDone, PlaceInv, ByMode, QueueTypes
  <2>2. Going = <<>> /\ Going' = <<>> /\ special' = None
    BY <1>2, <2>1 DEF DirectDone, Going, Unsent
  <2>3. UNCHANGED <<mode, number, batch, list, hr, failed, terminate, fpc, flushed>>
    BY <1>2 DEF DirectDone, lockVars, flushVars
  <2>4. sent' = IF special.kind = "segment" \/ (special.kind = "eos" /\ hr = "ok")
                  THEN Append(sent, special.n) ELSE sent
    BY <1>2 DEF DirectDone
  <2>5. Sticky' /\ (Sound' => Sound)
    BY <2>3 DEF OrderInv, Sticky, Sound, Skipped
  <2>6. Sound => special.n = 0 \/ special.kind = "segment" \/ (special.kind = "eos" /\ hr = "ok")
    <3> SUFFICES ASSUME Sound, special.kind = "eos", hr # "ok" PROVE FALSE
      BY <2>1, ItemFields, LineTypes
    <3>1. fpc \in {"passing", "begun", "flushing", "freeing", "leaving"}
      BY DEF Sound, OrderInv, Sticky
    <3>2. fpc \in {"begun", "freeing", "leaving"} => spc = "idle"
      BY <2>1 DEF PlaceInv, OnlySegment, Unlocked
    <3> QED BY <1>2, <2>1, <3>1, <3>2 DEF DirectDone, PlaceInv, ByMode
  <2>7. Append(sent, special.n) # sent
    BY LineTypes, ItemFields
  <2>8. sent' \in {sent, Append(sent, special.n)} /\ (Sound' => Sound /\ (special.n = 0 \/ sent' # sent))
    BY <2>4, <2>5, <2>6, <2>7
  <2> QED BY <2>2, <2>3, <2>5, <2>8, OrderMarked
<1>3. CASE ReleaseHand
  <2>1. ~Unsent /\ ~Unsent'
    BY <1>3 DEF ReleaseHand, Unsent, PlaceInv, ByMode
  <2>2. UNCHANGED <<mode, number, sent, special, batch, list, hr, failed, terminate, fpc, flushed>>
    BY <1>3 DEF ReleaseHand, lockVars, flushVars, ghostVars
  <2>3. Going' = Going /\ Sticky' /\ (Sound' => Sound)
    BY <2>1, <2>2 DEF OrderInv, Going, Sticky, Sound, Skipped
  <2> QED BY <2>2, <2>3, OrderStays
<1>4. CASE FreeOne
  <2>1. /\ \/ list # <<>> /\ list' = Tail(list) /\ batch' = batch
           \/ (batch # <<>> /\ batch' = Tail(batch) /\ list' = list)
        /\ UNCHANGED <<mode, number, sent, hand, special, tpc, spc>> /\ failed' = TRUE
    BY <1>4 DEF FreeOne, threadVars
  <2>2. Sticky' /\ ~Sound' /\ Going' = Going
    BY <2>1 DEF Sticky, Sound, Going, Unsent
  <2>3. /\ list # <<>> => /\ Lined(sent, Going, special, batch, Tail(list))
                          /\ Every(sent, Going, special, batch, Tail(list)) \subseteq Present
        /\ batch # <<>> => /\ Lined(sent, Going, special, Tail(batch), list)
                           /\ Every(sent, Going, special, Tail(batch), list) \subseteq Present
    BY LineTypes, LineFrees DEF OrderInv, Line, Present
  <2>4. Line' /\ Present' \subseteq Present
    BY <2>1, <2>2, <2>3 DEF Line, Present
  <2> QED BY <2>1, <2>2, <2>4, OrderLess
<1> QED BY <1>1, <1>2, <1>3, <1>4 DEF SendStep

LEMMA OrderThread ==
  ASSUME QueueTypes, PlaceInv, ControlInv, OrderInv, ThreadStep
  PROVE  OrderInv'
<1>0. mode.queued /\ spc = "idle" /\ spc' = spc
  BY DEF ThreadStep, ThreadFrees, ThreadFreed, ThreadTakes, ThreadWakes, ThreadSends, ThreadSent, ThreadMark,
      PlaceInv, ByMode
<1>1. CASE ThreadFrees
  BY <1>0, <1>1, OrderStays DEF ThreadFrees, OrderInv, lockVars, flushVars, ghostVars, Going, Unsent, Sticky,
      Sound, Skipped
<1>2. CASE ThreadFreed
  BY <1>0, <1>2, OrderStays DEF ThreadFreed, OrderInv, ghostVars, Going, Unsent, Sticky, Sound, Skipped
<1>3. CASE ThreadTakes
  <2>0. tpc = "loop" /\ UNCHANGED <<mode, number, sent, hr, failed, terminate, fpc, flushed>>
    BY <1>3, Zenon DEF ThreadTakes, flushVars, ghostVars
  <2> PICK d \in 0 .. Len(list), k \in Nat, e \in 0 .. Len(list) : Taken(d, k, e)
    BY <1>3, TakesCuts
  <2> DEFINE a == SubSeq(list, d + 1, d + k)
             b == SubSeq(list, e + 1, Len(list))
             c == batch \o a
             x == IF e = d + k THEN None ELSE list[e]
  <2>1. hand = <<>> /\ special = None /\ Going = <<>>
    BY <1>0, <2>0 DEF PlaceInv, InHand, Going
  <2>2. CutOut(list, d, k, e)
    <3>1. e \in {d + k, d + k + 1} /\ \A i \in 1 .. d : list[i].kind = "send"
      BY DEF Taken
    <3>2. \A i \in 1 .. d : list[i] \in Items
      BY LineTypes
    <3>3. \A i \in 1 .. d : list[i].n = 0
      BY <3>1, <3>2, ItemFields
    <3> QED BY <3>1, <3>3 DEF CutOut
  <2>3. Lined(sent, <<>>, None, batch, list) /\ Present = Every(sent, <<>>, None, batch, list)
    BY <2>1 DEF OrderInv, Line, Present
  <2>4. /\ Lined(sent, c, x, <<>>, b) /\ Every(sent, c, x, <<>>, b) = Every(sent, <<>>, None, batch, list)
        /\ e = d + k => /\ Lined(sent, <<>>, None, c, b)
                        /\ Every(sent, <<>>, None, c, b) = Every(sent, <<>>, None, batch, list)
    BY <2>2, <2>3, LineTypes, LineTakes
  <2>5. /\ list' = b
        /\ \/ /\ tpc' = "wait" /\ batch' = c /\ special' = special /\ e = d + k
           \/ /\ tpc' = "send" /\ batch' = <<>> /\ hand' = c /\ special' = x
    BY DEF Taken
  <2> HIDE DEF a, b, c, x
  <2>6. CASE tpc' = "wait"
    <3>1. Going' = <<>> /\ special' = None /\ batch' = c
      BY <1>0, <2>1, <2>5, <2>6 DEF Going, Unsent
    <3>2. Line' /\ Present' = Present
      BY <2>0, <2>3, <2>4, <2>5, <2>6, <3>1 DEF Line, Present
    <3> QED BY <2>0, <3>2, OrderSame DEF OrderInv, Sticky, Sound, Skipped
  <2>7. CASE tpc' = "send"
    <3>1. Going' = c /\ special' = x /\ batch' = <<>>
      BY <2>5, <2>7 DEF Going, Unsent
    <3>2. Line' /\ Present' = Present
      BY <2>0, <2>3, <2>4, <2>5, <3>1 DEF Line, Present
    <3> QED BY <2>0, <3>2, OrderSame DEF OrderInv, Sticky, Sound, Skipped
  <2> QED BY <2>5, <2>6, <2>7
<1>4. CASE ThreadWakes
  BY <1>0, <1>4, OrderStays DEF ThreadWakes, OrderInv, flushVars, ghostVars, Going, Unsent, Sticky, Sound,
      Skipped
<1>5. CASE ThreadSends
  <2>1. UNCHANGED <<mode, number, sent, hand, special, batch, list, hr, failed, terminate, fpc, flushed>>
    BY <1>5 DEF ThreadSends, lockVars, flushVars, ghostVars
  <2>2. Sticky' /\ (Sound' => Sound)
    BY <2>1 DEF OrderInv, Sticky, Sound, Skipped
  <2>3. Going = hand
    BY <1>5 DEF ThreadSends, Going, Unsent
  <2>4. CASE hand = <<>> \/ hr = "ok"
    <3>1. Going' = Going
      BY <1>5, <2>1, <2>3, <2>4 DEF ThreadSends, Going, Unsent
    <3> QED BY <2>1, <2>2, <3>1, OrderStays
  <2>5. CASE hand # <<>> /\ hr # "ok"
    <3>1. Going' = <<>>
      BY <1>0, <1>5, <2>5 DEF ThreadSends, Going, Unsent
    <3>2. ~Sound'
      BY <1>0, <2>1, <2>5 DEF Sound, Skipped, ControlInv, FlushedMeans
    <3>3. /\ Lined(sent, hand, special, batch, list)
          /\ Present = Every(sent, hand, special, batch, list)
      BY <2>3 DEF OrderInv, Line, Present
    <3>4. /\ Lined(sent, <<>>, special, batch, list)
          /\ Every(sent, <<>>, special, batch, list) \subseteq Every(sent, hand, special, batch, list)
      BY <3>3, LineTypes, LineSends
    <3>5. Line' /\ Present' \subseteq Present
      BY <2>1, <3>1, <3>3, <3>4 DEF Line, Present
    <3> QED BY <2>1, <2>2, <3>2, <3>5, OrderLess
  <2> QED BY <2>4, <2>5
<1>6. CASE ThreadSent
  <2>1. Going = hand /\ Going' = <<>>
    BY <1>0, <1>6 DEF ThreadSent, Going, Unsent
  <2>2. Downstream /\ UNCHANGED <<mode, number, special, batch, list, terminate, fpc, flushed>>
    BY <1>6 DEF ThreadSent, lockVars, flushVars
  <2> QED BY <2>1, <2>2, OrderSent
<1>7. CASE ThreadMark
  <2>1. Going = <<>> /\ Going' = <<>> /\ special' = None
    BY <1>0, <1>7 DEF ThreadMark, Going, Unsent
  <2>2. /\ UNCHANGED <<mode, number, batch, list, failed, terminate, fpc, flushed>>
        /\ sent' = IF (special.kind = "eos" /\ hr = "ok") \/ special.kind = "segment"
                     THEN Append(sent, special.n) ELSE sent
        /\ hr' = IF special.kind = "reset" THEN "ok" ELSE hr
    BY <1>7 DEF ThreadMark, lockVars
  <2>3. special.kind = "reset" => fpc = "resetting"
    BY DEF ControlInv, ResetTold
  <2>4. Sticky' /\ (Sound' => Sound)
    BY <2>2, <2>3 DEF OrderInv, Sticky, Sound, Skipped
  <2>5. Sound => special.n = 0 \/ special.kind = "segment" \/ (special.kind = "eos" /\ hr = "ok")
    <3> SUFFICES ASSUME Sound, special.kind = "eos", hr # "ok" PROVE FALSE
      BY ItemFields, LineTypes DEF QueueTypes
    <3> QED BY <1>0 DEF Sound, Skipped, ControlInv, FlushedMeans
  <2>6. Append(sent, special.n) # sent
    BY LineTypes, ItemFields
  <2>7. sent' \in {sent, Append(sent, special.n)} /\ (Sound' => Sound /\ (special.n = 0 \/ sent' # sent))
    BY <2>2, <2>4, <2>5, <2>6
  <2> QED BY <2>1, <2>2, <2>4, <2>7, OrderMarked
<1> QED BY <1>1, <1>2, <1>3, <1>4, <1>5, <1>6, <1>7 DEF ThreadStep

LEMMA OrderControl ==
  ASSUME QueueTypes, PlaceInv, ControlInv, OrderInv, mode.opt => fpc' # "resetting", ControlStep
  PROVE  OrderInv'
<1>1. CASE BeginFlushQueued
  <2>1. /\ fpc = "idle" /\ ~terminate /\ fpc' \in {"passing", "begun"} /\ hr' # "ok"
        /\ UNCHANGED <<mode, number, sent, hand, special, batch, list, tpc, spc, failed, flushed, terminate>>
        /\ mode.queued
    BY <1>1 DEF BeginFlushQueued, Discard, threadVars, ghostVars
  <2>2. Going' = Going /\ Sticky' /\ (Sound' => Sound)
    BY <2>1 DEF OrderInv, Going, Unsent, Sticky, Sound
  <2> QED BY <2>1, <2>2, OrderStays
<1>2. CASE BeginFlushPassed
  <2>1. ~Skipped /\ mode.queued
    BY <1>2 DEF BeginFlushPassed, ControlInv, FlushTold, PlaceInv, ByMode
  <2> QED BY <1>2, <2>1, OrderStays DEF BeginFlushPassed, OrderInv, threadVars, lockVars, ghostVars, Going,
      Unsent, Sticky, Sound, Skipped
<1>3. CASE BeginFlushDirect
  <2>1. /\ ~mode.queued
        /\ UNCHANGED <<mode, number, sent, hand, special, batch, list, tpc, spc, failed, flushed, terminate>>
        /\ (fpc = "idle" /\ fpc' = "locking" /\ hr' = hr) \/ fpc' = "begun"
    BY <1>3 DEF BeginFlushDirect, threadVars, lockVars, ghostVars, PlaceInv, ByMode
  <2>2. Going' = Going /\ Sticky' /\ (Sound' => Sound)
    BY <2>1 DEF OrderInv, Going, Unsent, Sticky, Sound
  <2> QED BY <2>1, <2>2, OrderStays
<1>4. CASE EndFlush
  <2>1. /\ fpc = "begun"
        /\ UNCHANGED <<mode, number, sent, hand, special, batch, list, tpc, spc, failed, flushed, terminate>>
        /\ \/ Skipped /\ hr' = "ok" /\ fpc' = "idle"
           \/ fpc' \in {"flushing", "freeing"} /\ hr' = hr
    BY <1>4 DEF EndFlush, threadVars, lockVars, ghostVars, Skipped
  <2>2. Going' = Going /\ Sticky' /\ (Sound' => Sound)
    BY <2>1 DEF OrderInv, Going, Unsent, Sticky, Sound
  <2> QED BY <2>1, <2>2, OrderStays
<1>5. CASE EndFlushWaited
  <2>1. /\ fpc \in {"flushing", "freeing"} /\ fpc' = "leaving"
        /\ UNCHANGED <<mode, number, sent, hand, special, batch, list, tpc, spc, hr, failed, terminate>>
    BY <1>5 DEF EndFlushWaited, threadVars, lockVars, ghostVars
  <2>2. Going' = Going /\ Sticky' /\ (Sound' => Sound)
    BY <2>1 DEF OrderInv, Going, Unsent, Sticky, Sound
  <2> QED BY <2>1, <2>2, OrderStays
<1>6. CASE EndFlushDone
  <2>1. /\ fpc = "leaving" /\ hr' = "ok" /\ UNCHANGED <<mode, hand, special, batch, list, tpc, spc, terminate, flushed>>
        /\ \/ list = <<>> /\ special = None /\ number' = 0 /\ sent' = <<>> /\ failed' = FALSE
           \/ ~(list = <<>> /\ special = None) /\ UNCHANGED <<number, sent, failed>>
    BY <1>6 DEF EndFlushDone, threadVars, lockVars, ghostVars
  <2>2. batch = <<>> /\ (mode.queued => tpc = "wait" /\ list = <<>> /\ hand = <<>> /\ special = None)
    BY <2>1 DEF ControlInv, FlushTold, PlaceInv, InHand
  <2>3. ~mode.queued => Unlocked /\ (spc = "idle" => hand = <<>> /\ special = None)
    BY <2>1 DEF PlaceInv, InHand, OnlySegment
  <2>4. hand = <<>>
    BY <2>2, <2>3 DEF Unlocked
  <2>5. Going = <<>> /\ Going' = <<>> /\ Sticky'
    BY <2>1, <2>4 DEF Going, Sticky
  <2>6. CASE list = <<>> /\ special = None
    <3>1. /\ sent' = <<>> /\ number' = 0 /\ Going' = <<>> /\ special' = None /\ batch' = <<>> /\ list' = <<>>
      BY <2>1, <2>2, <2>5, <2>6
    <3>2. Line' /\ Present' = {}
      BY <3>1, EmptyLine DEF Line, Present
    <3>3. Ordered'
      BY <2>1 DEF OrderInv, Ordered, Exact
    <3> QED BY <2>5, <3>1, <3>2, <3>3 DEF OrderInv
  <2>7. CASE ~(list = <<>> /\ special = None)
    <3>1. ~mode.queued /\ UNCHANGED <<number, sent, failed>>
      BY <2>1, <2>2, <2>7
    <3>2. Sound' => Sound
      BY <2>1, <3>1 DEF Sound
    <3> QED BY <2>1, <2>5, <3>1, <3>2, OrderStays
  <2> QED BY <2>6, <2>7
<1>7. CASE ResetDirect
  <2>1. /\ ~mode.queued /\ hr' = "ok"
        /\ UNCHANGED <<mode, number, sent, hand, special, batch, list, tpc, spc, failed, terminate>>
    BY <1>7 DEF ResetDirect, threadVars, lockVars, ghostVars
  <2>2. Going' = Going /\ Sticky' /\ (Sound' => Sound)
    BY <2>1 DEF Going, Unsent, Sticky, Sound
  <2> QED BY <2>1, <2>2, OrderStays
<1>8. CASE ResetQueued
  <2> DEFINE y == Control("reset")
  <2>1. y \in Items /\ y.n = 0
    BY ItemsMade DEF Item, Control
  <2>2. list' = Append(list, y) /\ number' = number
    BY <1>8 DEF ResetQueued, ghostVars
  <2>3. UNCHANGED <<mode, sent, special, batch>> /\ Going' = Going /\ Sticky' /\ (Sound' => Sound)
    BY <1>8 DEF ResetQueued, OrderInv, threadVars, ghostVars, Going, Unsent, Sticky, Sound, Skipped
  <2> HIDE DEF y
  <2> QED BY <2>1, <2>2, <2>3, OrderListed
<1>9. CASE ResetWaited
  BY <1>9, OrderStays DEF ResetWaited, OrderInv, threadVars, lockVars, ghostVars, Going, Unsent, Sticky,
      Sound, Skipped
<1>10. CASE Destroy
  <2>1. UNCHANGED <<mode, number, sent, hand, special, batch, list, tpc, spc>> /\ terminate'
    BY <1>10 DEF Destroy, threadVars, lockVars, ghostVars
  <2> QED BY <2>1, OrderStays DEF Going, Unsent, Sticky, Sound
<1>11. CASE Destroyed
  BY <1>11, OrderStays DEF Destroyed, OrderInv, threadVars, lockVars, ghostVars, Going, Unsent, Sticky,
      Sound, Skipped
<1> QED BY <1>1, <1>2, <1>3, <1>4, <1>5, <1>6, <1>7, <1>8, <1>9, <1>10, <1>11 DEF ControlStep

LEMMA OrderKeptBySteps ==
  ASSUME QueueTypes, PlaceInv, ControlInv, OrderInv, [UsableStep]_deliveryVars
  PROVE  OrderInv'
<1>1. UNCHANGED queueVars => OrderInv'
  BY OrderStays DEF OrderInv, queueVars, threadVars, lockVars, flushVars, ghostVars, Going, Unsent, Sticky,
      Sound, Skipped
<1>2. SinkStep => UNCHANGED queueVars
  BY DEF SinkStep, SinkKeeps, SinkReleases
<1>3. UNCHANGED deliveryVars => UNCHANGED queueVars
  BY DEF deliveryVars
<1> QED BY <1>1, <1>2, <1>3, OrderSource, OrderSend, OrderThread, OrderControl DEF DeliveryNext, UsableStep

OrderedInv == UsableInv /\ OrderInv

LEMMA OrderedInvariant == OrderedSpec => []OrderedInv
<1>1. DeliveryInit /\ Ordered => OrderedInv
  <2> SUFFICES ASSUME DeliveryInit, Ordered PROVE OrderInv /\ UsableInv
    BY DEF OrderedInv
  <2>1. /\ sent = <<>> /\ number = 0 /\ hand = <<>> /\ special = None /\ batch = <<>> /\ list = <<>>
        /\ hr = "ok" /\ Going = <<>>
    BY DEF DeliveryInit, QueueInit, Going
  <2>2. Line /\ Present = {}
    BY <2>1, EmptyLine DEF Line, Present
  <2>3. OrderInv
    BY <2>1, <2>2 DEF OrderInv, Sticky
  <2> QED BY <2>3, UsableStart
<1>2. OrderedInv /\ [UsableStep]_deliveryVars => OrderedInv'
  <2> SUFFICES ASSUME OrderedInv, [UsableStep]_deliveryVars PROVE OrderedInv'
    OBVIOUS
  <2>1. UsableInv /\ OrderInv /\ ControlInv /\ QueueTypes /\ PlaceInv
    BY DEF OrderedInv, UsableInv, DeliveryInv
  <2> QED BY <2>1, UsableKeeps, OrderKeptBySteps DEF OrderedInv
<1> QED BY <1>1, <1>2, PTL DEF OrderedSpec

\* Samples, new segments and the end of the stream get to the next filter in the order in which they were
\* accepted, and none is missing as long as nothing failed and nothing was flushed; and IsIdle of a queue that
\* is not exact says that all was sent (COutputQueue, with a thread or with exact batches, and unless Reset is
\* used while flushing is optimised).
THEOREM InOrderWithoutLoss == OrderedSpec => []OrderKept
<1>1. OrderedInv => OrderKept
  <2> SUFFICES ASSUME OrderedInv PROVE OrderKept
    OBVIOUS
  <2>0. QueueTypes /\ PlaceInv /\ ControlInv /\ OrderInv
    BY DEF OrderedInv, UsableInv, DeliveryInv
  <2> DEFINE g == Going
             w == Numbers(g) \o Numbers(<<special>> \o batch \o list)
  <2>1. OnTheWay = w
    <3>1. Numbers(<<>>) = <<>>
      BY NoMarks
    <3> QED BY <3>1 DEF OnTheWay, Going
  <2>2. /\ sent \in Seq(Nat) /\ g \in Seq(Items) /\ special \in Items /\ batch \in Seq(Items) /\ list \in Seq(Items)
    BY <2>0, LineTypes
  <2>3. /\ Ascending(sent \o w) <=> Lined(sent, g, special, batch, list)
        /\ Marks(sent \o w) = Every(sent, g, special, batch, list)
        /\ Marks(w) = NM(g) \cup Own(special) \cup NM(batch) \cup NM(list)
    BY <2>2, InLine
  <2>4. DeliveredInOrder
    <3>1. Ascending(sent \o w) /\ Marks(sent \o w) = Present
      BY <2>0, <2>3 DEF OrderInv, Line, Present
    <3> HIDE DEF w
    <3> QED BY <2>0, <2>1, <3>1 DEF DeliveredInOrder, OrderInv, Sound
  <2>5. IdleMeansSent
    <3> SUFFICES ASSUME IsIdle, ~Exact, spc = "idle" PROVE Marks(w) = {}
      BY <2>1 DEF IdleMeansSent
    <3>1. mode.queued /\ qWaiting # 0 /\ batch = <<>>
      BY <2>0 DEF IsIdle, OrderInv, Ordered
    <3>2. tpc = "wait" /\ qSem = 0
      BY <2>0, <3>1 DEF PlaceInv, Counted
    <3>3. list = <<>> /\ special = None /\ g = <<>>
      BY <2>0, <3>2 DEF PlaceInv, InHand, ControlInv, SleepsOver, Going
    <3>4. NM(<<>>) = {} /\ Own(None) = {}
      BY NoMarks DEF None, Item, Own
    <3> HIDE DEF w, g
    <3> QED BY <2>3, <3>1, <3>3, <3>4
  <2> QED BY <2>4, <2>5 DEF OrderKept
<1> QED BY <1>1, OrderedInvariant, PTL
=============================================================================
