------------------------- MODULE InterleaverProofs -------------------------
(***************************************************************************)
(* Theorems about Interleaver, for every number of streams, queue size,    *)
(* set of times and bound on the packets.                                  *)
(***************************************************************************)
EXTENDS Interleaver, SequenceTheorems, TLAPS

USE DEF vars, streamVars, writerVars, readerVars, historyVars

-----------------------------------------------------------------------------
(* Lemmas.                                                                 *)

(* A non-empty sequence is its head followed by its tail.                  *)
LEMMA HeadTail ==
  ASSUME NEW S, NEW q \in Seq(S), q # <<>>
  PROVE  /\ Head(q) \in S /\ Tail(q) \in Seq(S)
         /\ Head(q) = q[1]
         /\ Len(q) \in Nat \ {0}
         /\ Len(Tail(q)) = Len(q) - 1
         /\ \A i \in 1 .. Len(q) - 1 : Tail(q)[i] = q[i + 1]
  BY HeadTailProperties, EmptySeq, LenProperties

(* The history of a stream moves its next packet across, nothing more.     *)
LEMMA MoveHead ==
  ASSUME NEW S, NEW d \in Seq(S), NEW q \in Seq(S), q # <<>>
  PROVE  Append(d, Head(q)) \o Tail(q) = d \o q
<1>1. /\ Append(d, Head(q)) \in Seq(S)
      /\ Len(Append(d, Head(q))) = Len(d) + 1
      /\ \A i \in 1 .. Len(d) : Append(d, Head(q))[i] = d[i]
      /\ Append(d, Head(q))[Len(d) + 1] = q[1]
  BY HeadTail, AppendProperties
<1>2. /\ Append(d, Head(q)) \o Tail(q) \in Seq(S)
      /\ d \o q \in Seq(S)
  BY <1>1, HeadTail, ConcatProperties
<1>3. Len(Append(d, Head(q)) \o Tail(q)) = Len(d \o q)
  BY <1>1, HeadTail, ConcatProperties, LenProperties
<1>4. ASSUME NEW i \in 1 .. Len(d \o q)
      PROVE  (Append(d, Head(q)) \o Tail(q))[i] = (d \o q)[i]
  BY <1>1, <1>4, HeadTail, ConcatProperties, LenProperties
<1> QED
  BY <1>2, <1>3, <1>4, SeqEqual

(* Writing at the end of the queue is writing at the end of the history.   *)
LEMMA ConcatAppend ==
  ASSUME NEW S, NEW d \in Seq(S), NEW q \in Seq(S), NEW x \in S
  PROVE  d \o Append(q, x) = Append(d \o q, x)
<1>1. <<x>> \in Seq(S)
  OBVIOUS
<1>2. d \o q \in Seq(S)
  BY ConcatProperties
<1>3. /\ Append(q, x) = q \o <<x>>
      /\ Append(d \o q, x) = (d \o q) \o <<x>>
  BY <1>2, AppendIsConcat
<1> QED
  BY <1>1, <1>3, ConcatAssociative

LEMMA PacketsConcat ==
  \A d, q \in Seq(Packets), x \in Packets :
    d \o Append(q, x) = Append(d \o q, x)
  BY ConcatAppend

LEMMA FirstStreams == \A n \in 0 .. MaxStreams : 0 .. n - 1 \subseteq Streams
  BY MaxStreamsAssumption DEF Streams

-----------------------------------------------------------------------------
(* Type correctness.                                                       *)

LEMMA TypeInit == Init => TypeOK
<1> SUFFICES ASSUME Init PROVE TypeOK
  OBVIOUS
<1>1. <<>> \in Seq(Packets)
  BY EmptySeq
<1>2. nStreams \in 0 .. MaxStreams
  BY MaxStreamsAssumption DEF Init
<1> QED
  BY <1>1, <1>2 DEF Init, TypeOK

LEMMA TypeWrite ==
  ASSUME TypeOK, NEW s \in Streams, NEW p \in Packets, Write(s, p)
  PROVE  TypeOK'
  BY DEF Write, Append1, HasRoom, TypeOK

LEMMA TypeStep == TypeOK /\ [Next]_vars => TypeOK'
<1> SUFFICES ASSUME TypeOK, [Next]_vars PROVE TypeOK'
  OBVIOUS
<1> USE MaxStreamsAssumption DEF TypeOK
<1>1. ASSUME NEW inter \in BOOLEAN, AddStream(inter) PROVE TypeOK'
  BY <1>1 DEF AddStream, Streams
<1>2. ASSUME NEW b \in BOOLEAN, SetAbort(b) PROVE TypeOK'
  BY <1>2 DEF SetAbort
<1>3. ASSUME NEW s \in Streams, FlushStream(s) PROVE TypeOK'
  BY <1>3 DEF FlushStream, FlushQueue
<1>4. CASE Flush
  <2>1. queue' \in [Streams -> Seq(Packets)]
    BY <1>4, EmptySeq DEF Flush
  <2>2. accepted' = queue' /\ delivered' = queue' /\ output' = <<>>
    BY <1>4 DEF Flush
  <2>3. output' \in Seq(Packets) /\ canWrite' \in [Streams -> BOOLEAN]
    BY <1>4, EmptySeq DEF Flush
  <2> QED
    BY <1>4, <2>1, <2>2, <2>3 DEF Flush
<1>5. CASE Restart
  BY <1>5 DEF Restart, Clear
<1>6. ASSUME NEW s \in Streams,
             GetPacketCall(s) \/ GetPacketWake(s) \/ GetPacketReturn(s)
      PROVE  TypeOK'
  BY <1>6 DEF GetPacketCall, GetPacketWake, GetPacketReturn
<1>7. ASSUME NEW s \in Streams, NEW p \in Packets, Write(s, p) PROVE TypeOK'
  BY <1>7, TypeWrite
<1>8. CASE ReadCall \/ ReadWake \/ ReadTimeout
  BY <1>8 DEF ReadCall, ReadWake, ReadTimeout
<1>9. CASE ScanEos \/ ScanStarved
  BY <1>9 DEF ScanEos, ScanStarved
<1>10. ASSUME NEW s \in Streams, ScanStuckAtEos(s) PROVE TypeOK'
  BY <1>10 DEF ScanStuckAtEos
<1>11. ASSUME NEW s \in Streams, ScanDeliver(s) PROVE TypeOK'
  <2>1. queue[s] \in Seq(Packets) /\ queue[s] # <<>>
    BY <1>11 DEF ScanDeliver, Lowest, NonEmpty
  <2>2. Head(queue[s]) \in Packets /\ Tail(queue[s]) \in Seq(Packets)
    BY <2>1, HeadTail
  <2> QED
    BY <1>11, <2>2 DEF ScanDeliver, HasRoom
<1>12. CASE UNCHANGED vars
  BY <1>12
<1> QED
  BY <1>1, <1>2, <1>3, <1>4, <1>5, <1>6, <1>7, <1>8, <1>9, <1>10, <1>11, <1>12
  DEF Next, Control, Writer, Reader, Scan

(* Every variable keeps its type.                                          *)
THEOREM TypeCorrect == Spec => []TypeOK
  BY TypeInit, TypeStep, PTL DEF Spec

-----------------------------------------------------------------------------
(* Room and events.                                                        *)

(***************************************************************************)
(* QueueBounded alone is not inductive: Write appends without looking.     *)
(* The room that GetPacket waited for is still there when it looks at the  *)
(* abort and when Write appends, since only the writer of a stream takes   *)
(* room away - unless it did not wait for room but overlooked an abort.    *)
(***************************************************************************)
RoomKept ==
  \A s \in Streams :
    /\ wpc[s] = "writable" => HasRoom(queue[s])
    /\ wpc[s] = "filling" => HasRoom(queue[s]) \/ overlooked[s]

Room == QueueBounded /\ WritableIffRoom /\ RoomKept

RoomInv == TypeOK /\ Room

LEMMA RoomInit == Init => RoomInv
<1> SUFFICES ASSUME Init PROVE RoomInv
  OBVIOUS
<1>1. \A s \in Streams : Len(queue[s]) = 0
  BY EmptySeq DEF Init
<1>2. TypeOK
  BY TypeInit
<1> QED
  BY <1>1, <1>2, SizeAssumption
  DEF Init, RoomInv, Room, QueueBounded, WritableIffRoom, RoomKept, HasRoom

(* The writer finds the room that GetPacket has seen.                      *)
LEMMA RoomWrite ==
  ASSUME RoomInv, NEW s \in Streams, NEW p \in Packets, Write(s, p)
  PROVE  Room'
<1> USE DEF Room, QueueBounded, WritableIffRoom, RoomKept, HasRoom
<1>0. TypeOK /\ Room
  BY DEF RoomInv
<1>1. queue[s] \in Seq(Packets) /\ queue' = [queue EXCEPT ![s] = Append(@, p)]
  BY <1>0 DEF Write, Append1, TypeOK
<1>2. Len(queue'[s]) = Len(queue[s]) + 1
  BY <1>0, <1>1, AppendProperties DEF TypeOK
<1>3. HasRoom(queue[s]) \/ overlooked[s]
  BY <1>0 DEF Write
<1>4. /\ canWrite'[s] <=> canWrite[s] /\ HasRoom(queue'[s])
      /\ wpc'[s] = "idle" /\ overlooked' = overlooked
  BY <1>0 DEF Write, Append1, TypeOK
<1>6. \A t \in Streams \ {s} : /\ queue'[t] = queue[t]
                              /\ canWrite'[t] = canWrite[t]
                              /\ wpc'[t] = wpc[t]
  BY <1>0 DEF Write, Append1, TypeOK
<1>7. Len(queue[s]) \in Nat /\ Size \in Nat
  BY <1>1, LenProperties, SizeAssumption
<1>8. /\ HasRoom(queue'[s]) => HasRoom(queue[s])
      /\ HasRoom(queue[s]) => Len(queue'[s]) <= Size
  BY <1>2, <1>7
<1>9. Len(queue'[s]) <= Size \/ overlooked'[s]
  BY <1>3, <1>4, <1>8
<1>10. canWrite'[s] <=> HasRoom(queue'[s])
  BY <1>0, <1>4, <1>8
<1> QED
  BY <1>0, <1>4, <1>6, <1>9, <1>10

LEMMA RoomStep == RoomInv /\ [Next]_vars => RoomInv'
<1> SUFFICES ASSUME RoomInv, [Next]_vars PROVE RoomInv'
  OBVIOUS
<1>0. TypeOK /\ TypeOK'
  BY TypeStep DEF RoomInv
<1>a. Size \in Nat \ {0} /\ Len(<<>>) = 0 /\ \A s \in Streams : Len(queue[s]) \in Nat
  BY <1>0, SizeAssumption, EmptySeq, LenProperties DEF TypeOK
<1> USE <1>a DEF Room, QueueBounded, WritableIffRoom, RoomKept, HasRoom
<1>r. Room
  BY DEF RoomInv
<1>1. ASSUME UNCHANGED <<queue, canWrite, wpc, overlooked>> PROVE Room'
  BY <1>1, <1>r
<1>2. ASSUME NEW s \in Streams, FlushStream(s) PROVE Room'
  BY <1>0, <1>2, <1>r DEF FlushStream, FlushQueue, TypeOK
<1>3. ASSUME Flush \/ Restart PROVE Room'
  <2>1. \A t \in Streams : queue'[t] = <<>> /\ canWrite'[t] = TRUE
    BY <1>3 DEF Flush, Restart, Clear
  <2>2. \A t \in Streams : Len(queue'[t]) = 0
    BY <2>1, EmptySeq
  <2>3. QueueBounded'
    BY <2>2
  <2>4. WritableIffRoom'
    BY <2>1, <2>2
  <2>5. RoomKept'
    BY <2>2
  <2> QED
    BY <2>3, <2>4, <2>5
<1>4. ASSUME NEW s \in Streams, GetPacketCall(s) PROVE Room'
  BY <1>0, <1>4, <1>r DEF GetPacketCall, TypeOK
<1>5. ASSUME NEW s \in Streams, GetPacketWake(s) PROVE Room'
  BY <1>0, <1>5, <1>r DEF GetPacketWake, TypeOK
<1>6. ASSUME NEW s \in Streams, GetPacketReturn(s) PROVE Room'
  <2>1. /\ UNCHANGED <<queue, canWrite>>
        /\ wpc'[s] = "filling" => HasRoom(queue[s]) \/ overlooked'[s]
        /\ overlooked[s] => overlooked'[s]
        /\ wpc'[s] # "writable"
    BY <1>0, <1>6, <1>r DEF GetPacketReturn, TypeOK
  <2>2. \A t \in Streams \ {s} : wpc'[t] = wpc[t] /\ overlooked'[t] = overlooked[t]
    BY <1>0, <1>6 DEF GetPacketReturn, TypeOK
  <2> QED
    BY <1>r, <2>1, <2>2
<1>7. ASSUME NEW s \in Streams, NEW p \in Packets, Write(s, p) PROVE Room'
  BY <1>7, RoomWrite
<1>8. ASSUME NEW s \in Streams, ScanDeliver(s) PROVE Room'
  <2>1. /\ queue[s] \in Seq(Packets) /\ queue[s] # <<>>
        /\ queue' = [queue EXCEPT ![s] = Tail(@)]
    BY <1>0, <1>8 DEF ScanDeliver, Lowest, NonEmpty, TypeOK
  <2>2. Len(queue'[s]) = Len(queue[s]) - 1
    BY <1>0, <2>1, HeadTail DEF TypeOK
  <2>3. /\ canWrite'[s] <=> canWrite[s] \/ HasRoom(queue'[s])
        /\ overlooked'[s] <=> overlooked[s] /\ ~HasRoom(queue'[s])
        /\ wpc' = wpc
        /\ \A t \in Streams \ {s} : /\ queue'[t] = queue[t]
                                   /\ canWrite'[t] = canWrite[t]
                                   /\ overlooked'[t] = overlooked[t]
    BY <1>0, <1>8 DEF ScanDeliver, TypeOK
  <2>4. /\ HasRoom(queue[s]) => HasRoom(queue'[s])
        /\ Len(queue[s]) <= Size => HasRoom(queue'[s])
        /\ HasRoom(queue'[s]) => Len(queue'[s]) <= Size
    BY <1>a, <2>2
  <2>5. Len(queue'[s]) <= Size \/ overlooked'[s]
    BY <1>r, <2>3, <2>4
  <2>6. canWrite'[s] <=> HasRoom(queue'[s])
    BY <1>r, <2>3, <2>4
  <2>7. /\ wpc'[s] = "writable" => HasRoom(queue'[s])
        /\ wpc'[s] = "filling" => HasRoom(queue'[s]) \/ overlooked'[s]
    BY <1>r, <2>3, <2>4
  <2> QED
    BY <1>r, <2>3, <2>5, <2>6, <2>7
<1>9. Room'
  BY <1>1, <1>2, <1>3, <1>4, <1>5, <1>6, <1>7, <1>8
  DEF Next, Control, Writer, Reader, Scan, AddStream, SetAbort, ReadCall,
      ReadWake, ReadTimeout, ScanEos, ScanStarved, ScanStuckAtEos
<1> QED
  BY <1>0, <1>9 DEF RoomInv

LEMMA RoomAlways == Spec => []RoomInv
  BY RoomInit, RoomStep, PTL DEF Spec

(***************************************************************************)
(* A queue outgrows its size only through an abort that woke GetPacket and *)
(* was taken back before GetPacket looked, whatever runs between the wait, *)
(* the test and the use of the room.                                       *)
(***************************************************************************)
THEOREM BoundedQueues == Spec => []QueueBounded
<1>1. RoomInv => QueueBounded
  BY DEF RoomInv, Room
<1> QED
  BY <1>1, RoomAlways, PTL

(* ev_can_write always tells the truth about the room in the queue.        *)
THEOREM WritableEvents == Spec => []WritableIffRoom
<1>1. RoomInv => WritableIffRoom
  BY DEF RoomInv, Room
<1> QED
  BY <1>1, RoomAlways, PTL

-----------------------------------------------------------------------------
(* The reader is never left asleep.                                        *)

(* A stream that does not exist holds nothing.                             *)
DeadStreams == \A s \in Streams : s \notin Live => queue[s] = <<>>

WakeInv == TypeOK /\ DeadStreams /\ NoLostWakeup

LEMMA DeadStep ==
  ASSUME TypeOK, DeadStreams, [Next]_vars
  PROVE  DeadStreams'
<1> USE DEF DeadStreams, Live
<1>1. ASSUME NEW inter \in BOOLEAN, AddStream(inter) PROVE DeadStreams'
  BY <1>1 DEF AddStream, TypeOK
<1>2. ASSUME NEW s \in Streams, FlushStream(s) PROVE DeadStreams'
  BY <1>2 DEF FlushStream, FlushQueue, TypeOK
<1>3. ASSUME Flush PROVE DeadStreams'
  BY <1>3 DEF Flush
<1>4. ASSUME Restart PROVE DeadStreams'
  BY <1>4 DEF Restart, Clear, Quiet
<1>5. ASSUME NEW s \in Streams,
             GetPacketCall(s) \/ GetPacketWake(s) \/ GetPacketReturn(s)
      PROVE  DeadStreams'
  BY <1>5 DEF GetPacketCall, GetPacketWake, GetPacketReturn, TypeOK
<1>6. ASSUME NEW s \in Streams, NEW p \in Packets, Write(s, p)
      PROVE  DeadStreams'
  BY <1>6 DEF Write, Append1, TypeOK
<1>7. ASSUME NEW s \in Streams, ScanDeliver(s) PROVE DeadStreams'
  BY <1>7 DEF ScanDeliver, Lowest, NonEmpty, TypeOK
<1>8. ASSUME UNCHANGED <<nStreams, queue, wpc>> PROVE DeadStreams'
  BY <1>8
<1> QED
  BY <1>1, <1>2, <1>3, <1>4, <1>5, <1>6, <1>7, <1>8
  DEF Next, Control, Writer, Reader, Scan, SetAbort, ReadCall, ReadWake,
      ReadTimeout, ScanEos, ScanStarved, ScanStuckAtEos

LEMMA WakeInit == Init => WakeInv
<1> SUFFICES ASSUME Init PROVE WakeInv
  OBVIOUS
<1>1. NonEmpty = {}
  BY DEF Init, NonEmpty, Live
<1> QED
  BY <1>1, TypeInit DEF Init, WakeInv, DeadStreams, NoLostWakeup

LEMMA WakeStep == WakeInv /\ [Next]_vars => WakeInv'
<1> SUFFICES ASSUME WakeInv, [Next]_vars PROVE WakeInv'
  OBVIOUS
<1>0. TypeOK /\ TypeOK' /\ DeadStreams /\ DeadStreams' /\ NoLostWakeup
  BY TypeStep, DeadStep DEF WakeInv
<1>1. ASSUME NEW inter \in BOOLEAN, AddStream(inter) PROVE NoLostWakeup'
  <2>1. /\ nStreams \in Nat
        /\ nStreams \in Streams
        /\ queue[nStreams] = <<>>
    BY <1>0, <1>1, MaxStreamsAssumption
    DEF AddStream, TypeOK, DeadStreams, Live, Streams
  <2>2. Live' = Live \cup {nStreams} /\ nStreams \notin Live
    BY <1>1, <2>1 DEF AddStream, Live
  <2>3. NonEmpty' = NonEmpty
    BY <1>1, <2>1, <2>2 DEF AddStream, NonEmpty
  <2>4. InterleavedStreams \subseteq InterleavedStreams'
    BY <1>0, <1>1, <2>1, <2>2
    DEF AddStream, TypeOK, Live, Streams, InterleavedStreams
  <2>5. CanDeliver' => CanDeliver
    BY <2>3, <2>4 DEF CanDeliver
  <2>6. canRead' = canRead
    BY <1>1 DEF AddStream
  <2> QED
    BY <1>0, <2>3, <2>5, <2>6 DEF NoLostWakeup
<1>2. ASSUME NEW s \in Streams, FlushStream(s) PROVE NoLostWakeup'
  <2>0. Live \subseteq Streams
    BY <1>0, MaxStreamsAssumption DEF TypeOK, Live, Streams
  <2>1. /\ queue'[s] = <<>>
        /\ \A t \in Streams \ {s} : queue'[t] = queue[t]
    BY <1>0, <1>2 DEF FlushStream, FlushQueue, TypeOK
  <2>2. Live' = Live /\ InterleavedStreams' = InterleavedStreams
    BY <1>2 DEF FlushStream, Live, InterleavedStreams
  <2>3. NonEmpty' = NonEmpty \ {s}
    BY <2>0, <2>1, <2>2 DEF NonEmpty
  <2>4. canRead' <=> canRead /\ NonEmpty' # {}
    BY <1>2, <2>0, <2>1, <2>3 DEF FlushStream, NonEmpty
  <2>5. CanDeliver' => CanDeliver
    BY <2>2, <2>3 DEF CanDeliver
  <2>6. NonEmpty' # {} => NonEmpty # {}
    BY <2>3
  <2> QED
    BY <1>0, <2>4, <2>5, <2>6 DEF NoLostWakeup
<1>3. ASSUME Flush \/ Restart PROVE NoLostWakeup'
  <2>0. nStreams' \in 0 .. MaxStreams
    BY <1>0 DEF TypeOK
  <2>1. Live' \subseteq Streams
    BY <2>0, FirstStreams DEF Live
  <2>2. \A t \in Streams : queue'[t] = <<>>
    BY <1>3 DEF Flush, Restart, Clear
  <2> QED
    BY <2>1, <2>2 DEF NoLostWakeup, NonEmpty
<1>4. ASSUME NEW s \in Streams, NEW p \in Packets, Write(s, p)
      PROVE  NoLostWakeup'
  BY <1>4 DEF Write, Append1, NoLostWakeup
<1>5. ASSUME NEW s \in Streams, ScanDeliver(s) PROVE NoLostWakeup'
  BY <1>0, <1>5 DEF ScanDeliver, Lowest, NoLostWakeup
<1>6. ASSUME ScanStarved PROVE NoLostWakeup'
  BY <1>6 DEF ScanStarved, Live, NoLostWakeup, CanDeliver,
              InterleavedStreams, NonEmpty
<1>7. ASSUME UNCHANGED <<nStreams, interleaved, queue, canRead>>
      PROVE  NoLostWakeup'
  BY <1>0, <1>7 DEF Live, NoLostWakeup, CanDeliver, InterleavedStreams,
                    NonEmpty
<1>8. NoLostWakeup'
  BY <1>1, <1>2, <1>3, <1>4, <1>5, <1>6, <1>7
  DEF Next, Control, Writer, Reader, Scan, SetAbort, GetPacketCall,
      GetPacketWake, GetPacketReturn, ReadCall, ReadWake, ReadTimeout, ScanEos,
      ScanStuckAtEos
<1> QED
  BY <1>0, <1>8 DEF WakeInv

LEMMA WakeAlways == Spec => []WakeInv
  BY WakeInit, WakeStep, PTL DEF Spec

(***************************************************************************)
(* A reader that goes to sleep is woken by every packet it could deliver:  *)
(* ev_can_read is set whenever the queues hold a deliverable packet.       *)
(***************************************************************************)
THEOREM ReaderNeverMissesPacket == Spec => []NoLostWakeup
<1>1. WakeInv => NoLostWakeup
  BY DEF WakeInv
<1> QED
  BY <1>1, WakeAlways, PTL

-----------------------------------------------------------------------------
(* Nothing is lost, repeated or reordered.                                 *)

FifoInv == TypeOK /\ StreamFifo

LEMMA FifoInit == Init => FifoInv
<1> SUFFICES ASSUME Init PROVE FifoInv
  OBVIOUS
<1>1. <<>> \o <<>> = <<>>
  BY EmptySeq, ConcatEmptySeq
<1> QED
  BY <1>1, TypeInit DEF Init, FifoInv, StreamFifo

LEMMA FifoWrite ==
  ASSUME FifoInv, NEW s \in Streams, NEW p \in Packets, Write(s, p)
  PROVE  StreamFifo'
<1>0. TypeOK /\ StreamFifo
  BY DEF FifoInv
<1>1. /\ queue'[s] = Append(queue[s], p)
      /\ accepted'[s] = Append(accepted[s], p)
      /\ delivered' = delivered
      /\ \A t \in Streams \ {s} :
           queue'[t] = queue[t] /\ accepted'[t] = accepted[t]
  <2>1. /\ queue' = [queue EXCEPT ![s] = Append(@, p)]
        /\ accepted' = [accepted EXCEPT ![s] = Append(@, p)]
        /\ delivered' = delivered
    BY DEF Write, Append1
  <2> QED
    BY <1>0, <2>1 DEF TypeOK
<1>2. delivered[s] \o Append(queue[s], p) = Append(delivered[s] \o queue[s], p)
  BY <1>0, PacketsConcat DEF TypeOK
<1> QED
  BY <1>0, <1>1, <1>2 DEF StreamFifo

LEMMA FifoStep == FifoInv /\ [Next]_vars => FifoInv'
<1> SUFFICES ASSUME FifoInv, [Next]_vars PROVE FifoInv'
  OBVIOUS
<1>0. TypeOK /\ TypeOK' /\ StreamFifo
  BY TypeStep DEF FifoInv
<1>b. \A s \in Streams : delivered[s] \in Seq(Packets) /\ queue[s] \in Seq(Packets)
  BY <1>0 DEF TypeOK
<1> USE DEF StreamFifo
<1>1. ASSUME NEW s \in Streams, FlushStream(s) PROVE StreamFifo'
  <2>1. \A t \in Streams : delivered'[t] = <<>> /\ accepted'[t] = queue'[t]
    BY <1>1 DEF FlushStream
  <2>2. \A t \in Streams : <<>> \o queue'[t] = queue'[t]
    BY <1>0, ConcatEmptySeq DEF TypeOK
  <2> QED
    BY <2>1, <2>2
<1>2. ASSUME Flush \/ Restart PROVE StreamFifo'
  <2>1. \A t \in Streams :
          queue'[t] = <<>> /\ delivered'[t] = <<>> /\ accepted'[t] = <<>>
    BY <1>2 DEF Flush, Restart, Clear
  <2>2. <<>> \o <<>> = <<>>
    BY EmptySeq, ConcatEmptySeq
  <2> QED
    BY <2>1, <2>2
<1>3. ASSUME NEW s \in Streams, NEW p \in Packets, Write(s, p)
      PROVE  StreamFifo'
  BY <1>3, FifoWrite
<1>4. ASSUME NEW s \in Streams, ScanDeliver(s) PROVE StreamFifo'
  <2>1. /\ queue[s] # <<>>
        /\ queue'[s] = Tail(queue[s])
        /\ delivered'[s] = Append(delivered[s], Head(queue[s]))
        /\ accepted' = accepted
        /\ \A t \in Streams \ {s} :
             queue'[t] = queue[t] /\ delivered'[t] = delivered[t]
    <3>1. /\ queue' = [queue EXCEPT ![s] = Tail(@)]
          /\ delivered' = [delivered EXCEPT ![s] = Append(@, Head(queue[s]))]
          /\ accepted' = accepted
          /\ queue[s] # <<>>
      BY <1>4 DEF ScanDeliver, Lowest, NonEmpty
    <3> QED
      BY <1>0, <3>1 DEF TypeOK
  <2>2. delivered'[s] \o queue'[s] = delivered[s] \o queue[s]
    BY <1>b, <2>1, MoveHead
  <2> QED
    BY <1>0, <2>1, <2>2
<1>5. ASSUME UNCHANGED <<queue, delivered, accepted>> PROVE StreamFifo'
  BY <1>0, <1>5
<1>6. StreamFifo'
  BY <1>1, <1>2, <1>3, <1>4, <1>5
  DEF Next, Control, Writer, Reader, Scan, AddStream, SetAbort,
      GetPacketCall, GetPacketWake, GetPacketReturn, ReadCall, ReadWake, ReadTimeout,
      ScanEos, ScanStarved, ScanStuckAtEos
<1> QED
  BY <1>0, <1>6 DEF FifoInv

LEMMA FifoAlways == Spec => []FifoInv
  BY FifoInit, FifoStep, PTL DEF Spec

(* On every stream, what was read and what is queued is what was written.  *)
THEOREM StreamsAreFifo == Spec => []StreamFifo
<1>1. FifoInv => StreamFifo
  BY DEF FifoInv
<1> QED
  BY <1>1, FifoAlways, PTL
-----------------------------------------------------------------------------
(***************************************************************************)
(* The interleaver implements OrderedMerge, for every number of streams,   *)
(* queue size, set of times and bound on the packets.  What the streams    *)
(* hold, and which of them are interleaved, is what the abstract           *)
(* specification calls pending and required; events, threads, limits and   *)
(* the calls that deliver nothing are steps it does not see.               *)
(***************************************************************************)

RefInv == WakeInv /\ FifoInv

LEMMA RefInvAlways == Spec => []RefInv
<1>1. WakeInv /\ FifoInv => RefInv
  BY DEF RefInv
<1> QED
  BY <1>1, WakeAlways, FifoAlways, PTL

(* A stream with packets exists, so the two ways to say so agree.          *)
LEMMA WaitingIsNonEmpty == RefInv => Merge!Waiting = NonEmpty
<1> SUFFICES ASSUME RefInv PROVE Merge!Waiting = NonEmpty
  OBVIOUS
<1>1. DeadStreams /\ TypeOK
  BY DEF RefInv, WakeInv
<1>2. Live \subseteq Streams
  BY <1>1, MaxStreamsAssumption DEF TypeOK, Live, Streams
<1> QED
  BY <1>1, <1>2 DEF Merge!Waiting, NonEmpty, DeadStreams

(* Two sequences that make nothing together are both empty.                *)
LEMMA EmptyConcat ==
  ASSUME NEW S, NEW d \in Seq(S), NEW q \in Seq(S), d \o q = <<>>
  PROVE  q = <<>>
<1>1. Len(d \o q) = Len(d) + Len(q) /\ Len(d) \in Nat /\ Len(q) \in Nat
  BY ConcatProperties, LenProperties
<1>2. Len(d \o q) = 0
  BY EmptySeq
<1> QED
  BY <1>1, <1>2, EmptySeq

LEMMA MergeInit == Init => Merge!Init
<1> SUFFICES ASSUME Init PROVE Merge!Init
  OBVIOUS
<1>1. InterleavedStreams = {}
  BY DEF Init, InterleavedStreams, Live
<1> QED
  BY <1>1 DEF Init, Merge!Init, Merge!Nothing

LEMMA MergeStep ==
  RefInv /\ RefInv' /\ [Next]_vars => [Merge!Next]_(Merge!mvars)
<1> SUFFICES ASSUME RefInv, RefInv', [Next]_vars
             PROVE  [Merge!Next]_(Merge!mvars)
  OBVIOUS
<1>0. TypeOK /\ DeadStreams /\ StreamFifo
  BY DEF RefInv, WakeInv, FifoInv
<1>s. Live \subseteq Streams
  BY <1>0, MaxStreamsAssumption DEF TypeOK, Live, Streams
<1>t. nStreams' \in 0 .. MaxStreams
  BY DEF RefInv, WakeInv, TypeOK
<1>u. InterleavedStreams' \subseteq Streams
  BY <1>t, FirstStreams DEF InterleavedStreams, Live
<1> USE DEF Merge!mvars
<1>1. ASSUME NEW inter \in BOOLEAN, Unused, AddStream(inter)
      PROVE  Merge!Begin
  <2>1. \A s \in Streams : queue[s] = <<>>
    <3> SUFFICES ASSUME NEW s \in Streams PROVE queue[s] = <<>>
      OBVIOUS
    <3>1. delivered[s] \in Seq(Packets) /\ queue[s] \in Seq(Packets)
      BY <1>0 DEF TypeOK
    <3>2. delivered[s] \o queue[s] = <<>>
      BY <1>0, <1>1 DEF Unused, StreamFifo
    <3> QED
      BY <3>1, <3>2, EmptyConcat
  <2>2. queue = [s \in Streams |-> <<>>]
    BY <1>0, <2>1 DEF TypeOK
  <2>3. queue' = queue /\ output' = output /\ output = <<>>
    BY <1>1 DEF AddStream, Unused
  <2> QED
    BY <1>u, <2>2, <2>3 DEF Merge!Begin, Merge!Nothing
<1>2. ASSUME NEW s \in Streams, FlushStream(s) PROVE Merge!Discard({s})
  <2>1. queue' = [queue EXCEPT ![s] = <<>>] /\ output' = <<>>
    BY <1>2 DEF FlushStream, FlushQueue
  <2>2. queue' = [t \in Streams |-> IF t \in {s} THEN <<>> ELSE queue[t]]
    BY <1>0, <2>1 DEF TypeOK
  <2>3. InterleavedStreams' = InterleavedStreams
    BY <1>2 DEF FlushStream, InterleavedStreams, Live
  <2> QED
    BY <2>1, <2>2, <2>3 DEF Merge!Discard
<1>3. ASSUME Flush PROVE Merge!Discard(Streams)
  <2>1. InterleavedStreams' = InterleavedStreams
    BY <1>3 DEF Flush, InterleavedStreams, Live
  <2>2. queue' = [t \in Streams |-> IF t \in Streams THEN <<>> ELSE queue[t]]
    BY <1>3 DEF Flush
  <2>3. output' = <<>>
    BY <1>3 DEF Flush
  <2> QED
    BY <2>1, <2>2, <2>3 DEF Merge!Discard
<1>4. ASSUME Restart PROVE Merge!Begin
  BY <1>4, <1>u DEF Restart, Clear, Merge!Begin, Merge!Nothing
<1>5. ASSUME NEW s \in Streams, NEW p \in Packets, Write(s, p)
      PROVE  Merge!Put(s)
  <2>1. queue' = [queue EXCEPT ![s] = Append(@, p)] /\ output' = output
    BY <1>5 DEF Write, Append1
  <2>2. InterleavedStreams' = InterleavedStreams
    BY <1>5 DEF Write, InterleavedStreams, Live
  <2> QED
    BY <2>1, <2>2 DEF Merge!Put
<1>6. ASSUME NEW s \in Streams, ScanDeliver(s) PROVE Merge!Take(s)
  <2>1. Merge!Waiting = NonEmpty
    BY WaitingIsNonEmpty
  <2>2. InterleavedStreams \subseteq Merge!Waiting
    BY <1>6, <2>1 DEF ScanDeliver, CanDeliver
  <2>3. Merge!Earliest(s)
    BY <1>6, <2>1 DEF ScanDeliver, Lowest, Before, Merge!Earliest
  <2>4. InterleavedStreams' = InterleavedStreams
    BY <1>6 DEF ScanDeliver, InterleavedStreams, Live
  <2>5. /\ queue' = [queue EXCEPT ![s] = Tail(@)]
        /\ output' = Append(output, Head(queue[s]))
    BY <1>6 DEF ScanDeliver
  <2> QED
    BY <2>2, <2>3, <2>4, <2>5 DEF Merge!Take
<1>7. ASSUME UNCHANGED <<nStreams, interleaved, queue, output>>
      PROVE  UNCHANGED Merge!mvars
  BY <1>7 DEF InterleavedStreams, Live
<1>8. Streams \in SUBSET Streams /\ \A s \in Streams : {s} \in SUBSET Streams
  OBVIOUS
<1> QED
  BY <1>1, <1>2, <1>3, <1>4, <1>5, <1>6, <1>7, <1>8
  DEF Next, Control, Writer, Reader, Scan, SetAbort, GetPacketCall,
      GetPacketWake, GetPacketReturn, ReadCall, ReadWake, ReadTimeout, ScanEos, ScanStarved,
      ScanStuckAtEos, Merge!Next

(***************************************************************************)
(* Every behaviour of the interleaver is one of the ordered merge: packets *)
(* leave in the order of the abstract specification, only when every       *)
(* interleaved stream has one, and only a flush or a new session loses any. *)
(***************************************************************************)
THEOREM ImplementsMerge == Spec => MergeSpec
  BY RefInvAlways, MergeInit, MergeStep, PTL DEF Spec, MergeSpec, Merge!Spec

-----------------------------------------------------------------------------
(* The merged output of the interleaved streams is sorted when the times   *)
(* of each stream never decrease.                                          *)

(* A queue holds packets of its own stream.                                *)
OwnStream ==
  \A s \in Streams : \A i \in DOMAIN queue[s] : queue[s][i].stream = s

(* The packet written last is the last of the queue, if it is still there. *)
SameEnd ==
  \A s \in Streams : queue[s] # <<>> =>
    /\ accepted[s] # <<>>
    /\ accepted[s][Len(accepted[s])] = queue[s][Len(queue[s])]

(* Each queue is sorted, and nothing follows an end-of-stream packet.      *)
OrderedQueues ==
  \A s \in Streams : \A i, j \in DOMAIN queue[s] : i < j =>
    /\ ~queue[s][i].eos
    /\ ~queue[s][j].eos => queue[s][i].time <= queue[s][j].time

(***************************************************************************)
(* What has been delivered is a lower bound of what can still come: of     *)
(* what every interleaved stream has queued, and of its last time, below   *)
(* which upstream may not go.                                              *)
(***************************************************************************)
OutputBound ==
  \A k \in DOMAIN output : \A s \in InterleavedStreams :
    /\ accepted[s] # <<>>
    /\ ~Ended(s) => output[k].time <= accepted[s][Len(accepted[s])].time
    /\ \A i \in DOMAIN queue[s] :
         ~queue[s][i].eos => output[k].time <= queue[s][i].time

SortedSoFar ==
  \A i, j \in DOMAIN output :
    (i < j /\ interleaved[output[j].stream])
      => output[i].time <= output[j].time

MonotoneInv == OrderedQueues /\ OutputBound /\ SortedSoFar

SortInv == TypeOK /\ OwnStream /\ SameEnd /\ (Monotone => MonotoneInv)

-----------------------------------------------------------------------------
(* What appending and taking the head do to the elements of a sequence.    *)

LEMMA AppendAt ==
  ASSUME NEW S, NEW q \in Seq(S), NEW p \in S
  PROVE  /\ Len(q) \in Nat
         /\ DOMAIN q = 1 .. Len(q)
         /\ DOMAIN Append(q, p) = 1 .. Len(q) + 1
         /\ Len(Append(q, p)) = Len(q) + 1
         /\ \A i \in 1 .. Len(q) : Append(q, p)[i] = q[i]
         /\ Append(q, p)[Len(q) + 1] = p
  BY AppendProperties, LenProperties

LEMMA TailAt ==
  ASSUME NEW S, NEW q \in Seq(S), q # <<>>
  PROVE  /\ Len(q) \in Nat \ {0}
         /\ DOMAIN q = 1 .. Len(q)
         /\ DOMAIN Tail(q) = 1 .. Len(q) - 1
         /\ Len(Tail(q)) = Len(q) - 1
         /\ \A i \in 1 .. Len(q) - 1 : Tail(q)[i] = q[i + 1]
         /\ Head(q) = q[1]
  BY HeadTailProperties, LenProperties, EmptySeq

(* What Write changes.                                                     *)
LEMMA WriteEffect ==
  ASSUME TypeOK, NEW s \in Streams, NEW p \in Packets, Write(s, p)
  PROVE  /\ queue'[s] = Append(queue[s], p)
         /\ accepted'[s] = Append(accepted[s], p)
         /\ \A t \in Streams \ {s} :
              queue'[t] = queue[t] /\ accepted'[t] = accepted[t]
         /\ output' = output
         /\ interleaved' = interleaved /\ nStreams' = nStreams
<1>1. /\ queue' = [queue EXCEPT ![s] = Append(@, p)]
      /\ accepted' = [accepted EXCEPT ![s] = Append(@, p)]
      /\ output' = output
      /\ interleaved' = interleaved /\ nStreams' = nStreams
  BY DEF Write, Append1
<1> QED
  BY <1>1 DEF TypeOK

(* What the delivery of the head of s changes.                             *)
LEMMA DeliverEffect ==
  ASSUME TypeOK, NEW s \in Streams, ScanDeliver(s)
  PROVE  /\ queue[s] # <<>>
         /\ queue'[s] = Tail(queue[s])
         /\ \A t \in Streams \ {s} : queue'[t] = queue[t]
         /\ accepted' = accepted
         /\ output' = Append(output, Head(queue[s]))
         /\ interleaved' = interleaved /\ nStreams' = nStreams
         /\ ~Head(queue[s]).eos
<1>1. /\ queue' = [queue EXCEPT ![s] = Tail(@)]
      /\ accepted' = accepted
      /\ output' = Append(output, Head(queue[s]))
      /\ interleaved' = interleaved /\ nStreams' = nStreams
      /\ queue[s] # <<>> /\ ~Head(queue[s]).eos
  BY DEF ScanDeliver, Lowest, NonEmpty, AtEos
<1> QED
  BY <1>1 DEF TypeOK
(* What flushing one stream changes.                                       *)
LEMMA FlushEffect ==
  ASSUME TypeOK, NEW s \in Streams, FlushStream(s)
  PROVE  /\ queue'[s] = <<>>
         /\ \A t \in Streams \ {s} : queue'[t] = queue[t]
         /\ accepted' = queue'
         /\ output' = <<>>
  BY DEF FlushStream, FlushQueue, TypeOK

(* What a flush of everything and a new session change.                    *)
LEMMA EmptyEffect ==
  ASSUME Flush \/ Restart
  PROVE  /\ \A t \in Streams : queue'[t] = <<>> /\ accepted'[t] = <<>>
         /\ output' = <<>>
  BY DEF Flush, Restart, Clear

LEMMA NothingIn == \A i : i \notin DOMAIN <<>>
  OBVIOUS

LEMMA PacketTimes == \A p \in Packets : p.time \in Int
<1>1. \A p \in Packets : p.time \in Times \cup {0}
  BY DEF Packets
<1>2. \A t \in Times \cup {0} : t \in Int
  <2>1. \A t \in Times : t \in Int
    BY TimesAssumption, Zenon
  <2>2. 0 \in Int
    OBVIOUS
  <2> QED
    BY <2>1, <2>2, Zenon
<1> QED
  BY <1>1, <1>2, Zenon

LEMMA QueueTypes ==
  ASSUME TypeOK, NEW s \in Streams
  PROVE  queue[s] \in Seq(Packets) /\ accepted[s] \in Seq(Packets)
  BY DEF TypeOK

-----------------------------------------------------------------------------
(* Each part of the invariant is kept.                                     *)

LEMMA OwnStreamStep ==
  ASSUME SortInv, [Next]_vars
  PROVE  OwnStream'
<1>0. TypeOK /\ OwnStream
  BY DEF SortInv
<1> USE DEF OwnStream
<1>1. ASSUME NEW s \in Streams, FlushStream(s) PROVE OwnStream'
  BY <1>0, <1>1, FlushEffect, NothingIn
<1>2. ASSUME Flush \/ Restart PROVE OwnStream'
  BY <1>2, EmptyEffect, NothingIn
<1>3. ASSUME NEW s \in Streams, NEW p \in Packets, MaySend(s, p), Write(s, p)
      PROVE  OwnStream'
  <2>1. p.stream = s
    BY <1>3 DEF MaySend, SamplePacket, EosPacket
  <2>2. /\ queue'[s] = Append(queue[s], p)
        /\ \A t \in Streams \ {s} : queue'[t] = queue[t]
    BY <1>0, <1>3, WriteEffect
  <2>3. \A i \in DOMAIN queue'[s] : queue'[s][i].stream = s
    BY <1>0, <2>1, <2>2, QueueTypes, AppendAt
  <2> QED
    BY <1>0, <2>2, <2>3
<1>4. ASSUME NEW s \in Streams, ScanDeliver(s) PROVE OwnStream'
  <2>1. /\ queue[s] # <<>>
        /\ queue'[s] = Tail(queue[s])
        /\ \A t \in Streams \ {s} : queue'[t] = queue[t]
    BY <1>0, <1>4, DeliverEffect
  <2>2. \A i \in DOMAIN queue'[s] : queue'[s][i].stream = s
    BY <1>0, <2>1, QueueTypes, TailAt
  <2> QED
    BY <1>0, <2>1, <2>2
<1>5. ASSUME UNCHANGED queue PROVE OwnStream'
  BY <1>0, <1>5
<1> QED
  BY <1>1, <1>2, <1>3, <1>4, <1>5
  DEF Next, Control, Writer, Reader, Scan, AddStream, SetAbort,
      GetPacketCall, GetPacketWake, GetPacketReturn, ReadCall, ReadWake, ReadTimeout,
      ScanEos, ScanStarved, ScanStuckAtEos

LEMMA SameEndStep ==
  ASSUME SortInv, [Next]_vars
  PROVE  SameEnd'
<1>0. TypeOK /\ SameEnd
  BY DEF SortInv
<1> USE DEF SameEnd
<1>1. ASSUME NEW s \in Streams, FlushStream(s) PROVE SameEnd'
  BY <1>0, <1>1, FlushEffect
<1>2. ASSUME Flush \/ Restart PROVE SameEnd'
  BY <1>2, EmptyEffect
<1>3. ASSUME NEW s \in Streams, NEW p \in Packets, Write(s, p)
      PROVE  SameEnd'
  <2>1. /\ queue'[s] = Append(queue[s], p)
        /\ accepted'[s] = Append(accepted[s], p)
        /\ \A t \in Streams \ {s} :
             queue'[t] = queue[t] /\ accepted'[t] = accepted[t]
    BY <1>0, <1>3, WriteEffect
  <2>2. \A q \in Seq(Packets) :
          Append(q, p) # <<>> /\ Append(q, p)[Len(Append(q, p))] = p
    BY AppendAt, AppendProperties
  <2>3. /\ accepted'[s] # <<>>
        /\ accepted'[s][Len(accepted'[s])] = queue'[s][Len(queue'[s])]
    BY <1>0, <2>1, <2>2, QueueTypes
  <2> QED
    BY <1>0, <2>1, <2>3
<1>4. ASSUME NEW s \in Streams, ScanDeliver(s) PROVE SameEnd'
  <2>1. /\ queue[s] # <<>>
        /\ queue'[s] = Tail(queue[s])
        /\ \A t \in Streams \ {s} : queue'[t] = queue[t]
        /\ accepted' = accepted
    BY <1>0, <1>4, DeliverEffect
  <2>2. ASSUME queue'[s] # <<>>
        PROVE  queue'[s][Len(queue'[s])] = queue[s][Len(queue[s])]
    <3>1. /\ Len(queue[s]) \in Nat
          /\ Len(queue'[s]) = Len(queue[s]) - 1
          /\ \A i \in 1 .. Len(queue[s]) - 1 : queue'[s][i] = queue[s][i + 1]
      BY <1>0, <2>1, QueueTypes, TailAt
    <3>2. \A q \in Seq(Packets) : q # <<>> => Len(q) # 0
      BY EmptySeq
    <3>3. queue'[s] \in Seq(Packets)
      BY <1>0, <2>1, QueueTypes, HeadTail
    <3> QED
      BY <2>2, <3>1, <3>2, <3>3
  <2> QED
    BY <1>0, <2>1, <2>2
<1>5. ASSUME UNCHANGED <<queue, accepted>> PROVE SameEnd'
  BY <1>0, <1>5
<1> QED
  BY <1>1, <1>2, <1>3, <1>4, <1>5
  DEF Next, Control, Writer, Reader, Scan, AddStream, SetAbort,
      GetPacketCall, GetPacketWake, GetPacketReturn, ReadCall, ReadWake, ReadTimeout,
      ScanEos, ScanStarved, ScanStuckAtEos
LEMMA OrderedStep ==
  ASSUME SortInv, Monotone, [Next]_vars
  PROVE  OrderedQueues'
<1>0. TypeOK /\ SameEnd /\ OrderedQueues
  BY DEF SortInv, MonotoneInv
<1> USE DEF OrderedQueues
<1>1. ASSUME NEW s \in Streams, FlushStream(s) PROVE OrderedQueues'
  BY <1>0, <1>1, FlushEffect, NothingIn
<1>2. ASSUME Flush \/ Restart PROVE OrderedQueues'
  BY <1>2, EmptyEffect, NothingIn
<1>3. ASSUME NEW s \in Streams, NEW p \in Packets, MaySend(s, p), Write(s, p)
      PROVE  OrderedQueues'
  <2> DEFINE n == Len(queue[s])
  <2>1. /\ queue'[s] = Append(queue[s], p)
        /\ \A t \in Streams \ {s} : queue'[t] = queue[t]
    BY <1>0, <1>3, WriteEffect
  <2>2. /\ n \in Nat
        /\ DOMAIN queue[s] = 1 .. n
        /\ DOMAIN queue'[s] = 1 .. n + 1
        /\ \A i \in 1 .. n : queue'[s][i] = queue[s][i]
        /\ queue'[s][n + 1] = p
    BY <1>0, <2>1, QueueTypes, AppendAt
  <2>3. ASSUME NEW i \in 1 .. n
        PROVE  ~queue[s][i].eos /\ (~p.eos => queue[s][i].time <= p.time)
    <3>1. queue[s] # <<>>
      BY <2>2, <2>3, NothingIn
    <3>2. ~queue[s][n].eos /\ (~p.eos => queue[s][n].time <= p.time)
      BY <1>0, <1>3, <3>1 DEF SameEnd, MaySend, Ended
    <3>3. i < n => /\ ~queue[s][i].eos
                   /\ queue[s][i].time <= queue[s][n].time
      BY <1>0, <2>2, <3>2
    <3>4. queue[s][i] \in Packets /\ queue[s][n] \in Packets
      BY <1>0, <2>2, QueueTypes
    <3>5. /\ queue[s][i].time \in Int
          /\ queue[s][n].time \in Int
          /\ p.time \in Int
      BY <3>4, PacketTimes
    <3>6. i < n \/ i = n
      BY <2>2
    <3> QED
      BY <3>2, <3>3, <3>5, <3>6
  <2>4. ASSUME NEW i \in DOMAIN queue'[s], NEW j \in DOMAIN queue'[s], i < j
        PROVE  /\ ~queue'[s][i].eos
               /\ ~queue'[s][j].eos => queue'[s][i].time <= queue'[s][j].time
    <3>1. i \in 1 .. n
      BY <2>2, <2>4
    <3>2. CASE j = n + 1
      BY <2>2, <2>3, <3>1, <3>2
    <3>3. CASE j \in 1 .. n
      BY <1>0, <2>2, <2>4, <3>1, <3>3
    <3> QED
      BY <2>2, <3>2, <3>3
  <2> QED
    BY <1>0, <2>1, <2>4
<1>4. ASSUME NEW s \in Streams, ScanDeliver(s) PROVE OrderedQueues'
  <2>1. /\ queue[s] # <<>>
        /\ queue'[s] = Tail(queue[s])
        /\ \A t \in Streams \ {s} : queue'[t] = queue[t]
    BY <1>0, <1>4, DeliverEffect
  <2>2. /\ Len(queue[s]) \in Nat
        /\ DOMAIN queue[s] = 1 .. Len(queue[s])
        /\ DOMAIN queue'[s] = 1 .. Len(queue[s]) - 1
        /\ \A i \in 1 .. Len(queue[s]) - 1 : queue'[s][i] = queue[s][i + 1]
    BY <1>0, <2>1, QueueTypes, TailAt
  <2>3. ASSUME NEW i \in DOMAIN queue'[s], NEW j \in DOMAIN queue'[s], i < j
        PROVE  /\ ~queue'[s][i].eos
               /\ ~queue'[s][j].eos => queue'[s][i].time <= queue'[s][j].time
    <3>1. i + 1 \in DOMAIN queue[s] /\ j + 1 \in DOMAIN queue[s] /\ i + 1 < j + 1
      BY <2>2, <2>3
    <3>2. queue'[s][i] = queue[s][i + 1] /\ queue'[s][j] = queue[s][j + 1]
      BY <2>2
    <3> QED
      BY <1>0, <3>1, <3>2
  <2> QED
    BY <1>0, <2>1, <2>3
<1>5. ASSUME UNCHANGED queue PROVE OrderedQueues'
  BY <1>0, <1>5
<1> QED
  BY <1>1, <1>2, <1>3, <1>4, <1>5
  DEF Next, Control, Writer, Reader, Scan, AddStream, SetAbort,
      GetPacketCall, GetPacketWake, GetPacketReturn, ReadCall, ReadWake, ReadTimeout,
      ScanEos, ScanStarved, ScanStuckAtEos
(***************************************************************************)
(* The step that takes a packet: its time is no later than anything an     *)
(* interleaved stream has queued, or may still be given.                   *)
(***************************************************************************)
LEMMA HeadIsBound ==
  ASSUME SortInv, Monotone, NEW s \in Streams, ScanDeliver(s),
         NEW t \in InterleavedStreams
  PROVE  /\ accepted[t] # <<>>
         /\ ~Ended(t) => Head(queue[s]).time <= accepted[t][Len(accepted[t])].time
         /\ \A i \in DOMAIN queue[t] :
              ~queue[t][i].eos => Head(queue[s]).time <= queue[t][i].time
<1>0. TypeOK /\ SameEnd /\ OrderedQueues
  BY DEF SortInv, MonotoneInv
<1>1. t \in Streams /\ queue[t] # <<>> /\ queue[s] # <<>>
  <2>1. t \in Streams
    BY <1>0, FirstStreams DEF TypeOK, InterleavedStreams, Live
  <2> QED
    BY <2>1 DEF ScanDeliver, CanDeliver, Lowest, NonEmpty
<1>2. Head(queue[s]).time <= Head(queue[t]).time
  <2>1. Before(s, t)
    BY DEF ScanDeliver, CanDeliver, Lowest
  <2>2. Head(queue[s]) \in Packets /\ Head(queue[t]) \in Packets
    BY <1>0, <1>1, QueueTypes, HeadTail
  <2>3. Head(queue[s]).time \in Int /\ Head(queue[t]).time \in Int
    BY <2>2, PacketTimes
  <2> QED
    BY <2>1, <2>3 DEF Before
<1> DEFINE n == Len(queue[t])
<1>3. /\ n \in Nat \ {0}
      /\ DOMAIN queue[t] = 1 .. n
      /\ Head(queue[t]) = queue[t][1]
  BY <1>0, <1>1, QueueTypes, TailAt
<1>4. ASSUME NEW i \in DOMAIN queue[t], ~queue[t][i].eos
      PROVE  Head(queue[s]).time <= queue[t][i].time
  <2>1. 1 < i => queue[t][1].time <= queue[t][i].time
    BY <1>0, <1>1, <1>3, <1>4 DEF OrderedQueues
  <2>2. i = 1 \/ 1 < i
    BY <1>3
  <2>3. /\ queue[t][i] \in Packets /\ queue[t][1] \in Packets
        /\ Head(queue[s]) \in Packets
    BY <1>0, <1>1, <1>3, QueueTypes, HeadTail
  <2>4. /\ queue[t][i].time \in Int /\ queue[t][1].time \in Int
        /\ Head(queue[s]).time \in Int
    BY <2>3, PacketTimes
  <2> QED
    BY <1>2, <1>3, <2>1, <2>2, <2>4
<1>5. /\ accepted[t] # <<>>
      /\ accepted[t][Len(accepted[t])] = queue[t][n]
  BY <1>0, <1>1 DEF SameEnd
<1>6. ~Ended(t) => Head(queue[s]).time <= accepted[t][Len(accepted[t])].time
  BY <1>3, <1>4, <1>5 DEF Ended
<1> QED
  BY <1>4, <1>5, <1>6

(* With no output yet there is nothing to bound.                           *)
LEMMA NoOutput == output' = <<>> => OutputBound' /\ SortedSoFar'
  BY NothingIn DEF OutputBound, SortedSoFar

LEMMA BoundStep ==
  ASSUME SortInv, Monotone, [Next]_vars
  PROVE  OutputBound'
<1>0. TypeOK /\ OutputBound
  BY DEF SortInv, MonotoneInv
<1>1. ASSUME NEW inter \in BOOLEAN, Unused, AddStream(inter)
      PROVE  OutputBound'
  BY <1>1, NoOutput DEF Unused, AddStream
<1>2. ASSUME NEW s \in Streams, FlushStream(s) PROVE OutputBound'
  BY <1>0, <1>2, FlushEffect, NoOutput
<1>3. ASSUME Flush \/ Restart PROVE OutputBound'
  BY <1>3, EmptyEffect, NoOutput
<1>4. ASSUME NEW s \in Streams, NEW p \in Packets, MaySend(s, p), Write(s, p)
      PROVE  OutputBound'
  <2>1. /\ queue'[s] = Append(queue[s], p)
        /\ accepted'[s] = Append(accepted[s], p)
        /\ \A t \in Streams \ {s} :
             queue'[t] = queue[t] /\ accepted'[t] = accepted[t]
        /\ output' = output
        /\ InterleavedStreams' = InterleavedStreams
    BY <1>0, <1>4, WriteEffect DEF InterleavedStreams, Live
  <2>2. /\ accepted'[s] # <<>>
        /\ accepted'[s][Len(accepted'[s])] = p
    BY <1>0, <2>1, QueueTypes, AppendAt, AppendProperties
  <2>3. /\ Len(queue[s]) \in Nat
        /\ DOMAIN queue[s] = 1 .. Len(queue[s])
        /\ DOMAIN queue'[s] = 1 .. Len(queue[s]) + 1
        /\ \A i \in 1 .. Len(queue[s]) : queue'[s][i] = queue[s][i]
        /\ queue'[s][Len(queue[s]) + 1] = p
    BY <1>0, <2>1, QueueTypes, AppendAt
  <2>4. ASSUME NEW k \in DOMAIN output, s \in InterleavedStreams, ~p.eos
        PROVE  output[k].time <= p.time
    <3>1. /\ accepted[s] # <<>>
          /\ output[k].time <= accepted[s][Len(accepted[s])].time
      BY <1>0, <1>4, <2>4 DEF OutputBound, MaySend
    <3>2. accepted[s][Len(accepted[s])].time <= p.time
      BY <1>4, <2>4, <3>1 DEF MaySend
    <3>3. accepted[s] \in Seq(Packets) /\ output \in Seq(Packets)
      BY <1>0 DEF TypeOK
    <3>4. /\ accepted[s][Len(accepted[s])] \in Packets
          /\ output[k] \in Packets
      BY <2>4, <3>1, <3>3, TailAt
    <3>5. /\ accepted[s][Len(accepted[s])].time \in Int
          /\ output[k].time \in Int /\ p.time \in Int
      BY <3>4, PacketTimes
    <3> QED
      BY <3>1, <3>2, <3>5
  <2>5. ASSUME NEW k \in DOMAIN output, s \in InterleavedStreams
        PROVE  /\ accepted'[s] # <<>>
               /\ ~Ended(s)' => output[k].time <= accepted'[s][Len(accepted'[s])].time
               /\ \A i \in DOMAIN queue'[s] :
                    ~queue'[s][i].eos => output[k].time <= queue'[s][i].time
    <3>1. ~Ended(s)' => ~p.eos
      BY <2>2 DEF Ended
    <3>2. \A i \in DOMAIN queue[s] :
            ~queue[s][i].eos => output[k].time <= queue[s][i].time
      BY <1>0, <2>5 DEF OutputBound
    <3>3. ASSUME NEW i \in DOMAIN queue'[s], ~queue'[s][i].eos
          PROVE  output[k].time <= queue'[s][i].time
      <4>1. i \in DOMAIN queue[s] \/ i = Len(queue[s]) + 1
        BY <2>3
      <4> QED
        BY <2>3, <2>4, <2>5, <3>2, <3>3, <4>1
    <3> QED
      BY <2>2, <2>4, <2>5, <3>1, <3>3
  <2>6. ASSUME NEW k \in DOMAIN output, NEW t \in InterleavedStreams, t # s
        PROVE  /\ accepted'[t] # <<>>
               /\ ~Ended(t)' => output[k].time <= accepted'[t][Len(accepted'[t])].time
               /\ \A i \in DOMAIN queue'[t] :
                    ~queue'[t][i].eos => output[k].time <= queue'[t][i].time
    <3>1. t \in Streams
      BY <1>0, FirstStreams DEF TypeOK, InterleavedStreams, Live
    <3>2. accepted'[t] = accepted[t] /\ queue'[t] = queue[t]
      BY <2>1, <2>6, <3>1
    <3> QED
      BY <1>0, <3>2 DEF OutputBound, Ended
  <2> QED
    BY <2>1, <2>5, <2>6, ZenonT(30) DEF OutputBound
<1>5. ASSUME NEW s \in Streams, ScanDeliver(s) PROVE OutputBound'
  <2>1. /\ queue[s] # <<>>
        /\ queue'[s] = Tail(queue[s])
        /\ \A t \in Streams \ {s} : queue'[t] = queue[t]
        /\ accepted' = accepted
        /\ output' = Append(output, Head(queue[s]))
        /\ InterleavedStreams' = InterleavedStreams
    BY <1>0, <1>5, DeliverEffect DEF InterleavedStreams, Live
  <2>2. \A t \in Streams : \A i \in DOMAIN queue'[t] :
          \E j \in DOMAIN queue[t] : queue'[t][i] = queue[t][j]
    <3>1. ASSUME NEW i \in DOMAIN queue'[s]
          PROVE  \E j \in DOMAIN queue[s] : queue'[s][i] = queue[s][j]
      <4>1. /\ i + 1 \in DOMAIN queue[s]
            /\ queue'[s][i] = queue[s][i + 1]
        BY <1>0, <2>1, <3>1, QueueTypes, TailAt
      <4> QED
        BY <4>1
    <3> QED
      BY <2>1, <3>1
  <2>3. ASSUME NEW k \in DOMAIN output', NEW t \in InterleavedStreams
        PROVE  /\ accepted[t] # <<>>
               /\ ~Ended(t) => output'[k].time <= accepted[t][Len(accepted[t])].time
               /\ \A i \in DOMAIN queue[t] :
                    ~queue[t][i].eos => output'[k].time <= queue[t][i].time
    <3>1. \/ k \in DOMAIN output /\ output'[k] = output[k]
          \/ output'[k] = Head(queue[s])
      <4>1. output \in Seq(Packets) /\ Head(queue[s]) \in Packets
        BY <1>0, <2>1, QueueTypes, HeadTail DEF TypeOK
      <4>2. /\ Len(output) \in Nat
            /\ DOMAIN output = 1 .. Len(output)
            /\ DOMAIN output' = 1 .. Len(output) + 1
            /\ \A i \in 1 .. Len(output) : output'[i] = output[i]
            /\ output'[Len(output) + 1] = Head(queue[s])
        BY <2>1, <4>1, AppendAt
      <4> QED
        BY <4>2
    <3>2. CASE k \in DOMAIN output /\ output'[k] = output[k]
      BY <1>0, <3>2 DEF OutputBound
    <3>3. CASE output'[k] = Head(queue[s])
      BY <1>5, <3>3, HeadIsBound
    <3> QED
      BY <3>1, <3>2, <3>3
  <2>4. InterleavedStreams \subseteq Streams
    BY <1>0, FirstStreams DEF TypeOK, InterleavedStreams, Live
  <2>5. \A t \in Streams : Ended(t)' <=> Ended(t)
    BY <2>1 DEF Ended
  <2> QED
    BY <2>1, <2>2, <2>3, <2>4, <2>5 DEF OutputBound
<1>6. ASSUME UNCHANGED <<nStreams, interleaved, queue, accepted, output>>
      PROVE  OutputBound'
  BY <1>0, <1>6 DEF OutputBound, InterleavedStreams, Live, Ended
<1> QED
  BY <1>1, <1>2, <1>3, <1>4, <1>5, <1>6
  DEF Next, Control, Writer, Reader, Scan, SetAbort, GetPacketCall,
      GetPacketWake, GetPacketReturn, ReadCall, ReadWake, ReadTimeout, ScanEos, ScanStarved,
      ScanStuckAtEos
LEMMA SortedStep ==
  ASSUME SortInv, Monotone, [Next]_vars
  PROVE  SortedSoFar'
<1>0. TypeOK /\ OwnStream /\ OutputBound /\ SortedSoFar
  BY DEF SortInv, MonotoneInv
<1>1. ASSUME NEW inter \in BOOLEAN, Unused, AddStream(inter)
      PROVE  SortedSoFar'
  BY <1>1, NoOutput DEF Unused, AddStream
<1>2. ASSUME NEW s \in Streams, FlushStream(s) PROVE SortedSoFar'
  BY <1>0, <1>2, FlushEffect, NoOutput
<1>3. ASSUME Flush \/ Restart PROVE SortedSoFar'
  BY <1>3, EmptyEffect, NoOutput
<1>4. ASSUME NEW s \in Streams, ScanDeliver(s) PROVE SortedSoFar'
  <2> DEFINE h == Head(queue[s])
             n == Len(output)
  <2>1. /\ queue[s] # <<>> /\ ~h.eos
        /\ output' = Append(output, h)
        /\ interleaved' = interleaved
    BY <1>0, <1>4, DeliverEffect
  <2>2. output \in Seq(Packets) /\ h \in Packets
    BY <1>0, <2>1, QueueTypes, HeadTail DEF TypeOK
  <2>3. /\ n \in Nat
        /\ DOMAIN output = 1 .. n
        /\ DOMAIN output' = 1 .. n + 1
        /\ \A i \in 1 .. n : output'[i] = output[i]
        /\ output'[n + 1] = h
    BY <2>1, <2>2, AppendAt
  <2>4. 1 \in DOMAIN queue[s] /\ h = queue[s][1]
    BY <1>0, <2>1, QueueTypes, TailAt
  <2>5. ASSUME interleaved[h.stream] PROVE s \in InterleavedStreams
    <3>1. s \in Live
      BY <1>4 DEF ScanDeliver, Lowest, NonEmpty
    <3>2. h.stream = s
      BY <1>0, <2>4 DEF OwnStream
    <3> QED
      BY <2>5, <3>1, <3>2 DEF InterleavedStreams
  <2>6. ASSUME NEW i \in DOMAIN output, interleaved[h.stream]
        PROVE  output[i].time <= h.time
    BY <1>0, <2>1, <2>4, <2>5, <2>6 DEF OutputBound
  <2>7. ASSUME NEW i \in DOMAIN output', NEW j \in DOMAIN output', i < j,
               interleaved'[output'[j].stream]
        PROVE  output'[i].time <= output'[j].time
    <3>1. i \in 1 .. n
      BY <2>3, <2>7
    <3>2. CASE j = n + 1
      BY <2>1, <2>3, <2>6, <2>7, <3>1, <3>2
    <3>3. CASE j \in 1 .. n
      BY <1>0, <2>1, <2>3, <2>7, <3>1, <3>3 DEF SortedSoFar
    <3> QED
      BY <2>3, <3>2, <3>3
  <2> QED
    BY <2>7 DEF SortedSoFar
<1>5. ASSUME UNCHANGED <<interleaved, output>> PROVE SortedSoFar'
  BY <1>0, <1>5 DEF SortedSoFar
<1> QED
  BY <1>1, <1>2, <1>3, <1>4, <1>5
  DEF Next, Control, Writer, Reader, Scan, SetAbort, GetPacketCall,
      GetPacketWake, GetPacketReturn, ReadCall, ReadWake, ReadTimeout, ScanEos, ScanStarved,
      ScanStuckAtEos, Write, Append1

LEMMA SortInit == Init => SortInv
<1> SUFFICES ASSUME Init PROVE SortInv
  OBVIOUS
<1>1. output = <<>> /\ \A s \in Streams : queue[s] = <<>>
  BY DEF Init
<1>2. TypeOK
  BY TypeInit
<1>3. OwnStream /\ SameEnd /\ OrderedQueues
  BY <1>1, NothingIn DEF OwnStream, SameEnd, OrderedQueues
<1>4. OutputBound /\ SortedSoFar
  BY <1>1, NothingIn DEF OutputBound, SortedSoFar
<1> QED
  BY <1>2, <1>3, <1>4 DEF SortInv, MonotoneInv

LEMMA SortStep == SortInv /\ [Next]_vars => SortInv'
<1> SUFFICES ASSUME SortInv, [Next]_vars PROVE SortInv'
  OBVIOUS
<1>1. TypeOK'
  BY TypeStep DEF SortInv
<1>2. OwnStream' /\ SameEnd'
  BY OwnStreamStep, SameEndStep
<1>3. Monotone => MonotoneInv'
  BY OrderedStep, BoundStep, SortedStep DEF MonotoneInv
<1> QED
  BY <1>1, <1>2, <1>3 DEF SortInv

(***************************************************************************)
(* "Performs interleaving of incomming packets and delivers them sorted by *)
(* time stamp" (basemux.h): the merged output is sorted, whatever the      *)
(* order in which the writers run, provided each stream is.                *)
(***************************************************************************)
THEOREM OutputIsSorted == Spec => []SortedOutput
<1>1. SortInv => SortedOutput
  BY DEF SortInv, MonotoneInv, SortedSoFar, SortedOutput
<1>2. Spec => []SortInv
  BY SortInit, SortStep, PTL DEF Spec
<1> QED
  BY <1>1, <1>2, PTL
=============================================================================
