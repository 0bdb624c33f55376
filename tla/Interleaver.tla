---------------------------- MODULE Interleaver ----------------------------
(***************************************************************************)
(* CMuxInterStream and CMuxInterleaver of libmonodshow/src/basemux.cpp: a  *)
(* bounded queue per input stream and one reader that merges the queues by *)
(* start time.                                                             *)
(*                                                                         *)
(* Writers are the upstream threads, one per stream: GetPacket blocks      *)
(* until the queue has room or an abort is signalled, the caller fills the *)
(* packet outside any lock, Write queues it under lock_queue.  The reader  *)
(* is the muxing thread: Read waits for ev_can_read or ev_abort, then      *)
(* scans the queues under lock_queue.                                      *)
(*                                                                         *)
(* accepted, delivered and output are history variables: what Write took,  *)
(* what Read gave back per stream, and the order in which it gave it back, *)
(* all since the stream was added or last flushed.  So is overlooked: has  *)
(* GetPacket, since the queue had room, been woken by an abort that was    *)
(* taken back before it looked?                                            *)
(***************************************************************************)
EXTENDS Integers, Sequences

CONSTANTS
  MaxStreams,  \* bound on the number of AddStream calls in a session
  Size,        \* CMuxInterStream::size, 10 in the code
  Times,       \* the start times upstream may stamp on a sample
  MaxPackets,  \* bound on what one stream accepts since its last flush
  Monotone     \* do the start times of each stream never decrease?

ASSUME MaxStreamsAssumption == MaxStreams \in Nat \ {0}
ASSUME SizeAssumption == Size \in Nat \ {0}
ASSUME TimesAssumption == Times \subseteq Int
ASSUME MaxPacketsAssumption == MaxPackets \in Nat
ASSUME MonotoneAssumption == Monotone \in BOOLEAN

VARIABLES
  nStreams,     \* streams.size()
  interleaved,  \* is_interleaved of each stream
  queue,        \* the packets queued on each stream
  canWrite,     \* ev_can_write of each stream, a manual-reset event
  canRead,      \* ev_can_read, a manual-reset event
  evAbort,      \* ev_abort, a manual-reset event
  wpc,          \* where the writer of each stream is
  overlooked,   \* has GetPacket gone on, after an abort, with no room?
  rpc,          \* where the reader is
  readRet,      \* what Read returned, "none" while it runs
  accepted, delivered, output

streamVars == <<nStreams, interleaved>>
writerVars == <<wpc, overlooked>>
readerVars == <<rpc, readRet>>
historyVars == <<accepted, delivered, output>>
vars == <<streamVars, queue, canWrite, canRead, evAbort, writerVars,
          readerVars, historyVars>>

Streams == 0 .. MaxStreams - 1

(***************************************************************************)
(* A packet keeps the start time the merge sorts by.  The constructor      *)
(* leaves an end-of-stream packet at time 0, and LoadFrom leaves a sample  *)
(* that carries no time there too.                                         *)
(***************************************************************************)
Packets == [stream : Streams, time : Times \cup {0}, eos : BOOLEAN]

SamplePacket(s, t) == [stream |-> s, time |-> t, eos |-> FALSE]
EosPacket(s) == [stream |-> s, time |-> 0, eos |-> TRUE]

Live == 0 .. nStreams - 1
InterleavedStreams == {s \in Live : interleaved[s]}
NonEmpty == {s \in Live : queue[s] # <<>>}

HasRoom(q) == Len(q) < Size

Init ==
  /\ nStreams = 0
  /\ interleaved = [s \in Streams |-> TRUE]
  /\ queue = [s \in Streams |-> <<>>]
  /\ canWrite = [s \in Streams |-> TRUE]
  /\ canRead = FALSE
  /\ evAbort = FALSE
  /\ wpc = [s \in Streams |-> "idle"]
  /\ overlooked = [s \in Streams |-> FALSE]
  /\ rpc = "idle"
  /\ readRet = "none"
  /\ accepted = [s \in Streams |-> <<>>]
  /\ delivered = [s \in Streams |-> <<>>]
  /\ output = <<>>

-----------------------------------------------------------------------------
(* Streams and control.                                                    *)

(***************************************************************************)
(* The constructor gives the stream an empty, writable queue; its owner    *)
(* then marks it active and decides whether it is interleaved.             *)
(***************************************************************************)
AddStream(inter) ==
  /\ nStreams < MaxStreams
  /\ interleaved' = [interleaved EXCEPT ![nStreams] = inter]
  /\ nStreams' = nStreams + 1
  /\ UNCHANGED <<queue, canWrite, canRead, evAbort, writerVars, readerVars,
                 historyVars>>

(* Deletes every stream.  Neither event of the interleaver is reset.       *)
Clear ==
  /\ nStreams' = 0
  /\ interleaved' = [s \in Streams |-> TRUE]
  /\ queue' = [s \in Streams |-> <<>>]
  /\ canWrite' = [s \in Streams |-> TRUE]
  /\ overlooked' = [s \in Streams |-> FALSE]
  /\ accepted' = [s \in Streams |-> <<>>]
  /\ delivered' = [s \in Streams |-> <<>>]
  /\ output' = <<>>

SetAbort(b) ==
  /\ evAbort' = b
  /\ UNCHANGED <<streamVars, queue, canWrite, canRead, writerVars, readerVars,
                 historyVars>>

(* Faulty variant, to show that the run can fail: the event is left alone. *)
FlushQueueKeepsEvent(s) ==
  /\ queue' = [queue EXCEPT ![s] = <<>>]
  /\ overlooked' = [overlooked EXCEPT ![s] = FALSE]
  /\ UNCHANGED canWrite

(* CMuxInterStream::Flush: empties the queue and makes it writable again.  *)
FlushQueue(s) ==
  /\ queue' = [queue EXCEPT ![s] = <<>>]
  /\ canWrite' = [canWrite EXCEPT ![s] = TRUE]
  /\ overlooked' = [overlooked EXCEPT ![s] = FALSE]

(* Faulty variant: ev_can_read is reset whatever the others hold.          *)
FlushStreamResetsEvent(s) ==
  /\ s \in Live
  /\ FlushQueue(s)
  /\ canRead' = FALSE
  /\ accepted' = queue'
  /\ delivered' = [t \in Streams |-> <<>>]
  /\ output' = <<>>
  /\ UNCHANGED <<streamVars, evAbort, wpc, readerVars>>

(***************************************************************************)
(* A flush starts the histories again: nothing of the flushed stream has   *)
(* been accepted, of the others what is still queued.                      *)
(***************************************************************************)
FlushStream(s) ==
  /\ s \in Live
  /\ FlushQueue(s)
  /\ canRead' = (canRead /\ \E t \in Live \ {s} : queue[t] # <<>>)
  /\ accepted' = queue'
  /\ delivered' = [t \in Streams |-> <<>>]
  /\ output' = <<>>
  /\ UNCHANGED <<streamVars, evAbort, wpc, readerVars>>

Flush ==
  /\ queue' = [s \in Streams |-> <<>>]
  /\ canWrite' = [s \in Streams |-> TRUE]
  /\ overlooked' = [s \in Streams |-> FALSE]
  /\ canRead' = FALSE
  /\ accepted' = queue'
  /\ delivered' = queue'
  /\ output' = <<>>
  /\ UNCHANGED <<streamVars, evAbort, wpc, readerVars>>

-----------------------------------------------------------------------------
(* Writers.                                                                *)

(***************************************************************************)
(* GetPacket holds no lock.  It waits, with no time limit, for room or an  *)
(* abort ...                                                               *)
(***************************************************************************)
GetPacketCall(s) ==
  /\ s \in Live
  /\ wpc[s] = "idle"
  /\ wpc' = [wpc EXCEPT ![s] = "blocked"]
  /\ UNCHANGED <<streamVars, queue, canWrite, canRead, evAbort, overlooked,
                 readerVars, historyVars>>

(* Faulty variants: room is not waited for; an abort is waited out.        *)
GetPacketWakeAtOnce(s) ==
  /\ wpc[s] = "blocked"
  /\ wpc' = [wpc EXCEPT ![s] = "writable"]
  /\ UNCHANGED <<streamVars, queue, canWrite, canRead, evAbort, overlooked,
                 readerVars, historyVars>>

GetPacketWakeRetries(s) ==
  /\ wpc[s] = "blocked"
  /\ canWrite[s] /\ ~evAbort
  /\ wpc' = [wpc EXCEPT ![s] = "writable"]
  /\ UNCHANGED <<streamVars, queue, canWrite, canRead, evAbort, overlooked,
                 readerVars, historyVars>>

GetPacketWake(s) ==
  /\ wpc[s] = "blocked"
  /\ canWrite[s] \/ evAbort
  /\ wpc' = [wpc EXCEPT ![s] = IF canWrite[s] THEN "writable" ELSE "aborted"]
  /\ UNCHANGED <<streamVars, queue, canWrite, canRead, evAbort, overlooked,
                 readerVars, historyVars>>

(***************************************************************************)
(* ... and then looks at the abort flag, whichever event ended the wait.   *)
(* An abort wins over a writable queue; one that was taken back meanwhile  *)
(* is overlooked, and its writer goes on as if there were room.            *)
(***************************************************************************)
GetPacketReturn(s) ==
  /\ wpc[s] \in {"writable", "aborted"}
  /\ wpc' = [wpc EXCEPT ![s] = IF evAbort THEN "idle" ELSE "filling"]
  /\ overlooked' = [overlooked EXCEPT ![s] =
                      \/ @
                      \/ wpc[s] = "aborted" /\ ~evAbort /\ ~HasRoom(queue[s])]
  /\ UNCHANGED <<streamVars, queue, canWrite, canRead, evAbort, readerVars,
                 historyVars>>

(***************************************************************************)
(* What upstream sends on a stream: samples, then one end-of-stream        *)
(* packet and nothing after it (the DirectShow contract; a flush starts    *)
(* over).  Under Monotone the start times of a stream never decrease.      *)
(***************************************************************************)
Ended(s) == accepted[s] # <<>> /\ accepted[s][Len(accepted[s])].eos

MaySend(s, p) ==
  /\ p \in {SamplePacket(s, t) : t \in Times} \cup {EosPacket(s)}
  /\ Len(accepted[s]) < MaxPackets
  /\ ~Ended(s)
  /\ (Monotone /\ ~p.eos /\ accepted[s] # <<>>)
       => accepted[s][Len(accepted[s])].time <= p.time

(* Faulty variants: the packet goes in front; the reader is not woken.     *)
Append1Front(s, p) ==
  /\ queue' = [queue EXCEPT ![s] = <<p>> \o @]
  /\ canWrite' = [canWrite EXCEPT ![s] = @ /\ HasRoom(queue'[s])]
  /\ canRead' = TRUE
  /\ accepted' = [accepted EXCEPT ![s] = Append(@, p)]

Append1Silent(s, p) ==
  /\ queue' = [queue EXCEPT ![s] = Append(@, p)]
  /\ canWrite' = [canWrite EXCEPT ![s] = @ /\ HasRoom(queue'[s])]
  /\ UNCHANGED canRead
  /\ accepted' = [accepted EXCEPT ![s] = Append(@, p)]

(* A queue that the append fills makes the stream unwritable.              *)
Append1(s, p) ==
  /\ queue' = [queue EXCEPT ![s] = Append(@, p)]
  /\ canWrite' = [canWrite EXCEPT ![s] = @ /\ HasRoom(queue'[s])]
  /\ canRead' = TRUE
  /\ accepted' = [accepted EXCEPT ![s] = Append(@, p)]

(* Write on a stream that exists; Clear may have removed it, see BaseMux.  *)
Write(s, p) ==
  /\ wpc[s] = "filling"
  /\ s \in Live
  /\ Append1(s, p)
  /\ wpc' = [wpc EXCEPT ![s] = "idle"]
  /\ UNCHANGED <<streamVars, evAbort, overlooked, readerVars, delivered, output>>

-----------------------------------------------------------------------------
(* The reader: Read, split where it blocks and where it takes lock_queue.  *)

ReadCall ==
  /\ rpc = "idle"
  /\ rpc' = "waiting"
  /\ readRet' = "none"
  /\ UNCHANGED <<streamVars, queue, canWrite, canRead, evAbort, writerVars,
                 historyVars>>

(* The wait ends; an abort is honoured before anything is read.            *)
ReadWake ==
  /\ rpc = "waiting"
  /\ canRead \/ evAbort
  /\ IF evAbort
       THEN rpc' = "idle" /\ readRet' = "abort"
       ELSE rpc' = "scanning" /\ UNCHANGED readRet
  /\ UNCHANGED <<streamVars, queue, canWrite, canRead, evAbort, writerVars,
                 historyVars>>

(* The time limit has passed, in the wait or before the scan.              *)
ReadTimeout ==
  /\ rpc = "waiting"
  /\ ~evAbort
  /\ rpc' = "idle"
  /\ readRet' = "timeout"
  /\ UNCHANGED <<streamVars, queue, canWrite, canRead, evAbort, writerVars,
                 historyVars>>

AtEos(s) == queue[s] # <<>> /\ Head(queue[s]).eos

AllAtEos == \A s \in InterleavedStreams : AtEos(s)

(* Faulty variant: any packet will do.                                     *)
CanDeliverAny == NonEmpty # {}

(* Every interleaved stream must have a packet before one can be chosen.   *)
CanDeliver == InterleavedStreams \subseteq NonEmpty

(* Faulty variant: the last stream with the lowest start time.             *)
BeforeLastWins(s, t) ==
  \/ Head(queue[s]).time < Head(queue[t]).time
  \/ Head(queue[s]).time = Head(queue[t]).time /\ s >= t

(* The scan keeps the first stream with the lowest start time.             *)
Before(s, t) ==
  \/ Head(queue[s]).time < Head(queue[t]).time
  \/ Head(queue[s]).time = Head(queue[t]).time /\ s <= t

Lowest(s) == s \in NonEmpty /\ \A t \in NonEmpty : Before(s, t)

ScanEos ==
  /\ rpc = "scanning"
  /\ AllAtEos
  /\ rpc' = "idle"
  /\ readRet' = "eos"
  /\ UNCHANGED <<streamVars, queue, canWrite, canRead, evAbort, writerVars,
                 historyVars>>

(* The chosen stream is at its end: the packet stays, Read returns -3.     *)
ScanStuckAtEos(s) ==
  /\ rpc = "scanning"
  /\ ~AllAtEos
  /\ CanDeliver
  /\ Lowest(s)
  /\ AtEos(s)
  /\ rpc' = "idle"
  /\ readRet' = "eos"
  /\ UNCHANGED <<streamVars, queue, canWrite, canRead, evAbort, writerVars,
                 historyVars>>

(* The chosen packet is taken off its queue and given to the caller.       *)
ScanDeliver(s) ==
  /\ rpc = "scanning"
  /\ ~AllAtEos
  /\ CanDeliver
  /\ Lowest(s)
  /\ ~AtEos(s)
  /\ queue' = [queue EXCEPT ![s] = Tail(@)]
  /\ canWrite' = [canWrite EXCEPT ![s] = @ \/ HasRoom(queue'[s])]
  /\ overlooked' = [overlooked EXCEPT ![s] = @ /\ ~HasRoom(queue'[s])]
  /\ delivered' = [delivered EXCEPT ![s] = Append(@, Head(queue[s]))]
  /\ output' = Append(output, Head(queue[s]))
  /\ rpc' = "idle"
  /\ readRet' = "packet"
  /\ UNCHANGED <<streamVars, canRead, evAbort, wpc, accepted>>

(* Some interleaved stream has nothing: ev_can_read is reset, wait again.  *)
ScanStarved ==
  /\ rpc = "scanning"
  /\ ~CanDeliver
  /\ canRead' = FALSE
  /\ rpc' = "waiting"
  /\ UNCHANGED <<streamVars, queue, canWrite, evAbort, writerVars, readRet,
                 historyVars>>

Scan ==
  \/ ScanEos
  \/ ScanStarved
  \/ \E s \in Streams : ScanStuckAtEos(s) \/ ScanDeliver(s)

-----------------------------------------------------------------------------
(***************************************************************************)
(* The interleaver used by its contract: streams are added before anything *)
(* is written and removed when nobody is in a call.  BaseMux composes the  *)
(* same actions as the filter really uses them.                            *)
(***************************************************************************)
Quiet == rpc = "idle" /\ \A s \in Streams : wpc[s] = "idle"

Unused == Quiet /\ output = <<>> /\ \A s \in Streams : accepted[s] = <<>>

Restart ==
  /\ Quiet
  /\ nStreams > 0
  /\ Clear
  /\ readRet' = "none"
  /\ UNCHANGED <<canRead, evAbort, wpc, rpc>>

Control ==
  \/ \E inter \in BOOLEAN : Unused /\ AddStream(inter)
  \/ \E b \in BOOLEAN : SetAbort(b)
  \/ \E s \in Streams : FlushStream(s)
  \/ Flush
  \/ Restart

Writer(s) ==
  \/ GetPacketCall(s)
  \/ GetPacketWake(s)
  \/ GetPacketReturn(s)
  \/ \E p \in Packets : MaySend(s, p) /\ Write(s, p)

Reader ==
  \/ nStreams > 0 /\ ReadCall
  \/ ReadWake
  \/ ReadTimeout
  \/ Scan

Next == Control \/ Reader \/ \E s \in Streams : Writer(s)

Spec == Init /\ [][Next]_vars

(***************************************************************************)
(* The muxing thread calls Read again and again and is never starved of    *)
(* the processor.  The time limit counts from the start of the call, so a  *)
(* slow thread may hit it with ev_can_read set; it does not hit it in      *)
(* every call for ever, hence SF on the wake-up.                           *)
(***************************************************************************)
ReaderFairness ==
  /\ WF_vars(nStreams > 0 /\ ReadCall)
  /\ SF_vars(ReadWake)
  /\ WF_vars(Scan)

FairSpec == Spec /\ ReaderFairness

-----------------------------------------------------------------------------
TypeOK ==
  /\ nStreams \in 0 .. MaxStreams
  /\ interleaved \in [Streams -> BOOLEAN]
  /\ queue \in [Streams -> Seq(Packets)]
  /\ canWrite \in [Streams -> BOOLEAN]
  /\ canRead \in BOOLEAN
  /\ evAbort \in BOOLEAN
  /\ wpc \in [Streams -> {"idle", "blocked", "writable", "aborted", "filling"}]
  /\ overlooked \in [Streams -> BOOLEAN]
  /\ rpc \in {"idle", "waiting", "scanning"}
  /\ readRet \in {"none", "packet", "timeout", "abort", "eos"}
  /\ accepted \in [Streams -> Seq(Packets)]
  /\ delivered \in [Streams -> Seq(Packets)]
  /\ output \in Seq(Packets)

(***************************************************************************)
(* Room is waited for in GetPacket and used when Write appends, with the   *)
(* abort tested and the sample copied in between and the reader, flushes   *)
(* and the other writers running.  A queue outgrows its size in one case   *)
(* only: an abort woke GetPacket and was taken back before GetPacket       *)
(* looked at it.                                                           *)
(***************************************************************************)
QueueBounded ==
  \A s \in Streams : Len(queue[s]) <= Size \/ overlooked[s]

(***************************************************************************)
(* ev_can_write is set and reset at four places, two of them outside Write *)
(* and Read.  It never claims room that is not there, and never hides room *)
(* from a writer that waits for it with no time limit.                     *)
(***************************************************************************)
WritableIffRoom == \A s \in Streams : canWrite[s] <=> HasRoom(queue[s])

(***************************************************************************)
(* Whenever a packet can be delivered, ev_can_read is set: the reset of a  *)
(* scan that found a stream empty, or of a flush, never hides a packet     *)
(* from a reader that goes to sleep.                                       *)
(***************************************************************************)
NoLostWakeup == (CanDeliver /\ NonEmpty # {}) => canRead

(***************************************************************************)
(* Nothing accepted on a stream is lost, repeated or reordered: what has   *)
(* been read followed by what is queued is what was written.               *)
(***************************************************************************)
StreamFifo == \A s \in Streams : delivered[s] \o queue[s] = accepted[s]

(***************************************************************************)
(* "Performs interleaving of incomming packets and delivers them sorted by *)
(* time stamp" (basemux.h): if the times of each stream never decrease,    *)
(* the merged output of the interleaved streams is sorted, whatever the    *)
(* order in which the writers run.                                         *)
(***************************************************************************)
SortedOutput ==
  Monotone =>
    \A i, j \in DOMAIN output :
      (i < j /\ interleaved[output[i].stream] /\ interleaved[output[j].stream])
        => output[i].time <= output[j].time

(***************************************************************************)
(* A packet that can be delivered does not wait for ever: either the       *)
(* output moves on, or the situation ends (abort, flush), or Read reports  *)
(* the end of the stream.                                                  *)
(***************************************************************************)
DeliverableIsRead ==
  \A n \in 0 .. MaxStreams * MaxPackets :
    (CanDeliver /\ NonEmpty # {} /\ Len(output) = n)
      ~> (Len(output) # n \/ NonEmpty = {} \/ ~CanDeliver \/ evAbort
            \/ readRet = "eos")

(***************************************************************************)
(* "end of stream - all interleaved streams report EOS" (the comment in    *)
(* Read): Read tells its caller that the stream has ended only when every  *)
(* interleaved stream has.                                                 *)
(***************************************************************************)
EosMeansAllEnded ==
  [][(rpc = "scanning" /\ rpc' = "idle" /\ readRet' = "eos") => AllAtEos]_vars

(* The abstract specification this module implements.                      *)
Merge == INSTANCE OrderedMerge WITH
           Sources <- Streams, Packet <- Packets,
           required <- InterleavedStreams, pending <- queue, merged <- output

MergeSpec == Merge!Spec
=============================================================================
