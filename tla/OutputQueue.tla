---------------------------- MODULE OutputQueue ----------------------------
(***************************************************************************)
(* COutputQueue of libmonodshow/src/outputq.cpp between a filter's         *)
(* streaming thread and the next filter, with the allocator the samples    *)
(* come from: samples are batched and sent either by a thread of the queue *)
(* or directly in the caller's.                                            *)
(*                                                                         *)
(* The streaming thread ("source") calls GetBuffer, Receive, EOS,          *)
(* NewSegment and SendAnyway; the control thread calls BeginFlush,         *)
(* EndFlush, Reset and the destructor.  A step is what runs under the      *)
(* queue's lock, or a call downstream.  Items are numbered in the order in *)
(* which they were accepted since the last flush.                          *)
(***************************************************************************)
EXTENDS MemAllocator

CONSTANTS
  BatchSize,   \* m_lBatchSize
  MaxItems     \* bound on what is accepted between two flushes

ASSUME BatchSizeAssumption == BatchSize \in Nat \ {0}
ASSUME UsersAssumption == {"source", "queue", "sink"} \subseteq Clients

VARIABLES
  mode,       \* is there a thread, are batches exact, is flushing optimised?
  list,       \* m_List
  batch,      \* m_ppSamples up to m_nBatched
  hand,       \* what is being sent: lNumberToSend samples
  special,    \* the packet that ended the batch
  tpc,        \* where the thread of the queue is
  qWaiting,   \* m_lWaiting of the queue
  qSem,       \* the count of m_hSem of the queue
  hr,         \* m_hr
  qFlushing,  \* m_bFlushing
  flushed,    \* m_bFlushed
  evFlush,    \* m_evFlushComplete, auto-reset
  terminate,  \* m_bTerminate
  spc,        \* the streaming thread: inside a direct call downstream or not
  fpc,        \* where the control thread is
  sinkFlush,  \* is the next filter flushing?
  number,     \* how many items were accepted since the last flush
  sent,       \* the numbers of those the next filter got
  failed      \* has it refused something since?

threadVars == <<hand, special, tpc>>
lockVars == <<list, batch, qWaiting, qSem>>
flushVars == <<qFlushing, flushed, evFlush, sinkFlush, fpc>>
ghostVars == <<number, sent, failed>>
queueVars == <<mode, threadVars, lockVars, hr, flushVars, terminate, spc,
               ghostVars>>

Item(kind, s, n) == [kind |-> kind, sample |-> s, n |-> n]
None == Item("none", 0, 0)
Control(kind) == Item(kind, 0, 0)

QueueInit ==
  /\ mode \in [queued : BOOLEAN, exact : BOOLEAN, opt : BOOLEAN]
  /\ list = <<>> /\ batch = <<>> /\ hand = <<>>
  /\ special = None
  /\ tpc = IF mode.queued THEN "loop" ELSE "none"
  /\ qWaiting = 0 /\ qSem = 0
  /\ hr = "ok"
  /\ qFlushing = FALSE /\ flushed = TRUE /\ evFlush = FALSE
  /\ terminate = FALSE
  /\ spc = "idle" /\ fpc = "idle"
  /\ sinkFlush = FALSE
  /\ number = 0 /\ sent = <<>> /\ failed = FALSE

Exact == mode.exact /\ BatchSize > 1

(* Nobody is inside a direct call, which holds the lock of the queue.      *)
Unlocked == spc = "idle" \/ (hand = <<>> /\ special.kind = "segment")

NotifyThread == qSem' = qSem + qWaiting /\ qWaiting' = 0

-----------------------------------------------------------------------------
(* The streaming thread.  The filter keeps it out while a flush goes on.   *)

SourceMayCall ==
  spc = "idle" /\ fpc \in {"idle", "resetting"} /\ tpc # "freeing" /\ ~terminate

(* The reference of the caller becomes the queue's.                        *)
HandOver(s) ==
  /\ s \in holds["source"]
  /\ holds' = [holds EXCEPT !["source"] = @ \ {s}, !["queue"] = @ \cup {s}]
  /\ UNCHANGED <<poolVars, free, semVars, cRef, gpc, lifeVars>>

ReceiveQueued(s) ==
  /\ SourceMayCall /\ mode.queued /\ hr = "ok" /\ number < MaxItems
  /\ HandOver(s)
  /\ list' = Append(list, Item("sample", s, number + 1))
  /\ number' = number + 1
  /\ flushed' = FALSE
  /\ IF ~Exact \/ Len(batch) + Len(list') >= BatchSize
       THEN NotifyThread
       ELSE UNCHANGED <<qWaiting, qSem>>
  /\ UNCHANGED <<mode, batch, threadVars, hr, qFlushing, evFlush, sinkFlush,
                 fpc, terminate, spc, sent, failed>>

(* After an error or during a flush the sample is only released.           *)
ReceiveRefused(s) ==
  /\ SourceMayCall /\ hr # "ok"
  /\ Release("source", s)
  /\ UNCHANGED queueVars

(***************************************************************************)
(* Without a thread the sample joins the batch, and a full batch is sent   *)
(* before Receive returns.  A batch that is not exact is not sent either:  *)
(* only a call with no samples would.                                      *)
(***************************************************************************)
ReceiveDirect(s) ==
  /\ SourceMayCall /\ ~mode.queued /\ hr = "ok" /\ number < MaxItems
  /\ HandOver(s)
  /\ number' = number + 1
  /\ flushed' = FALSE
  /\ LET b == Append(batch, Item("sample", s, number + 1))
     IN IF Len(b) = BatchSize
          THEN batch' = <<>> /\ hand' = b /\ spc' = "sending"
          ELSE batch' = b /\ UNCHANGED <<hand, spc>>
  /\ UNCHANGED <<mode, list, qWaiting, qSem, special, tpc, hr, qFlushing,
                 evFlush, sinkFlush, fpc, terminate, sent, failed>>

SendAnywayDirect ==
  /\ SourceMayCall /\ ~mode.queued /\ hr = "ok"
  /\ batch # <<>>
  /\ hand' = batch
  /\ batch' = <<>>
  /\ flushed' = FALSE
  /\ spc' = "sending"
  /\ UNCHANGED <<allocVars, mode, list, qWaiting, qSem, special, tpc, hr,
                 qFlushing, evFlush, sinkFlush, fpc, terminate, ghostVars>>

(* Packets that carry no sample go through the list (the guard on the last *)
(* item is a bound: a second request to send anyway changes nothing).      *)
SendAnywayQueued ==
  /\ SourceMayCall /\ mode.queued
  /\ list # <<>> => Last(list).kind # "send"
  /\ list' = Append(list, Control("send"))
  /\ NotifyThread
  /\ UNCHANGED <<allocVars, mode, batch, threadVars, hr, flushVars, terminate,
                 spc, ghostVars>>

(* NEW_SEGMENT and its parameters are queued under one lock: one item.     *)
NewSegmentQueued ==
  /\ SourceMayCall /\ mode.queued /\ hr = "ok" /\ number < MaxItems
  /\ list' = Append(list, Item("segment", 0, number + 1))
  /\ number' = number + 1
  /\ NotifyThread
  /\ UNCHANGED <<allocVars, mode, batch, threadVars, hr, flushVars, terminate,
                 spc, sent, failed>>

EosQueued ==
  /\ SourceMayCall /\ mode.queued /\ hr = "ok" /\ number < MaxItems
  /\ list' = Append(list, Item("eos", 0, number + 1))
  /\ number' = number + 1
  /\ flushed' = FALSE
  /\ NotifyThread
  /\ UNCHANGED <<allocVars, mode, batch, threadVars, hr, qFlushing, evFlush,
                 sinkFlush, fpc, terminate, spc, sent, failed>>

(* Faulty variant: the mark overtakes the batch.                           *)
MarkDirectOvertakes(kind) ==
  /\ SourceMayCall /\ ~mode.queued /\ hr = "ok" /\ number < MaxItems
  /\ special' = Item(kind, 0, number + 1)
  /\ number' = number + 1
  /\ flushed' = FALSE
  /\ spc' = "sending"
  /\ UNCHANGED <<allocVars, mode, hand, lockVars, tpc, hr, qFlushing, evFlush,
                 sinkFlush, fpc, terminate, sent, failed>>

(* EOS and NewSegment without a thread: an exact batch is sent first.      *)
MarkDirect(kind) ==
  /\ SourceMayCall /\ ~mode.queued /\ hr = "ok" /\ number < MaxItems
  /\ IF Exact /\ batch # <<>>
       THEN hand' = batch /\ batch' = <<>>
       ELSE UNCHANGED <<hand, batch>>
  /\ special' = Item(kind, 0, number + 1)
  /\ number' = number + 1
  /\ flushed' = IF kind = "eos" \/ hand' # hand THEN FALSE ELSE flushed
  /\ spc' = "sending"
  /\ UNCHANGED <<allocVars, mode, list, qWaiting, qSem, tpc, hr, qFlushing,
                 evFlush, sinkFlush, fpc, terminate, sent, failed>>

-----------------------------------------------------------------------------
(* The next filter.  A call may take as long as it likes (a paused         *)
(* renderer), but a flush makes it return.                                 *)

Numbers(items) == [i \in DOMAIN items |-> items[i].n]

SampleIds(items) == {items[i].sample : i \in DOMAIN items}

(* ReceiveMultiple takes the batch, refuses it, or gives up in a flush.    *)
Downstream ==
  \/ /\ ~sinkFlush
     /\ sent' = sent \o Numbers(hand)
     /\ UNCHANGED <<hr, failed>>
  \/ /\ ~sinkFlush
     /\ hr' = IF hr = "ok" THEN "error" ELSE hr
     /\ failed' = TRUE
     /\ UNCHANGED sent
  \/ /\ sinkFlush
     /\ hr' = IF hr = "ok" THEN "stop" ELSE hr
     /\ failed' = TRUE
     /\ UNCHANGED sent

(* It may keep a sample beyond the call.                                   *)
SinkKeeps(s) ==
  /\ tpc = "receiving" \/ spc = "sending"
  /\ s \in SampleIds(hand)
  /\ AddRef("sink", s)
  /\ UNCHANGED queueVars

SinkReleases(s) ==
  /\ Release("sink", s)
  /\ UNCHANGED queueVars

DirectSend ==
  /\ spc = "sending" /\ hand # <<>>
  /\ Downstream
  /\ spc' = "releasing"
  /\ UNCHANGED <<allocVars, mode, threadVars, lockVars, flushVars, terminate,
                 number>>

ReleaseHand ==
  /\ spc = "releasing" \/ tpc = "releasing"
  /\ hand # <<>>
  /\ Release("queue", hand[Len(hand)].sample)
  /\ hand' = Front(hand)
  /\ UNCHANGED <<mode, special, tpc, lockVars, hr, flushVars, terminate, spc,
                 ghostVars>>

(* The mark, if the call was for one, follows the batch.                   *)
DirectDone ==
  /\ \/ spc = "releasing" /\ hand = <<>>
     \/ spc = "sending" /\ hand = <<>>
  /\ sent' = IF special.kind = "segment" \/ (special.kind = "eos" /\ hr = "ok")
               THEN Append(sent, special.n) ELSE sent
  /\ special' = None
  /\ spc' = "idle"
  /\ UNCHANGED <<allocVars, mode, hand, tpc, lockVars, hr, flushVars, terminate,
                 number, failed>>

-----------------------------------------------------------------------------
(* The thread of the queue: ThreadProc.                                    *)

(* Faulty variant: what is batched is forgotten, not released.             *)
FreeOneForgets ==
  /\ tpc = "freeing" \/ fpc = "freeing"
  /\ list \o batch # <<>>
  /\ IF list # <<>> /\ Head(list).kind = "sample"
       THEN Release("queue", Head(list).sample)
       ELSE UNCHANGED allocVars
  /\ IF list # <<>>
       THEN list' = Tail(list) /\ UNCHANGED batch
       ELSE batch' = <<>> /\ UNCHANGED list
  /\ failed' = TRUE
  /\ UNCHANGED <<mode, threadVars, qWaiting, qSem, hr, flushVars, terminate,
                 spc, number, sent>>

(***************************************************************************)
(* FreeSamples drops everything that is queued or batched, one item at a   *)
(* time, with the lock held.                                               *)
(***************************************************************************)
FreeOne ==
  /\ tpc = "freeing" \/ fpc = "freeing"
  /\ list \o batch # <<>>
  /\ LET item == Head(list \o batch)
     IN IF item.kind = "sample"
          THEN Release("queue", item.sample)
          ELSE UNCHANGED allocVars
  /\ IF list # <<>>
       THEN list' = Tail(list) /\ UNCHANGED batch
       ELSE batch' = Tail(batch) /\ UNCHANGED list
  /\ failed' = TRUE
  /\ UNCHANGED <<mode, threadVars, qWaiting, qSem, hr, flushVars, terminate,
                 spc, number, sent>>

(* The lock is taken; asked to end or to flush the thread frees first.     *)
ThreadFrees ==
  /\ tpc = "loop" /\ Unlocked
  /\ terminate \/ qFlushing
  /\ tpc' = "freeing"
  /\ UNCHANGED <<allocVars, mode, hand, special, lockVars, hr, flushVars,
                 terminate, spc, ghostVars>>

(* Nothing is left: the thread ends, or tells EndFlush and waits.          *)
ThreadFreed ==
  /\ tpc = "freeing" /\ list = <<>> /\ batch = <<>>
  /\ IF terminate
       THEN tpc' = "ended" /\ UNCHANGED <<qWaiting, evFlush>>
       ELSE tpc' = "wait" /\ qWaiting' = qWaiting + 1 /\ evFlush' = TRUE
  /\ UNCHANGED <<allocVars, mode, hand, special, list, batch, qSem, hr,
                 qFlushing, flushed, sinkFlush, fpc, terminate, spc, ghostVars>>

(* Requests to send anyway mean nothing while the batch is empty.          *)
Sendable ==
  LET i == SelectInSeq(list, LAMBDA x : x.kind # "send")
  IN CASE batch # <<>> -> list
       [] OTHER -> IF i = 0 THEN <<>> ELSE SubSeq(list, i, Len(list))

(* How many samples the head of the list adds to the batch.                *)
Fill(l) ==
  LET i == SelectInSeq(l, LAMBDA x : x.kind # "sample")
      plain == IF i = 0 THEN Len(l) ELSE i - 1
      room == BatchSize - Len(batch)
  IN IF plain < room THEN plain ELSE room

(***************************************************************************)
(* One locked section of the thread: samples move from the list to the     *)
(* batch until it is full, a packet is met or the list is empty.  A batch  *)
(* that is not full goes out at once unless batches are exact.             *)
(***************************************************************************)
ThreadTakes ==
  /\ tpc = "loop" /\ Unlocked
  /\ ~terminate /\ ~qFlushing
  /\ LET l == Sendable
         k == Fill(l)
         b == batch \o SubSeq(l, 1, k)
         rest == SubSeq(l, k + 1, Len(l))
         full == Len(b) = BatchSize
     IN IF ~full /\ rest = <<>> /\ (Exact \/ b = <<>>)
          THEN /\ list' = <<>> /\ batch' = b
               /\ qWaiting' = qWaiting + 1
               /\ tpc' = "wait"
               /\ UNCHANGED <<hand, special>>
          ELSE /\ batch' = <<>> /\ hand' = b
               /\ IF full \/ rest = <<>>
                    THEN special' = None /\ list' = rest
                    ELSE special' = Head(rest) /\ list' = Tail(rest)
               /\ tpc' = "send"
               /\ UNCHANGED qWaiting
  /\ UNCHANGED <<allocVars, mode, qSem, hr, flushVars, terminate, spc, ghostVars>>

ThreadWakes ==
  /\ tpc = "wait" /\ qSem > 0
  /\ qSem' = qSem - 1
  /\ tpc' = "loop"
  /\ UNCHANGED <<allocVars, mode, hand, special, list, batch, qWaiting, hr,
                 flushVars, terminate, spc, ghostVars>>

(* Without the lock: the samples are sent unless something went wrong.     *)
ThreadSends ==
  /\ tpc = "send"
  /\ tpc' = IF hand # <<>> /\ hr = "ok" THEN "receiving" ELSE "releasing"
  /\ UNCHANGED <<allocVars, mode, hand, special, lockVars, hr, flushVars,
                 terminate, spc, ghostVars>>

(* The result is stored under the lock.                                    *)
ThreadSent ==
  /\ tpc = "receiving" /\ Unlocked
  /\ Downstream
  /\ tpc' = "releasing"
  /\ UNCHANGED <<allocVars, mode, hand, special, lockVars, flushVars, terminate,
                 spc, number>>

(* A packet is acted on after the samples before it are gone.              *)
ThreadMark ==
  /\ tpc = "releasing" /\ hand = <<>>
  /\ LET passes == \/ special.kind = "eos" /\ hr = "ok"
                   \/ special.kind = "segment"
     IN sent' = IF passes THEN Append(sent, special.n) ELSE sent
  /\ IF special.kind = "reset"
       THEN hr' = "ok" /\ evFlush' = TRUE
       ELSE UNCHANGED <<hr, evFlush>>
  /\ special' = None
  /\ tpc' = "loop"
  /\ UNCHANGED <<allocVars, mode, hand, lockVars, qFlushing, flushed, sinkFlush,
                 fpc, terminate, spc, number, failed>>

-----------------------------------------------------------------------------
(* The control thread.                                                     *)

Discard == hr' = IF hr = "ok" THEN "stop" ELSE hr

(* Faulty variant: the thread is not woken for the flush.                  *)
BeginFlushQueuedSilent ==
  /\ fpc = "idle" /\ Unlocked /\ ~terminate /\ mode.queued /\ tpc # "freeing"
  /\ qFlushing' = TRUE
  /\ Discard
  /\ fpc' = IF flushed /\ mode.opt THEN "begun" ELSE "passing"
  /\ evFlush' = FALSE
  /\ UNCHANGED <<allocVars, mode, threadVars, lockVars, flushed, sinkFlush,
                 terminate, spc, ghostVars>>

BeginFlushQueued ==
  /\ fpc = "idle" /\ Unlocked /\ ~terminate /\ mode.queued /\ tpc # "freeing"
  /\ qFlushing' = TRUE
  /\ Discard
  /\ IF flushed /\ mode.opt
       THEN fpc' = "begun" /\ UNCHANGED <<evFlush, qWaiting, qSem>>
       ELSE fpc' = "passing" /\ evFlush' = FALSE /\ NotifyThread
  /\ UNCHANGED <<allocVars, mode, threadVars, list, batch, flushed, sinkFlush,
                 terminate, spc, ghostVars>>

(* The flush is passed on; only then can a blocked ReceiveMultiple return. *)
BeginFlushPassed ==
  /\ fpc = "passing"
  /\ sinkFlush' = TRUE
  /\ fpc' = "begun"
  /\ UNCHANGED <<allocVars, mode, threadVars, lockVars, hr, qFlushing, flushed,
                 evFlush, terminate, spc, ghostVars>>

(* "pass downstream first to avoid deadlocks": the lock is taken after.    *)
BeginFlushDirect ==
  /\ \/ /\ fpc = "idle" /\ ~terminate /\ ~mode.queued
        /\ sinkFlush' = TRUE
        /\ fpc' = "locking"
        /\ UNCHANGED <<qFlushing, hr>>
     \/ /\ fpc = "locking" /\ Unlocked
        /\ qFlushing' = TRUE
        /\ Discard
        /\ fpc' = "begun"
        /\ UNCHANGED sinkFlush
  /\ UNCHANGED <<allocVars, mode, threadVars, lockVars, flushed, evFlush,
                 terminate, spc, ghostVars>>

EndFlush ==
  /\ fpc = "begun" /\ tpc # "freeing"
  /\ IF mode.opt /\ flushed /\ mode.queued
       THEN qFlushing' = FALSE /\ hr' = "ok" /\ fpc' = "idle"
       ELSE /\ fpc' = IF mode.queued THEN "flushing" ELSE "freeing"
            /\ UNCHANGED <<qFlushing, hr>>
  /\ UNCHANGED <<allocVars, mode, threadVars, lockVars, flushed, evFlush,
                 sinkFlush, terminate, spc, ghostVars>>

(* Faulty variant: EndFlush does not wait for the thread.                  *)
EndFlushAtOnce ==
  /\ ~terminate
  /\ fpc = "flushing" \/ (fpc = "freeing" /\ list \o batch = <<>>)
  /\ UNCHANGED evFlush
  /\ qFlushing' = FALSE /\ flushed' = TRUE
  /\ fpc' = "leaving"
  /\ UNCHANGED <<allocVars, mode, threadVars, lockVars, hr, sinkFlush,
                 terminate, spc, ghostVars>>

(* The thread has freed everything (or the caller has): no lock is held.   *)
EndFlushWaited ==
  /\ ~terminate
  /\ \/ fpc = "flushing" /\ evFlush /\ evFlush' = FALSE
     \/ fpc = "freeing" /\ list = <<>> /\ batch = <<>> /\ UNCHANGED evFlush
  /\ qFlushing' = FALSE /\ flushed' = TRUE
  /\ fpc' = "leaving"
  /\ UNCHANGED <<allocVars, mode, threadVars, lockVars, hr, sinkFlush,
                 terminate, spc, ghostVars>>

(* The flush ends downstream, then the sticky result is cancelled.  The    *)
(* numbering starts again, unless a new segment has got past the flush.    *)
EndFlushDone ==
  /\ fpc = "leaving"
  /\ sinkFlush' = FALSE
  /\ hr' = "ok"
  /\ fpc' = "idle"
  /\ IF list = <<>> /\ special = None
       THEN number' = 0 /\ sent' = <<>> /\ failed' = FALSE
       ELSE UNCHANGED ghostVars
  /\ UNCHANGED <<allocVars, mode, threadVars, lockVars, qFlushing, flushed,
                 evFlush, terminate, spc>>

(* Reset cancels the sticky result behind everything that is queued.       *)
ResetDirect ==
  /\ fpc = "idle" /\ ~terminate /\ ~mode.queued
  /\ hr' = "ok"
  /\ UNCHANGED <<allocVars, mode, threadVars, lockVars, flushVars, terminate,
                 spc, ghostVars>>

ResetQueued ==
  /\ fpc = "idle" /\ ~terminate /\ mode.queued /\ Unlocked /\ tpc # "freeing"
  /\ list' = Append(list, Control("reset"))
  /\ NotifyThread
  /\ fpc' = "resetting"
  /\ UNCHANGED <<allocVars, mode, batch, threadVars, hr, qFlushing, flushed,
                 evFlush, sinkFlush, terminate, spc, ghostVars>>

ResetWaited ==
  /\ fpc = "resetting" /\ evFlush
  /\ evFlush' = FALSE
  /\ fpc' = "idle"
  /\ UNCHANGED <<allocVars, mode, threadVars, lockVars, hr, qFlushing, flushed,
                 sinkFlush, terminate, spc, ghostVars>>

(* The destructor: the thread is told to end, or the samples are freed.    *)
Destroy ==
  /\ fpc = "idle" /\ Unlocked /\ ~terminate /\ tpc # "freeing"
  /\ terminate' = TRUE
  /\ IF mode.queued
       THEN hr' = "stop" /\ NotifyThread /\ fpc' = "closing"
       ELSE fpc' = "freeing" /\ UNCHANGED <<hr, qWaiting, qSem>>
  /\ UNCHANGED <<allocVars, mode, threadVars, list, batch, qFlushing, flushed,
                 evFlush, sinkFlush, spc, ghostVars>>

(* The destructor has joined the thread, or freed the samples itself.      *)
Destroyed ==
  /\ terminate
  /\ \/ fpc = "closing" /\ tpc = "ended"
     \/ fpc = "freeing" /\ list = <<>> /\ batch = <<>>
  /\ fpc' = "closed"
  /\ UNCHANGED <<allocVars, mode, threadVars, lockVars, hr, qFlushing, flushed,
                 evFlush, sinkFlush, terminate, spc, ghostVars>>

-----------------------------------------------------------------------------
(* "we're idle if there is no thread or the thread is waiting, and there's *)
(* nothing in the current batch".                                          *)
IsIdle == ~(mode.queued /\ qWaiting = 0) /\ batch = <<>>

SourceStep ==
  \/ \E s \in Samples : ReceiveQueued(s) \/ ReceiveRefused(s) \/ ReceiveDirect(s)
  \/ SendAnywayDirect \/ SendAnywayQueued
  \/ NewSegmentQueued \/ EosQueued
  \/ \E kind \in {"eos", "segment"} : MarkDirect(kind)
  \/ Client("source") /\ UNCHANGED queueVars

SinkStep ==
  \E s \in Samples : SinkKeeps(s) \/ SinkReleases(s)

SendStep == DirectSend \/ DirectDone \/ ReleaseHand \/ FreeOne

ThreadStep ==
  \/ ThreadFrees \/ ThreadFreed \/ ThreadTakes \/ ThreadWakes
  \/ ThreadSends \/ ThreadSent \/ ThreadMark

ControlStep ==
  \/ BeginFlushQueued \/ BeginFlushPassed \/ BeginFlushDirect
  \/ EndFlush \/ EndFlushWaited \/ EndFlushDone
  \/ ResetDirect \/ ResetQueued \/ ResetWaited \/ Destroy \/ Destroyed

DeliveryInit == AllocInit /\ QueueInit

DeliveryNext ==
  \/ PoolControl /\ UNCHANGED queueVars
  \/ SourceStep \/ SinkStep \/ SendStep \/ ThreadStep \/ ControlStep

deliveryVars == <<allocVars, queueVars>>

(***************************************************************************)
(* Who can go on without another call: the thread of the queue, a caller   *)
(* inside it, the control call.  A call downstream is sure to return only  *)
(* in a flush.                                                             *)
(***************************************************************************)
ThreadMayRun ==
  \/ tpc \in {"send", "releasing", "freeing"}
  \/ tpc = "loop" /\ Unlocked
  \/ tpc = "receiving" /\ sinkFlush /\ Unlocked
  \/ tpc = "wait" /\ qSem > 0

SenderMayRun == spc = "releasing" \/ (spc = "sending" /\ (sinkFlush \/ hand = <<>>))

ControlMayRun ==
  \/ fpc \in {"passing", "freeing", "leaving"}
  \/ fpc = "locking" /\ Unlocked
  \/ fpc \in {"flushing", "resetting"} /\ evFlush
  \/ fpc = "closing" /\ tpc = "ended"

DeliverySpec == DeliveryInit /\ [][DeliveryNext]_deliveryVars

(***************************************************************************)
(* Two ways to use the queue break what it promises: Reset while flushing  *)
(* is optimised (a flush that was skipped may have left its event set),    *)
(* and batches that are not exact without a thread (nothing sends them).   *)
(***************************************************************************)
UsableStep == DeliveryNext /\ (mode.opt => fpc' # "resetting")

Ordered == mode.queued \/ Exact

UsableSpec == DeliveryInit /\ [][UsableStep]_deliveryVars

OrderedSpec == DeliveryInit /\ Ordered /\ [][UsableStep]_deliveryVars

-----------------------------------------------------------------------------
(* What was accepted and is still on its way, by number.                   *)
Unsent == tpc \in {"send", "receiving"} \/ spc = "sending"

OnTheWay ==
  (IF Unsent THEN Numbers(hand) ELSE <<>>) \o Numbers(<<special>> \o batch \o list)

(* The numbers of a sequence: what has none is numbered 0.                 *)
Marks(ns) == ToSet(ns) \ {0}

Ascending(ns) ==
  \A i, j \in DOMAIN ns : i < j /\ ns[i] > 0 /\ ns[j] > 0 => ns[i] < ns[j]

(***************************************************************************)
(* Samples, new segments and the end of the stream reach the next filter   *)
(* in the order in which they were accepted, through two queues, with or   *)
(* without a thread; and as long as nothing failed and nothing was flushed *)
(* none is missing.                                                        *)
(***************************************************************************)
DeliveredInOrder ==
  /\ Ascending(sent \o OnTheWay)
  /\ ~failed /\ hr = "ok" /\ ~terminate => Marks(sent \o OnTheWay) = 1 .. number

(***************************************************************************)
(* "TRUE if there is nothing on the queue and nothing in the batch and all *)
(* data has been sent" (IsIdle): true of every queue but an exact one,     *)
(* whose list may wait for the rest of a batch while its thread sleeps.    *)
(***************************************************************************)
IdleMeansSent == IsIdle /\ ~Exact /\ spc = "idle" => Marks(OnTheWay) = {}

(***************************************************************************)
(* The order of COutputQueue, and what its IsIdle says of it.              *)
(***************************************************************************)
OrderKept == DeliveredInOrder /\ IdleMeansSent

(***************************************************************************)
(* When EndFlush passes the flush on as finished, no sample and no end of  *)
(* stream accepted before it is left anywhere in the queue or its thread.  *)
(***************************************************************************)
FlushDiscards ==
  fpc = "leaving" =>
    /\ batch = <<>> /\ hand = <<>>
    /\ special.kind # "eos"
    /\ \A i \in DOMAIN list : list[i].kind \notin {"sample", "eos"}

(***************************************************************************)
(* The queue holds exactly the samples it has in its list, its batch and   *)
(* in hand: nothing is released twice or leaked by errors, flushes or the  *)
(* destructor, so the allocator gets every buffer back.                    *)
(***************************************************************************)
QueueOwnsItsSamples ==
  /\ SamplesConserved
  /\ holds["queue"] = SampleIds(list \o batch \o hand) \ {0}
  /\ fpc = "closed" => holds["queue"] = {}

(***************************************************************************)
(* A flush never waits for something that cannot come: not for a thread    *)
(* asleep or blocked in the next filter, not for an event another call has *)
(* consumed.  Nor do Reset and the destructor, unless the next filter      *)
(* blocks the thread: they do not flush it.                                *)
(***************************************************************************)
ControlNeverStuck ==
  (\/ fpc \in {"locking", "flushing"}
   \/ fpc \in {"resetting", "closing"} /\ tpc # "receiving")
    => ThreadMayRun \/ SenderMayRun \/ ControlMayRun
=============================================================================
