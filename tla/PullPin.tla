------------------------------ MODULE PullPin ------------------------------
(***************************************************************************)
(* CPullPin (pullpin.cpp): a thread that pulls samples from the upstream   *)
(* pin's IAsyncReader and hands them to Receive, commanded by Active,      *)
(* Seek and Inactive.  The reader completes requests in order and cancels  *)
(* what it holds when it is flushed; the receiver may refuse a sample or   *)
(* keep it for a while (both external).  One unit of time is one byte.     *)
(***************************************************************************)
EXTENDS Integers, Sequences, FiniteSets

CONSTANTS PullBuffers,   \* cBuffers of the allocator agreed on
          SampleSize,    \* bytes of one buffer, a multiple of the alignment
          Align,         \* cbAlign
          Duration,      \* length of the stream
          Positions,     \* bound: <<start, stop>> pairs Seek is called with
          MaxSeeks       \* bound

\* The reader agrees to buffers that are a multiple of the alignment it asks for.
ASSUME PullBounds ==
    /\ PullBuffers \in Nat /\ Duration \in Nat /\ MaxSeeks \in Nat /\ Positions \subseteq Nat \X Nat
    /\ Align \in Nat \ {0} /\ SampleSize \in Nat \ {0} /\ SampleSize % Align = 0

\* AlignDown and AlignUp mask bits (pullpin.h), which is rounding for these alignments only.
ASSUME AlignIsPowerOfTwo == \E k \in 0..30 : Align = 2^k

VARIABLES pull,          \* m_tStart, m_tStop, m_State, m_bSync, allocator committed, flushing downstream, seeks made
          client,        \* the thread in Active, Seek or Inactive: what it waits for, and the range to seek to
          call,          \* CAMThread: the request pending, and whether it has been answered
          worker,        \* place of the worker, tCurrent, sample at hand, and the range Process read
          reader,        \* requests pending, requests done, flushing
          kept,          \* buffers the receiver holds
          heard,         \* history of the receiver: end of what it got, whether that was whole, end of stream
          unflushed      \* history: the reader has refused the BeginFlush of a Seek

pullvars == <<pull, client, call, worker, reader, kept, heard, unflushed>>

NewStream == [next |-> 0, whole |-> TRUE, eos |-> FALSE, refused |-> FALSE]
NoCall == [cmd |-> "none", answered |-> FALSE]
EmptyReader == [pending |-> <<>>, done |-> <<>>, flushing |-> FALSE]

PullInit ==
    /\ \E sync \in BOOLEAN : pull = [start |-> 0, stop |-> Duration, state |-> "exit", sync |-> sync,
                                     committed |-> FALSE, flushing |-> FALSE, seeks |-> 0]
    /\ client = [at |-> "idle", to |-> <<0, 0>>]
    /\ call = NoCall
    /\ worker = [at |-> "none", cur |-> 0, sample |-> <<>>, start |-> 0, stop |-> 0, extra |-> FALSE]
    /\ reader = EmptyReader /\ kept = 0 /\ heard = NewStream
    /\ unflushed = FALSE

Least(a, b) == IF a < b THEN a ELSE b
AlignDown(x) == (x \div Align) * Align
AlignUp(x) == ((x + Align - 1) \div Align) * Align

PullStop == Least(worker.stop, Duration)
AlignStop == AlignUp(PullStop)

BuffersOut == Len(reader.pending) + Len(reader.done) + Len(worker.sample) + kept

Cancelled(r) == [r EXCEPT !.flushing = TRUE, !.pending = <<>>,
                          !.done = @ \o [i \in DOMAIN r.pending |-> [r.pending[i] EXCEPT !.ok = FALSE]]]

-----------------------------------------------------------------------------
(* The calling thread, under m_AccessLock.                                 *)

Calls(cmd, at, state) ==
    /\ call' = [cmd |-> cmd, answered |-> FALSE]
    /\ client' = [client EXCEPT !.at = at]
    /\ pull' = state

PullActive ==
    /\ client.at = "idle" /\ worker.at = "none"
    /\ Calls("start", "starting", [pull EXCEPT !.state = "start", !.committed = TRUE])
    /\ worker' = [worker EXCEPT !.at = "request"]
    /\ heard' = NewStream
    /\ UNCHANGED <<reader, kept>>

\* StopThread: the reader is flushed so that the worker does not wait in WaitForNext.  If the reader refuses, StopThread
\* returns before it has done anything, and Inactive says S_OK: nothing changes.
PullInactive ==
    /\ client.at = "idle" /\ worker.at # "none"
    /\ reader' = Cancelled(reader)
    /\ Calls("exit", "exiting", [pull EXCEPT !.state = "exit"])
    /\ UNCHANGED <<worker, kept, heard>>

\* Seek: with the thread started, flushes downstream, pauses the thread, and starts it again.
Seek(range) ==
    /\ client.at = "idle" /\ pull.seeks < MaxSeeks
    /\ IF pull.state = "start"
       THEN /\ client' = [at |-> "pausing", to |-> range]
            /\ pull' = [pull EXCEPT !.seeks = @ + 1, !.flushing = TRUE]
       ELSE /\ pull' = [pull EXCEPT !.seeks = @ + 1, !.start = range[1], !.stop = range[2]]
            /\ UNCHANGED client
    /\ UNCHANGED <<call, worker, reader, kept, heard>>

\* Mutant: the reader is not flushed before the worker is asked to pause.
PauseThreadNoFlush ==
    /\ client.at = "pausing"
    /\ Calls("pause", "paused", [pull EXCEPT !.state = "pause"])
    /\ UNCHANGED <<worker, kept, heard, reader>>

PauseThread ==
    /\ client.at = "pausing"
    /\ reader' = Cancelled(reader)
    /\ Calls("pause", "paused", [pull EXCEPT !.state = "pause"])
    /\ UNCHANGED <<worker, kept, heard>>

\* The reader refuses BeginFlush: PauseThread returns before the worker has heard of it.  Seek does not look at that,
\* ends the flush downstream and starts the thread, which may be anywhere in the old range.
PauseRefused ==
    /\ client.at = "pausing"
    /\ Calls("start", "starting", [pull EXCEPT !.state = "start", !.flushing = FALSE,
                                               !.start = client.to[1], !.stop = client.to[2]])
    /\ heard' = NewStream /\ unflushed' = TRUE
    /\ UNCHANGED <<worker, reader, kept>>

\* The worker has answered TM_Pause: EndFlush of the reader and downstream, then StartThread.
SeekRestarts ==
    /\ client.at = "paused" /\ call.answered
    /\ reader' = [reader EXCEPT !.flushing = FALSE]
    /\ Calls("start", "starting", [pull EXCEPT !.state = "start", !.flushing = FALSE,
                                               !.start = client.to[1], !.stop = client.to[2]])
    /\ heard' = NewStream
    /\ UNCHANGED <<worker, kept>>

Started ==
    /\ client.at = "starting" /\ call.answered
    /\ client' = [client EXCEPT !.at = "idle"]
    /\ call' = NoCall
    /\ UNCHANGED <<pull, worker, reader, kept, heard>>

\* EndFlush, Close, Decommit.
Exited ==
    /\ client.at = "exiting" /\ call.answered /\ worker.at = "none"
    /\ reader' = [reader EXCEPT !.flushing = FALSE]
    /\ pull' = [pull EXCEPT !.committed = FALSE]
    /\ client' = [client EXCEPT !.at = "idle"]
    /\ call' = NoCall
    /\ UNCHANGED <<worker, kept, heard>>

-----------------------------------------------------------------------------
(* The worker: ThreadProc and Process.                                     *)

At(place) == worker' = [worker EXCEPT !.at = place]
Pending == call.cmd # "none" /\ ~call.answered

GetRequest ==
    /\ worker.at = "request" /\ Pending
    /\ call' = [call EXCEPT !.answered = TRUE]
    /\ At(CASE call.cmd = "exit" -> "none" [] call.cmd = "pause" -> "flush" [] OTHER -> "process")
    /\ UNCHANGED <<pull, client, reader, kept, heard>>

\* BeginFlush, which we let succeed here, and CleanupCancelled: whatever the reader still has is collected and released.
FlushReader ==
    /\ worker.at = "flush"
    /\ reader' = [reader EXCEPT !.pending = <<>>, !.done = <<>>, !.flushing = TRUE]
    /\ At("unflush")
    /\ UNCHANGED <<pull, client, call, kept, heard>>

\* EndFlush, which may come between the caller's BeginFlush and EndFlush.
UnflushReader ==
    /\ worker.at = "unflush"
    /\ reader' = [reader EXCEPT !.flushing = FALSE]
    /\ At("request")
    /\ UNCHANGED <<pull, client, call, kept, heard>>

\* Process aligns the range; an empty one is at its end at once.
Process ==
    /\ worker.at = "process"
    /\ worker' = [worker EXCEPT !.at = IF pull.stop <= pull.start THEN "eos" ELSE "loop",
                                !.cur = AlignDown(pull.start), !.start = AlignDown(pull.start),
                                !.stop = pull.stop, !.extra = FALSE]
    /\ UNCHANGED <<pull, client, call, reader, kept, heard>>

\* The outer loop: left for a request; with more than one buffer a first sample is queued ahead.
CheckRequest ==
    /\ worker.at = "loop"
    /\ At(CASE worker.cur >= AlignStop -> "eos" [] worker.cur < AlignStop /\ Pending -> "flush" [] OTHER -> "buffer")
    /\ UNCHANGED <<pull, client, call, reader, kept, heard>>

\* QueueSample and the synchronous loop: a buffer is stamped with the next range of bytes.
GetBuffer ==
    LET upto == Least(worker.cur + SampleSize, AlignStop) IN
    /\ worker.at = "buffer" /\ BuffersOut < PullBuffers
    /\ worker' = [worker EXCEPT !.at = "ask", !.cur = upto,
                                !.sample = <<[from |-> worker.cur, to |-> upto, ok |-> TRUE]>>]
    /\ UNCHANGED <<pull, client, call, reader, kept, heard>>

\* Request.  A flushing reader refuses: release, CleanupCancelled, OnError.
Request ==
    /\ worker.at = "ask" /\ ~pull.sync
    /\ IF reader.flushing
       THEN /\ reader' = [reader EXCEPT !.done = <<>>]
            /\ worker' = [worker EXCEPT !.at = "flush", !.sample = <<>>]
       ELSE /\ reader' = [reader EXCEPT !.pending = @ \o worker.sample]
            /\ worker' = [worker EXCEPT !.sample = <<>>, !.extra = PullBuffers > 1,
                                        !.at = IF PullBuffers > 1 /\ ~worker.extra /\ worker.cur < AlignStop
                                               THEN "buffer" ELSE "collect"]
    /\ UNCHANGED <<pull, client, call, kept, heard>>

\* SyncReadAligned does not look at the flush; it may fail.
SyncRead ==
    /\ worker.at = "ask" /\ pull.sync
    /\ worker' \in {[worker EXCEPT !.at = "deliver"], [worker EXCEPT !.at = "flush", !.sample = <<>>]}
    /\ UNCHANGED <<pull, client, call, reader, kept, heard>>

\* External: the reader finishes its oldest request, or fails it.
ReaderCompletes ==
    /\ reader.pending # <<>>
    /\ \E ok \in BOOLEAN :
          reader' = [reader EXCEPT !.pending = Tail(@), !.done = Append(@, [Head(reader.pending) EXCEPT !.ok = ok])]
    /\ UNCHANGED <<pull, client, call, worker, kept, heard>>

\* WaitForNext: the next request done, or a failure when flushing; a failure cleans up and leaves Process.
CollectSample ==
    /\ worker.at = "collect"
    /\ \/ /\ reader.done # <<>> /\ Head(reader.done).ok
          /\ worker' = [worker EXCEPT !.at = "deliver", !.sample = <<Head(reader.done)>>]
          /\ reader' = [reader EXCEPT !.done = Tail(@)]
       \/ /\ IF reader.done # <<>> THEN ~Head(reader.done).ok ELSE reader.flushing
          /\ At("flush")
          /\ reader' = [reader EXCEPT !.done = <<>>]
    /\ UNCHANGED <<pull, client, call, kept, heard>>

\* After a sample: the next one is queued, the one queued ahead is collected, or the end has come.
NextPlace ==
    IF pull.sync THEN "loop"
    ELSE IF worker.cur < AlignStop THEN "buffer"
    ELSE IF reader.pending # <<>> \/ reader.done # <<>> THEN "collect"
    ELSE "eos"

\* DeliverSample: the stop is clipped, the times made relative to the aligned start, and Receive called.  A receiver
\* that is flushing takes nothing; another may take the sample, keep it, or refuse it (S_FALSE or an error).  S_FALSE
\* does not stop the last collection, which goes on to the end of the stream.
DeliverSample(takes, keeps, fails) ==
    LET s == Head(worker.sample)
        from == s.from - worker.start
        to == Least(s.to, PullStop) - worker.start
        last == worker.extra /\ worker.cur >= AlignStop /\ reader.pending = <<>> /\ reader.done = <<>>
    IN
    /\ worker.at = "deliver"
    /\ pull.flushing => ~takes
    /\ keeps => takes
    /\ takes => ~fails
    /\ worker' = [worker EXCEPT !.sample = <<>>,
                                !.at = IF takes THEN NextPlace ELSE IF last /\ ~fails /\ ~pull.sync THEN "eos" ELSE "flush"]
    /\ reader' = IF fails THEN [reader EXCEPT !.done = <<>>] ELSE reader
    /\ kept' = IF keeps THEN kept + 1 ELSE kept
    /\ heard' = IF takes THEN [heard EXCEPT !.next = to, !.whole = @ /\ from = heard.next /\ from < to /\ ~heard.eos]
                         ELSE IF pull.flushing THEN heard ELSE [heard EXCEPT !.refused = TRUE]
    /\ UNCHANGED <<pull, client, call>>

\* External.
KeptReleased ==
    /\ kept > 0
    /\ kept' = kept - 1
    /\ UNCHANGED <<pull, client, call, worker, reader, heard>>

\* History: what the receiver should have got by the end of the range.
RangeLength == IF pull.start < pull.stop /\ worker.start < AlignStop THEN PullStop - worker.start ELSE 0

EndOfStream ==
    /\ worker.at = "eos"
    /\ heard' = IF pull.flushing THEN heard
                ELSE [heard EXCEPT !.eos = TRUE,
                                   !.whole = @ /\ ~heard.eos /\ (heard.refused \/ heard.next = RangeLength)]
    /\ At("flush")
    /\ UNCHANGED <<pull, client, call, reader, kept>>

PullStep ==
    \/ PullActive \/ PullInactive \/ PauseThread \/ SeekRestarts \/ Started \/ Exited
    \/ \E range \in Positions : Seek(range)
    \/ GetRequest \/ FlushReader \/ UnflushReader \/ Process \/ CheckRequest \/ GetBuffer \/ Request \/ SyncRead
    \/ ReaderCompletes \/ CollectSample \/ KeptReleased \/ EndOfStream
    \/ \E takes, keeps, fails \in BOOLEAN : DeliverSample(takes, keeps, fails)

PullNext == (PullStep /\ UNCHANGED unflushed) \/ PauseRefused

PullSpec == PullInit /\ [][PullNext]_pullvars

-----------------------------------------------------------------------------
(* Properties.                                                             *)

\* What the receiver takes between two seeks starts at the aligned start, has no gap and no overlap, nothing comes from
\* before the seek, and an end of stream comes once, after everything.
StreamWhole == heard.whole

\* "at this point, there should be no outstanding requests on the upstream filter" (pullpin.cpp:323): a worker that
\* waits for a request has left nothing at the reader and holds no buffer.
IdleHoldsNothing ==
    worker.at \in {"request", "none"} => reader.pending = <<>> /\ reader.done = <<>> /\ worker.sample = <<>>

\* The caller never waits for a worker that waits in WaitForNext for a read nobody has asked for, nor for one that has
\* a request outstanding which the flush did not cancel: the worker comes back whatever the disk does.
CallerNotHeldByReader ==
    client.at \in {"paused", "exiting"} /\ worker.at = "collect" => reader.done # <<>> \/ reader.flushing

\* CPullPin: stops, seeks and flushes cancel reads in flight without losing or repeating data, and come to an end; as
\* long as the reader lets itself be flushed.
PullSafe == ~unflushed => StreamWhole /\ IdleHoldsNothing /\ CallerNotHeldByReader
=============================================================================
