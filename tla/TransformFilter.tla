-------------------------- MODULE TransformFilter --------------------------
(***************************************************************************)
(* CTransformFilter (transfrm.cpp) and the class the video transforms      *)
(* derive from (CVideoTransformFilter, vtrans.cpp), whose EndFlush takes   *)
(* the data lock as that of the former does not: state changes and flushes *)
(* on one side, the upstream thread in Receive on the other, over the      *)
(* filter lock m_csFilter and the data lock m_csReceive.                   *)
(* The downstream filter, the graph that stops it first, and the derived   *)
(* class's Transform, StartStreaming and StopStreaming are external.       *)
(***************************************************************************)
EXTENDS Integers

CONSTANTS OutBuffers,    \* bound: buffers of the output pin's allocator
          MaxFlushes     \* bound

ASSUME XformBounds == OutBuffers \in Nat /\ MaxFlushes \in Nat

VARIABLES class,         \* "transform" or "video": the class whose EndFlush it is
          xf,            \* m_State, m_bFlushing, m_bEOSDelivered, connections, output allocator committed, streaming
          locks,         \* owners of m_csFilter and m_csReceive
          app,           \* the thread that changes state: its place
          flusher,       \* the thread that flushes: its place
          pusher,        \* the thread in Receive or EndOfStream: its place and the flush its sample belongs to
          below          \* downstream: flushing, stopped, buffers it holds, ends of stream, flushes it saw, whether all
                         \* it took was newer; history, whether EndFlush overtook what came before the flush

xvars == <<class, xf, locks, app, flusher, pusher, below>>

XformInit ==
    /\ class \in {"transform", "video"}
    /\ xf = [state |-> "stopped", flushing |-> FALSE, eos |-> FALSE, in |-> FALSE, out |-> FALSE,
             committed |-> FALSE, streaming |-> 0, failed |-> FALSE, flushes |-> 0]
    /\ locks = [filter |-> "free", receive |-> "free"]
    /\ app = "idle" /\ flusher = "idle"
    /\ pusher = [at |-> "idle", flush |-> 0]
    /\ below = [flushing |-> FALSE, stopped |-> TRUE, held |-> 0, ends |-> 0, flushes |-> 0, current |-> TRUE,
                overtaken |-> FALSE]

Connected == xf.in /\ xf.out

-----------------------------------------------------------------------------
(* State changes.                                                          *)

\* Pins connect and disconnect while the filter is stopped; the output pin wants the input connected first.
ConnectPins(i, o) ==
    /\ xf.state = "stopped" /\ app = "idle" /\ flusher = "idle" /\ pusher.at = "idle" /\ ~xf.failed
    /\ (o /\ ~xf.out) => i
    /\ xf' = [xf EXCEPT !.in = i, !.out = o]
    /\ UNCHANGED <<locks, app, flusher, pusher, below>>

\* External: the graph pauses and stops from the renderer up; stopping, the receiver decommits the allocator we share.
BelowPauses ==
    /\ below.stopped /\ app = "idle" /\ xf.state = "stopped"
    /\ below' = [below EXCEPT !.stopped = FALSE, !.ends = 0]
    /\ UNCHANGED <<xf, locks, app, flusher, pusher>>

BelowStops ==
    /\ ~below.stopped /\ app = "idle"
    /\ below' = [below EXCEPT !.stopped = TRUE, !.flushing = FALSE]
    /\ xf' = [xf EXCEPT !.committed = FALSE]
    /\ UNCHANGED <<locks, app, flusher, pusher>>

\* Pause.  Without an input connection nothing will come: the end of the stream is delivered, once.  With both, streaming
\* is started under the data lock, then the pins are made active; either may fail.
PauseUnconnected ==
    /\ locks.filter = "free" /\ app = "idle" /\ ~below.stopped /\ xf.state # "paused" /\ ~Connected
    /\ xf' = [xf EXCEPT !.state = "paused", !.eos = @ \/ ~xf.in]
    /\ below' = IF ~xf.in /\ ~xf.eos /\ xf.out THEN [below EXCEPT !.ends = @ + 1] ELSE below
    /\ UNCHANGED <<locks, app, flusher, pusher>>

PauseConnected ==
    /\ locks.filter = "free" /\ app = "idle" /\ ~below.stopped /\ xf.state # "paused" /\ Connected
    /\ xf.state = "stopped" => locks.receive = "free"
    /\ xf' \in {[xf EXCEPT !.state = "paused", !.committed = TRUE,
                           !.streaming = IF xf.state = "stopped" THEN @ + 1 ELSE @]}
               \cup IF xf.state = "stopped" /\ ~xf.failed
                    THEN {[xf EXCEPT !.failed = TRUE], [xf EXCEPT !.failed = TRUE, !.streaming = @ + 1]} ELSE {}
    /\ UNCHANGED <<locks, app, flusher, pusher, below>>

RunFilter ==
    /\ locks.filter = "free" /\ app = "idle" /\ xf.state = "paused"
    /\ xf' = [xf EXCEPT !.state = "running"]
    /\ UNCHANGED <<locks, app, flusher, pusher, below>>

\* Stop makes the input pin inactive, which also ends its flush, before it waits for Receive to be left.
StopBegins ==
    /\ locks.filter = "free" /\ app = "idle" /\ xf.state # "stopped" /\ below.stopped
    /\ IF Connected
       THEN /\ xf' = [xf EXCEPT !.flushing = FALSE]
            /\ locks' = [locks EXCEPT !.filter = "app"]
            /\ app' = "stopping"
       ELSE /\ xf' = [xf EXCEPT !.state = "stopped", !.eos = FALSE]
            /\ UNCHANGED <<locks, app>>
    /\ UNCHANGED <<flusher, pusher, below>>

\* StopStreaming may fail: the filter is then not stopped, though its pins are inactive.
StopEnds ==
    /\ app = "stopping" /\ locks.receive = "free"
    /\ xf' \in {[xf EXCEPT !.committed = FALSE, !.state = "stopped", !.eos = FALSE, !.streaming = @ - 1],
                [xf EXCEPT !.committed = FALSE, !.failed = TRUE, !.streaming = 0]}
    /\ locks' = [locks EXCEPT !.filter = "free"]
    /\ app' = "idle"
    /\ UNCHANGED <<flusher, pusher, below>>

-----------------------------------------------------------------------------
(* Flushing.                                                               *)

\* BeginFlush blocks Receive first, then goes downstream.
FlushBlocks ==
    /\ flusher = "idle" /\ locks.filter = "free" /\ Connected /\ xf.flushes < MaxFlushes /\ ~xf.flushing
    /\ locks' = [locks EXCEPT !.filter = "flusher"]
    /\ xf' = [xf EXCEPT !.flushing = TRUE, !.flushes = @ + 1]
    /\ flusher' = "forward"
    /\ UNCHANGED <<app, pusher, below>>

FlushForwards ==
    /\ flusher = "forward"
    /\ below' = [below EXCEPT !.flushing = TRUE, !.flushes = xf.flushes]
    /\ locks' = [locks EXCEPT !.filter = "free"]
    /\ flusher' = "begun"
    /\ UNCHANGED <<xf, app, pusher>>

FlushEnds ==
    /\ flusher = "begun" /\ locks.filter = "free"
    /\ locks' = [locks EXCEPT !.filter = "flusher"]
    /\ flusher' = "sync"
    /\ UNCHANGED <<xf, app, pusher, below>>

\* Mutant: the video class forgets to synchronise.
FlushSyncsNot ==
    /\ flusher = "sync"
    /\ flusher' = "restart"
    /\ UNCHANGED <<xf, locks, app, pusher, below>>

\* CVideoTransformFilter::EndFlush takes the data lock to reset its statistics: Receive has been left by then.
\* CTransformFilter::EndFlush does not, "we have no worker thread".
FlushSyncs ==
    /\ flusher = "sync"
    /\ class = "video" => locks.receive = "free"
    /\ flusher' = "restart"
    /\ UNCHANGED <<xf, locks, app, pusher, below>>

InReceiveSinceBefore == pusher.at # "idle" /\ pusher.flush < below.flushes

FlushRestartsBelow ==
    /\ flusher = "restart"
    /\ below' = [below EXCEPT !.flushing = FALSE, !.overtaken = @ \/ InReceiveSinceBefore]
    /\ flusher' = "unblock"
    /\ UNCHANGED <<xf, locks, app, pusher>>

FlushUnblocks ==
    /\ flusher = "unblock"
    /\ xf' = [xf EXCEPT !.flushing = FALSE]
    /\ locks' = [locks EXCEPT !.filter = "free"]
    /\ flusher' = "idle"
    /\ UNCHANGED <<app, pusher, below>>

-----------------------------------------------------------------------------
(* The upstream thread.                                                    *)

CheckStreamingOK == Connected /\ ~xf.flushing /\ xf.state # "stopped"

Leaves ==
    /\ pusher' = [pusher EXCEPT !.at = "idle"]
    /\ locks' = [locks EXCEPT !.receive = "free"]

\* Receive and EndOfStream: under the data lock, which both give back at once when the pin is not streaming.
Enters(where) ==
    /\ pusher.at = "idle" /\ locks.receive = "free" /\ CheckStreamingOK
    /\ locks' = [locks EXCEPT !.receive = "pusher"]
    /\ pusher' = [at |-> where, flush |-> xf.flushes]
    /\ UNCHANGED <<xf, app, flusher, below>>

\* InitializeOutputSample waits for a buffer of the output allocator, or fails when that has been decommitted.
GetsBuffer ==
    /\ pusher.at = "buffer"
    /\ IF xf.committed
       THEN below.held < OutBuffers /\ pusher' = [pusher EXCEPT !.at = "transform"] /\ UNCHANGED locks
       ELSE Leaves
    /\ UNCHANGED <<xf, app, flusher, below>>

\* Transform delivers, or keeps the sample to itself (S_FALSE), or fails.
Transforms ==
    /\ pusher.at = "transform"
    /\ \/ pusher' = [pusher EXCEPT !.at = "deliver"] /\ UNCHANGED locks
       \/ Leaves
    /\ UNCHANGED <<xf, app, flusher, below>>

\* External: a receiver that is flushing or stopped refuses, another may keep the sample.
Delivers ==
    /\ pusher.at = "deliver"
    /\ below' \in IF below.flushing \/ below.stopped THEN {below}
                  ELSE {[below EXCEPT !.current = @ /\ pusher.flush >= below.flushes, !.held = @ + kept] : kept \in 0..1}
    /\ Leaves
    /\ UNCHANGED <<xf, app, flusher>>

DeliversEnd ==
    /\ pusher.at = "end"
    /\ below' = IF below.flushing \/ below.stopped THEN below
                ELSE [below EXCEPT !.current = @ /\ pusher.flush >= below.flushes]
    /\ Leaves
    /\ UNCHANGED <<xf, app, flusher>>

\* External.
BelowReleases ==
    /\ below.held > 0
    /\ below' = [below EXCEPT !.held = @ - 1]
    /\ UNCHANGED <<xf, locks, app, flusher, pusher>>

XformNext ==
    /\ \/ \E i, o \in BOOLEAN : ConnectPins(i, o)
       \/ BelowPauses \/ BelowStops \/ BelowReleases
       \/ PauseUnconnected \/ PauseConnected \/ RunFilter \/ StopBegins \/ StopEnds
       \/ FlushBlocks \/ FlushForwards \/ FlushEnds \/ FlushSyncs \/ FlushRestartsBelow \/ FlushUnblocks
       \/ \E where \in {"buffer", "end"} : Enters(where)
       \/ GetsBuffer \/ Transforms \/ Delivers \/ DeliversEnd
    /\ UNCHANGED class

XformSpec == XformInit /\ [][XformNext]_xvars

-----------------------------------------------------------------------------
(* Properties.                                                             *)

\* A sample or an end of stream taken before a flush never reaches the receiver after it: the video class sees to that
\* itself, the other leaves it to its caller to have its thread out of Receive before it calls EndFlush.
FlushedIsGone == class = "video" \/ ~below.overtaken => below.current

\* A stopped filter is out of Receive, has its allocator decommitted and has told the derived class, StartStreaming and
\* StopStreaming strictly alternating, unless one of them (or the pins' Active) has failed.
StoppedIsQuiet ==
    ~xf.failed => /\ xf.streaming = (IF Connected /\ xf.state # "stopped" THEN 1 ELSE 0)
                  /\ xf.state = "stopped" => ~xf.committed /\ pusher.at = "idle"

\* The thread that stops the filter waits for Receive, and Receive never waits for a buffer meanwhile: the receiver, which
\* the graph has stopped first, has decommitted the allocator.
StopNotHeld == app = "stopping" => ~xf.committed

\* A filter with no input ends the stream once in a session, so that the renderer does not wait for data for ever.
EndsOnce == below.ends =< 1 /\ (xf.state # "stopped" /\ ~xf.in /\ xf.out /\ ~below.stopped => below.ends = 1)

\* CTransformFilter: flushes and stops leave nothing of what came before them downstream, return, and the stream ends once.
TransformSafe == FlushedIsGone /\ StoppedIsQuiet /\ StopNotHeld /\ EndsOnce
=============================================================================
