------------------------------ MODULE BaseMux ------------------------------
(***************************************************************************)
(* CBaseMux of libmonodshow/src/basemux.cpp around its interleaver.        *)
(*                                                                         *)
(* Four kinds of threads meet here.  The application's control thread runs *)
(* Pause, Run and Stop under lock_filter (ctl); the muxing thread runs     *)
(* ThreadProc (mpc) and serves the requests of CAMThread::CallWorker; each *)
(* upstream thread calls Receive or EndOfStream on its pin (upc), taking   *)
(* no filter lock; BeginFlush and EndFlush arrive under lock_filter.       *)
(*                                                                         *)
(* Input pin p is pins[p].  The actions of Interleaver are used as they    *)
(* are, conjoined with what the filter does around the call.               *)
(***************************************************************************)
EXTENDS Interleaver, FiniteSets

Pins == Streams

VARIABLES
  connected,   \* which pins are connected (fixed while the filter is active)
  mState,      \* m_State
  goal,        \* the state the control call in progress is to reach
  ctl,         \* where the control thread is
  abort,       \* CBaseMux::abort
  pinStream,   \* pin->stream: its index, or NoStream
  owner,       \* stream->data: the pin of each stream
  flushing,    \* m_bFlushing of each pin
  upstream,    \* may the upstream threads call the pins?
  upc,         \* where the call on each pin is
  ucall,       \* the packet that call carries
  request,     \* m_dwParam of the muxing thread
  evSend,      \* m_EventSend, manual-reset
  evComplete,  \* m_EventComplete, auto-reset
  mpc,         \* where the muxing thread is
  inSession,   \* between OnStartStreaming and OnStopStreaming
  eosSent,     \* how often the end of the stream went downstream
  muxed,       \* what OnMuxPacket got for each pin, this session
  received,    \* what each pin accepted, this session
  fault        \* undefined behaviour that has happened

controlVars == <<mState, goal, ctl, abort>>
pinVars == <<pinStream, owner>>
upstreamVars == <<upc, ucall>>
workerVars == <<request, evSend, evComplete>>
sessionVars == <<inSession, eosSent, muxed>>
muxVars == <<connected, controlVars, pinVars, flushing, upstream, upstreamVars,
             workerVars, mpc, sessionVars, received, fault>>
allVars == <<vars, muxVars>>

NoStream == -1
NoPacket == [time |-> 0, eos |-> FALSE]

ConnectedPins == {p \in Pins : connected[p]}

(* The connected pins get the streams in the order of the pins.            *)
Rank(p) == Cardinality({q \in ConnectedPins : q < p})

MuxInit ==
  /\ Init
  /\ connected \in [Pins -> BOOLEAN]
  /\ mState = "Stopped"
  /\ goal = "Stopped"
  /\ ctl = "idle"
  /\ abort = FALSE
  /\ pinStream = [p \in Pins |-> NoStream]
  /\ owner = [s \in Streams |-> NoStream]
  /\ flushing = [p \in Pins |-> FALSE]
  /\ upstream = FALSE
  /\ upc = [p \in Pins |-> "idle"]
  /\ ucall = [p \in Pins |-> NoPacket]
  /\ request = "none"
  /\ evSend = FALSE
  /\ evComplete = FALSE
  /\ mpc = "none"
  /\ inSession = FALSE
  /\ eosSent = 0
  /\ muxed = [p \in Pins |-> <<>>]
  /\ received = [p \in Pins |-> <<>>]
  /\ fault = {}

-----------------------------------------------------------------------------
(* Pause and Run.  Each holds lock_filter from its first step to its last. *)

(***************************************************************************)
(* Pause (or Run, which calls it) on a stopped filter: the abort flags are *)
(* cancelled, the base class activates the pins.  With no pin connected    *)
(* nothing is started.  The filter graph stops upstream filters before it  *)
(* starts anything again.                                                  *)
(***************************************************************************)
PauseStopped(g) ==
  /\ ctl = "idle"
  /\ mState = "Stopped"
  /\ ~upstream
  /\ abort' = FALSE
  /\ SetAbort(FALSE)
  /\ IF ConnectedPins = {}
       THEN mState' = g /\ ctl' = "idle" /\ goal' = g
       ELSE mState' = "Paused" /\ ctl' = "starting" /\ goal' = g
  /\ UNCHANGED <<connected, pinVars, flushing, upstream, upstreamVars,
                 workerVars, mpc, sessionVars, received, fault>>

(* A pin refuses to become active: Pause fails, its flags stay cancelled.  *)
PauseRefused ==
  /\ ctl = "idle"
  /\ mState = "Stopped"
  /\ ~upstream
  /\ ConnectedPins # {}
  /\ abort' = FALSE
  /\ SetAbort(FALSE)
  /\ UNCHANGED <<connected, mState, goal, ctl, pinVars, flushing, upstream,
                 upstreamVars, workerVars, mpc, sessionVars, received, fault>>

(* Pause on a running filter: nothing is started or stopped.               *)
PauseRunning ==
  /\ ctl = "idle"
  /\ mState = "Running"
  /\ abort' = FALSE
  /\ SetAbort(FALSE)
  /\ mState' = "Paused"
  /\ UNCHANGED <<connected, goal, ctl, pinVars, flushing, upstream,
                 upstreamVars, workerVars, mpc, sessionVars, received, fault>>

RunPaused ==
  /\ ctl = "idle"
  /\ mState = "Paused"
  /\ mState' = "Running"
  /\ UNCHANGED <<vars, connected, goal, ctl, abort, pinVars, flushing,
                 upstream, upstreamVars, workerVars, mpc, sessionVars,
                 received, fault>>

(* Every connected pin gets a new stream, interleaved as IsInterleaved says *)
(* (always), and the derived class opens its session.                      *)
StartStreaming ==
  /\ ctl = "starting"
  /\ nStreams' = nStreams + Cardinality(ConnectedPins)
  /\ pinStream' = [p \in Pins |->
                     IF connected[p] THEN nStreams + Rank(p) ELSE NoStream]
  /\ owner' = [s \in Streams |->
                 IF \E p \in ConnectedPins : pinStream'[p] = s
                   THEN CHOOSE p \in ConnectedPins : pinStream'[p] = s
                   ELSE owner[s]]
  /\ inSession' = TRUE
  /\ eosSent' = 0
  /\ muxed' = [p \in Pins |-> <<>>]
  /\ received' = [p \in Pins |-> <<>>]
  /\ ctl' = "creating"
  /\ UNCHANGED <<interleaved, queue, canWrite, canRead, evAbort, writerVars,
                 readerVars, historyVars, connected, mState, goal, abort,
                 flushing, upstream, upstreamVars, workerVars, mpc, fault>>

(***************************************************************************)
(* Create and CallWorker(MUX_CMD_RUN).  When no thread can be created      *)
(* CallWorker fails at once; neither result is looked at.                  *)
(***************************************************************************)
CreateThread ==
  /\ ctl = "creating"
  /\ mpc = "none"
  /\ mpc' = "getRequest"
  /\ request' = "RUN"
  /\ evSend' = TRUE
  /\ ctl' = "waitRun"
  /\ UNCHANGED <<vars, connected, mState, goal, abort, pinVars, flushing,
                 upstream, upstreamVars, evComplete, sessionVars, received,
                 fault>>

CreateThreadFails ==
  /\ ctl = "creating"
  /\ mpc = "none"
  /\ ctl' = "idle"
  /\ mState' = goal
  /\ UNCHANGED <<vars, connected, goal, abort, pinVars, flushing, upstream,
                 upstreamVars, workerVars, mpc, sessionVars, received, fault>>

(* Faulty variant: m_EventComplete is a manual-reset event.                *)
RunRepliedManual ==
  /\ ctl = "waitRun"
  /\ evComplete
  /\ ctl' = "idle"
  /\ mState' = goal
  /\ UNCHANGED <<vars, connected, goal, abort, pinVars, flushing, upstream,
                 upstreamVars, workerVars, mpc, sessionVars, received, fault>>

(* The reply to RUN has arrived: Pause is done, and Run if that was called. *)
RunReplied ==
  /\ ctl = "waitRun"
  /\ evComplete
  /\ evComplete' = FALSE
  /\ ctl' = "idle"
  /\ mState' = goal
  /\ UNCHANGED <<vars, connected, goal, abort, pinVars, flushing, upstream,
                 upstreamVars, request, evSend, mpc, sessionVars, received,
                 fault>>

-----------------------------------------------------------------------------
(* Stop, step by step: the upstream threads run in between.                *)

StopCall ==
  /\ ctl = "idle"
  /\ mState # "Stopped"
  /\ SetAbort(TRUE)
  /\ goal' = "Stopped"
  /\ ctl' = "aborting"
  /\ UNCHANGED <<connected, mState, abort, pinVars, flushing, upstream,
                 upstreamVars, workerVars, mpc, sessionVars, received, fault>>

StopSetsAbort ==
  /\ ctl = "aborting"
  /\ abort' = TRUE
  /\ ctl' = "stopping"
  /\ UNCHANGED <<vars, connected, mState, goal, pinVars, flushing, upstream,
                 upstreamVars, workerVars, mpc, sessionVars, received, fault>>

(* CBaseFilter::Stop: the pins become inactive, which ends a flush.        *)
StopBase ==
  /\ ctl = "stopping"
  /\ flushing' = [p \in Pins |-> flushing[p] /\ ~connected[p]]
  /\ mState' = "Stopped"
  /\ ctl' = IF mpc = "none" THEN "finishing" ELSE "exiting"
  /\ UNCHANGED <<vars, connected, goal, abort, pinVars, upstream, upstreamVars,
                 workerVars, mpc, sessionVars, received, fault>>

(* Faulty variant: EXIT is posted, its reply is not waited for.            *)
CallExitPosts ==
  /\ ctl = "exiting"
  /\ request' = "EXIT"
  /\ evSend' = TRUE
  /\ ctl' = "finishing"
  /\ UNCHANGED <<vars, connected, mState, goal, abort, pinVars, flushing,
                 upstream, upstreamVars, evComplete, mpc, sessionVars,
                 received, fault>>

CallExit ==
  /\ ctl = "exiting"
  /\ request' = "EXIT"
  /\ evSend' = TRUE
  /\ ctl' = "waitExit"
  /\ UNCHANGED <<vars, connected, mState, goal, abort, pinVars, flushing,
                 upstream, upstreamVars, evComplete, mpc, sessionVars,
                 received, fault>>

ExitReplied ==
  /\ ctl = "waitExit"
  /\ evComplete
  /\ evComplete' = FALSE
  /\ ctl' = "joining"
  /\ UNCHANGED <<vars, connected, mState, goal, abort, pinVars, flushing,
                 upstream, upstreamVars, request, evSend, mpc, sessionVars,
                 received, fault>>

(* CAMThread::Close waits for the thread to end.                           *)
CloseThread ==
  /\ ctl = "joining"
  /\ mpc = "exited"
  /\ mpc' = "none"
  /\ ctl' = "finishing"
  /\ UNCHANGED <<vars, connected, mState, goal, abort, pinVars, flushing,
                 upstream, upstreamVars, workerVars, sessionVars, received,
                 fault>>

(* StopStreaming: OnStopStreaming, then Clear, then the pins are unlinked. *)
FinishSession ==
  /\ ctl = "finishing"
  /\ inSession' = FALSE
  /\ ctl' = "clearing"
  /\ UNCHANGED <<vars, connected, mState, goal, abort, pinVars, flushing,
                 upstream, upstreamVars, workerVars, mpc, eosSent, muxed,
                 received, fault>>

ClearStreams ==
  /\ ctl = "clearing"
  /\ Clear
  /\ readRet' = "none"
  /\ ctl' = "unlinking"
  /\ UNCHANGED <<canRead, evAbort, wpc, rpc, connected, mState, goal, abort,
                 pinVars, flushing, upstream, upstreamVars, workerVars, mpc,
                 sessionVars, received, fault>>

(* Faulty variant: pin->stream keeps pointing to the stream of the session. *)
UnlinkPinsSkipped ==
  /\ ctl = "unlinking"
  /\ ctl' = "idle"
  /\ UNCHANGED <<vars, connected, mState, goal, abort, pinVars, flushing,
                 upstream, upstreamVars, workerVars, mpc, sessionVars,
                 received, fault>>

UnlinkPins ==
  /\ ctl = "unlinking"
  /\ pinStream' = [p \in Pins |-> NoStream]
  /\ owner' = [s \in Streams |-> NoStream]
  /\ ctl' = "idle"
  /\ UNCHANGED <<vars, connected, mState, goal, abort, flushing, upstream,
                 upstreamVars, workerVars, mpc, sessionVars, received, fault>>

PauseOrRun ==
  \/ \E g \in {"Paused", "Running"} : PauseStopped(g)
  \/ PauseRefused
  \/ PauseRunning
  \/ RunPaused

(* The steps of a control call in progress.                                *)
ControlStep ==
  \/ StartStreaming \/ CreateThread \/ CreateThreadFails \/ RunReplied
  \/ StopSetsAbort \/ StopBase \/ CallExit \/ ExitReplied \/ CloseThread
  \/ FinishSession \/ ClearStreams \/ UnlinkPins

-----------------------------------------------------------------------------
(* The muxing thread: ThreadProc.                                          *)

(* m_EventSend is a manual-reset event: taking the request leaves it set.  *)
GetRequest ==
  /\ mpc = "getRequest"
  /\ evSend
  /\ mpc' = "reply"
  /\ UNCHANGED <<vars, connected, controlVars, pinVars, flushing, upstream,
                 upstreamVars, workerVars, sessionVars, received, fault>>

(* What ThreadProc does after it has replied.                              *)
AfterReply == IF request = "RUN" THEN "loop" ELSE "exited"

(* Faulty variant: the caller is signalled first.                          *)
ReplySignalsFirst ==
  /\ \/ /\ mpc = "reply"
        /\ evComplete' = TRUE
        /\ mpc' = "signal"
        /\ UNCHANGED evSend
     \/ /\ mpc = "signal"
        /\ evSend' = FALSE
        /\ mpc' = AfterReply
        /\ UNCHANGED evComplete
  /\ UNCHANGED <<vars, connected, controlVars, pinVars, flushing, upstream,
                 upstreamVars, request, sessionVars, received, fault>>

(***************************************************************************)
(* "This event should be reset BEFORE we signal the client or the client   *)
(* may Set it before we reset it and we'll then reset it (!)" (wxutil.cpp) *)
(***************************************************************************)
Reply ==
  /\ \/ /\ mpc = "reply"
        /\ evSend' = FALSE
        /\ mpc' = "signal"
        /\ UNCHANGED evComplete
     \/ /\ mpc = "signal"
        /\ evComplete' = TRUE
        /\ mpc' = AfterReply
        /\ UNCHANGED evSend
  /\ UNCHANGED <<vars, connected, controlVars, pinVars, flushing, upstream,
                 upstreamVars, request, sessionVars, received, fault>>

(* A pending request ends the loop, otherwise the next packet is read.     *)
LoopRequested ==
  /\ mpc = "loop"
  /\ evSend
  /\ mpc' = "getRequest"
  /\ UNCHANGED <<vars, connected, controlVars, pinVars, flushing, upstream,
                 upstreamVars, workerVars, sessionVars, received, fault>>

LoopRead ==
  /\ mpc = "loop"
  /\ ~evSend
  /\ ReadCall
  /\ mpc' = "reading"
  /\ UNCHANGED <<connected, controlVars, pinVars, flushing, upstream,
                 upstreamVars, workerVars, sessionVars, received, fault>>

(* What the loop does with the result of Read.                             *)
AfterRead(ret) ==
  CASE ret = "packet" -> "muxing"
    [] ret = "timeout" -> "loop"
    [] ret = "abort" -> "getRequest"
    [] ret = "eos" -> "ending"

MuxRead ==
  /\ mpc = "reading"
  /\ ReadWake \/ ReadTimeout \/ Scan
  /\ mpc' = IF rpc' = "idle" THEN AfterRead(readRet') ELSE "reading"
  /\ UNCHANGED <<connected, controlVars, pinVars, flushing, upstream,
                 upstreamVars, workerVars, sessionVars, received, fault>>

(* Faulty variant: the number of the stream is taken for that of the pin.  *)
MuxPacketByIndex ==
  /\ mpc = "muxing"
  /\ LET p == output[Len(output)]
     IN  muxed' = [muxed EXCEPT ![p.stream] = Append(@, p)]
  /\ mpc' = "loop"
  /\ UNCHANGED <<vars, connected, controlVars, pinVars, flushing, upstream,
                 upstreamVars, workerVars, inSession, eosSent, received, fault>>

(* The stream of the packet names the pin; the derived class writes it.    *)
MuxPacket ==
  /\ mpc = "muxing"
  /\ LET p == output[Len(output)]
         pin == owner[p.stream]
     IN  muxed' = IF inSession THEN [muxed EXCEPT ![pin] = Append(@, p)]
                               ELSE muxed
  /\ mpc' = "loop"
  /\ UNCHANGED <<vars, connected, controlVars, pinVars, flushing, upstream,
                 upstreamVars, workerVars, inSession, eosSent, received, fault>>

(* Faulty variant: the loop goes on.                                       *)
MuxEndGoesOn ==
  /\ mpc = "ending"
  /\ eosSent' = eosSent + 1
  /\ mpc' = "loop"
  /\ UNCHANGED <<vars, connected, controlVars, pinVars, flushing, upstream,
                 upstreamVars, workerVars, inSession, muxed, received, fault>>

(* DeliverEndOfStream or EC_COMPLETE; then the thread waits for a request. *)
MuxEnd ==
  /\ mpc = "ending"
  /\ eosSent' = eosSent + 1
  /\ mpc' = "getRequest"
  /\ UNCHANGED <<vars, connected, controlVars, pinVars, flushing, upstream,
                 upstreamVars, workerVars, inSession, muxed, received, fault>>

MuxThread ==
  \/ GetRequest \/ Reply \/ LoopRequested \/ LoopRead
  \/ MuxRead \/ MuxPacket \/ MuxEnd

-----------------------------------------------------------------------------
(* Receive and EndOfStream on an input pin.  The two differ in the packet. *)

(* The stream of pin p exists and is the one pin->stream points to.        *)
Linked(p) == pinStream[p] \in Live

(* The call on pin p is at pc; its packet matters until it returns.        *)
UpstreamAt(p, pc) ==
  /\ upc' = [upc EXCEPT ![p] = pc]
  /\ ucall' = IF pc = "idle" THEN [ucall EXCEPT ![p] = NoPacket] ELSE ucall

(***************************************************************************)
(* A call that finds pin->stream NULL returns at once.  One that finds it  *)
(* set goes on to read its events, deleted or not.                         *)
(***************************************************************************)
ReceiveCall(p, t, eos) ==
  /\ upstream
  /\ connected[p]
  /\ upc[p] = "idle"
  /\ pinStream[p] # NoStream
  /\ Len(received[p]) < MaxPackets
  /\ received[p] # <<>> => ~received[p][Len(received[p])].eos
  /\ IF Linked(p)
       THEN /\ upc' = [upc EXCEPT ![p] = "polling"]
            /\ ucall' = [ucall EXCEPT ![p] = [time |-> t, eos |-> eos]]
            /\ UNCHANGED fault
       ELSE /\ fault' = fault \cup {"deletedStreamUsed"}
            /\ UNCHANGED upstreamVars
  /\ UNCHANGED <<vars, connected, controlVars, pinVars, flushing, upstream,
                 workerVars, mpc, sessionVars, received>>

(* The head of the polling loop: a flushing pin is done.                   *)
PollFlushing(p) ==
  /\ upc[p] = "polling"
  /\ UpstreamAt(p, IF flushing[p] THEN "idle" ELSE "polled")
  /\ UNCHANGED <<vars, connected, controlVars, pinVars, flushing, upstream,
                 workerVars, mpc, sessionVars, received, fault>>

(***************************************************************************)
(* The wait of 20 ms ends.  The abort flag is looked at first; then a      *)
(* writable queue beats the abort event, and with neither the loop goes    *)
(* round again.                                                            *)
(***************************************************************************)
PollWait(p) ==
  /\ upc[p] = "polled"
  /\ UpstreamAt(p,
       CASE abort -> "idle"
         [] ~abort /\ canWrite[Rank(p)] -> "getting"
         [] ~abort /\ ~canWrite[Rank(p)] /\ evAbort -> "idle"
         [] OTHER -> "polling")
  /\ UNCHANGED <<vars, connected, controlVars, pinVars, flushing, upstream,
                 workerVars, mpc, sessionVars, received, fault>>

(* interleaver.GetPacket(&packet, pin->stream->index).                     *)
PinGetPacket(p) ==
  /\ upc[p] = "getting"
  /\ Linked(p)
  /\ GetPacketCall(pinStream[p])
  /\ UpstreamAt(p, "packet")
  /\ UNCHANGED <<connected, controlVars, pinVars, flushing, upstream,
                 workerVars, mpc, sessionVars, received, fault>>

(* pin->stream is deleted or NULL by now: undefined; here the call fails.  *)
PinGetPacketUnlinked(p) ==
  /\ upc[p] = "getting"
  /\ ~Linked(p)
  /\ fault' = fault \cup {"deletedStreamUsed"}
  /\ UpstreamAt(p, "idle")
  /\ UNCHANGED <<vars, connected, controlVars, pinVars, flushing, upstream,
                 workerVars, mpc, sessionVars, received>>

PinGotPacket(p) ==
  /\ upc[p] = "packet"
  /\ GetPacketWake(Rank(p)) \/ GetPacketReturn(Rank(p))
  /\ UpstreamAt(p, IF wpc'[Rank(p)] = "idle" THEN "idle" ELSE "packet")
  /\ UNCHANGED <<connected, controlVars, pinVars, flushing, upstream,
                 workerVars, mpc, sessionVars, received, fault>>

CallPacket(p) ==
  IF ucall[p].eos THEN EosPacket(Rank(p))
                  ELSE SamplePacket(Rank(p), ucall[p].time)

(* LoadFrom has copied the sample; Write queues it.                        *)
PinWrite(p) ==
  /\ upc[p] = "packet"
  /\ Write(Rank(p), CallPacket(p))
  /\ received' = [received EXCEPT ![p] = Append(@, CallPacket(p))]
  /\ UpstreamAt(p, "idle")
  /\ UNCHANGED <<connected, controlVars, pinVars, flushing, upstream,
                 workerVars, mpc, sessionVars, fault>>

(***************************************************************************)
(* The stream is gone: Write deletes the packet and returns -1, and        *)
(* ReceivePacket (or EndOfStream) deletes it once more.                    *)
(***************************************************************************)
PinWriteUnlinked(p) ==
  /\ upc[p] = "packet"
  /\ wpc[Rank(p)] = "filling"
  /\ Rank(p) \notin Live
  /\ wpc' = [wpc EXCEPT ![Rank(p)] = "idle"]
  /\ fault' = fault \cup {"packetDeletedTwice"}
  /\ UpstreamAt(p, "idle")
  /\ UNCHANGED <<streamVars, queue, canWrite, canRead, evAbort, overlooked,
                 readerVars, historyVars, connected, controlVars, pinVars, flushing,
                 upstream, workerVars, mpc, sessionVars, received>>

(* The steps of a call in progress.                                        *)
UpstreamStep(p) ==
  \/ PollFlushing(p) \/ PollWait(p)
  \/ PinGetPacket(p) \/ PinGetPacketUnlinked(p) \/ PinGotPacket(p)
  \/ PinWrite(p) \/ PinWriteUnlinked(p)

-----------------------------------------------------------------------------
(* The rest of the graph.                                                  *)

(* Upstream filters start after this one has paused ...                    *)
UpstreamStart ==
  /\ ~upstream
  /\ ctl = "idle"
  /\ mState # "Stopped"
  /\ upstream' = TRUE
  /\ UNCHANGED <<vars, connected, controlVars, pinVars, flushing, upstreamVars,
                 workerVars, mpc, sessionVars, received, fault>>

(* ... and stop when their threads have come back from every call.         *)
UpstreamStop ==
  /\ upstream
  /\ \A p \in Pins : upc[p] = "idle"
  /\ upstream' = FALSE
  /\ UNCHANGED <<vars, connected, controlVars, pinVars, flushing, upstreamVars,
                 workerVars, mpc, sessionVars, received, fault>>

(* BeginFlush and EndFlush take lock_filter and only change m_bFlushing.   *)
BeginFlush(p) ==
  /\ ctl = "idle"
  /\ upstream
  /\ connected[p]
  /\ ~flushing[p]
  /\ flushing' = [flushing EXCEPT ![p] = TRUE]
  /\ UNCHANGED <<vars, connected, controlVars, pinVars, upstream, upstreamVars,
                 workerVars, mpc, sessionVars, received, fault>>

EndFlush(p) ==
  /\ ctl = "idle"
  /\ flushing[p]
  /\ flushing' = [flushing EXCEPT ![p] = FALSE]
  /\ UNCHANGED <<vars, connected, controlVars, pinVars, upstream, upstreamVars,
                 workerVars, mpc, sessionVars, received, fault>>

GraphStep ==
  \/ UpstreamStart
  \/ UpstreamStop
  \/ \E p \in Pins : BeginFlush(p) \/ EndFlush(p)
  \/ \E p \in Pins, t \in Times : ReceiveCall(p, t, FALSE)
  \/ \E p \in Pins : ReceiveCall(p, 0, TRUE)

MuxNext ==
  \/ PauseOrRun
  \/ StopCall
  \/ ControlStep
  \/ MuxThread
  \/ \E p \in Pins : UpstreamStep(p)
  \/ GraphStep

MuxSpec == MuxInit /\ [][MuxNext]_allVars

(***************************************************************************)
(* Every thread that can run eventually does.  Nothing obliges the         *)
(* application to call Pause, Run or Stop, nor upstream to send anything.  *)
(***************************************************************************)
MuxFairness ==
  /\ WF_allVars(ControlStep)
  /\ WF_allVars(MuxThread)
  /\ \A p \in Pins : WF_allVars(UpstreamStep(p))

-----------------------------------------------------------------------------

(***************************************************************************)
(* When Stop has returned nothing of the session is left: no muxing        *)
(* thread, no stream, no pin linked to one, no request or reply pending -  *)
(* whatever the muxing and the upstream threads were doing.                *)
(***************************************************************************)
StopQuiesces ==
  (ctl = "idle" /\ mState = "Stopped") =>
    /\ mpc = "none" /\ rpc = "idle"
    /\ nStreams = 0
    /\ \A p \in Pins : pinStream[p] = NoStream
    /\ ~inSession /\ ~evSend /\ ~evComplete

(***************************************************************************)
(* The muxing thread runs only inside a session: whatever it reads is      *)
(* taken from streams that exist, and OnMuxPacket never comes after        *)
(* OnStopStreaming has closed the file.                                    *)
(***************************************************************************)
MuxesInSession ==
  mpc \in {"loop", "reading", "muxing", "ending"} => inSession /\ nStreams > 0

(***************************************************************************)
(* CallWorker returns with the reply to its own request: a reply left over *)
(* from RUN never lets Stop go on to close the file while the thread is    *)
(* still muxing.                                                           *)
(***************************************************************************)
ReplyMatchesRequest ==
  evComplete =>
    \/ ctl = "waitRun" /\ request = "RUN" /\ mpc # "exited"
    \/ ctl = "waitExit" /\ request = "EXIT" /\ mpc = "exited"

(***************************************************************************)
(* Each pin's packets reach OnMuxPacket under that pin, in the order in    *)
(* which the pin accepted them, none twice and none skipped - through two  *)
(* mappings, pin to stream and stream back to pin, rebuilt each session.   *)
(***************************************************************************)
PinsKeepTheirPackets ==
  \A p \in Pins :
    /\ Len(muxed[p]) <= Len(received[p])
    /\ \A i \in 1 .. Len(muxed[p]) : muxed[p][i] = received[p][i]

(***************************************************************************)
(* The end of the stream goes downstream at most once in a session, and no *)
(* packet follows it.                                                      *)
(***************************************************************************)
NothingAfterEos ==
  [][(eosSent > 0 /\ inSession) =>
       (eosSent' = eosSent /\ muxed' = muxed)]_allVars

(***************************************************************************)
(* Pause and Stop return: neither waits for ever for the muxing thread,    *)
(* which may be asleep in Read or waiting for its next request.            *)
(***************************************************************************)
ControlReturns == (ctl # "idle") ~> (ctl = "idle")

(***************************************************************************)
(* Stop frees the upstream threads: a call blocked on a full queue, or on  *)
(* its way into GetPacket, comes back while the abort is on.               *)
(***************************************************************************)
AbortFreesUpstream ==
  \A p \in Pins : (upc[p] # "idle" /\ abort) ~> (upc[p] = "idle" \/ ~abort)

(***************************************************************************)
(* "It is important that any filter should override this method and        *)
(* implement synchronization so that samples are not processed when the    *)
(* pin is disconnected etc" (CBaseInputPin::Receive): a call never uses a  *)
(* stream that Stop has deleted.                                           *)
(***************************************************************************)
NoDeletedStream == "deletedStreamUsed" \notin fault
=============================================================================
