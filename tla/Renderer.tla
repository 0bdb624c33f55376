---------------------------- MODULE Renderer ----------------------------
(***************************************************************************)
(* CBaseRenderer and CRendererInputPin (renbase.cpp): a filter with one     *)
(* input pin that draws each sample when the clock says it is due.          *)
(*                                                                         *)
(* Four actors share it: the application, whose calls hold m_InterfaceLock  *)
(* (and BeginFlush m_RendererLock too, while it waits); the one streaming   *)
(* thread, which sleeps inside Receive with no lock held; the clock, which  *)
(* sets m_RenderEvent for each outstanding advise; and the end-of-stream    *)
(* timer.  A section under a lock is one step, a wait is a program counter. *)
(*                                                                         *)
(* The members of the object are the fields of the record r; the functions  *)
(* of the class that return nothing are operators from a record to a        *)
(* record, those with an outcome the data decide return a set.              *)
(***************************************************************************)
EXTENDS Integers, FiniteSets

CONSTANT Cookies        \* the advise cookies of the clock; 0 is "no advise"

ASSUME CookiesAreNumbers == Cookies \subseteq Nat \ {0} /\ Cookies # {}

VARIABLES
  r,          \* the members of CBaseRenderer and of its pin
  clock,      \* the clock's outstanding one-shot advises, by cookie
  stream,     \* where the streaming thread is in Receive
  hand,       \* its argument pSample: "none", "fresh", or "stale" once flushed
  app         \* the call the application is waiting in, "idle" if none

rvars == <<r, clock, stream, hand, app>>
Samples == {"none", "fresh", "stale"}

RendererInit ==
  /\ \E hasClock \in BOOLEAN :
       r = [state |-> "Stopped", connected |-> FALSE, hasClock |-> hasClock,
            streaming |-> FALSE, ready |-> TRUE, release |-> FALSE,
            renderEvent |-> FALSE, inReceive |-> FALSE, held |-> "none",
            eos |-> FALSE, eosDelivered |-> FALSE, eosTimer |-> FALSE,
            abort |-> FALSE, flushing |-> FALSE, runError |-> FALSE,
            advise |-> 0, completes |-> 0, staleDrawn |-> FALSE]
  /\ clock = {} /\ stream = "idle" /\ hand = "none" /\ app = "idle"

-----------------------------------------------------------------------------
(* The helpers of the class.                                               *)

Ready(x)     == [x EXCEPT !.ready = TRUE]
NotReady(x)  == [x EXCEPT !.ready = FALSE]
\* Faulty variant, to show that the run can fail.
ClearPendingSampleKeeps(x) == x

SourceThreadCanWait(x, can) == [x EXCEPT !.release = ~can]
ClearPendingSample(x)       == [x EXCEPT !.held = "none"]
StopStreaming(x) == [x EXCEPT !.eosDelivered = FALSE, !.streaming = FALSE]
ResetEndOfStreamTimer(x)    == [x EXCEPT !.eosTimer = FALSE]
ResetEndOfStream(x) ==
  [ResetEndOfStreamTimer(x) EXCEPT !.eos = FALSE, !.eosDelivered = FALSE,
                                   !.completes = 0]

\* Unadvise the link that m_dwAdvise remembers, and clear the event.
CancelNotification(x) == [x EXCEPT !.advise = 0, !.renderEvent = FALSE]
Unadvised(x) == clock \ {x.advise}

CompleteStateChange(x, old) ==
  IF \/ ~x.connected
     \/ x.eos
     \/ x.held # "none" /\ old # "Stopped"
  THEN Ready(x) ELSE NotReady(x)

NotifyEndOfStream(x) ==
  IF x.streaming
  THEN [x EXCEPT !.eosTimer = FALSE, !.eosDelivered = TRUE,
                 !.completes = IF @ < 2 THEN @ + 1 ELSE @]
  ELSE x

\* Faulty variant.
SendEndOfStreamAgain(x) ==           \* m_bEOSDelivered is not looked at
  IF ~x.eos \/ x.eosTimer THEN {x}
  ELSE {NotifyEndOfStream(x)}
       \cup (IF x.hasClock THEN {[x EXCEPT !.eosTimer = TRUE]} ELSE {})

\* EC_COMPLETE now, or a timer for the end time of the last sample: the time
\* left decides, and no clock, no delay and no timer all mean now.
SendEndOfStream(x) ==
  IF ~x.eos \/ x.eosDelivered \/ x.eosTimer THEN {x}
  ELSE {NotifyEndOfStream(x)}
       \cup (IF x.hasClock THEN {[x EXCEPT !.eosTimer = TRUE]} ELSE {})

\* What ScheduleSample makes of a sample, as <<record, advises, drawn?>>: set
\* the event at once (no times, no clock, or the quality control says now),
\* ask the clock, or refuse (bad times, dropped, or AdviseTime failed).
ScheduleSample(x, c) ==
  LET now   == <<[x EXCEPT !.renderEvent = TRUE], c, TRUE>>
      later == {<<[x EXCEPT !.advise = k], c \cup {k}, TRUE>> : k \in Cookies \ c}
  IN  {now, <<x, c, FALSE>>} \cup (IF x.hasClock THEN later ELSE {})

\* Faulty variant.
StartStreamingWaits(x, c) ==         \* no event for a sample it cannot schedule
  LET s == [x EXCEPT !.streaming = TRUE, !.completes = 0] IN
  IF x.streaming THEN {<<x, c>>}
  ELSE IF x.held = "none" THEN {<<y, c>> : y \in SendEndOfStream(s)}
       ELSE {<<t[1], t[2]>> : t \in ScheduleSample(s, c)}

\* Schedules the held sample, or sends the end of stream there is no sample
\* left before.  completes counts the EC_COMPLETEs of one run of one stream: it
\* starts again here and with the flags of the end of stream.
StartStreaming(x, c) ==
  LET s == [x EXCEPT !.streaming = TRUE, !.completes = 0] IN
  IF x.streaming THEN {<<x, c>>}
  ELSE IF x.held = "none"
       THEN {<<y, c>> : y \in SendEndOfStream(s)}
       ELSE {<<IF t[3] THEN t[1] ELSE [t[1] EXCEPT !.renderEvent = TRUE], t[2]>>
               : t \in ScheduleSample(s, c)}

CheckStreaming(x) == x.state # "Stopped" /\ ~x.flushing /\ ~x.runError

\* What a flush or a stop makes of the sample the streaming thread carries.
Outdated(h) == IF h = "none" THEN h ELSE "stale"

-----------------------------------------------------------------------------
(* The calls of the application.  Each takes m_InterfaceLock, which the     *)
(* application keeps while it waits for Receive.                            *)

InterfaceLockFree == app = "idle"
RendererLockFree  == app # "flushing"

\* A call that leaves the streaming thread and its argument alone.
Call(x, c) == r' = x /\ clock' = c /\ UNCHANGED <<stream, hand, app>>

Stop ==
  /\ InterfaceLockFree /\ r.state # "Stopped"
  /\ LET x == [r EXCEPT !.state = "Stopped"]
         y == CancelNotification(ResetEndOfStream(
                SourceThreadCanWait(StopStreaming(
                  [ClearPendingSample(x) EXCEPT !.runError = FALSE]), FALSE)))
     IN  IF r.connected
         THEN /\ r' = Ready(y) /\ clock' = Unadvised(r)
              /\ app' = "stopping" /\ hand' = Outdated(hand) /\ UNCHANGED stream
         ELSE Call(x, clock)

\* WaitForReceiveToComplete is over.
Stopped ==
  /\ app = "stopping" /\ ~r.inReceive
  /\ r' = [r EXCEPT !.abort = FALSE] /\ app' = "idle"
  /\ UNCHANGED <<clock, stream, hand>>

\* CBaseRenderer::Pause from the given state, on a connected pin.
Paused(x) ==
  LET y == ResetEndOfStreamTimer(CancelNotification(
             SourceThreadCanWait(StopStreaming([x EXCEPT !.state = "Paused"]), TRUE)))
      z == IF x.state = "Stopped" THEN ClearPendingSample([y EXCEPT !.abort = FALSE]) ELSE y
  IN  CompleteStateChange(z, x.state)

\* Whoever starts the graph has stopped the source first: no thread of the
\* old session is left in Receive, and no flush is under way.
SourceAtRest == ~r.flushing /\ (r.state = "Stopped" => stream = "idle")

Pause ==
  /\ InterfaceLockFree /\ SourceAtRest
  /\ IF r.state = "Paused" \/ ~r.connected
     THEN Call(CompleteStateChange([r EXCEPT !.state = "Paused"], "Paused"), clock)
     ELSE Call(Paused(r), Unadvised(r))

\* CBaseFilter::Run starts with the virtual Pause when the filter is stopped,
\* after CBaseRenderer::Run has said Ready.
RunFrom(x) ==
  LET p == IF x.state = "Stopped" THEN Paused(Ready(x)) ELSE Ready(x)
      y == SourceThreadCanWait([p EXCEPT !.state = "Running"], TRUE)
  IN  IF x.state = "Stopped" THEN ClearPendingSample([y EXCEPT !.abort = FALSE]) ELSE y

Run ==
  /\ InterfaceLockFree /\ SourceAtRest /\ r.state # "Running"
  /\ IF r.connected
     THEN \E s \in StartStreaming(RunFrom(r), clock) : Call(s[1], s[2])
     ELSE Call([r EXCEPT !.state = "Running"], clock)

\* A pin may only connect in a running filter when it says so (see
\* CBasePin::Connect), which this one does not.
CompleteConnect ==
  /\ InterfaceLockFree /\ ~r.connected /\ r.state = "Stopped"
  /\ Call([r EXCEPT !.connected = TRUE, !.abort = FALSE], clock)

BreakConnect ==
  /\ InterfaceLockFree /\ r.connected /\ r.state = "Stopped" /\ stream = "idle"
  /\ Call([ClearPendingSample(ResetEndOfStream(r))
             EXCEPT !.connected = FALSE, !.abort = FALSE], clock)

\* Both locks are kept until the streaming thread has left Receive.
BeginFlush ==
  /\ InterfaceLockFree /\ r.connected /\ ~r.flushing
  /\ LET x == IF r.state = "Paused" THEN NotReady(r) ELSE r IN
     r' = ClearPendingSample(CancelNotification(
            SourceThreadCanWait([x EXCEPT !.flushing = TRUE], FALSE)))
  /\ clock' = Unadvised(r) /\ app' = "flushing" /\ hand' = Outdated(hand)
  /\ UNCHANGED stream

FlushBegun ==
  /\ app = "flushing" /\ ~r.inReceive
  /\ r' = ResetEndOfStream(r) /\ app' = "idle"
  /\ UNCHANGED <<clock, stream, hand>>

\* A source ends the flush once its own thread has come back.
EndFlush ==
  /\ InterfaceLockFree /\ r.flushing /\ stream = "idle"
  /\ Call([SourceThreadCanWait(r, TRUE) EXCEPT !.flushing = FALSE,
                                               !.runError = FALSE], clock)

\* IPin::EndOfStream; a sample that is still held is rendered first.
EndOfStream ==
  /\ InterfaceLockFree /\ r.connected /\ CheckStreaming(r)
  /\ LET x == [r EXCEPT !.eos = TRUE] IN
     IF r.held # "none" THEN Call(x, clock)
     ELSE \E y \in IF r.streaming THEN SendEndOfStream(Ready(x)) ELSE {Ready(x)} :
            Call(y, clock)

\* The window thread saw the display mode change; it takes m_RendererLock only.
OnDisplayChange ==
  /\ RendererLockFree /\ r.connected
  /\ Call(ClearPendingSample([r EXCEPT !.abort = TRUE]), clock)

-----------------------------------------------------------------------------
(* The streaming thread in CRendererInputPin::Receive.                      *)

Thread(pc) == stream' = pc /\ UNCHANGED app

\* PrepareReceive: both locks.  m_bInReceive goes up, and down again on every
\* path that does not keep the sample.
PrepareReceive ==
  /\ InterfaceLockFree /\ r.connected /\ stream = "idle"
  /\ \/ /\ ~CheckStreaming(r)
        /\ r' = r /\ clock' = clock /\ Thread("failed")
     \/ /\ CheckStreaming(r)                       \* the type is refused
        /\ \E typeError \in BOOLEAN : r' = [r EXCEPT !.runError = typeError]
        /\ clock' = clock /\ Thread("failed")
     \/ /\ CheckStreaming(r)
        /\ r.held # "none" \/ r.eos \/ r.abort
        /\ r' = Ready(r) /\ clock' = clock /\ Thread("failed")
     \/ /\ CheckStreaming(r) /\ r.held = "none" /\ ~r.eos /\ ~r.abort
        /\ \E t \in IF r.streaming THEN ScheduleSample(r, clock)
                                   ELSE {<<r, clock, TRUE>>} :
             /\ r' = IF t[3] THEN [t[1] EXCEPT !.held = "fresh", !.inReceive = TRUE]
                             ELSE t[1]
             /\ clock' = t[2]
             /\ Thread(IF t[3] THEN "prepared" ELSE "idle")
  /\ hand' = IF stream' = "prepared" THEN "fresh" ELSE "none"

\* m_State is read with no lock held; a paused filter lets the lock go for
\* PrepareRender and takes it again.
Prepared ==
  /\ stream = "prepared"
  /\ r' = [r EXCEPT !.inReceive = (r.state # "Paused")]
  /\ Thread(IF r.state = "Paused" THEN "first" ELSE "wait")
  /\ UNCHANGED <<clock, hand>>

FirstSample ==
  /\ stream = "first" /\ InterfaceLockFree
  /\ IF r.state = "Stopped"
     THEN Thread("idle") /\ hand' = "none" /\ UNCHANGED <<r, clock>>
     ELSE /\ r' = [r EXCEPT !.inReceive = TRUE]    \* OnReceiveFirstSample(pSample)
          /\ Thread("completing") /\ UNCHANGED <<clock, hand>>

StateComplete ==
  /\ stream = "completing"
  /\ r' = Ready(r) /\ Thread("wait") /\ UNCHANGED <<clock, hand>>

\* WaitForRenderTime is woken by m_ThreadSignal, which wins when both are set,
Released ==
  /\ stream = "wait" /\ r.release
  /\ r' = [r EXCEPT !.inReceive = FALSE] /\ hand' = "none"
  /\ Thread("idle") /\ UNCHANGED clock

\* ... or by m_RenderEvent, which the wake-up resets.
TimeArrives ==
  /\ stream = "wait" /\ ~r.release /\ r.renderEvent
  /\ r' = [r EXCEPT !.renderEvent = FALSE]
  /\ Thread("woken") /\ UNCHANGED <<clock, hand>>

\* m_dwAdvise = 0, with no lock held; then m_bInReceive goes down.
SignalTimerFired ==
  /\ stream = "woken"
  /\ r' = [r EXCEPT !.advise = 0, !.inReceive = FALSE]
  /\ Thread("due") /\ UNCHANGED <<clock, hand>>

Render(x) ==
  IF x.held = "none" \/ ~x.streaming THEN x
  ELSE [x EXCEPT !.staleDrawn = @ \/ hand = "stale"]

Due ==
  /\ stream = "due" /\ InterfaceLockFree
  /\ IF r.state = "Stopped" THEN UNCHANGED <<r, clock>>
     ELSE \E y \in SendEndOfStream(ClearPendingSample(Render(r))) :
            r' = CancelNotification(y) /\ clock' = Unadvised(y)
  /\ hand' = "none" /\ Thread("idle")

\* A Receive that failed raises EC_ERRORABORT and ends the stream, unless
\* errors are expected.
ReportError ==
  /\ stream = "failed" /\ InterfaceLockFree
  /\ LET report == r.state # "Stopped" /\ ~r.flushing /\ ~r.abort /\ ~r.runError
         ended  == IF r.streaming /\ ~r.eosDelivered THEN NotifyEndOfStream(r) ELSE r
     IN  r' = IF report THEN [ended EXCEPT !.runError = TRUE] ELSE r
  /\ Thread("idle") /\ UNCHANGED <<clock, hand>>

-----------------------------------------------------------------------------
(* The clock and the timer.                                                *)

AdviseFires ==
  \E k \in clock : /\ clock' = clock \ {k}
                   /\ r' = [r EXCEPT !.renderEvent = TRUE]
                   /\ UNCHANGED <<stream, hand, app>>

TimerCallback ==
  /\ RendererLockFree /\ r.eosTimer
  /\ \E y \in SendEndOfStream([r EXCEPT !.eosTimer = FALSE]) : Call(y, clock)

StreamingThread ==
  \/ PrepareReceive \/ Prepared \/ FirstSample \/ StateComplete \/ Released
  \/ TimeArrives \/ SignalTimerFired \/ Due \/ ReportError

Application ==
  \/ Stop \/ Stopped \/ Pause \/ Run \/ CompleteConnect \/ BreakConnect
  \/ BeginFlush \/ FlushBegun \/ EndFlush \/ EndOfStream \/ OnDisplayChange

RendererNext == Application \/ StreamingThread \/ AdviseFires \/ TimerCallback

RendererSpec == RendererInit /\ [][RendererNext]_rvars

-----------------------------------------------------------------------------

\* A call that waits for Receive with a lock held never waits for ever: the
\* thread it waits for can always go on without that lock.
CallsReturn ==
  app # "idle" /\ r.inReceive =>
    \/ stream \in {"prepared", "completing", "woken"}
    \/ stream = "wait" /\ (r.release \/ r.renderEvent)

\* A thread asleep in Receive of a running renderer has a wake-up to come: the
\* event, an advise of the clock, or the signal of a stop or a flush; only a
\* display change, which aborts the stream, leaves it to the next stop.
ReceiverNotStranded ==
  stream = "wait" /\ app = "idle" /\ r.streaming =>
    r.release \/ r.renderEvent \/ clock # {} \/ r.abort

\* Nobody sleeps for ever in the renderer (Stop, BeginFlush and their
\* WaitForReceiveToComplete against the waits and the locks of Receive).
SleepersAreWoken == CallsReturn /\ ReceiverNotStranded

\* EC_COMPLETE goes out once in a run of the stream, while the renderer runs,
\* and not before every sample ahead of the end of the stream has been drawn or
\* dropped, or an error ended it; however end of stream, the timer, an error, a
\* pause and a flush interleave.
CompleteOnceAtTheEnd ==
  [][r'.completes > r.completes =>
       /\ r'.completes = 1 /\ r'.streaming
       /\ stream = "failed" \/ (r'.eos /\ r'.held = "none")]_rvars

\* A sample is only held inside the Receive that brought it, and what is drawn
\* was not received before a flush or a stop.
DrawsFreshSamples ==
  /\ ~r.staleDrawn
  /\ r.held # "none" => stream \notin {"idle", "failed"} /\ hand = "fresh"
=============================================================================
