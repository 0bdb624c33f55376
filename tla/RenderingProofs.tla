--------------------------- MODULE RenderingProofs ---------------------------
(***************************************************************************)
(* Theorems about what waits for a time and what keeps it: a renderer and  *)
(* its streaming thread, for every set of advise cookies; the pending      *)
(* commands of stream control, for every set of stream times; the time     *)
(* limit of the muxer's reader, for every limit and modulus; the frames    *)
(* and statistics of the video renderer, for every frame rate; seeks and   *)
(* positions, for any number of threads; the advises of the reference      *)
(* clock, for any times, periods and corrections.                          *)
(***************************************************************************)
EXTENDS Renderer, StreamControl, VideoRenderer, TimeKeeping, SequenceTheorems, WellFoundedInduction, TLAPS

-----------------------------------------------------------------------------
(* The renderer.  What the streaming thread is doing and what the members  *)
(* of the object say belong together in four ways.                         *)

Members ==
  [state : {"Stopped", "Paused", "Running"}, connected : BOOLEAN,
   hasClock : BOOLEAN, streaming : BOOLEAN, ready : BOOLEAN,
   release : BOOLEAN, renderEvent : BOOLEAN, inReceive : BOOLEAN,
   held : {"none", "fresh"}, eos : BOOLEAN, eosDelivered : BOOLEAN,
   eosTimer : BOOLEAN, abort : BOOLEAN, flushing : BOOLEAN,
   runError : BOOLEAN, advise : Cookies \cup {0}, completes : 0 .. 2,
   staleDrawn : BOOLEAN]

RendererTypes ==
  /\ r \in Members
  /\ clock \subseteq Cookies
  /\ stream \in {"idle", "failed", "prepared", "first", "completing", "wait",
                 "woken", "due"}
  /\ hand \in Samples
  /\ app \in {"idle", "stopping", "flushing"}

\* Where the thread goes to its wait with a sample, and where m_bInReceive is up.
BeforeWait == {"prepared", "first", "completing", "wait"}
InReceive  == {"prepared", "completing", "wait", "woken"}

\* A sample is held by the Receive that brought it, and lost to it only through
\* a display change, a stop or a flush.
HeldInReceive ==
  /\ r.held # "none" => /\ stream \notin {"idle", "failed"} /\ hand = "fresh"
                        /\ r.state # "Stopped" /\ ~r.flushing
  /\ stream \in BeforeWait /\ r.held = "none" =>
       r.abort \/ r.state = "Stopped" \/ r.flushing
  /\ ~r.staleDrawn

\* The thread is on a connected pin, and a streaming renderer runs on one.
InUse ==
  /\ stream # "idle" => r.connected
  /\ r.inReceive <=> stream \in InReceive
  /\ r.streaming => r.state = "Running" /\ r.connected

\* A call that waits has released the thread it waits for; otherwise a thread on
\* its way to the wait of a streaming renderer has its wake-up before it.
WakeUps ==
  /\ r.release => r.state = "Stopped" \/ r.flushing \/ ~r.connected
  /\ app # "idle" => r.release
  /\ stream \in BeforeWait /\ r.streaming =>
       r.release \/ r.renderEvent \/ clock # {} \/ r.abort

\* EC_COMPLETE has been sent only if eosDelivered says so, and the timer runs only
\* when no sample is left.
EndOnce ==
  /\ r.streaming /\ r.completes > 0 => r.eosDelivered
  /\ r.eosTimer => r.eos /\ r.held = "none"

RendererInv == RendererTypes /\ HeldInReceive /\ InUse /\ WakeUps /\ EndOnce

LEMMA RendererStart == RendererInit => RendererInv
  BY DEF RendererInit, RendererInv, RendererTypes, Members, HeldInReceive,
    InUse, WakeUps, EndOnce, BeforeWait, InReceive, Samples

\* The members the invariant speaks of; y is x but for those in F.
Fields == {"state", "connected", "streaming", "release", "renderEvent",
           "inReceive", "held", "eos", "eosDelivered", "eosTimer", "abort",
           "flushing", "completes", "staleDrawn"}
Kept(x, y, F) == \A f \in Fields \ F : y[f] = x[f]

\* The helpers of the class take members to members.
LEMMA HelperTypes ==
  ASSUME NEW x \in Members
  PROVE  /\ Ready(x) \in Members /\ NotReady(x) \in Members
         /\ \A can \in BOOLEAN : SourceThreadCanWait(x, can) \in Members
         /\ ClearPendingSample(x) \in Members
         /\ StopStreaming(x) \in Members
         /\ ResetEndOfStreamTimer(x) \in Members
         /\ ResetEndOfStream(x) \in Members
         /\ CancelNotification(x) \in Members
         /\ NotifyEndOfStream(x) \in Members
<1>1. Ready(x) \in Members /\ NotReady(x) \in Members
  BY DEF Ready, NotReady, Members
<1>2. \A can \in BOOLEAN : SourceThreadCanWait(x, can) \in Members
  BY DEF SourceThreadCanWait, Members
<1>3. ClearPendingSample(x) \in Members /\ StopStreaming(x) \in Members
  BY DEF ClearPendingSample, StopStreaming, Members
<1>4. CancelNotification(x) \in Members
  BY DEF CancelNotification, Members
<1>5. ASSUME NEW z \in Members PROVE [z EXCEPT !.eosTimer = FALSE] \in Members
  BY DEF Members
<1>6. ResetEndOfStreamTimer(x) \in Members
  BY <1>5 DEF ResetEndOfStreamTimer
<1>7. ResetEndOfStream(x) \in Members
  <2>1. ASSUME NEW z \in Members
        PROVE  [z EXCEPT !.eos = FALSE, !.eosDelivered = FALSE] \in Members
    BY DEF Members
  <2>2. ASSUME NEW z \in Members PROVE [z EXCEPT !.completes = 0] \in Members
    BY DEF Members
  <2>3. ResetEndOfStream(x) =
          [[ResetEndOfStreamTimer(x) EXCEPT !.eos = FALSE, !.eosDelivered = FALSE]
             EXCEPT !.completes = 0]
    BY DEF ResetEndOfStream
  <2> QED BY <1>6, <2>1, <2>2, <2>3
<1>8. NotifyEndOfStream(x) \in Members
  <2>1. ASSUME NEW z \in Members
        PROVE  [z EXCEPT !.eosTimer = FALSE, !.eosDelivered = TRUE] \in Members
    BY DEF Members
  <2>2. ASSUME NEW z \in Members, NEW n \in 0 .. 2
        PROVE  [z EXCEPT !.completes = n] \in Members
    BY DEF Members
  <2>3. x.completes \in 0 .. 2 /\ (IF x.completes < 2 THEN x.completes + 1 ELSE x.completes) \in 0 .. 2
    BY DEF Members
  <2>4. NotifyEndOfStream(x) = IF x.streaming THEN
          [[x EXCEPT !.eosTimer = FALSE, !.eosDelivered = TRUE]
             EXCEPT !.completes = IF x.completes < 2 THEN x.completes + 1 ELSE x.completes]
          ELSE x
    BY DEF NotifyEndOfStream, Members
  <2>5. [x EXCEPT !.eosTimer = FALSE, !.eosDelivered = TRUE] \in Members
    BY <2>1
  <2> QED BY <2>2, <2>3, <2>4, <2>5
<1> QED BY <1>1, <1>2, <1>3, <1>4, <1>6, <1>7, <1>8

LEMMA ChangeCompletes ==
  ASSUME NEW x \in Members, NEW old
  PROVE  /\ CompleteStateChange(x, old) \in Members
         /\ Kept(x, CompleteStateChange(x, old), {})
<1>1. CompleteStateChange(x, old) \in {Ready(x), NotReady(x)}
  BY DEF CompleteStateChange
<1>2. Kept(x, Ready(x), {}) /\ Kept(x, NotReady(x), {})
  BY DEF Ready, NotReady, Members, Kept, Fields
<1> QED BY <1>1, <1>2, HelperTypes

\* EC_COMPLETE is sent when it has not been, or the timer is started for it.
LEMMA EndSent ==
  ASSUME NEW x \in Members, NEW y \in SendEndOfStream(x)
  PROVE  /\ y \in Members
         /\ Kept(x, y, {"eosDelivered", "eosTimer", "completes"})
         /\ y.eosTimer => x.eos \/ x.eosTimer
         /\ x.eosDelivered => y.eosDelivered
         /\ y.completes # x.completes =>
              /\ x.eos /\ ~x.eosDelivered /\ x.streaming
              /\ y.eosDelivered
              /\ y.completes = x.completes + 1
<1>1. CASE y = x
  BY <1>1 DEF Kept
<1>2. CASE x.eos /\ ~x.eosDelivered /\ y = NotifyEndOfStream(x)
  <2>1. y \in Members
    BY <1>2, HelperTypes
  <2>2. CASE x.streaming
    BY <1>2, <2>1, <2>2 DEF NotifyEndOfStream, Members, Kept, Fields
  <2>3. CASE ~x.streaming
    BY <1>1, <1>2, <2>3 DEF NotifyEndOfStream
  <2> QED BY <2>2, <2>3
<1>3. CASE x.eos /\ y = [x EXCEPT !.eosTimer = TRUE]
  BY <1>3 DEF Members, Kept, Fields
<1> QED BY <1>1, <1>2, <1>3 DEF SendEndOfStream

\* A sample that is taken has its event or its advise.
LEMMA SampleScheduled ==
  ASSUME NEW x \in Members, NEW c \in SUBSET Cookies, NEW t \in ScheduleSample(x, c)
  PROVE  /\ t[1] \in Members /\ t[2] \subseteq Cookies
         /\ Kept(x, t[1], {"renderEvent"})
         /\ t[3] => t[1].renderEvent \/ t[2] # {}
         /\ ~t[3] => t[1] = x /\ t[2] = c
<1>1. CASE t = <<[x EXCEPT !.renderEvent = TRUE], c, TRUE>>
  BY <1>1 DEF Members, Kept, Fields
<1>2. CASE t = <<x, c, FALSE>>
  BY <1>2 DEF Kept
<1>3. ASSUME NEW k \in Cookies, t = <<[x EXCEPT !.advise = k], c \cup {k}, TRUE>>
      PROVE  /\ t[1] \in Members /\ t[2] \subseteq Cookies
             /\ Kept(x, t[1], {"renderEvent"})
             /\ t[3] /\ t[2] # {}
  BY <1>3 DEF Members, Kept, Fields
<1> QED BY <1>1, <1>2, <1>3 DEF ScheduleSample

\* The start of streaming gives a held sample its event or its advise.
LEMMA StreamingStarted ==
  ASSUME NEW x \in Members, NEW c \in SUBSET Cookies, NEW s \in StartStreaming(x, c),
         ~x.streaming
  PROVE  /\ s[1] \in Members /\ s[2] \subseteq Cookies
         /\ Kept(x, s[1], {"streaming", "completes", "renderEvent", "eosDelivered", "eosTimer"})
         /\ s[1].streaming
         /\ x.held # "none" => /\ s[1].renderEvent \/ s[2] # {}
                               /\ s[1].completes = 0
                               /\ Kept(x, s[1], {"streaming", "completes", "renderEvent"})
         /\ s[1].eosTimer => x.eos \/ x.eosTimer
         /\ s[1].completes # 0 => /\ x.eos /\ x.held = "none" /\ s[1].eosDelivered
                                  /\ s[1].completes = 1
<1> DEFINE y == [x EXCEPT !.streaming = TRUE, !.completes = 0]
<1>1. y \in Members
  <2>1. ASSUME NEW z \in Members PROVE [z EXCEPT !.streaming = TRUE] \in Members
    BY DEF Members
  <2>2. ASSUME NEW z \in Members PROVE [z EXCEPT !.completes = 0] \in Members
    BY DEF Members
  <2>3. y = [[x EXCEPT !.streaming = TRUE] EXCEPT !.completes = 0]
    OBVIOUS
  <2> QED BY <2>1, <2>2, <2>3
<1>2. Kept(x, y, {"streaming", "completes"}) /\ y.streaming /\ y.completes = 0
  BY DEF Members, Kept, Fields
<1>3. x.held = y.held /\ x.eos = y.eos /\ x.eosTimer = y.eosTimer
  BY <1>2 DEF Kept, Fields
<1>4. CASE x.held = "none"
  <2>1. s[1] \in SendEndOfStream(y) /\ s[2] = c
    BY <1>4 DEF StartStreaming
  <2> HIDE DEF y
  <2> QED BY <1>1, <1>2, <1>3, <1>4, <2>1, EndSent DEF Kept, Fields
<1>5. CASE x.held # "none"
  <2>1. PICK t \in ScheduleSample(y, c) :
          s = <<IF t[3] THEN t[1] ELSE [t[1] EXCEPT !.renderEvent = TRUE], t[2]>>
    BY <1>5 DEF StartStreaming
  <2> HIDE DEF y
  <2>2. /\ t[1] \in Members /\ t[2] \subseteq Cookies
        /\ Kept(y, t[1], {"renderEvent"})
        /\ t[3] => t[1].renderEvent \/ t[2] # {}
    BY <1>1, SampleScheduled
  <2>3. /\ [t[1] EXCEPT !.renderEvent = TRUE] \in Members
        /\ [t[1] EXCEPT !.renderEvent = TRUE].renderEvent
        /\ Kept(t[1], [t[1] EXCEPT !.renderEvent = TRUE], {"renderEvent"})
    BY <2>2 DEF Members, Kept, Fields
  <2>4. s[1] \in {t[1], [t[1] EXCEPT !.renderEvent = TRUE]} /\ s[2] = t[2]
        /\ (t[3] \/ s[1] = [t[1] EXCEPT !.renderEvent = TRUE])
    BY <2>1
  <2>5. Kept(y, s[1], {"renderEvent"})
    BY <2>2, <2>3, <2>4 DEF Kept, Fields
  <2>6. s[1].renderEvent \/ s[2] # {}
    BY <2>2, <2>3, <2>4
  <2>7. s[1] \in Members /\ s[2] \subseteq Cookies
    BY <2>2, <2>3, <2>4
  <2>8. Kept(x, s[1], {"streaming", "completes", "renderEvent"}) /\ s[1].streaming /\ s[1].completes = 0
    BY <1>2, <2>5 DEF Kept, Fields
  <2> QED BY <1>5, <2>6, <2>7, <2>8 DEF Kept, Fields
<1> QED BY <1>4, <1>5

-----------------------------------------------------------------------------
(* The calls of the application.                                           *)

LEMMA StopKeeps ==
  ASSUME RendererInv, Stop
  PROVE  RendererInv'
<1> USE DEF RendererInv
<1>0. r \in Members /\ InterfaceLockFree
  BY DEF RendererTypes, Stop
<1>1. CASE r.connected
  <2> DEFINE a == [ClearPendingSample([r EXCEPT !.state = "Stopped"]) EXCEPT !.runError = FALSE]
             b == SourceThreadCanWait(StopStreaming(a), FALSE)
             d == CancelNotification(ResetEndOfStream(b))
  <2>1. a \in Members /\ Kept(r, a, {"state", "held"}) /\ a.state = "Stopped" /\ a.held = "none"
    BY <1>0 DEF Members, ClearPendingSample, Kept, Fields
  <2> HIDE DEF a
  <2>2. b \in Members
    BY <2>1, HelperTypes
  <2>3. /\ Kept(a, b, {"eosDelivered", "streaming", "release"})
        /\ b.release = TRUE /\ ~b.streaming
    BY <2>1 DEF SourceThreadCanWait, StopStreaming, Members, Kept, Fields
  <2> HIDE DEF b
  <2>4. d \in Members
    BY <2>2, HelperTypes
  <2>5. /\ Kept(b, d, {"eos", "eosDelivered", "eosTimer", "completes", "renderEvent"})
        /\ ~d.eos /\ ~d.eosTimer
    BY <2>2 DEF CancelNotification, ResetEndOfStream, ResetEndOfStreamTimer, Members, Kept, Fields
  <2> HIDE DEF d
  <2>6. Ready(d) \in Members /\ Kept(d, Ready(d), {})
    BY <2>4, HelperTypes DEF Ready, Members, Kept, Fields
  <2>7. /\ r' = Ready(d) /\ clock' \subseteq clock /\ app' = "stopping"
        /\ hand' = Outdated(hand) /\ stream' = stream
    BY <1>1 DEF Stop, Unadvised, a, b, d
  <2>8. /\ Kept(r, r', {"state", "held", "eosDelivered", "streaming", "release", "eos", "eosTimer",
                        "completes", "renderEvent"})
        /\ r'.state = "Stopped" /\ r'.held = "none" /\ r'.release = TRUE
        /\ ~r'.streaming /\ ~r'.eosTimer
    BY <2>1, <2>3, <2>5, <2>6, <2>7 DEF Kept, Fields
  <2>9. RendererTypes'
    BY <2>6, <2>7 DEF RendererTypes, Outdated, Samples
  <2> QED
    BY <1>1, <2>7, <2>8, <2>9 DEF HeldInReceive, InUse, WakeUps, EndOnce, BeforeWait, InReceive, Kept, Fields
<1>2. CASE ~r.connected
  <2>1. r' = [r EXCEPT !.state = "Stopped"] /\ UNCHANGED <<clock, stream, hand, app>>
    BY <1>2 DEF Stop, Call
  <2>2. r' \in Members /\ Kept(r, r', {"state"}) /\ r'.state = "Stopped"
    BY <1>0, <2>1 DEF Members, Kept, Fields
  <2>3. RendererTypes'
    BY <2>1, <2>2 DEF RendererTypes
  <2> QED
    BY <1>2, <2>1, <2>2, <2>3 DEF HeldInReceive, InUse, WakeUps, EndOnce, BeforeWait, InReceive, Kept, Fields
<1> QED BY <1>1, <1>2

LEMMA StoppedKeeps ==
  ASSUME RendererInv, Stopped
  PROVE  RendererInv'
<1> USE DEF RendererInv
<1>1. r' \in Members /\ Kept(r, r', {"abort"})
  BY DEF RendererTypes, Members, Stopped, Kept, Fields
<1>2. UNCHANGED <<clock, stream, hand>> /\ app = "stopping" /\ app' = "idle"
  BY DEF Stopped
<1>3. RendererTypes'
  BY <1>1, <1>2 DEF RendererTypes
<1> QED
  BY <1>1, <1>2, <1>3 DEF HeldInReceive, InUse, WakeUps, EndOnce, BeforeWait, InReceive, Kept, Fields

\* CBaseRenderer::Pause leaves a sample alone unless the filter was stopped.
LEMMA PausedMembers ==
  ASSUME NEW x \in Members
  PROVE  /\ Paused(x) \in Members
         /\ Kept(x, Paused(x), {"state", "streaming", "release", "renderEvent", "held", "abort",
                                "eosDelivered", "eosTimer"})
         /\ Paused(x).state = "Paused" /\ ~Paused(x).streaming
         /\ ~Paused(x).release /\ ~Paused(x).eosTimer
         /\ IF x.state = "Stopped" THEN Paused(x).held = "none"
            ELSE Paused(x).held = x.held /\ Paused(x).abort = x.abort
<1> DEFINE a == SourceThreadCanWait(StopStreaming([x EXCEPT !.state = "Paused"]), TRUE)
           y == ResetEndOfStreamTimer(CancelNotification(a))
           z == IF x.state = "Stopped" THEN ClearPendingSample([y EXCEPT !.abort = FALSE]) ELSE y
<1>1. [x EXCEPT !.state = "Paused"] \in Members
  BY DEF Members
<1>2. a \in Members
  BY <1>1, HelperTypes
<1>3. /\ Kept(x, a, {"state", "streaming", "release", "eosDelivered"})
      /\ a.state = "Paused" /\ ~a.streaming /\ ~a.release
  BY DEF SourceThreadCanWait, StopStreaming, Members, Kept, Fields
<1> HIDE DEF a
<1>4. y \in Members
  BY <1>2, HelperTypes
<1>5. Kept(a, y, {"renderEvent", "eosTimer"}) /\ ~y.eosTimer
  BY <1>2 DEF ResetEndOfStreamTimer, CancelNotification, Members, Kept, Fields
<1> HIDE DEF y
<1>6. /\ ClearPendingSample([y EXCEPT !.abort = FALSE]) \in Members
      /\ Kept(y, ClearPendingSample([y EXCEPT !.abort = FALSE]), {"abort", "held"})
      /\ ClearPendingSample([y EXCEPT !.abort = FALSE]).held = "none"
  BY <1>4, ZenonT(40) DEF ClearPendingSample, Members, Kept, Fields
<1>7. /\ z \in Members /\ Kept(y, z, {"abort", "held"})
      /\ IF x.state = "Stopped" THEN z.held = "none" ELSE z = y
  BY <1>4, <1>6 DEF Kept
<1>8. Paused(x) = CompleteStateChange(z, x.state)
  BY DEF Paused, a, y
<1> HIDE DEF z
<1>9. Paused(x) \in Members /\ Kept(z, Paused(x), {})
  BY <1>7, <1>8, ChangeCompletes
<1> QED
  BY <1>3, <1>5, <1>7, <1>9 DEF Kept, Fields

LEMMA PauseKeeps ==
  ASSUME RendererInv, Pause
  PROVE  RendererInv'
<1> USE DEF RendererInv
<1>0. r \in Members /\ SourceAtRest
  BY DEF RendererTypes, Pause
<1>1. CASE r.state = "Paused" \/ ~r.connected
  <2> DEFINE a == [r EXCEPT !.state = "Paused"]
  <2>1. a \in Members /\ Kept(r, a, {"state"}) /\ a.state = "Paused"
    BY <1>0 DEF Members, Kept, Fields
  <2>2. r' = CompleteStateChange(a, "Paused") /\ UNCHANGED <<clock, stream, hand, app>>
    BY <1>1 DEF Pause, Call
  <2> HIDE DEF a
  <2>3. r' \in Members /\ Kept(r, r', {"state"}) /\ r'.state = "Paused"
    BY <2>1, <2>2, ChangeCompletes DEF Kept, Fields
  <2>4. RendererTypes'
    BY <2>2, <2>3 DEF RendererTypes
  <2> QED
    BY <1>0, <1>1, <2>2, <2>3, <2>4
       DEF HeldInReceive, InUse, WakeUps, EndOnce, BeforeWait, InReceive, SourceAtRest, Kept, Fields
<1>2. CASE r.state # "Paused" /\ r.connected
  <2>1. r' = Paused(r) /\ clock' \subseteq clock /\ UNCHANGED <<stream, hand, app>> /\ app = "idle"
    BY <1>2 DEF Pause, Call, Unadvised, InterfaceLockFree
  <2>2. /\ r' \in Members
        /\ Kept(r, r', {"state", "streaming", "release", "renderEvent", "held", "abort",
                        "eosDelivered", "eosTimer"})
        /\ r'.state = "Paused" /\ ~r'.streaming /\ ~r'.release /\ ~r'.eosTimer
        /\ IF r.state = "Stopped" THEN r'.held = "none"
           ELSE r'.held = r.held /\ r'.abort = r.abort
    BY <1>0, <2>1, PausedMembers
  <2>3. RendererTypes'
    BY <2>1, <2>2 DEF RendererTypes
  <2> QED
    BY <1>0, <1>2, <2>1, <2>2, <2>3
       DEF HeldInReceive, InUse, WakeUps, EndOnce, BeforeWait, InReceive, SourceAtRest, Kept, Fields
<1> QED BY <1>1, <1>2

LEMMA RunFromMembers ==
  ASSUME NEW x \in Members, x.state = "Paused" => ~x.streaming
  PROVE  /\ RunFrom(x) \in Members
         /\ Kept(x, RunFrom(x), {"state", "streaming", "release", "renderEvent", "held", "abort",
                                 "eosDelivered", "eosTimer"})
         /\ RunFrom(x).state = "Running" /\ ~RunFrom(x).release
         /\ RunFrom(x).eosTimer => x.eosTimer
         /\ IF x.state = "Stopped" THEN RunFrom(x).held = "none" /\ ~RunFrom(x).streaming
            ELSE RunFrom(x).held = x.held /\ RunFrom(x).abort = x.abort
                 /\ RunFrom(x).streaming = x.streaming
<1> DEFINE p == IF x.state = "Stopped" THEN Paused(Ready(x)) ELSE Ready(x)
           y == SourceThreadCanWait([p EXCEPT !.state = "Running"], TRUE)
<1>1. Ready(x) \in Members /\ Kept(x, Ready(x), {}) /\ Ready(x).state = x.state
  BY HelperTypes DEF Ready, Members, Kept, Fields
<1>2. /\ p \in Members
      /\ Kept(x, p, {"state", "streaming", "release", "renderEvent", "held", "abort",
                     "eosDelivered", "eosTimer"})
      /\ p.eosTimer => x.eosTimer
      /\ IF x.state = "Stopped" THEN p.held = "none" /\ ~p.streaming
         ELSE p.held = x.held /\ p.abort = x.abort /\ p.streaming = x.streaming
  BY <1>1, PausedMembers DEF Kept, Fields
<1> HIDE DEF p
<1>3. /\ y \in Members /\ Kept(p, y, {"state", "release"})
      /\ y.state = "Running" /\ ~y.release
  <2>1. [p EXCEPT !.state = "Running"] \in Members
    BY <1>2 DEF Members
  <2>2. y \in Members
    BY <2>1, HelperTypes
  <2>3. Kept(p, y, {"state", "release"}) /\ y.state = "Running" /\ y.release = FALSE
    BY <1>2 DEF SourceThreadCanWait, Members, Kept, Fields
  <2> QED BY <2>2, <2>3
<1>4. RunFrom(x) = IF x.state = "Stopped" THEN ClearPendingSample([y EXCEPT !.abort = FALSE]) ELSE y
  BY DEF RunFrom, p
<1> HIDE DEF y
<1>5. /\ ClearPendingSample([y EXCEPT !.abort = FALSE]) \in Members
      /\ Kept(y, ClearPendingSample([y EXCEPT !.abort = FALSE]), {"abort", "held"})
      /\ ClearPendingSample([y EXCEPT !.abort = FALSE]).held = "none"
  BY <1>3 DEF ClearPendingSample, Members, Kept, Fields
<1> QED
  BY <1>2, <1>3, <1>4, <1>5 DEF Kept, Fields

LEMMA RunKeeps ==
  ASSUME RendererInv, Run
  PROVE  RendererInv'
<1> USE DEF RendererInv
<1>0. r \in Members /\ SourceAtRest /\ app = "idle" /\ clock \in SUBSET Cookies
  BY DEF RendererTypes, Run, InterfaceLockFree
<1>1. CASE r.connected
  <2> DEFINE x == RunFrom(r)
  <2>1. PICK s \in StartStreaming(x, clock) :
          r' = s[1] /\ clock' = s[2] /\ UNCHANGED <<stream, hand, app>>
    BY <1>1 DEF Run, Call
  <2>2. r.state \in {"Stopped", "Paused"} /\ ~r.streaming
    BY <1>0 DEF Run, InUse, Members
  <2>3. /\ x \in Members
        /\ Kept(r, x, {"state", "streaming", "release", "renderEvent", "held", "abort",
                       "eosDelivered", "eosTimer"})
        /\ x.state = "Running" /\ ~x.release /\ ~x.streaming
        /\ x.eosTimer => r.eosTimer
        /\ IF r.state = "Stopped" THEN x.held = "none"
           ELSE x.held = r.held /\ x.abort = r.abort
    BY <1>0, <2>2, RunFromMembers
  <2> HIDE DEF x
  <2>4. /\ r' \in Members /\ clock' \subseteq Cookies
        /\ Kept(x, r', {"streaming", "completes", "renderEvent", "eosDelivered", "eosTimer"})
        /\ r'.streaming
        /\ x.held # "none" => /\ r'.renderEvent \/ clock' # {}
                              /\ r'.completes = 0
                              /\ Kept(x, r', {"streaming", "completes", "renderEvent"})
        /\ r'.eosTimer => x.eos \/ x.eosTimer
        /\ r'.completes # 0 => x.eos /\ x.held = "none" /\ r'.eosDelivered /\ r'.completes = 1
    BY <1>0, <2>1, <2>3, StreamingStarted
  <2>5. /\ Kept(r, r', {"state", "streaming", "release", "renderEvent", "held", "abort",
                        "completes", "eosDelivered", "eosTimer"})
        /\ r'.state = "Running" /\ ~r'.release /\ r'.held = x.held /\ r'.abort = x.abort
    BY <2>3, <2>4 DEF Kept, Fields
  <2>6. RendererTypes'
    BY <2>1, <2>4 DEF RendererTypes
  <2>7. HeldInReceive' /\ InUse'
    BY <1>0, <1>1, <2>1, <2>2, <2>3, <2>4, <2>5
       DEF HeldInReceive, InUse, BeforeWait, InReceive, SourceAtRest, Kept, Fields
  <2>8. WakeUps'
    BY <1>0, <1>1, <2>1, <2>2, <2>3, <2>4, <2>5
       DEF HeldInReceive, InUse, WakeUps, BeforeWait, SourceAtRest, Kept, Fields
  <2>9. EndOnce'
    <3>1. CASE x.held # "none"
      <4>1. r'.eosTimer = x.eosTimer /\ r'.completes = 0 /\ r'.held = x.held /\ r'.eos = r.eos
        BY <2>4, <2>5, <3>1 DEF Kept, Fields
      <4>2. ~r.eosTimer
        BY <2>3, <3>1 DEF EndOnce
      <4> QED BY <2>3, <4>1, <4>2 DEF EndOnce
    <3>2. CASE x.held = "none"
      <4>1. r'.eos = r.eos /\ x.eos = r.eos /\ r'.held = "none"
        BY <2>3, <2>5, <3>2 DEF Kept, Fields
      <4> QED BY <2>3, <2>4, <4>1 DEF EndOnce
    <3> QED BY <3>1, <3>2
  <2> QED BY <2>6, <2>7, <2>8, <2>9
<1>2. CASE ~r.connected
  <2>1. r' = [r EXCEPT !.state = "Running"] /\ UNCHANGED <<clock, stream, hand, app>>
    BY <1>2 DEF Run, Call
  <2>2. r' \in Members /\ Kept(r, r', {"state"}) /\ r'.state = "Running"
    BY <1>0, <2>1 DEF Members, Kept, Fields
  <2>3. RendererTypes'
    BY <2>1, <2>2 DEF RendererTypes
  <2> QED
    BY <1>0, <1>2, <2>1, <2>2, <2>3
       DEF HeldInReceive, InUse, WakeUps, EndOnce, BeforeWait, InReceive, SourceAtRest, Kept, Fields
<1> QED BY <1>1, <1>2

LEMMA ConnectKeeps ==
  ASSUME RendererInv, CompleteConnect \/ BreakConnect
  PROVE  RendererInv'
<1> USE DEF RendererInv
<1>0. r \in Members /\ app = "idle" /\ r.state = "Stopped"
  BY DEF RendererTypes, CompleteConnect, BreakConnect, InterfaceLockFree
<1>1. CASE CompleteConnect
  <2>1. r' \in Members /\ Kept(r, r', {"connected", "abort"}) /\ r'.connected
    BY <1>0, <1>1 DEF CompleteConnect, Call, Members, Kept, Fields
  <2>2. UNCHANGED <<clock, stream, hand, app>> /\ ~r.connected
    BY <1>1 DEF CompleteConnect, Call
  <2>3. RendererTypes'
    BY <2>1, <2>2 DEF RendererTypes
  <2> QED
    BY <1>0, <2>1, <2>2, <2>3
       DEF HeldInReceive, InUse, WakeUps, EndOnce, BeforeWait, InReceive, Kept, Fields
<1>2. CASE BreakConnect
  <2> DEFINE a == ClearPendingSample(ResetEndOfStream(r))
  <2>1. a \in Members
    BY <1>0, HelperTypes
  <2>2. Kept(r, a, {"eos", "eosDelivered", "eosTimer", "completes", "held"}) /\ a.held = "none" /\ ~a.eosTimer
    BY <1>0 DEF ClearPendingSample, ResetEndOfStream, ResetEndOfStreamTimer, Members, Kept, Fields
  <2>3. r' = [a EXCEPT !.connected = FALSE, !.abort = FALSE] /\ UNCHANGED <<clock, stream, hand, app>>
        /\ stream = "idle"
    BY <1>2 DEF BreakConnect, Call
  <2> HIDE DEF a
  <2>4. /\ r' \in Members
        /\ Kept(r, r', {"connected", "abort", "eos", "eosDelivered", "eosTimer", "completes", "held"})
        /\ r'.held = "none" /\ ~r'.eosTimer /\ ~r'.connected
    BY <2>1, <2>2, <2>3 DEF Members, Kept, Fields
  <2>5. RendererTypes'
    BY <2>3, <2>4 DEF RendererTypes
  <2> QED
    BY <1>0, <2>3, <2>4, <2>5
       DEF HeldInReceive, InUse, WakeUps, EndOnce, BeforeWait, InReceive, Kept, Fields
<1> QED BY <1>1, <1>2

LEMMA FlushKeeps ==
  ASSUME RendererInv, BeginFlush \/ FlushBegun \/ EndFlush
  PROVE  RendererInv'
<1> USE DEF RendererInv
<1>0. r \in Members
  BY DEF RendererTypes
<1>1. CASE BeginFlush
  <2> DEFINE x == IF r.state = "Paused" THEN NotReady(r) ELSE r
             y == SourceThreadCanWait([x EXCEPT !.flushing = TRUE], FALSE)
  <2>1. x \in Members /\ Kept(r, x, {})
    <3>1. NotReady(r) \in Members /\ Kept(r, NotReady(r), {}) /\ Kept(r, r, {})
      BY <1>0, HelperTypes DEF NotReady, Members, Kept, Fields
    <3> QED BY <1>0, <3>1
  <2> HIDE DEF x
  <2>2. y \in Members /\ Kept(r, y, {"flushing", "release"}) /\ y.flushing = TRUE /\ y.release = TRUE
    <3>1. [x EXCEPT !.flushing = TRUE] \in Members
      BY <2>1 DEF Members
    <3>2. y \in Members
      BY <3>1, HelperTypes
    <3>3. Kept(x, y, {"flushing", "release"}) /\ y.flushing = TRUE /\ y.release = TRUE
      BY <2>1 DEF SourceThreadCanWait, Members, Kept, Fields
    <3> QED BY <2>1, <3>2, <3>3 DEF Kept, Fields
  <2>3. r' = ClearPendingSample(CancelNotification(y))
    BY <1>1 DEF BeginFlush, x
  <2> HIDE DEF y
  <2>4. r' \in Members
    BY <2>2, <2>3, HelperTypes
  <2>5. /\ Kept(r, r', {"flushing", "release", "held", "renderEvent"})
        /\ r'.flushing = TRUE /\ r'.release = TRUE /\ r'.held = "none"
    BY <2>2, <2>3 DEF ClearPendingSample, CancelNotification, Members, Kept, Fields
  <2>6. clock' \subseteq clock /\ app' = "flushing" /\ hand' = Outdated(hand) /\ stream' = stream
    BY <1>1 DEF BeginFlush, Unadvised
  <2>7. RendererTypes'
    BY <2>4, <2>6 DEF RendererTypes, Outdated, Samples
  <2> QED
    BY <2>5, <2>6, <2>7
       DEF HeldInReceive, InUse, WakeUps, EndOnce, BeforeWait, InReceive, Kept, Fields
<1>2. CASE FlushBegun
  <2>1. r' \in Members
    BY <1>0, <1>2, HelperTypes DEF FlushBegun
  <2>2. /\ Kept(r, r', {"eos", "eosDelivered", "eosTimer", "completes"})
        /\ ~r'.eosTimer /\ r'.completes = 0
    BY <1>0, <1>2 DEF FlushBegun, ResetEndOfStream, ResetEndOfStreamTimer, Members, Kept, Fields
  <2>3. UNCHANGED <<clock, stream, hand>> /\ app' = "idle"
    BY <1>2 DEF FlushBegun
  <2>4. RendererTypes'
    BY <2>1, <2>3 DEF RendererTypes
  <2> QED
    BY <2>2, <2>3, <2>4
       DEF HeldInReceive, InUse, WakeUps, EndOnce, BeforeWait, InReceive, Kept, Fields
<1>3. CASE EndFlush
  <2>1. SourceThreadCanWait(r, TRUE) \in Members
    BY <1>0, HelperTypes
  <2>2. r' \in Members
    BY <1>3, <2>1 DEF EndFlush, Call, Members
  <2>3. Kept(r, r', {"release", "flushing"}) /\ ~r'.release /\ ~r'.flushing
    BY <1>0, <1>3 DEF EndFlush, Call, SourceThreadCanWait, Members, Kept, Fields
  <2>4. UNCHANGED <<clock, stream, hand, app>> /\ app = "idle" /\ stream = "idle"
    BY <1>3 DEF EndFlush, Call, InterfaceLockFree
  <2>5. RendererTypes'
    BY <2>2, <2>4 DEF RendererTypes
  <2> QED
    BY <2>3, <2>4, <2>5
       DEF HeldInReceive, InUse, WakeUps, EndOnce, BeforeWait, InReceive, Kept, Fields
<1> QED BY <1>1, <1>2, <1>3

LEMMA EndOfStreamKeeps ==
  ASSUME RendererInv, EndOfStream \/ TimerCallback
  PROVE  RendererInv'
<1> USE DEF RendererInv
<1>0. r \in Members /\ UNCHANGED <<clock, stream, hand, app>>
  BY DEF RendererTypes, EndOfStream, TimerCallback, Call
<1>1. CASE EndOfStream
  <2> DEFINE x == [r EXCEPT !.eos = TRUE]
  <2>1. x \in Members /\ Kept(r, x, {"eos"}) /\ x.eos = TRUE
    BY <1>0 DEF Members, Kept, Fields
  <2>2. \/ r.held # "none" /\ r' = x
        \/ r.held = "none" /\ (r' = Ready(x) \/ r' \in SendEndOfStream(Ready(x)))
    BY <1>1 DEF EndOfStream, Call
  <2> HIDE DEF x
  <2>3. Ready(x) \in Members /\ Kept(r, Ready(x), {"eos"}) /\ Ready(x).eos = TRUE
    BY <2>1, HelperTypes DEF Ready, Members, Kept, Fields
  <2>4. /\ r' \in Members /\ Kept(r, r', {"eos", "eosDelivered", "eosTimer", "completes"})
        /\ r'.eos = TRUE
        /\ r'.eosTimer => r.eosTimer \/ r.held = "none"
        /\ r.eosDelivered => r'.eosDelivered
        /\ r'.completes # r.completes => r'.eosDelivered
    <3>1. CASE r' = x \/ r' = Ready(x)
      BY <2>1, <2>3, <3>1 DEF Kept, Fields
    <3>2. CASE r.held = "none" /\ r' \in SendEndOfStream(Ready(x))
      BY <2>3, <3>2, EndSent DEF Kept, Fields
    <3> QED BY <2>2, <3>1, <3>2
  <2>5. RendererTypes'
    BY <1>0, <2>4 DEF RendererTypes
  <2> QED
    BY <1>0, <2>4, <2>5
       DEF HeldInReceive, InUse, WakeUps, EndOnce, BeforeWait, InReceive, Kept, Fields
<1>2. CASE TimerCallback
  <2> DEFINE x == [r EXCEPT !.eosTimer = FALSE]
  <2>1. x \in Members /\ Kept(r, x, {"eosTimer"}) /\ x.eosTimer = FALSE
    BY <1>0 DEF Members, Kept, Fields
  <2>2. r' \in SendEndOfStream(x) /\ r.eosTimer
    BY <1>2 DEF TimerCallback, Call
  <2> HIDE DEF x
  <2>3. /\ r' \in Members /\ Kept(r, r', {"eosDelivered", "eosTimer", "completes"})
        /\ r.eosDelivered => r'.eosDelivered
        /\ r'.completes # r.completes => r'.eosDelivered
    BY <2>1, <2>2, EndSent DEF Kept, Fields
  <2>4. RendererTypes'
    BY <1>0, <2>3 DEF RendererTypes
  <2> QED
    BY <1>0, <2>2, <2>3, <2>4
       DEF HeldInReceive, InUse, WakeUps, EndOnce, BeforeWait, InReceive, Kept, Fields
<1> QED BY <1>1, <1>2

LEMMA DisplayChangeKeeps ==
  ASSUME RendererInv, OnDisplayChange
  PROVE  RendererInv'
<1> USE DEF RendererInv
<1>1. /\ r' \in Members /\ Kept(r, r', {"abort", "held"})
      /\ r'.abort = TRUE /\ r'.held = "none"
  BY DEF RendererTypes, OnDisplayChange, Call, ClearPendingSample, Members, Kept, Fields
<1>2. UNCHANGED <<clock, stream, hand, app>>
  BY DEF OnDisplayChange, Call
<1>3. RendererTypes'
  BY <1>1, <1>2 DEF RendererTypes
<1> QED
  BY <1>1, <1>2, <1>3
     DEF HeldInReceive, InUse, WakeUps, EndOnce, BeforeWait, InReceive, Kept, Fields

-----------------------------------------------------------------------------
(* The streaming thread and the clock.                                     *)

LEMMA PrepareKeeps ==
  ASSUME RendererInv, PrepareReceive
  PROVE  RendererInv'
<1> USE DEF RendererInv
<1>0. /\ r \in Members /\ clock \in SUBSET Cookies /\ app' = app
      /\ app = "idle" /\ r.connected /\ stream = "idle"
      /\ hand' = IF stream' = "prepared" THEN "fresh" ELSE "none"
  BY DEF RendererTypes, PrepareReceive, InterfaceLockFree, Thread
<1>1. CASE r' \in {r, Ready(r)} \cup {[r EXCEPT !.runError = e] : e \in BOOLEAN}
             /\ clock' = clock /\ stream' = "failed"
  <2>1. r' \in Members /\ Kept(r, r', {})
    BY <1>0, <1>1, HelperTypes DEF Ready, Members, Kept, Fields
  <2>2. RendererTypes'
    BY <1>0, <1>1, <2>1 DEF RendererTypes, Samples
  <2> QED
    BY <1>0, <1>1, <2>1, <2>2
       DEF HeldInReceive, InUse, WakeUps, EndOnce, BeforeWait, InReceive, Kept, Fields
<1>2. ASSUME CheckStreaming(r), r.held = "none", ~r.eos, ~r.abort,
             NEW t \in IF r.streaming THEN ScheduleSample(r, clock) ELSE {<<r, clock, TRUE>>},
             r' = IF t[3] THEN [t[1] EXCEPT !.held = "fresh", !.inReceive = TRUE] ELSE t[1],
             clock' = t[2], stream' = IF t[3] THEN "prepared" ELSE "idle"
      PROVE  RendererInv'
  <2>1. /\ t[1] \in Members /\ t[2] \subseteq Cookies
        /\ Kept(r, t[1], {"renderEvent"})
        /\ r.streaming /\ t[3] => t[1].renderEvent \/ t[2] # {}
        /\ ~t[3] => t[1] = r /\ t[2] = clock
    <3>1. CASE r.streaming
      BY <1>0, <1>2, <3>1, SampleScheduled
    <3>2. CASE ~r.streaming
      BY <1>0, <1>2, <3>2 DEF Kept
    <3> QED BY <3>1, <3>2
  <2>2. CASE t[3]
    <3>1. /\ r' \in Members /\ Kept(t[1], r', {"held", "inReceive"})
          /\ r'.held = "fresh" /\ r'.inReceive = TRUE
      BY <1>2, <2>1, <2>2 DEF Members, Kept, Fields
    <3>2. Kept(r, r', {"renderEvent", "held", "inReceive"})
      BY <2>1, <3>1 DEF Kept, Fields
    <3>3. r.streaming => r'.renderEvent \/ clock' # {}
      BY <1>2, <2>1, <2>2, <3>1 DEF Kept, Fields
    <3>4. stream' = "prepared" /\ hand' = "fresh"
      BY <1>0, <1>2, <2>2
    <3>5. RendererTypes'
      BY <1>0, <1>2, <2>1, <3>1, <3>4 DEF RendererTypes, Samples
    <3> QED
      BY <1>0, <1>2, <3>1, <3>2, <3>3, <3>4, <3>5
         DEF HeldInReceive, InUse, WakeUps, EndOnce, BeforeWait, InReceive, CheckStreaming, Kept, Fields
  <2>3. CASE ~t[3]
    <3>1. r' = r /\ clock' = clock /\ stream' = "idle" /\ hand' = "none"
      BY <1>0, <1>2, <2>1, <2>3
    <3>2. RendererTypes'
      BY <1>0, <3>1 DEF RendererTypes, Samples
    <3> QED
      BY <1>0, <3>1, <3>2 DEF HeldInReceive, InUse, WakeUps, EndOnce, BeforeWait, InReceive
  <2> QED BY <2>2, <2>3
<1> QED BY <1>1, <1>2 DEF PrepareReceive, Thread

LEMMA ReceiveKeeps ==
  ASSUME RendererInv,
         Prepared \/ FirstSample \/ StateComplete \/ Released \/ TimeArrives \/ SignalTimerFired
  PROVE  RendererInv'
<1> USE DEF RendererInv
<1>0. r \in Members /\ clock' = clock /\ app' = app
  BY DEF RendererTypes, Prepared, FirstSample, StateComplete, Released, TimeArrives,
    SignalTimerFired, Thread
<1>1. CASE Prepared
  <2>1. /\ r' \in Members /\ Kept(r, r', {"inReceive"}) /\ r'.inReceive = (r.state # "Paused")
        /\ stream = "prepared" /\ stream' = (IF r.state = "Paused" THEN "first" ELSE "wait")
        /\ hand' = hand
    BY <1>0, <1>1 DEF Prepared, Thread, Members, Kept, Fields
  <2>2. RendererTypes'
    BY <1>0, <2>1 DEF RendererTypes
  <2> QED
    BY <1>0, <2>1, <2>2
       DEF HeldInReceive, InUse, WakeUps, EndOnce, BeforeWait, InReceive, Kept, Fields
<1>2. CASE FirstSample /\ r.state = "Stopped"
  <2>1. r' = r /\ stream = "first" /\ stream' = "idle" /\ hand' = "none"
    BY <1>2 DEF FirstSample, Thread
  <2>2. RendererTypes'
    BY <1>0, <2>1 DEF RendererTypes, Samples
  <2> QED
    BY <1>0, <1>2, <2>1, <2>2
       DEF HeldInReceive, InUse, WakeUps, EndOnce, BeforeWait, InReceive
<1>3. CASE FirstSample /\ r.state # "Stopped"
  <2>1. /\ r' \in Members /\ Kept(r, r', {"inReceive"}) /\ r'.inReceive = TRUE
        /\ stream = "first" /\ stream' = "completing" /\ hand' = hand
    BY <1>0, <1>3, ZenonT(40) DEF FirstSample, Thread, Members, Kept, Fields
  <2>2. RendererTypes'
    BY <1>0, <2>1 DEF RendererTypes
  <2> QED
    BY <1>0, <2>1, <2>2
       DEF HeldInReceive, InUse, WakeUps, EndOnce, BeforeWait, InReceive, Kept, Fields
<1>4. CASE StateComplete
  <2>1. /\ r' \in Members /\ Kept(r, r', {})
        /\ stream = "completing" /\ stream' = "wait" /\ hand' = hand
    BY <1>0, <1>4, HelperTypes DEF StateComplete, Ready, Thread, Members, Kept, Fields
  <2>2. RendererTypes'
    BY <1>0, <2>1 DEF RendererTypes
  <2> QED
    BY <1>0, <2>1, <2>2
       DEF HeldInReceive, InUse, WakeUps, EndOnce, BeforeWait, InReceive, Kept, Fields
<1>5. CASE Released
  <2>1. /\ r' \in Members /\ Kept(r, r', {"inReceive"}) /\ ~r'.inReceive /\ r.release
        /\ stream = "wait" /\ stream' = "idle" /\ hand' = "none"
    BY <1>0, <1>5 DEF Released, Thread, Members, Kept, Fields
  <2>2. r.held = "none"
    BY <2>1 DEF HeldInReceive, InUse, WakeUps
  <2>3. RendererTypes'
    BY <1>0, <2>1 DEF RendererTypes, Samples
  <2> QED
    BY <1>0, <2>1, <2>2, <2>3
       DEF HeldInReceive, InUse, WakeUps, EndOnce, BeforeWait, InReceive, Kept, Fields
<1>6. CASE TimeArrives
  <2>1. /\ r' \in Members /\ Kept(r, r', {"renderEvent"})
        /\ stream = "wait" /\ stream' = "woken" /\ hand' = hand
    BY <1>0, <1>6 DEF TimeArrives, Thread, Members, Kept, Fields
  <2>2. RendererTypes'
    BY <1>0, <2>1 DEF RendererTypes
  <2> QED
    BY <1>0, <2>1, <2>2
       DEF HeldInReceive, InUse, WakeUps, EndOnce, BeforeWait, InReceive, Kept, Fields
<1>7. CASE SignalTimerFired
  <2>1. /\ r' \in Members /\ Kept(r, r', {"inReceive"}) /\ ~r'.inReceive
        /\ stream = "woken" /\ stream' = "due" /\ hand' = hand
    BY <1>0, <1>7 DEF SignalTimerFired, Thread, Members, Kept, Fields
  <2>2. RendererTypes'
    BY <1>0, <2>1 DEF RendererTypes
  <2> QED
    BY <1>0, <2>1, <2>2
       DEF HeldInReceive, InUse, WakeUps, EndOnce, BeforeWait, InReceive, Kept, Fields
<1> QED BY <1>1, <1>2, <1>3, <1>4, <1>5, <1>6, <1>7

\* What is drawn is the sample that came: a stale one is no longer held.
LEMMA DueKeeps ==
  ASSUME RendererInv, Due
  PROVE  RendererInv'
<1> USE DEF RendererInv
<1>0. /\ r \in Members /\ stream = "due" /\ stream' = "idle" /\ hand' = "none" /\ app' = app
  BY DEF RendererTypes, Due, Thread
<1>1. CASE r.state = "Stopped"
  <2>1. r' = r /\ clock' = clock
    BY <1>1 DEF Due
  <2>2. RendererTypes'
    BY <1>0, <2>1 DEF RendererTypes, Samples
  <2> QED
    BY <1>0, <1>1, <2>1, <2>2
       DEF HeldInReceive, InUse, WakeUps, EndOnce, BeforeWait, InReceive
<1>2. CASE r.state # "Stopped"
  <2>1. Render(r) = r
    <3>1. r.held = "none" \/ hand = "fresh"
      BY DEF HeldInReceive
    <3>2. hand = "fresh" => [r EXCEPT !.staleDrawn = @ \/ hand = "stale"] = r
      BY <1>0 DEF Members
    <3> QED BY <3>1, <3>2 DEF Render
  <2> DEFINE x == ClearPendingSample(r)
  <2>2. x \in Members /\ Kept(r, x, {"held"}) /\ x.held = "none"
    BY <1>0, HelperTypes DEF ClearPendingSample, Members, Kept, Fields
  <2>3. PICK y \in SendEndOfStream(x) : r' = CancelNotification(y) /\ clock' \subseteq clock
    BY <1>2, <2>1 DEF Due, Unadvised
  <2> HIDE DEF x
  <2>4. /\ y \in Members /\ Kept(x, y, {"eosDelivered", "eosTimer", "completes"})
        /\ y.eosTimer => x.eos \/ x.eosTimer
        /\ x.eosDelivered => y.eosDelivered
        /\ y.completes # x.completes => y.eosDelivered
    BY <2>2, EndSent
  <2>5. r' \in Members /\ Kept(y, r', {"renderEvent"})
    <3>1. r' \in Members
      BY <2>3, <2>4, HelperTypes
    <3>2. Kept(y, r', {"renderEvent"})
      BY <2>3, <2>4 DEF CancelNotification, Members, Kept, Fields
    <3> QED BY <3>1, <3>2
  <2>6. /\ Kept(r, r', {"held", "eosDelivered", "eosTimer", "completes", "renderEvent"})
        /\ r'.held = "none"
        /\ r'.eosTimer => r.eos \/ r.eosTimer
        /\ r.eosDelivered => r'.eosDelivered
        /\ r'.completes # r.completes => r'.eosDelivered
    BY <2>2, <2>4, <2>5 DEF Kept, Fields
  <2>7. RendererTypes'
    BY <1>0, <2>3, <2>5 DEF RendererTypes, Samples
  <2> QED
    BY <1>0, <2>6, <2>7
       DEF HeldInReceive, InUse, WakeUps, EndOnce, BeforeWait, InReceive, Kept, Fields
<1> QED BY <1>1, <1>2

LEMMA ErrorKeeps ==
  ASSUME RendererInv, ReportError
  PROVE  RendererInv'
<1> USE DEF RendererInv
<1>0. /\ r \in Members /\ stream = "failed" /\ stream' = "idle"
      /\ UNCHANGED <<clock, hand, app>>
  BY DEF RendererTypes, ReportError, Thread
<1> DEFINE x == IF r.streaming /\ ~r.eosDelivered THEN NotifyEndOfStream(r) ELSE r
<1>1. /\ x \in Members /\ Kept(r, x, {"eosDelivered", "eosTimer", "completes"})
      /\ x.eosTimer => r.eosTimer
      /\ x = r \/ x.eosDelivered
  <2>1. CASE r.streaming /\ ~r.eosDelivered
    <3>1. x = NotifyEndOfStream(r) /\ NotifyEndOfStream(r) \in Members
      BY <1>0, <2>1, HelperTypes
    <3>2. /\ Kept(r, NotifyEndOfStream(r), {"eosDelivered", "eosTimer", "completes"})
          /\ ~NotifyEndOfStream(r).eosTimer /\ NotifyEndOfStream(r).eosDelivered
      BY <1>0, <2>1 DEF NotifyEndOfStream, Members, Kept, Fields
    <3> HIDE DEF x
    <3> QED BY <3>1, <3>2
  <2>2. CASE ~(r.streaming /\ ~r.eosDelivered)
    BY <1>0, <2>2 DEF Kept
  <2> QED BY <2>1, <2>2
<1>2. r' = [x EXCEPT !.runError = TRUE] \/ r' = r
  BY DEF ReportError
<1> HIDE DEF x
<1>3. /\ r' \in Members /\ Kept(r, r', {"eosDelivered", "eosTimer", "completes"})
      /\ r'.eosTimer => r.eosTimer
      /\ (r'.eosDelivered = r.eosDelivered /\ r'.completes = r.completes) \/ r'.eosDelivered
  <2>1. CASE r' = r
    BY <1>0, <2>1 DEF Kept
  <2>2. CASE r' = [x EXCEPT !.runError = TRUE]
    <3>1. r' \in Members /\ Kept(x, r', {})
      BY <1>1, <2>2 DEF Members, Kept, Fields
    <3> QED BY <1>1, <3>1 DEF Kept, Fields
  <2> QED BY <1>2, <2>1, <2>2
<1>4. RendererTypes'
  BY <1>0, <1>3 DEF RendererTypes
<1> QED
  BY <1>0, <1>3, <1>4
     DEF HeldInReceive, InUse, WakeUps, EndOnce, BeforeWait, InReceive, Kept, Fields

\* An advise leaves the clock for the event.
LEMMA AdviseKeeps ==
  ASSUME RendererInv, AdviseFires
  PROVE  RendererInv'
<1> USE DEF RendererInv
<1>1. /\ clock' \subseteq clock /\ r' = [r EXCEPT !.renderEvent = TRUE]
      /\ UNCHANGED <<stream, hand, app>>
  BY DEF AdviseFires
<1>2. r' \in Members /\ Kept(r, r', {"renderEvent"}) /\ r'.renderEvent = TRUE
  BY <1>1 DEF RendererTypes, Members, Kept, Fields
<1>3. RendererTypes'
  BY <1>1, <1>2 DEF RendererTypes
<1> QED
  BY <1>1, <1>2, <1>3
     DEF HeldInReceive, InUse, WakeUps, EndOnce, BeforeWait, InReceive, Kept, Fields

-----------------------------------------------------------------------------
(* What the runs check.                                                    *)

LEMMA RendererStep == RendererInv /\ [RendererNext]_rvars => RendererInv'
<1> SUFFICES ASSUME RendererInv, [RendererNext]_rvars PROVE RendererInv'
  OBVIOUS
<1>1. CASE Application
  BY <1>1, StopKeeps, StoppedKeeps, PauseKeeps, RunKeeps, ConnectKeeps, FlushKeeps, EndOfStreamKeeps,
    DisplayChangeKeeps DEF Application
<1>2. CASE StreamingThread
  BY <1>2, PrepareKeeps, ReceiveKeeps, DueKeeps, ErrorKeeps DEF StreamingThread
<1>3. CASE AdviseFires \/ TimerCallback
  BY <1>3, AdviseKeeps, EndOfStreamKeeps
<1>4. CASE UNCHANGED rvars
  BY <1>4 DEF rvars, RendererInv, RendererTypes, HeldInReceive, InUse, WakeUps, EndOnce
<1> QED BY <1>1, <1>2, <1>3, <1>4 DEF RendererNext

LEMMA RendererInvariant == RendererSpec => []RendererInv
  BY RendererStart, RendererStep, PTL DEF RendererSpec

(***************************************************************************)
(* A thread asleep in Receive is woken: by whoever waits for it with a     *)
(* lock held, or by the event or the advise its sample was given.          *)
(***************************************************************************)
THEOREM RendererWakes == RendererSpec => []SleepersAreWoken
<1>1. RendererInv => SleepersAreWoken
  BY DEF RendererInv, InUse, WakeUps, BeforeWait, InReceive, SleepersAreWoken, CallsReturn,
    ReceiverNotStranded
<1> QED BY <1>1, RendererInvariant, PTL

(***************************************************************************)
(* Nothing received before a flush or a stop is drawn after it.            *)
(***************************************************************************)
THEOREM NothingStaleDrawn == RendererSpec => []DrawsFreshSamples
<1>1. RendererInv => DrawsFreshSamples
  BY DEF RendererInv, HeldInReceive, DrawsFreshSamples
<1> QED BY <1>1, RendererInvariant, PTL

\* The other calls of the application do not send EC_COMPLETE; those that reset
\* the end of the stream count from nothing again.
LEMMA CallsSendNothing ==
  ASSUME r \in Members,
         \/ Stop \/ Stopped \/ Pause \/ CompleteConnect \/ BreakConnect
         \/ BeginFlush \/ FlushBegun \/ EndFlush \/ OnDisplayChange
  PROVE  r'.completes \in {r.completes, 0}
<1>1. CASE Stop
  <2>1. r' = [r EXCEPT !.state = "Stopped"] => r'.completes = r.completes
    BY DEF Members
  <2>2. r' = [r EXCEPT !.state = "Stopped"] \/ r'.completes = 0
    BY <1>1 DEF Stop, Call, Members, CancelNotification, ResetEndOfStream, ResetEndOfStreamTimer,
      SourceThreadCanWait, StopStreaming, ClearPendingSample, Ready
  <2> QED BY <2>1, <2>2
<1>2. CASE Pause
  <2>1. CASE r' = Paused(r)
    BY <2>1, PausedMembers DEF Kept, Fields
  <2>2. CASE r' = CompleteStateChange([r EXCEPT !.state = "Paused"], "Paused")
    <3>1. [r EXCEPT !.state = "Paused"] \in Members /\ [r EXCEPT !.state = "Paused"].completes = r.completes
      BY DEF Members
    <3> QED BY <2>2, <3>1, ChangeCompletes DEF Kept, Fields
  <2> QED BY <1>2, <2>1, <2>2 DEF Pause, Call
<1>3. CASE Stopped \/ CompleteConnect \/ EndFlush \/ OnDisplayChange
  BY <1>3 DEF Stopped, CompleteConnect, EndFlush, OnDisplayChange, Call, Members,
    SourceThreadCanWait, ClearPendingSample
<1>4. CASE BreakConnect \/ FlushBegun
  BY <1>4 DEF BreakConnect, FlushBegun, Call, Members, ClearPendingSample, ResetEndOfStream,
    ResetEndOfStreamTimer
<1>5. CASE BeginFlush
  <2>1. NotReady(r) \in Members /\ NotReady(r).completes = r.completes
    BY HelperTypes DEF NotReady, Members
  <2>2. ASSUME NEW x \in {r, NotReady(r)}
        PROVE  ClearPendingSample(CancelNotification(
                 SourceThreadCanWait([x EXCEPT !.flushing = TRUE], FALSE))).completes = r.completes
    BY <2>1, <2>2 DEF Members, ClearPendingSample, CancelNotification, SourceThreadCanWait
  <2> QED BY <1>5, <2>2 DEF BeginFlush
<1> QED BY <1>1, <1>2, <1>3, <1>4, <1>5

\* Nor do the streaming thread before the sample is due, or the clock.
LEMMA ThreadSendsNothing ==
  ASSUME r \in Members, clock \in SUBSET Cookies,
         \/ PrepareReceive \/ Prepared \/ FirstSample \/ StateComplete \/ Released
         \/ TimeArrives \/ SignalTimerFired \/ AdviseFires
  PROVE  r'.completes = r.completes
<1>1. CASE PrepareReceive
  <2>1. ASSUME NEW t \in IF r.streaming THEN ScheduleSample(r, clock) ELSE {<<r, clock, TRUE>>},
               r' = IF t[3] THEN [t[1] EXCEPT !.held = "fresh", !.inReceive = TRUE] ELSE t[1]
        PROVE  r'.completes = r.completes
    <3>1. t[1] \in Members /\ t[1].completes = r.completes
      <4>1. CASE r.streaming
        BY <2>1, <4>1, SampleScheduled DEF Kept, Fields
      <4>2. CASE ~r.streaming
        BY <2>1, <4>2
      <4> QED BY <4>1, <4>2
    <3> QED BY <2>1, <3>1 DEF Members
  <2>2. CASE r' \in {r, Ready(r)} \cup {[r EXCEPT !.runError = e] : e \in BOOLEAN}
    BY <2>2 DEF Members, Ready
  <2> QED BY <1>1, <2>1, <2>2 DEF PrepareReceive
<1>2. CASE Prepared \/ FirstSample \/ StateComplete
  BY <1>2 DEF Prepared, FirstSample, StateComplete, Ready, Members
<1>3. CASE Released \/ TimeArrives \/ SignalTimerFired \/ AdviseFires
  BY <1>3 DEF Released, TimeArrives, SignalTimerFired, AdviseFires, Members
<1> QED BY <1>1, <1>2, <1>3

\* The end of the stream, its timer, a drawn sample, the start of streaming and
\* an error do.
LEMMA CompletionStep ==
  ASSUME RendererInv, RendererNext, r'.completes > r.completes
  PROVE  /\ r'.completes = 1 /\ r'.streaming
         /\ stream = "failed" \/ (r'.eos /\ r'.held = "none")
<1> USE DEF RendererInv
<1>0. r \in Members /\ r.completes \in 0 .. 2 /\ clock \in SUBSET Cookies
  BY DEF RendererTypes, Members
\* A record the end of the stream is sent from, which is r for what matters.
<1>1. ASSUME NEW x \in Members, NEW y \in SendEndOfStream(x),
             Kept(r, x, {"eos", "eosTimer", "held"}),
             x.held = "none", y.completes > r.completes
      PROVE  y.completes = 1 /\ y.streaming /\ y.eos /\ y.held = "none"
  <2>1. x.completes = r.completes /\ x.streaming = r.streaming /\ x.eosDelivered = r.eosDelivered
    BY <1>1 DEF Kept, Fields
  <2>2. /\ Kept(x, y, {"eosDelivered", "eosTimer", "completes"})
        /\ x.eos /\ ~x.eosDelivered /\ x.streaming /\ y.completes = x.completes + 1
    BY <1>0, <1>1, <2>1, EndSent
  <2>3. r.completes = 0
    BY <1>0, <2>1, <2>2 DEF EndOnce
  <2> QED BY <1>1, <2>1, <2>2, <2>3 DEF Kept, Fields
<1>2. CASE Run
  <2>1. CASE r.connected
    <3>1. PICK s \in StartStreaming(RunFrom(r), clock) : r' = s[1]
      BY <1>2, <2>1 DEF Run, Call
    <3>2. r.state \in {"Stopped", "Paused"} /\ ~r.streaming
      BY <1>0, <1>2 DEF Run, InUse, Members
    <3>3. RunFrom(r) \in Members /\ ~RunFrom(r).streaming
      BY <1>0, <3>2, RunFromMembers
    <3>4. /\ r'.streaming
          /\ Kept(RunFrom(r), r', {"streaming", "completes", "renderEvent", "eosDelivered", "eosTimer"})
          /\ r'.completes # 0 => /\ RunFrom(r).eos /\ RunFrom(r).held = "none"
                                 /\ r'.completes = 1
      BY <1>0, <3>1, <3>3, StreamingStarted
    <3>5. r'.completes # 0
      BY <1>0
    <3> QED BY <3>4, <3>5 DEF Kept, Fields
  <2>2. CASE ~r.connected
    BY <1>0, <1>2, <2>2 DEF Run, Call, Members
  <2> QED BY <2>1, <2>2
<1>3. CASE EndOfStream
  <2> DEFINE x == [r EXCEPT !.eos = TRUE]
  <2>1. x \in Members /\ Kept(r, x, {"eos"})
    BY <1>0 DEF Members, Kept, Fields
  <2>2. \/ r' = x \/ r' = Ready(x)
        \/ r.held = "none" /\ r' \in SendEndOfStream(Ready(x))
    BY <1>3 DEF EndOfStream, Call
  <2> HIDE DEF x
  <2>3. Ready(x) \in Members /\ Kept(r, Ready(x), {"eos"})
    BY <2>1, HelperTypes DEF Ready, Members, Kept, Fields
  <2>4. r' # x /\ r' # Ready(x)
    BY <1>0, <2>1, <2>3 DEF Kept, Fields
  <2> QED BY <1>1, <2>2, <2>3, <2>4 DEF Kept, Fields
<1>4. CASE TimerCallback
  <2> DEFINE x == [r EXCEPT !.eosTimer = FALSE]
  <2>1. x \in Members /\ Kept(r, x, {"eosTimer"})
    BY <1>0 DEF Members, Kept, Fields
  <2>2. r' \in SendEndOfStream(x) /\ r.held = "none"
    BY <1>4 DEF TimerCallback, Call, EndOnce
  <2> HIDE DEF x
  <2> QED BY <1>1, <2>1, <2>2 DEF Kept, Fields
<1>5. CASE Due
  <2>1. r.state # "Stopped"
    BY <1>0, <1>5 DEF Due
  <2>2. Render(r) = r
    <3>1. hand = "fresh" => [r EXCEPT !.staleDrawn = @ \/ hand = "stale"] = r
      BY <1>0 DEF Members
    <3> QED BY <3>1 DEF Render, HeldInReceive
  <2> DEFINE x == ClearPendingSample(r)
  <2>3. x \in Members /\ Kept(r, x, {"held"}) /\ x.held = "none"
    BY <1>0, HelperTypes DEF ClearPendingSample, Members, Kept, Fields
  <2>4. PICK y \in SendEndOfStream(x) : r' = CancelNotification(y)
    BY <1>5, <2>1, <2>2 DEF Due
  <2> HIDE DEF x
  <2>5. y \in Members
    BY <2>3, EndSent
  <2>6. /\ r'.completes = y.completes /\ r'.streaming = y.streaming
        /\ r'.eos = y.eos /\ r'.held = y.held
    BY <2>4, <2>5 DEF CancelNotification, Members
  <2> QED BY <1>1, <2>3, <2>6 DEF Kept, Fields
<1>6. CASE ReportError
  <2>1. stream = "failed"
    BY <1>6 DEF ReportError
  <2> DEFINE x == IF r.streaming /\ ~r.eosDelivered THEN NotifyEndOfStream(r) ELSE r
  <2>2. r' \in {r, [x EXCEPT !.runError = TRUE]}
    BY <1>6 DEF ReportError
  <2>3. x \in Members
    BY <1>0, HelperTypes
  <2>6. r' # r
    BY <1>0
  <2>4. CASE r.streaming /\ ~r.eosDelivered
    <3>1. r.completes = 0
      BY <1>0, <2>4 DEF EndOnce
    <3>2. x.completes = 1 /\ x.streaming
      BY <1>0, <2>4, <3>1 DEF NotifyEndOfStream, Members
    <3> HIDE DEF x
    <3>3. [x EXCEPT !.runError = TRUE].completes = 1 /\ [x EXCEPT !.runError = TRUE].streaming
      BY <2>3, <3>2 DEF Members
    <3> QED BY <2>1, <2>2, <2>6, <3>3
  <2>5. CASE ~(r.streaming /\ ~r.eosDelivered)
    <3>1. x = r
      BY <2>5
    <3>2. [r EXCEPT !.runError = TRUE].completes = r.completes
      BY <1>0 DEF Members
    <3>3. r'.completes = r.completes
      BY <2>2, <3>1, <3>2
    <3> QED BY <1>0, <3>3
  <2> QED BY <2>4, <2>5
<1>7. CASE Stop \/ Stopped \/ Pause \/ CompleteConnect \/ BreakConnect
           \/ BeginFlush \/ FlushBegun \/ EndFlush \/ OnDisplayChange
  BY <1>0, <1>7, CallsSendNothing
<1>8. CASE PrepareReceive \/ Prepared \/ FirstSample \/ StateComplete \/ Released
           \/ TimeArrives \/ SignalTimerFired \/ AdviseFires
  BY <1>0, <1>8, ThreadSendsNothing
<1> QED
  BY <1>2, <1>3, <1>4, <1>5, <1>6, <1>7, <1>8 DEF RendererNext, Application, StreamingThread

(***************************************************************************)
(* EC_COMPLETE is sent once in a run of the stream, by a running renderer, *)
(* when no sample is left before the end of the stream, or after an error. *)
(***************************************************************************)
THEOREM CompletesOnce == RendererSpec => CompleteOnceAtTheEnd
<1>1. RendererInv /\ [RendererNext]_rvars =>
        [r'.completes > r.completes =>
           /\ r'.completes = 1 /\ r'.streaming
           /\ stream = "failed" \/ (r'.eos /\ r'.held = "none")]_rvars
  BY CompletionStep
<1> QED
  BY <1>1, RendererInvariant, PTL DEF RendererSpec, CompleteOnceAtTheEnd

-----------------------------------------------------------------------------
(* Stream control.  MAX_TIME is no time a command can have.                *)

Commands == StreamTimes \cup {MaxTimeStamp}

ControlMembers ==
  [state : {"flowing", "discarding"}, onStop : {"flowing", "discarding"},
   tStart : Commands, tStop : Commands, filter : {"Stopped", "Paused", "Running"},
   flushing : BOOLEAN, sendExtra : BOOLEAN, extraSent : BOOLEAN, event : BOOLEAN,
   hasClock : BOOLEAN]

ControlTypes ==
  /\ sc \in ControlMembers
  /\ sample \in SampleTimes \cup {NoSample}
  /\ verdict \in {"flowing", "discarding", "asked", "timing", "late", "extra", "early", "blocked"}

ControlInv == ControlTypes /\ ControlReleases

LEMMA TimesBelowMax ==
  /\ MaxTimeStamp \in Nat /\ Commands \subseteq Nat
  /\ \A t \in StreamTimes : t \in Nat /\ t < MaxTimeStamp
<1>1. MaxTimeStamp \in Nat
  BY DEF MaxTimeStamp
<1> QED BY <1>1, StreamTimesAreNumbers DEF Commands

\* What executing a command changes.
LEMMA CommandsExecuted ==
  ASSUME NEW x \in ControlMembers
  PROVE  /\ ExecuteStart(x) \in ControlMembers
         /\ ExecuteStart(x).state = "flowing" /\ ExecuteStart(x).tStart = MaxTimeStamp
         /\ ExecuteStart(x).tStop = x.tStop /\ ExecuteStart(x).onStop = x.onStop
         /\ ExecuteStop(x) \in ControlMembers
         /\ ExecuteStop(x).state = x.onStop /\ ExecuteStop(x).tStop = MaxTimeStamp
         /\ ExecuteStop(x).tStart = x.tStart /\ ExecuteStop(x).onStop = "flowing"
         /\ \A y \in {ExecuteStart(x), ExecuteStop(x)} :
              y.filter = x.filter /\ y.flushing = x.flushing /\ y.event = x.event
<1>0. MaxTimeStamp \in Commands
  BY DEF Commands
<1>1. ASSUME NEW y \in ControlMembers
      PROVE  CancelStart(y) \in ControlMembers /\ CancelStop(y) \in ControlMembers
  BY <1>0 DEF CancelStart, CancelStop, ControlMembers
<1>2. [x EXCEPT !.state = "flowing"] \in ControlMembers /\ [x EXCEPT !.state = x.onStop] \in ControlMembers
  BY DEF ControlMembers
<1>3. ExecuteStart(x) \in ControlMembers /\ ExecuteStop(x) \in ControlMembers
  BY <1>1, <1>2 DEF ExecuteStart, ExecuteStop
<1>4. /\ ExecuteStart(x).state = "flowing" /\ ExecuteStart(x).tStart = MaxTimeStamp
      /\ ExecuteStart(x).tStop = x.tStop /\ ExecuteStart(x).onStop = x.onStop
      /\ ExecuteStart(x).filter = x.filter /\ ExecuteStart(x).flushing = x.flushing
      /\ ExecuteStart(x).event = x.event
  BY DEF ExecuteStart, CancelStart, ControlMembers
<1>5. /\ ExecuteStop(x).state = x.onStop /\ ExecuteStop(x).tStop = MaxTimeStamp
      /\ ExecuteStop(x).tStart = x.tStart /\ ExecuteStop(x).onStop = "flowing"
      /\ ExecuteStop(x).filter = x.filter /\ ExecuteStop(x).flushing = x.flushing
      /\ ExecuteStop(x).event = x.event
  BY DEF ExecuteStop, CancelStop, ControlMembers
<1> QED BY <1>3, <1>4, <1>5

\* Commands in the order of their times: the later one decides.
LEMMA OrderedExecution ==
  ASSUME NEW x \in ControlMembers
  PROVE  /\ InOrder(x) \in ControlMembers
         /\ InOrder(x).state = IF x.tStart <= x.tStop THEN x.onStop ELSE "flowing"
         /\ InOrder(x).tStart = MaxTimeStamp /\ InOrder(x).tStop = MaxTimeStamp
         /\ InOrder(x).filter = x.filter /\ InOrder(x).flushing = x.flushing /\ InOrder(x).event = x.event
<1> DEFINE a == ExecuteStart(x)
           b == ExecuteStop(x)
<1>1. /\ a \in ControlMembers /\ a.tStart = MaxTimeStamp /\ a.onStop = x.onStop
      /\ b \in ControlMembers /\ b.tStop = MaxTimeStamp
      /\ a.filter = x.filter /\ a.flushing = x.flushing /\ a.event = x.event
      /\ b.filter = x.filter /\ b.flushing = x.flushing /\ b.event = x.event
  BY CommandsExecuted
<1>2. InOrder(x) = IF x.tStart <= x.tStop THEN ExecuteStop(a) ELSE ExecuteStart(b)
  BY DEF InOrder
<1> HIDE DEF a, b
<1>3. /\ ExecuteStop(a) \in ControlMembers /\ ExecuteStop(a).state = a.onStop
      /\ ExecuteStop(a).tStop = MaxTimeStamp /\ ExecuteStop(a).tStart = a.tStart
      /\ ExecuteStop(a).filter = a.filter /\ ExecuteStop(a).flushing = a.flushing /\ ExecuteStop(a).event = a.event
  BY <1>1, CommandsExecuted
<1>4. /\ ExecuteStart(b) \in ControlMembers /\ ExecuteStart(b).state = "flowing"
      /\ ExecuteStart(b).tStart = MaxTimeStamp /\ ExecuteStart(b).tStop = b.tStop
      /\ ExecuteStart(b).filter = b.filter /\ ExecuteStart(b).flushing = b.flushing /\ ExecuteStart(b).event = b.event
  BY <1>1, CommandsExecuted
<1> QED BY <1>1, <1>2, <1>3, <1>4

\* The outcome of CheckSampleTimes in each of its five ways.
LEMMA SampleChecked ==
  ASSUME NEW x \in ControlMembers, NEW s \in SampleTimes
  PROVE  LET y == CheckSampleTimes(x, s) IN
         /\ y \in ControlMembers
         /\ y.filter = x.filter /\ y.flushing = x.flushing /\ y.event = x.event
         /\ x.tStop >= s.from /\ x.tStart >= s.to => y = x
         /\ x.tStop >= s.from /\ ~(x.tStart >= s.to) =>
              /\ y.state = "flowing" /\ y.tStart = MaxTimeStamp
              /\ y.tStop = IF x.tStop < x.tStart THEN MaxTimeStamp ELSE x.tStop
         /\ ~(x.tStop >= s.from) /\ x.tStart >= s.to =>
              y.state = x.onStop /\ y.tStart = x.tStart /\ y.tStop = MaxTimeStamp
         /\ ~(x.tStop >= s.from) /\ ~(x.tStart >= s.to) =>
              /\ y.state = IF x.tStart <= x.tStop THEN x.onStop ELSE "flowing"
              /\ y.tStart = MaxTimeStamp /\ y.tStop = MaxTimeStamp
<1> DEFINE b == ExecuteStop(x)
           y == CheckSampleTimes(x, s)
<1>1. /\ b \in ControlMembers /\ b.tStop = MaxTimeStamp /\ b.state = x.onStop /\ b.tStart = x.tStart
      /\ b.filter = x.filter /\ b.flushing = x.flushing /\ b.event = x.event
  BY CommandsExecuted
<1>2. /\ x.tStop >= s.from /\ x.tStart >= s.to => y = x
      /\ x.tStop >= s.from /\ ~(x.tStart >= s.to) =>
           y = ExecuteStart(IF x.tStop < x.tStart THEN b ELSE x)
      /\ ~(x.tStop >= s.from) /\ x.tStart >= s.to => y = b
      /\ ~(x.tStop >= s.from) /\ ~(x.tStart >= s.to) => y = InOrder(x)
  BY DEF CheckSampleTimes
<1> HIDE DEF b, y
<1>3. ASSUME NEW z \in {x, b}
      PROVE  /\ ExecuteStart(z) \in ControlMembers
             /\ ExecuteStart(z).state = "flowing" /\ ExecuteStart(z).tStart = MaxTimeStamp
             /\ ExecuteStart(z).tStop = z.tStop
             /\ ExecuteStart(z).filter = z.filter /\ ExecuteStart(z).flushing = z.flushing
             /\ ExecuteStart(z).event = z.event
  BY <1>1, CommandsExecuted
<1>4. CASE x.tStop >= s.from /\ x.tStart >= s.to
  BY <1>2, <1>4 DEF y
<1>5. CASE x.tStop >= s.from /\ ~(x.tStart >= s.to)
  BY <1>1, <1>2, <1>3, <1>5 DEF y
<1>6. CASE ~(x.tStop >= s.from) /\ x.tStart >= s.to
  BY <1>1, <1>2, <1>6 DEF y
<1>7. CASE ~(x.tStop >= s.from) /\ ~(x.tStart >= s.to)
  BY <1>2, <1>7, OrderedExecution DEF y
<1> QED BY <1>4, <1>5, <1>6, <1>7

\* The nineteen cases, whatever commands are pending.
LEMMA TableHolds ==
  ASSUME sc \in ControlMembers
  PROVE  SampleTableHolds
<1> SUFFICES ASSUME NEW s \in SampleTimes, s.from < s.to
             PROVE  LET x == Place(sc.tStart, s)
                        o == Place(sc.tStop, s)
                        done == CheckSampleTimes(sc, s)
                    IN  /\ done.state = CASE x = "before" /\ o = "before" ->
                                               IF sc.tStart <= sc.tStop THEN sc.onStop ELSE "flowing"
                                          [] x \in {"before", "inside"} /\ ~(x = "before" /\ o = "before") ->
                                               "flowing"
                                          [] x = "after" /\ o = "before" -> sc.onStop
                                          [] x = "after" /\ o # "before" -> sc.state
                        /\ (done.tStart = MaxTimeStamp) = (x # "after" \/ sc.tStart = MaxTimeStamp)
                        /\ (done.tStop = MaxTimeStamp) =
                             (\/ sc.tStop = MaxTimeStamp
                              \/ o = "before"
                              \/ o = "inside" /\ x # "after" /\ sc.tStop < sc.tStart)
  BY DEF SampleTableHolds
<1> DEFINE x == Place(sc.tStart, s)
           o == Place(sc.tStop, s)
           done == CheckSampleTimes(sc, s)
<1>1. /\ sc.tStart \in Nat /\ sc.tStop \in Nat /\ s.from \in Nat /\ s.to \in Nat
      /\ s.to < MaxTimeStamp /\ MaxTimeStamp \in Nat
  <2>1. sc.tStart \in Commands /\ sc.tStop \in Commands
    BY DEF ControlMembers
  <2>2. s.from \in StreamTimes /\ s.to \in StreamTimes
    BY DEF SampleTimes
  <2> QED BY <2>1, <2>2, TimesBelowMax
<1>2. /\ x = "before" <=> sc.tStart < s.from
      /\ x = "after" <=> sc.tStart >= s.to
      /\ o = "before" <=> sc.tStop < s.from
      /\ o = "after" <=> sc.tStop >= s.to
      /\ x \in {"before", "inside", "after"} /\ o \in {"before", "inside", "after"}
  BY <1>1 DEF Place
<1>3. /\ sc.tStop >= s.from /\ sc.tStart >= s.to => done = sc
      /\ sc.tStop >= s.from /\ ~(sc.tStart >= s.to) =>
           /\ done.state = "flowing" /\ done.tStart = MaxTimeStamp
           /\ done.tStop = IF sc.tStop < sc.tStart THEN MaxTimeStamp ELSE sc.tStop
      /\ ~(sc.tStop >= s.from) /\ sc.tStart >= s.to =>
           done.state = sc.onStop /\ done.tStart = sc.tStart /\ done.tStop = MaxTimeStamp
      /\ ~(sc.tStop >= s.from) /\ ~(sc.tStart >= s.to) =>
           /\ done.state = IF sc.tStart <= sc.tStop THEN sc.onStop ELSE "flowing"
           /\ done.tStart = MaxTimeStamp /\ done.tStop = MaxTimeStamp
  BY SampleChecked
<1> HIDE DEF x, o, done
<1>4. /\ done.state = CASE x = "before" /\ o = "before" ->
                             IF sc.tStart <= sc.tStop THEN sc.onStop ELSE "flowing"
                        [] x \in {"before", "inside"} /\ ~(x = "before" /\ o = "before") ->
                             "flowing"
                        [] x = "after" /\ o = "before" -> sc.onStop
                        [] x = "after" /\ o # "before" -> sc.state
  <2>1. CASE x = "before" /\ o = "before"
    BY <1>1, <1>2, <1>3, <2>1
  <2>2. CASE x \in {"before", "inside"} /\ ~(x = "before" /\ o = "before")
    BY <1>1, <1>2, <1>3, <2>2
  <2>3. CASE x = "after" /\ o = "before"
    BY <1>1, <1>2, <1>3, <2>3
  <2>4. CASE x = "after" /\ o # "before"
    BY <1>1, <1>2, <1>3, <2>4
  <2> QED BY <1>2, <2>1, <2>2, <2>3, <2>4
<1>5. (done.tStart = MaxTimeStamp) = (x # "after" \/ sc.tStart = MaxTimeStamp)
  BY <1>1, <1>2, <1>3
<1>6. (done.tStop = MaxTimeStamp) =
        (\/ sc.tStop = MaxTimeStamp
         \/ o = "before"
         \/ o = "inside" /\ x # "after" /\ sc.tStop < sc.tStart)
  <2>1. CASE o = "before"
    <3>1. done.tStop = MaxTimeStamp
      BY <1>1, <1>2, <1>3, <2>1
    <3> QED BY <2>1, <3>1, Zenon
  <2>2. CASE o # "before" /\ x = "after"
    <3>1. done.tStop = sc.tStop
      BY <1>1, <1>2, <1>3, <2>2
    <3> QED BY <2>2, <3>1, Zenon
  <2>3. CASE o = "inside" /\ x # "after"
    <3>1. done.tStop = IF sc.tStop < sc.tStart THEN MaxTimeStamp ELSE sc.tStop
      BY <1>1, <1>2, <1>3, <2>3
    <3>2. sc.tStop # MaxTimeStamp /\ o # "before"
      BY <1>1, <1>2, <2>3
    <3> QED BY <2>3, <3>1, <3>2, Zenon
  <2>4. CASE o = "after" /\ x # "after"
    <3>1. done.tStop = sc.tStop /\ ~(sc.tStop < sc.tStart)
      BY <1>1, <1>2, <1>3, <2>4
    <3>2. o # "before" /\ o # "inside"
      BY <2>4
    <3> QED BY <3>1, <3>2, Zenon
  <2> QED BY <1>2, <2>1, <2>2, <2>3, <2>4
<1> QED BY <1>4, <1>5, <1>6 DEF x, o, done

\* A change of the members and nothing else.
LEMMA CommandTypes ==
  ASSUME ControlTypes, NEW x \in ControlMembers, Command(x)
  PROVE  ControlTypes'
BY DEF Command, ControlTypes

\* A call that starts or stops the stream: the event is only ever set, and the
\* filter and the flush stay as they are.
LEMMA CallsKeep ==
  ASSUME ControlInv, StopAt \/ StartAt
  PROVE  ControlInv'
<1> DEFINE Keeps(x) == /\ x \in ControlMembers
                      /\ x.filter = sc.filter /\ x.flushing = sc.flushing
                      /\ (x.event = sc.event \/ x.event = TRUE)
<1>0. sc \in ControlMembers /\ MaxTimeStamp \in Commands /\ StreamTimes \subseteq Commands
  BY DEF ControlInv, ControlTypes, Commands
<1>1. ASSUME NEW x, Keeps(x) PROVE Keeps(Wake(x))
  BY <1>1 DEF Wake, ControlMembers
<1>2. ASSUME NEW x, Keeps(x), NEW st \in {"flowing", "discarding"}, NEW when
      PROVE  Keeps(Begins(x, st, when))
  BY <1>2 DEF Begins, ControlMembers
<1>3. ASSUME NEW x, Keeps(x), NEW e \in BOOLEAN
      PROVE  Keeps([x EXCEPT !.sendExtra = e, !.extraSent = FALSE])
  BY <1>3 DEF ControlMembers
<1>4. ASSUME NEW x, Keeps(x), NEW t \in Commands, NEW on \in {"flowing", "discarding"}
      PROVE  Keeps([x EXCEPT !.tStop = t, !.onStop = on]) /\ Keeps([x EXCEPT !.tStart = t])
  BY <1>4 DEF ControlMembers
<1>5. Keeps(sc)
  BY <1>0
<1>6. Keeps(CancelStop(sc)) /\ Keeps(CancelStart(sc)) /\ Keeps(ExecuteStart(sc))
  <2>1. Keeps(CancelStop(sc)) /\ Keeps(CancelStart(sc))
    BY <1>0, <1>4, <1>5 DEF CancelStop, CancelStart
  <2> QED BY <1>0, <2>1, CommandsExecuted
<1>7. PICK x : Keeps(x) /\ Command(x)
  <2>1. ASSUME NEW t \in StreamTimes, NEW extra \in BOOLEAN
        PROVE  Keeps(Wake([Begins(sc, "flowing", sc.tStart > t) EXCEPT
                            !.sendExtra = extra, !.extraSent = FALSE,
                            !.tStop = t, !.onStop = "discarding"]))
    <3> DEFINE a == Begins(sc, "flowing", sc.tStart > t)
               b == [a EXCEPT !.sendExtra = extra, !.extraSent = FALSE]
    <3>1. Keeps(a) /\ Keeps(b)
      BY <1>2, <1>3, <1>5, ZenonT(40)
    <3>2. [a EXCEPT !.sendExtra = extra, !.extraSent = FALSE, !.tStop = t, !.onStop = "discarding"]
            = [b EXCEPT !.tStop = t, !.onStop = "discarding"]
      OBVIOUS
    <3> HIDE DEF a, b
    <3>3. Keeps([b EXCEPT !.tStop = t, !.onStop = "discarding"])
      BY <1>0, <1>4, <3>1
    <3> QED BY <1>1, <3>2, <3>3 DEF a
  <2>2. Keeps([Begins(CancelStop(sc), "discarding", sc.tStart < MaxTimeStamp) EXCEPT
                !.sendExtra = FALSE, !.extraSent = FALSE])
    BY <1>2, <1>3, <1>6
  <2>3. Keeps(Wake([sc EXCEPT !.sendExtra = FALSE, !.extraSent = FALSE,
                     !.tStop = MaxTimeStamp, !.state = "discarding", !.onStop = "flowing"]))
    <3> DEFINE a == [sc EXCEPT !.sendExtra = FALSE, !.extraSent = FALSE]
               b == [a EXCEPT !.tStop = MaxTimeStamp, !.onStop = "flowing"]
               d == [b EXCEPT !.state = "discarding"]
    <3>1. Keeps(b)
      BY <1>0, <1>3, <1>4, <1>5, ZenonT(40)
    <3>2. Keeps(d)
      BY <3>1 DEF ControlMembers
    <3>3. [sc EXCEPT !.sendExtra = FALSE, !.extraSent = FALSE,
             !.tStop = MaxTimeStamp, !.state = "discarding", !.onStop = "flowing"] = d
      BY <1>0 DEF ControlMembers
    <3> HIDE DEF d
    <3> QED BY <1>1, <3>2, <3>3
  <2>4. ASSUME NEW t \in StreamTimes
        PROVE  Keeps(Wake([Begins(sc, "discarding", sc.tStop >= t) EXCEPT !.tStart = t]))
    <3> DEFINE a == Begins(sc, "discarding", sc.tStop >= t)
    <3>1. Keeps(a) /\ t \in Commands
      BY <1>0, <1>2, <1>5
    <3> HIDE DEF a
    <3>2. Keeps([a EXCEPT !.tStart = t])
      BY <1>4, <3>1
    <3> QED BY <1>1, <3>2 DEF a
  <2>5. Keeps(Begins(CancelStart(sc), "flowing", sc.tStop < MaxTimeStamp)) /\ Keeps(Wake(ExecuteStart(sc)))
    BY <1>1, <1>2, <1>6
  <2> HIDE DEF Keeps
  <2> QED BY <2>1, <2>2, <2>3, <2>4, <2>5 DEF StopAt, StartAt
<1>8. ControlTypes'
  BY <1>7, CommandTypes DEF ControlInv
<1>9. ControlReleases'
  BY <1>7 DEF Command, ControlInv, ControlReleases
<1> QED BY <1>8, <1>9 DEF ControlInv

\* Flushes, and the states of the filter, set the event.
LEMMA StatesKeep ==
  ASSUME ControlInv, Flushing \/ NotifyFilterState
  PROVE  ControlInv'
<1>0. sc \in ControlMembers
  BY DEF ControlInv, ControlTypes
<1>1. CASE Flushing
  <2>1. PICK b \in BOOLEAN : Command(Wake([sc EXCEPT !.flushing = b]))
    BY <1>1 DEF Flushing
  <2>2. Wake([sc EXCEPT !.flushing = b]) \in ControlMembers /\ Wake([sc EXCEPT !.flushing = b]).event = TRUE
    BY <1>0 DEF Wake, ControlMembers
  <2>3. ControlTypes'
    BY <2>1, <2>2, CommandTypes DEF ControlInv
  <2> QED BY <2>1, <2>2, <2>3 DEF Command, ControlInv, ControlReleases
<1>2. CASE NotifyFilterState
  <2> DEFINE pending ==
               IF sc.tStop = MaxTimeStamp /\ sc.tStart = MaxTimeStamp THEN sc
               ELSE IF sc.tStop = MaxTimeStamp THEN ExecuteStart(sc)
               ELSE IF sc.tStart = MaxTimeStamp THEN ExecuteStop(sc)
               ELSE InOrder(sc)
             x(new) == IF new = "Stopped" THEN [pending EXCEPT !.state = "flowing"] ELSE sc
  <2>1. PICK new \in {"Stopped", "Paused", "Running"} : Command(Wake([x(new) EXCEPT !.filter = new]))
    BY <1>2 DEF NotifyFilterState
  <2>2. pending \in ControlMembers
    BY <1>0, CommandsExecuted, OrderedExecution
  <2> HIDE DEF pending
  <2>3. x(new) \in ControlMembers
    BY <1>0, <2>2 DEF ControlMembers
  <2> HIDE DEF x
  <2>4. /\ Wake([x(new) EXCEPT !.filter = new]) \in ControlMembers
        /\ Wake([x(new) EXCEPT !.filter = new]).event = TRUE
    BY <2>3 DEF Wake, ControlMembers
  <2>5. ControlTypes'
    BY <2>1, <2>4, CommandTypes DEF ControlInv
  <2> QED BY <2>1, <2>4, <2>5 DEF Command, ControlInv, ControlReleases
<1> QED BY <1>1, <1>2

\* The places of CheckStreamState: the thread goes past the head of the loop only
\* when neither a flush nor a stop asks it to leave, and only the head of the
\* loop comes after a reset of the event.
LEMMA ChecksKeep ==
  ASSUME ControlInv,
         \/ CheckStreamState \/ SomethingBreaksOut \/ TimesAreChecked \/ ExtraFrame
         \/ DiscardOrWait \/ WaitFires \/ WaitExpires
  PROVE  ControlInv'
<1>0. /\ sc \in ControlMembers /\ sample \in SampleTimes \cup {NoSample}
      /\ sc.state \in {"flowing", "discarding"}
  BY DEF ControlInv, ControlTypes, ControlMembers
<1>1. ASSUME NEW x \in ControlMembers, NEW answer \in {"flowing", "discarding"}, Answer(x, answer)
      PROVE  ControlInv'
  BY <1>1 DEF Answer, ControlInv, ControlTypes, ControlReleases
<1>2. CASE CheckStreamState
  BY <1>2 DEF CheckStreamState, ControlInv, ControlTypes, ControlReleases
<1>3. CASE SomethingBreaksOut
  <2>1. CASE Answer(sc, "discarding")
    BY <1>0, <1>1, <2>1
  <2>2. CASE Goes("timing") /\ ~(sc.flushing \/ sc.filter = "Stopped")
    BY <2>2 DEF Goes, ControlInv, ControlTypes, ControlReleases
  <2> QED BY <1>3, <2>1, <2>2 DEF SomethingBreaksOut
<1>4. CASE TimesAreChecked
  <2> DEFINE y == CheckSampleTimes(sc, sample)
  <2>1. CASE Answer(sc, sc.state)
    BY <1>0, <1>1, <2>1
  <2>2. CASE sample # NoSample
    <3>1. y \in ControlMembers /\ y.filter = sc.filter /\ y.flushing = sc.flushing /\ y.event = sc.event
      BY <1>0, <2>2, SampleChecked
    <3>2. verdict = "timing" /\ (Answer(y, "flowing") \/ (sc' = y /\ verdict' = "late" /\ UNCHANGED sample))
      BY <1>4, <2>2 DEF TimesAreChecked
    <3> HIDE DEF y
    <3>3. CASE Answer(y, "flowing")
      BY <1>1, <3>1, <3>3
    <3>4. CASE sc' = y /\ verdict' = "late" /\ UNCHANGED sample
      BY <3>1, <3>2, <3>4 DEF ControlInv, ControlTypes, ControlReleases
    <3> QED BY <3>2, <3>3, <3>4
  <2> QED BY <1>4, <2>1, <2>2 DEF TimesAreChecked
<1>5. CASE ExtraFrame
  <2>1. CASE verdict = "late" /\ (Goes("extra") \/ Goes("early"))
    BY <2>1 DEF Goes, ControlInv, ControlTypes, ControlReleases
  <2>2. CASE Answer([sc EXCEPT !.extraSent = TRUE], "flowing")
    <3>1. [sc EXCEPT !.extraSent = TRUE] \in ControlMembers
      BY <1>0 DEF ControlMembers
    <3> QED BY <1>1, <2>2, <3>1
  <2> QED BY <1>5, <2>1, <2>2 DEF ExtraFrame
<1>6. CASE DiscardOrWait
  <2>1. CASE Answer(sc, "discarding")
    BY <1>0, <1>1, <2>1
  <2>2. CASE verdict = "early" /\ Goes("blocked")
    BY <2>2 DEF Goes, ControlInv, ControlTypes, ControlReleases
  <2> QED BY <1>6, <2>1, <2>2 DEF DiscardOrWait
<1>7. CASE WaitFires
  <2>1. [sc EXCEPT !.event = FALSE] \in ControlMembers
    BY <1>0 DEF ControlMembers
  <2> QED BY <1>7, <2>1 DEF WaitFires, ControlInv, ControlTypes, ControlReleases
<1>8. CASE WaitExpires
  BY <1>0, <1>1, <1>8 DEF WaitExpires
<1> QED BY <1>2, <1>3, <1>4, <1>5, <1>6, <1>7, <1>8

LEMMA ControlStart == ControlInit => ControlInv
<1> SUFFICES ASSUME ControlInit PROVE ControlInv
  OBVIOUS
<1>1. sc \in ControlMembers
  BY DEF ControlInit, ControlMembers, Commands
<1> QED BY <1>1 DEF ControlInit, ControlInv, ControlTypes, ControlReleases

LEMMA ControlStep == ControlInv /\ [ControlNext]_scvars => ControlInv'
<1>1. ASSUME ControlInv, UNCHANGED scvars PROVE ControlInv'
  BY <1>1 DEF scvars, ControlInv, ControlTypes, ControlReleases
<1> QED BY <1>1, CallsKeep, StatesKeep, ChecksKeep DEF ControlNext

(***************************************************************************)
(* Commands are carried out at the samples they name, whatever was asked   *)
(* for before, and a thread held back for one is let go.                   *)
(***************************************************************************)
THEOREM CommandsAreKept == ControlSpec => []StreamControlSafe
<1>1. ControlInv => StreamControlSafe
  BY TableHolds DEF ControlInv, ControlTypes, StreamControlSafe
<1> QED BY <1>1, ControlStart, ControlStep, PTL DEF ControlSpec

-----------------------------------------------------------------------------
(* The clock of the muxer.  First what wrapping does to a sum, for every    *)
(* modulus: the provers know the remainder, the quotient has to be shown    *)
(* to them.                                                                 *)

LEMMA Multiple ==
  ASSUME NEW w \in Nat \ {0}, NEW x \in Int, x % w = 0
  PROVE  \E k \in Int : x = w * k
  BY SMTT(20)

LEMMA MultipleIsEven ==
  ASSUME NEW w \in Nat \ {0}, NEW x \in Int, NEW k \in Int, x = w * k
  PROVE  x % w = 0
  BY SMTT(20)

LEMMA Quotient ==
  ASSUME NEW w \in Nat \ {0}, NEW x \in Int, NEW m \in Int, m = x % w
  PROVE  \E q \in Int : x = q * w + m
<1>1. ASSUME NEW q \in Int, q = x \div w
      PROVE  x = q * w + m
  BY <1>1, SMTT(20)
<1>2. x \div w \in Int
  OBVIOUS
<1> DEFINE q == x \div w
<1>3. q \in Int /\ q = x \div w
  BY <1>2
<1> HIDE DEF q
<1>4. x = q * w + m
  BY <1>1, <1>3, Zenon
<1> QED BY <1>3, <1>4, Zenon

LEMMA MultiplesAdd ==
  ASSUME NEW w \in Nat \ {0}, NEW a \in Int, NEW b \in Int, a % w = 0, b % w = 0
  PROVE  (a + b) % w = 0
<1>1. PICK k \in Int : a = w * k
  BY Multiple
<1>2. PICK l \in Int : b = w * l
  BY Multiple
<1>3. k + l \in Int /\ a + b \in Int /\ a + b = w * (k + l)
  BY <1>1, <1>2
<1> QED BY <1>3, MultipleIsEven

LEMMA RemainderOfSum ==
  ASSUME NEW w \in Nat \ {0}, NEW x \in 0 .. w - 1, NEW m \in Int, m % w = 0
  PROVE  (x + m) % w = x
  BY SMTT(20)

\* A time is no earlier than another for its turns, and a turn later if its remainder is less.
LEMMA TurnsInOrder ==
  ASSUME NEW w \in Nat \ {0}, NEW p \in Int, NEW q \in Int,
         NEW ra \in 0 .. w - 1, NEW rb \in 0 .. w - 1, p * w + ra <= q * w + rb
  PROVE  p <= q /\ (rb < ra => p + 1 <= q)
<1> DEFINE pw == p * w
           qw == q * w
<1>1. pw \in Int /\ qw \in Int /\ pw + ra <= qw + rb
  OBVIOUS
<1>2. q >= p
  <2> SUFFICES ASSUME q <= p - 1 PROVE FALSE
    OBVIOUS
  <2>1. q * w <= (p - 1) * w
    OBVIOUS
  <2>2. qw <= pw - w
    BY <2>1
  <2> HIDE DEF pw, qw
  <2> QED BY <1>1, <2>2
<1>3. ASSUME rb < ra PROVE q >= p + 1
  <2> SUFFICES ASSUME q <= p PROVE FALSE
    OBVIOUS
  <2>1. qw <= pw
    OBVIOUS
  <2> HIDE DEF pw, qw
  <2> QED BY <1>1, <1>3, <2>1
<1> QED BY <1>2, <1>3

-----------------------------------------------------------------------------
(* TickInv: the counter shows the time of the last call of GetTime but for *)
(* whole turns, within a Read since its call; a wait ends no earlier than  *)
(* the limit, and with it if it began within it.                           *)

TickTypes ==
  /\ ticks \in Nat
  /\ counter \in [offset : Int, last : 0 .. Wrap - 1]
  /\ read \in [at : {"idle", "limit", "waiting", "woken", "scanning", "timeout"}, end : Int, until : Int]
  /\ seen \in [last : Nat, call : Nat, missed : Int]

CountsTurns ==
  /\ counter.last = seen.last % Wrap
  /\ seen.call <= seen.last /\ seen.last <= ticks
  /\ WrapsAreCounted
  /\ read.at # "idle" =>
       Value(counter) = (read.end - TimeLimit) + (seen.last - seen.call) - seen.missed

WaitsForLimit ==
  /\ read.at = "waiting" => read.until >= seen.call + TimeLimit
  /\ WaitsAsLongAsLeft
  /\ NeverTooEarly

TickInv == TickTypes /\ CountsTurns /\ WaitsForLimit

LEMMA WrapsSomewhere == Wrap \in Nat \ {0} /\ TimeLimit \in Nat /\ TimeLimit < Wrap
  BY TicksAssumption

\* What one call of GetTime adds to the time missed: whole turns, never less than none.
LEMMA MissedTurns ==
  ASSUME TickTypes, counter.last = seen.last % Wrap, seen.last <= ticks,
         NEW d \in Int, d = (ticks - seen.last) - (Value(Counted(counter)) - Value(counter))
  PROVE  /\ d >= 0 /\ d % Wrap = 0
         /\ Counted(counter) \in [offset : Int, last : 0 .. Wrap - 1]
         /\ Counted(counter).last = ticks % Wrap
         /\ Value(Counted(counter)) \in Int /\ Value(counter) \in Int
<1> DEFINE w == Wrap
           a == seen.last
           b == ticks
           ra == counter.last
           rb == ticks % Wrap
<1>1. /\ w \in Nat \ {0} /\ a \in Nat /\ b \in Nat /\ a <= b
      /\ ra \in 0 .. w - 1 /\ rb \in 0 .. w - 1 /\ ra = a % w /\ rb = b % w
      /\ ra \in Int /\ rb \in Int /\ a \in Int /\ b \in Int
  BY WrapsSomewhere DEF TickTypes
<1>2. counter.offset \in Int
  BY DEF TickTypes
<1>3. /\ Counted(counter).offset = IF rb < ra THEN counter.offset + w ELSE counter.offset
      /\ Counted(counter).last = rb
      /\ Counted(counter) \in [offset : Int, last : 0 .. w - 1]
  BY <1>1, <1>2 DEF Counted, Wrapped
<1>4. d = (b - a) - ((rb + Counted(counter).offset) - (ra + counter.offset))
  BY <1>3 DEF Value
<1>5. /\ Value(Counted(counter)) \in Int /\ Value(counter) \in Int
  BY <1>1, <1>2, <1>3 DEF Value
<1> HIDE DEF w, a, b, ra, rb
<1> DEFINE more == Counted(counter).offset
           before == counter.offset
<1>m. more = (IF rb < ra THEN before + w ELSE before) /\ before \in Int
  BY <1>2, <1>3
<1>n. d = (b - a) - ((rb + more) - (ra + before))
  BY <1>4
<1> HIDE DEF more, before
<1>a. w \in Nat \ {0} /\ a \in Int /\ ra \in Int /\ ra = a % w
  BY <1>1, Zenon
<1>b. w \in Nat \ {0} /\ b \in Int /\ rb \in Int /\ rb = b % w
  BY <1>1, Zenon
<1>6. PICK p \in Int : a = p * w + ra
  BY <1>a, Quotient, Zenon
<1>7. PICK q \in Int : b = q * w + rb
  BY <1>b, Quotient, Zenon
<1> DEFINE pw == p * w
           qw == q * w
<1>c. pw \in Int /\ qw \in Int /\ a = pw + ra /\ b = qw + rb
  BY <1>1, <1>6, <1>7
<1>8. p <= q /\ (rb < ra => p + 1 <= q)
  <2>1. a <= b /\ ra \in 0 .. w - 1 /\ rb \in 0 .. w - 1
    BY <1>1, Zenon
  <2>2. p * w + ra <= q * w + rb
    BY <1>6, <1>7, <2>1, Zenon
  <2> QED BY <1>a, <2>1, <2>2, TurnsInOrder, Zenon
<1>9. d >= 0 /\ d % w = 0
  <2>1. CASE rb < ra
    <3> DEFINE k == q - p - 1
    <3>0. w * k = qw - pw - w
      BY <1>1
    <3>1. d = w * k
      <4> HIDE DEF pw, qw
      <4>1. d = qw - pw - w
        BY <1>1, <1>c, <1>m, <1>n, <2>1
      <4> QED BY <3>0, <4>1, Zenon
    <3>2. k \in Int /\ k >= 0
      BY <1>8, <2>1
    <3> HIDE DEF k
    <3>3. d >= 0
      BY <1>1, <3>1, <3>2
    <3>4. d % w = 0
      BY <1>1, <3>1, <3>2, MultipleIsEven
    <3> QED BY <3>3, <3>4
  <2>2. CASE ~(rb < ra)
    <3> DEFINE k == q - p
    <3>0. w * k = qw - pw
      BY <1>1
    <3>1. d = w * k
      <4> HIDE DEF pw, qw
      <4>1. d = qw - pw
        BY <1>1, <1>c, <1>m, <1>n, <2>2
      <4> QED BY <3>0, <4>1, Zenon
    <3>2. k \in Int /\ k >= 0
      BY <1>8
    <3> HIDE DEF k
    <3>3. d >= 0
      BY <1>1, <3>1, <3>2
    <3>4. d % w = 0
      BY <1>1, <3>1, <3>2, MultipleIsEven
    <3> QED BY <3>3, <3>4
  <2> QED BY <2>1, <2>2
<1> QED BY <1>3, <1>5, <1>9 DEF w, rb

\* What a call of GetTime leaves, in a Read or before one.
LEMMA GetTimeCounts ==
  ASSUME TickTypes, CountsTurns, GetTime
  PROVE  /\ counter' = Counted(counter)
         /\ counter' \in [offset : Int, last : 0 .. Wrap - 1]
         /\ seen' \in [last : Nat, call : Nat, missed : Int]
         /\ seen'.last = ticks /\ seen'.call = seen.call
         /\ counter'.last = seen'.last % Wrap
         /\ seen'.missed >= 0 /\ seen'.missed % Wrap = 0
         /\ Value(Counted(counter)) \in Int
         /\ read.at # "idle" =>
              Value(Counted(counter)) = (read.end - TimeLimit) + (ticks - seen.call) - seen'.missed
<1> DEFINE new == Value(Counted(counter))
           old == Value(counter)
           d == (ticks - seen.last) - (new - old)
<1>1. /\ seen.last \in Nat /\ seen.call \in Nat /\ seen.missed \in Int /\ ticks \in Nat
      /\ seen.last <= ticks /\ counter.last = seen.last % Wrap
      /\ seen.missed >= 0 /\ seen.missed % Wrap = 0 /\ read.end \in Int
  BY DEF TickTypes, CountsTurns, WrapsAreCounted
<1>2. counter.offset \in Int /\ counter.last \in Int
  BY WrapsSomewhere DEF TickTypes
<1>3. new \in Int /\ old \in Int
  <2>1. Counted(counter).offset \in Int /\ Counted(counter).last \in Int
    BY <1>1, <1>2, WrapsSomewhere DEF Counted
  <2> QED BY <1>2, <2>1 DEF Value
<1>4. /\ counter' = Counted(counter)
      /\ seen' = [seen EXCEPT !.last = ticks, !.missed = @ + d]
  BY DEF GetTime
<1>5. read.at # "idle" => old = (read.end - TimeLimit) + (seen.last - seen.call) - seen.missed
  BY DEF CountsTurns
<1> HIDE DEF new, old
<1>6. d \in Int
  BY <1>1, <1>3
<1>7. /\ d >= 0 /\ d % Wrap = 0
      /\ Counted(counter) \in [offset : Int, last : 0 .. Wrap - 1]
      /\ Counted(counter).last = ticks % Wrap
  BY <1>1, <1>6, MissedTurns DEF new, old
<1>8. new = old + (ticks - seen.last) - d
  BY <1>1, <1>3
<1> HIDE DEF d
<1>9. seen'.last = ticks /\ seen'.call = seen.call /\ seen'.missed = seen.missed + d
  BY <1>4 DEF TickTypes
<1>10. seen' \in [last : Nat, call : Nat, missed : Int]
  <2> DEFINE missed == seen.missed + d
  <2>1. seen' = [seen EXCEPT !.last = ticks, !.missed = missed]
    BY <1>4
  <2>2. missed \in Int /\ ticks \in Nat
    BY <1>1, <1>6
  <2> HIDE DEF missed
  <2>3. [seen EXCEPT !.last = ticks, !.missed = missed] \in [last : Nat, call : Nat, missed : Int]
    BY <2>2 DEF TickTypes
  <2> QED BY <2>1, <2>3
<1>11. seen'.missed >= 0 /\ seen'.missed % Wrap = 0
  <2>1. (seen.missed + d) % Wrap = 0
    BY <1>1, <1>6, <1>7, WrapsSomewhere, MultiplesAdd
  <2> QED BY <1>1, <1>6, <1>7, <1>9, <2>1
<1>12. read.at # "idle" => new = (read.end - TimeLimit) + (ticks - seen.call) - seen'.missed
  BY <1>1, <1>3, <1>5, <1>6, <1>8, <1>9, WrapsSomewhere
<1> QED BY <1>3, <1>4, <1>7, <1>9, <1>10, <1>11, <1>12 DEF new

LEMMA TickStep ==
  ASSUME TickInv, [TickNext]_tickVars
  PROVE  TickInv'
<1>0. TickTypes /\ CountsTurns /\ WaitsForLimit
  BY DEF TickInv
<1>t. /\ ticks \in Nat /\ seen.last \in Nat /\ seen.call \in Nat /\ seen.missed \in Int
      /\ seen.call <= seen.last /\ seen.last <= ticks
      /\ read.end \in Int /\ read.until \in Int
      /\ read = [at |-> read.at, end |-> read.end, until |-> read.until]
      /\ Wrap \in Nat /\ TimeLimit \in Nat
  BY <1>0, WrapsSomewhere DEF TickTypes, CountsTurns
<1>1. CASE TickPasses
  <2>1. ticks' = ticks + 1 /\ counter' = counter /\ read' = read /\ seen' = seen
    BY <1>1 DEF TickPasses
  <2>2. TickTypes'
    BY <1>0, <1>t, <2>1 DEF TickTypes
  <2>3. CountsTurns'
    BY <1>0, <1>t, <2>1 DEF CountsTurns, WrapsAreCounted, Value
  <2>4. WaitsForLimit'
    BY <1>0, <1>t, <2>1 DEF WaitsForLimit, WaitsAsLongAsLeft, NeverTooEarly
  <2> QED BY <2>2, <2>3, <2>4 DEF TickInv
<1>2. CASE BeginRead
  <2> DEFINE new == Value(Counted(counter))
  <2>1. /\ counter' = Counted(counter) /\ ticks' = ticks
        /\ seen' = [last |-> ticks, call |-> ticks, missed |-> 0]
        /\ read' = [at |-> "limit", end |-> new + TimeLimit, until |-> 0]
    BY <1>2 DEF BeginRead
  <2>2. /\ counter' \in [offset : Int, last : 0 .. Wrap - 1] /\ counter'.last = ticks % Wrap
        /\ new \in Int
    <3> DEFINE d == (ticks - seen.last) - (new - Value(counter))
    <3>1. d \in Int
      BY <1>0, WrapsSomewhere DEF TickTypes, Value, Counted
    <3>2. counter.last = seen.last % Wrap
      BY <1>0 DEF CountsTurns
    <3> QED BY <1>0, <1>t, <2>1, <3>1, <3>2, MissedTurns
  <2>3. Value(counter)' = new
    BY <2>1 DEF Value
  <2> HIDE DEF new
  <2>4. TickTypes'
    BY <1>t, <2>1, <2>2 DEF TickTypes
  <2>5. 0 % Wrap = 0
    BY WrapsSomewhere
  <2>6. CountsTurns'
    BY <1>t, <2>1, <2>2, <2>3, <2>5 DEF CountsTurns, WrapsAreCounted
  <2>7. WaitsForLimit'
    BY <2>1 DEF WaitsForLimit, WaitsAsLongAsLeft, NeverTooEarly
  <2> QED BY <2>4, <2>6, <2>7 DEF TickInv
<1>3. CASE BeginWait
  <2> DEFINE new == Value(Counted(counter))
             left == (read.end - new) % Wrap
  <2>1. /\ read.at = "limit" /\ GetTime /\ ticks' = ticks
        /\ read' = [read EXCEPT !.at = "waiting", !.until = ticks + left]
    BY <1>3 DEF BeginWait
  <2>2. /\ counter' \in [offset : Int, last : 0 .. Wrap - 1]
        /\ seen' \in [last : Nat, call : Nat, missed : Int]
        /\ seen'.last = ticks /\ seen'.call = seen.call
        /\ counter'.last = seen'.last % Wrap
        /\ seen'.missed >= 0 /\ seen'.missed % Wrap = 0
        /\ new \in Int /\ Value(counter)' = new
        /\ new = (read.end - TimeLimit) + (ticks - seen.call) - seen'.missed
    BY <1>0, <2>1, GetTimeCounts DEF Value
  <2> HIDE DEF new
  <2>3. left \in 0 .. Wrap - 1
    BY <1>t, <2>2, WrapsSomewhere
  <2>4. ticks - seen.call <= TimeLimit => left = TimeLimit - (ticks - seen.call)
    <3> SUFFICES ASSUME ticks - seen.call <= TimeLimit
                 PROVE  left = TimeLimit - (ticks - seen.call)
      OBVIOUS
    <3> DEFINE rest == TimeLimit - (ticks - seen.call)
               m == seen'.missed
    <3>1. rest \in 0 .. Wrap - 1 /\ m \in Int /\ m % Wrap = 0 /\ read.end - new = rest + m
      BY <1>t, <2>2, WrapsSomewhere
    <3> HIDE DEF rest, m
    <3>2. (rest + m) % Wrap = rest
      BY <3>1, WrapsSomewhere, RemainderOfSum
    <3> QED BY <3>1, <3>2 DEF rest
  <2> HIDE DEF left
  <2>5. /\ read'.at = "waiting" /\ read'.until = ticks + left /\ read'.end = read.end
        /\ read' \in [at : {"idle", "limit", "waiting", "woken", "scanning", "timeout"}, end : Int, until : Int]
    <3> DEFINE until == ticks + left
    <3>1. until \in Int /\ read' = [read EXCEPT !.at = "waiting", !.until = until]
      BY <1>t, <2>1, <2>3, WrapsSomewhere
    <3>2. until = ticks + left
      OBVIOUS
    <3> HIDE DEF until
    <3>3. read'.at = "waiting" /\ read'.until = until /\ read'.end = read.end
      BY <1>0, <3>1 DEF TickTypes
    <3>4. [read EXCEPT !.at = "waiting", !.until = until] \in
            [at : {"idle", "limit", "waiting", "woken", "scanning", "timeout"}, end : Int, until : Int]
      BY <1>0, <3>1 DEF TickTypes
    <3> QED BY <3>1, <3>2, <3>3, <3>4
  <2>6. TickTypes'
    BY <1>t, <2>1, <2>2, <2>5 DEF TickTypes
  <2>7. CountsTurns'
    BY <1>t, <2>1, <2>2, <2>5 DEF CountsTurns, WrapsAreCounted
  <2>8. WaitsForLimit'
    BY <1>t, <2>1, <2>2, <2>3, <2>4, <2>5 DEF WaitsForLimit, WaitsAsLongAsLeft, NeverTooEarly
  <2> QED BY <2>6, <2>7, <2>8 DEF TickInv
<1>4. ASSUME NEW at \in {"idle", "limit", "waiting", "woken", "scanning", "timeout"},
             read' = [read EXCEPT !.at = at], UNCHANGED <<ticks, counter, seen>>,
             read.at = "idle" => at = "idle", at # "waiting",
             at = "timeout" => ticks - seen.call >= TimeLimit
      PROVE  TickInv'
  <2>1. read'.at = at /\ read'.end = read.end /\ read'.until = read.until
    BY <1>0, <1>4 DEF TickTypes
  <2>2. TickTypes'
    BY <1>0, <1>4 DEF TickTypes
  <2>3. CountsTurns'
    BY <1>0, <1>4, <2>1 DEF CountsTurns, WrapsAreCounted, Value
  <2>4. WaitsForLimit'
    BY <1>0, <1>4, <2>1 DEF WaitsForLimit, WaitsAsLongAsLeft, NeverTooEarly
  <2> QED BY <2>2, <2>3, <2>4 DEF TickInv
<1>5. CASE EndWait
  BY <1>4, <1>5 DEF EndWait
<1>6. CASE WaitTimeout
  <2>1. ticks - seen.call >= TimeLimit
    BY <1>0, <1>t, <1>6 DEF WaitTimeout, WaitsForLimit
  <2> QED BY <1>4, <1>6, <2>1 DEF WaitTimeout
<1>7. CASE CheckLimit
  <2> DEFINE new == Value(Counted(counter))
             at == IF new > read.end THEN "timeout" ELSE "scanning"
  <2>1. /\ read.at = "woken" /\ GetTime /\ ticks' = ticks
        /\ read' = [read EXCEPT !.at = at]
    BY <1>7 DEF CheckLimit
  <2>2. /\ counter' \in [offset : Int, last : 0 .. Wrap - 1]
        /\ seen' \in [last : Nat, call : Nat, missed : Int]
        /\ seen'.last = ticks /\ seen'.call = seen.call
        /\ counter'.last = seen'.last % Wrap
        /\ seen'.missed >= 0 /\ seen'.missed % Wrap = 0
        /\ new \in Int /\ Value(counter)' = new
        /\ new = (read.end - TimeLimit) + (ticks - seen.call) - seen'.missed
    BY <1>0, <2>1, GetTimeCounts DEF Value
  <2> HIDE DEF new
  <2>3. at = "timeout" => ticks - seen.call >= TimeLimit
    BY <1>t, <2>2
  <2>4. at \in {"timeout", "scanning"}
    OBVIOUS
  <2> HIDE DEF at
  <2>5. /\ read'.at = at /\ read'.end = read.end
        /\ read' \in [at : {"idle", "limit", "waiting", "woken", "scanning", "timeout"}, end : Int, until : Int]
    BY <1>0, <2>1, <2>4 DEF TickTypes
  <2>6. TickTypes'
    BY <1>t, <2>1, <2>2, <2>5 DEF TickTypes
  <2>7. CountsTurns'
    BY <1>t, <2>1, <2>2, <2>5 DEF CountsTurns, WrapsAreCounted
  <2>8. WaitsForLimit'
    BY <1>t, <2>1, <2>2, <2>3, <2>4, <2>5 DEF WaitsForLimit, WaitsAsLongAsLeft, NeverTooEarly
  <2> QED BY <2>6, <2>7, <2>8 DEF TickInv
<1>8. CASE EndScan
  BY <1>4, <1>8 DEF EndScan
<1>9. CASE AfterTimeout
  BY <1>4, <1>9 DEF AfterTimeout
<1>10. CASE UNCHANGED tickVars
  <2>1. ticks' = ticks /\ counter' = counter /\ read' = read /\ seen' = seen
    BY <1>10 DEF tickVars
  <2> QED BY <1>0, <2>1 DEF TickInv, TickTypes, CountsTurns, WaitsForLimit, WrapsAreCounted,
            WaitsAsLongAsLeft, NeverTooEarly, Value
<1> QED BY <1>1, <1>2, <1>3, <1>5, <1>6, <1>7, <1>8, <1>9, <1>10 DEF TickNext

LEMMA TickStarts ==
  ASSUME TickInit
  PROVE  TickInv
<1>1. /\ ticks \in 0 .. Wrap - 1 /\ counter = [offset |-> 0, last |-> ticks]
      /\ read = [at |-> "idle", end |-> 0, until |-> 0]
      /\ seen = [last |-> ticks, call |-> ticks, missed |-> 0]
  BY DEF TickInit
<1>2. ticks \in Nat /\ ticks % Wrap = ticks /\ 0 % Wrap = 0
  BY <1>1, WrapsSomewhere
<1>3. TickTypes
  BY <1>1, <1>2 DEF TickTypes
<1>4. CountsTurns
  BY <1>1, <1>2 DEF CountsTurns, WrapsAreCounted
<1>5. WaitsForLimit
  BY <1>1 DEF WaitsForLimit, WaitsAsLongAsLeft, NeverTooEarly
<1> QED BY <1>3, <1>4, <1>5 DEF TickInv

(***************************************************************************)
(* For every limit below the modulus and any number of wraps: a Read that  *)
(* gives up has waited its whole limit, no wait counts a part of it twice, *)
(* and no wrap is counted that was not there.                              *)
(***************************************************************************)
THEOREM LimitsAreKept == TickSpec => []TimeLimitsKept
<1>1. TickInv => TimeLimitsKept
  BY DEF TickInv, CountsTurns, WaitsForLimit, TimeLimitsKept
<1> QED BY TickStarts, TickStep, <1>1, PTL DEF TickSpec

-----------------------------------------------------------------------------
(* The video renderer.  The time it takes a frame to be drawn at is one at *)
(* which a frame has been shown, or is about to be.                        *)

VideoMembers ==
  {"lastDraw", "renderAvg", "frameAvg", "duration", "renderLast", "waitAvg", "drawn", "dropped",
   "totAcc", "sumSqAcc", "sumFrame", "sumSqFrame", "frame", "late", "start", "normal",
   "earliness", "throttle"}

\* What is needed of a record of the members.
Timed(x) ==
  /\ DOMAIN x = VideoMembers
  /\ x.lastDraw \in Int /\ x.start \in Int /\ x.earliness \in Int /\ x.throttle \in Int
  /\ x.dropped \in Nat

VideoTypes ==
  /\ Timed(v) /\ frame \in {"none", "now", "due", "drawing"}
  /\ now \in Int /\ shown \in Int /\ file.n \in Nat

DrawnWhenShown ==
  /\ frame \in {"none", "drawing"} => v.lastDraw <= shown
  /\ frame = "now" => v.lastDraw <= now
  /\ frame = "due" => v.lastDraw = v.start

\* Before its first frame the renderer knows of no frame rate and of no time to draw.
FreshStart ==
  file.n = 0 => frame = "none" /\ v.renderAvg = 0 /\ v.duration = 0

VideoInv == VideoTypes /\ DrawnWhenShown /\ FreshStart

LEMMA DivIsInt ==
  ASSUME NEW a \in Int, NEW b \in Nat \ {0}
  PROVE  Div(a, b) \in Int
  BY DEF Div

\* What the three ways to deal with a frame leave of what VideoInv looks at.
LEMMA FrameDropped ==
  ASSUME NEW x, Timed(x), NEW late
  PROVE  /\ Timed(DropFrame(x, late))
         /\ DropFrame(x, late).lastDraw = x.lastDraw /\ DropFrame(x, late).dropped = x.dropped + 1
  BY DEF DropFrame, Timed, VideoMembers

LEMMA FrameAtOnce ==
  ASSUME NEW x, Timed(x), NEW late \in Int, NEW time \in Int, NEW between
  PROVE  /\ Timed(PlayAtOnce(x, time, late, between))
         /\ PlayAtOnce(x, time, late, between).lastDraw = time
         /\ PlayAtOnce(x, time, late, between).dropped = x.dropped
<1>1. Least(x.earliness, late) \in Int
  BY DEF Least, Timed
<1> QED BY <1>1 DEF PlayAtOnce, Timed, VideoMembers

IsInTime(y, x, late, time) ==
  /\ Timed(y) /\ y.dropped = x.dropped
  /\ late < 0 => y.lastDraw = y.start
  /\ ~(late < 0) => y.lastDraw = time

LEMMA FrameInTime ==
  ASSUME NEW x, Timed(x), NEW late \in Int, NEW time \in Int, NEW start \in Int,
         NEW duration \in Int, NEW between
  PROVE  IsInTime(PlayInTime(x, time, start, late, duration, between), x, late, time)
<1> DEFINE early == IF x.earliness < -duration THEN -duration ELSE x.earliness
           at == start + early
           y == PlayInTime(x, time, start, late, duration, between)
<1>1. at \in Int
  BY DEF Timed
<1>2. CASE late < 0
  BY <1>1, <1>2 DEF PlayInTime, Timed, VideoMembers, IsInTime
<1>3. CASE ~(late < 0)
  BY <1>1, <1>3 DEF PlayInTime, Timed, VideoMembers, IsInTime
<1> QED BY <1>2, <1>3

\* A step of the video renderer, and what it says of a frame it drops.
LEMMA VideoStep ==
  ASSUME VideoInv, VideoNext
  PROVE  VideoInv' /\ (v'.dropped > v.dropped => now' - shown <= Second /\ (file.n = 0 => file'.duration = 0))
<1>0. /\ Timed(v) /\ frame \in {"none", "now", "due", "drawing"}
      /\ now \in Int /\ shown \in Int /\ file.n \in Nat /\ DrawnWhenShown /\ FreshStart
  BY DEF VideoInv, VideoTypes
<1>1. CASE OnStartStreaming
  <2>1. /\ v' = ResetStreamingTimes /\ now' = 0 /\ file'.n = 0 /\ shown' = 0 /\ frame' = frame /\ frame = "none"
    BY <1>1 DEF OnStartStreaming
  <2>2. Timed(v') /\ v'.lastDraw = -1 /\ v'.dropped = 0 /\ v'.renderAvg = 0 /\ v'.duration = 0
    BY <2>1 DEF ResetStreamingTimes, Timed, VideoMembers
  <2> QED BY <1>0, <2>1, <2>2 DEF VideoInv, VideoTypes, DrawnWhenShown, FreshStart, Timed
<1>2. CASE Notify
  <2>1. PICK p \in Proportions : v' = [v EXCEPT !.throttle = Throttle(p)]
    BY <1>2 DEF Notify
  <2>2. Throttle(p) \in Int
    <3>1. p \in Nat /\ -330000 + 388880000 \div (p + 167) \in Int
      BY FramesAreTimed
    <3> QED BY <3>1, DivIsInt DEF Throttle
  <2>3. /\ Timed(v') /\ v'.lastDraw = v.lastDraw /\ v'.start = v.start /\ v'.dropped = v.dropped
        /\ v'.renderAvg = v.renderAvg /\ v'.duration = v.duration
    BY <1>0, <2>1, <2>2 DEF Timed, VideoMembers
  <2>4. frame' = frame /\ now' = now /\ file' = file /\ shown' = shown
    BY <1>2 DEF Notify
  <2> QED BY <1>0, <2>3, <2>4 DEF VideoInv, VideoTypes, DrawnWhenShown, FreshStart, Timed
<1>3. CASE ShouldDrawSampleNow
  <2>1. PICK gap \in Gaps, duration \in Durations, handled \in BOOLEAN, discontinuity \in BOOLEAN :
       LET stamp == file.n * FrameTime
           start == IF stamp >= Milliseconds(8) THEN stamp - Milliseconds(8) ELSE stamp
           time  == now + gap
           late  == time - start
           just  == (handled /\ discontinuity) \/ v.normal = -1
           rated == NewRate(duration)
           x == [rated EXCEPT !.earliness = Earliness(rated, late, just)]
           between == Least(time - x.lastDraw, Second)
       IN  /\ now' = time /\ file' = [n |-> file.n + 1, duration |-> duration]
           /\ \/ /\ ~Draws(x, late, duration, handled, time)
                 /\ v' = DropFrame(x, late) /\ frame' = "none"
              \/ /\ v' = PlayAtOnce(x, time, late, between) /\ frame' = "now"
              \/ /\ v' = PlayInTime(x, time, start, late, duration, between)
                 /\ frame' = IF late < 0 THEN "due" ELSE "now"
           /\ frame = "none" /\ UNCHANGED shown
    BY <1>3 DEF ShouldDrawSampleNow
  <2> DEFINE stamp == file.n * FrameTime
             start == IF stamp >= Milliseconds(8) THEN stamp - Milliseconds(8) ELSE stamp
             time  == now + gap
             late  == time - start
             just  == (handled /\ discontinuity) \/ v.normal = -1
             rated == NewRate(duration)
             x == [rated EXCEPT !.earliness = Earliness(rated, late, just)]
             between == Least(time - x.lastDraw, Second)
  <2>2. /\ gap \in Nat /\ duration \in Int /\ time \in Int /\ stamp \in Int
    BY <1>0, FramesAreTimed
  <2>3. start \in Int /\ late \in Int
    BY <2>2 DEF Milliseconds
  <2>4. Timed(rated) /\ rated.lastDraw = v.lastDraw /\ rated.dropped = v.dropped /\ rated.start = v.start
    BY <1>0 DEF NewRate, Timed, VideoMembers
  <2> HIDE DEF rated, late
  <2>5. Earliness(rated, late, just) \in Int
    <3>1. Div(rated.earliness, 8) \in Int
      BY <2>4, DivIsInt DEF Timed
    <3> QED BY <2>3, <2>4, <3>1 DEF Earliness, Timed
  <2>6. Timed(x) /\ x.lastDraw = v.lastDraw /\ x.dropped = v.dropped
    BY <2>4, <2>5 DEF Timed, VideoMembers
  <2> HIDE DEF x, start, time, between
  <2>7. /\ now' = time /\ file'.n = file.n + 1 /\ frame = "none" /\ shown' = shown
        /\ \/ /\ ~Draws(x, late, duration, handled, time)
              /\ v' = DropFrame(x, late) /\ frame' = "none"
           \/ /\ v' = PlayAtOnce(x, time, late, between) /\ frame' = "now"
           \/ /\ v' = PlayInTime(x, time, start, late, duration, between)
              /\ frame' = IF late < 0 THEN "due" ELSE "now"
    BY <2>1 DEF x, start, time, between, late, rated
  <2>8. v.lastDraw <= shown /\ v.lastDraw \in Int /\ v.dropped \in Nat
    BY <1>0, <2>7 DEF DrawnWhenShown, Timed
  <2>9. CASE /\ ~Draws(x, late, duration, handled, time)
             /\ v' = DropFrame(x, late) /\ frame' = "none"
    <3>1. /\ Timed(v') /\ v'.lastDraw = v.lastDraw
      BY <2>2, <2>3, <2>6, <2>9, FrameDropped
    <3>2. time - v.lastDraw <= Second
      BY <2>2, <2>6, <2>8, <2>9 DEF Draws, Second
    <3>3. now' - shown <= Second
      BY <1>0, <2>2, <2>7, <2>8, <3>2 DEF Second
    <3>4. ASSUME file.n = 0 PROVE file'.duration = 0
      <4>1. v.renderAvg = 0 /\ v.duration = 0 /\ duration \in Nat
        BY <1>0, <3>4, FramesAreTimed DEF FreshStart
      <4>2. SUFFICES ASSUME duration # 0 PROVE FALSE
        BY <2>1
      <4>3. rated.frameAvg = duration /\ rated.renderAvg = 0
        BY <1>0, <4>1, <4>2 DEF NewRate, Abs, Timed, VideoMembers, rated
      <4>4. x.frameAvg = duration /\ x.renderAvg = 0
        BY <2>4, <4>3 DEF x, Timed, VideoMembers
      <4> QED BY <2>9, <4>1, <4>4 DEF Draws
    <3> QED BY <1>0, <2>2, <2>7, <2>8, <2>9, <3>1, <3>3, <3>4 DEF VideoInv, VideoTypes, DrawnWhenShown, FreshStart
  <2>10. CASE v' = PlayAtOnce(x, time, late, between) /\ frame' = "now"
    <3>1. /\ Timed(v') /\ v'.lastDraw = time /\ v'.dropped = v.dropped
      <4>1. /\ Timed(PlayAtOnce(x, time, late, between))
            /\ PlayAtOnce(x, time, late, between).lastDraw = time
            /\ PlayAtOnce(x, time, late, between).dropped = x.dropped
        BY <2>2, <2>3, <2>6, FrameAtOnce
      <4> QED BY <2>6, <2>10, <4>1
    <3> QED BY <1>0, <2>2, <2>7, <2>8, <2>10, <3>1 DEF VideoInv, VideoTypes, DrawnWhenShown, FreshStart
  <2>11. CASE /\ v' = PlayInTime(x, time, start, late, duration, between)
              /\ frame' = IF late < 0 THEN "due" ELSE "now"
    <3>1. /\ Timed(v') /\ v'.dropped = v.dropped
          /\ late < 0 => v'.lastDraw = v'.start
          /\ ~(late < 0) => v'.lastDraw = time
      <4> DEFINE y == PlayInTime(x, time, start, late, duration, between)
      <4>1. Timed(x) /\ late \in Int /\ time \in Int /\ start \in Int /\ duration \in Int
        BY <2>2, <2>3, <2>6
      <4>2. IsInTime(y, x, late, time)
        BY <4>1, FrameInTime, Zenon
      <4> HIDE DEF y
      <4> QED BY <2>6, <2>11, <4>2 DEF IsInTime, y
    <3> QED BY <1>0, <2>2, <2>3, <2>7, <2>8, <2>11, <3>1 DEF VideoInv, VideoTypes, DrawnWhenShown, FreshStart
  <2> QED BY <2>7, <2>9, <2>10, <2>11
<1>4. ASSUME frame \in {"now", "due"}, Timed(v'), v'.lastDraw = v.lastDraw, v'.dropped = v.dropped,
             shown' = (IF frame = "due" /\ v.start > now THEN v.start ELSE now),
             now' \in Int, frame' \in {"none", "drawing"}, file' = file
      PROVE  VideoInv' /\ ~(v'.dropped > v.dropped)
  BY <1>0, <1>4 DEF VideoInv, VideoTypes, DrawnWhenShown, FreshStart, Timed
<1>5. /\ Timed(RecordFrameLateness(v)) /\ RecordFrameLateness(v).lastDraw = v.lastDraw
      /\ RecordFrameLateness(v).dropped = v.dropped
  BY <1>0 DEF RecordFrameLateness, Timed, VideoMembers
<1>6. CASE OnRenderStart
  <2>1. now' \in Int
    BY <1>0, <1>6 DEF OnRenderStart, Timed
  <2> QED BY <1>4, <1>5, <1>6, <2>1 DEF OnRenderStart
<1>7. CASE OnDirectRender
  <2> DEFINE x == RecordFrameLateness(v)
             t == IF frame = "due" /\ v.start > now THEN v.start ELSE now
  <2>1. /\ v' = [x EXCEPT !.renderAvg = 0, !.renderLast = 5000]
        /\ now' = t + v.throttle /\ shown' = now' - v.throttle
        /\ frame \in {"now", "due"} /\ frame' = "none" /\ file' = file
    BY <1>7 DEF OnDirectRender
  <2>2. t \in Int /\ v.throttle \in Int
    BY <1>0 DEF Timed
  <2> HIDE DEF x
  <2>3. Timed(v') /\ v'.lastDraw = v.lastDraw /\ v'.dropped = v.dropped
    BY <1>5, <2>1 DEF Timed, VideoMembers, x
  <2>4. shown' = t /\ now' \in Int
    BY <2>1, <2>2
  <2> QED BY <1>4, <2>1, <2>3, <2>4
<1>8. CASE OnRenderEnd
  <2>1. PICK took \in DrawTimes :
          /\ now' = now + took + v.throttle
          /\ v' = [v EXCEPT !.renderLast = took,
                            !.renderAvg = IF took < @ * 2 \/ took < 2 * v.renderLast
                                          THEN Mix(took, @) ELSE @]
    BY <1>8 DEF OnRenderEnd
  <2>2. frame = "drawing" /\ frame' = "none" /\ file' = file /\ shown' = shown
    BY <1>8 DEF OnRenderEnd
  <2>3. Timed(v') /\ v'.lastDraw = v.lastDraw /\ v'.dropped = v.dropped
    BY <1>0, <2>1 DEF Timed, VideoMembers
  <2>4. now' \in Int
    BY <1>0, <2>1, FramesAreTimed DEF Timed
  <2> QED BY <1>0, <2>2, <2>3, <2>4 DEF VideoInv, VideoTypes, DrawnWhenShown, FreshStart, Timed
<1> QED BY <1>1, <1>2, <1>3, <1>6, <1>7, <1>8 DEF VideoNext

(***************************************************************************)
(* The display never looks hung: no frame is dropped when the last one was *)
(* shown more than a second ago, nor the first one of a session if it has  *)
(* a duration, for every frame rate, whatever the time stamps say and      *)
(* drawing takes.                                                          *)
(***************************************************************************)
THEOREM DisplayGoesOn == VideoSpec => NeverLooksHung
<1>1. VideoInit => VideoInv
  BY DEF VideoInit, VideoInv, VideoTypes, DrawnWhenShown, FreshStart, Timed, VideoMembers, ResetStreamingTimes
<1>2. VideoInv /\ [VideoNext]_vvars => VideoInv'
  <2> SUFFICES ASSUME VideoInv, [VideoNext]_vvars PROVE VideoInv'
    OBVIOUS
  <2>1. CASE UNCHANGED vvars
    BY <2>1 DEF vvars, VideoInv, VideoTypes, DrawnWhenShown, FreshStart
  <2> QED BY <2>1, VideoStep
<1>3. VideoInv /\ [VideoNext]_vvars => [v'.dropped > v.dropped => now' - shown <= Second /\ (file.n = 0 => file'.duration = 0)]_vvars
  BY VideoStep
<1> QED BY <1>1, <1>2, <1>3, PTL DEF VideoSpec, NeverLooksHung

-----------------------------------------------------------------------------
(* The statistics: the square of a sum is at most the sum of the squares,  *)
(* times their number.                                                     *)

LEMMA SquaresGrow ==
  ASSUME NEW k \in Nat, NEW q \in Nat, NEW s \in Int, NEW x \in Int,
         s * s <= k * q, k = 0 => s = 0
  PROVE  (s + x) * (s + x) <= (k + 1) * (q + x * x)
<1>1. CASE k = 0
  BY <1>1
<1>2. CASE k # 0
  <2> DEFINE y == k * x
             d == q + x * y - 2 * (s * x)
  <2>1. y \in Int /\ d \in Int
    OBVIOUS
  <2>2. k * d = k * q + y * y - 2 * (s * y)
    BY SMTT(30)
  <2>3. (s - y) * (s - y) >= 0
    <3> DEFINE z == s - y
    <3>1. z \in Int
      BY <2>1
    <3> HIDE DEF z
    <3>2. z * z >= 0
      BY <3>1
    <3> QED BY <3>2 DEF z
  <2>4. (s - y) * (s - y) = s * s + y * y - 2 * (s * y)
    BY <2>1, SMTT(30)
  <2>5. k * d >= 0
    BY <2>1, <2>2, <2>3, <2>4
  <2>6. d >= 0
    <3> HIDE DEF d
    <3>1. SUFFICES ASSUME d <= -1 PROVE FALSE
      BY <2>1
    <3> DEFINE kd == k * d
    <3>2. kd \in Int /\ kd <= -k /\ kd >= 0
      BY <2>1, <2>5, <3>1
    <3> HIDE DEF kd
    <3> QED BY <1>2, <3>2
  <2>7. (k + 1) * (q + x * x) - (s + x) * (s + x) = (k * q - s * s) + d
    BY SMTT(30)
  <2> QED BY <2>1, <2>6, <2>7
<1> QED BY <1>1, <1>2

\* Why the variance is that of real numbers.
LEMMA NoNegativeVariance ==
  ASSUME NEW n \in Nat, n > 1, NEW q \in Nat, NEW s \in Int, s * s <= n * q
  PROVE  /\ Variance(n, q, s) \in Nat
         /\ \A l \in Nat : q <= (n - 1) * l => Variance(n, q, s) <= l
<1> DEFINE ss == s * s
           m == ss \div n
           a == q - m
           w == a \div (n - 1)
<1>1. ss \in Nat /\ ss <= n * q
  OBVIOUS
<1> HIDE DEF ss
<1>2. m \in Nat /\ n * m <= ss
  BY <1>1
<1> HIDE DEF m
<1>3. m <= q
  <2> SUFFICES ASSUME m >= q + 1 PROVE FALSE
    BY <1>2
  <2>1. n * m >= n * (q + 1)
    BY <1>2
  <2>2. n * (q + 1) = n * q + n
    OBVIOUS
  <2> QED BY <1>1, <1>2, <2>1, <2>2
<1>4. a \in Nat /\ a <= q /\ n - 1 \in Nat \ {0}
  BY <1>2, <1>3
<1>5. Variance(n, q, s) = Div(a, n - 1)
  BY DEF Variance, m, ss
<1> HIDE DEF a
<1>6. Variance(n, q, s) = w
  BY <1>4, <1>5 DEF Div
<1>7. w \in Nat /\ (n - 1) * w <= a
  BY <1>4
<1> HIDE DEF w
<1>8. ASSUME NEW l \in Nat, q <= (n - 1) * l PROVE w <= l
  <2> SUFFICES ASSUME w >= l + 1 PROVE FALSE
    BY <1>7
  <2>1. (n - 1) * w >= (n - 1) * (l + 1)
    BY <1>4, <1>7
  <2>2. (n - 1) * (l + 1) = (n - 1) * l + (n - 1)
    BY <1>4
  <2> QED BY <1>4, <1>7, <1>8, <2>1, <2>2
<1> QED BY <1>6, <1>7, <1>8

\* A square is at most a million, as what is added up is cut to 1000 milliseconds.
Million == 1000000

\* What is known of the sums, n of the frames drawn having been left out of them.
SumOf(drawn, n, sumSq, total) ==
  /\ sumSq \in Nat /\ total \in Int
  /\ drawn <= n => sumSq = 0 /\ total = 0
  /\ drawn >= n => total * total <= (drawn - n) * sumSq
  /\ drawn > n => sumSq <= (drawn - n - 1) * Million

Summed(x) ==
  /\ DOMAIN x = VideoMembers
  /\ x.drawn \in Nat /\ x.late \in Int /\ x.frame \in Int
  /\ SumOf(x.drawn, 1, x.sumSqAcc, x.totAcc)
  /\ SumOf(x.drawn, 2, x.sumSqFrame, x.sumFrame)

VarianceInv == VideoInv /\ Summed(v)

LEMMA SumGrows ==
  ASSUME NEW drawn \in Nat, NEW n \in {1, 2}, NEW q, NEW s, SumOf(drawn, n, q, s), NEW x \in Int,
         x * x <= Million
  PROVE  SumOf(drawn + 1, n, q + (IF drawn > n THEN x * x ELSE 0), s + (IF drawn > n THEN x ELSE 0))
<1>1. q \in Nat /\ s \in Int /\ x * x \in Nat
  BY DEF SumOf
<1>0. Million \in Nat
  BY SMT DEF Million
<1>2. CASE drawn > n
  <2> DEFINE k == drawn - n
             sx == s + x
             qx == q + x * x
  <2>1. k \in Nat /\ k # 0 /\ s * s <= k * q
    BY <1>2 DEF SumOf
  <2>2. sx * sx <= (k + 1) * qx
    BY <1>1, <2>1, SquaresGrow
  <2>3. k + 1 = (drawn + 1) - n /\ sx \in Int /\ qx \in Nat
    BY <1>1
  <2> HIDE DEF k, sx, qx
  <2>4. sx * sx <= ((drawn + 1) - n) * qx
    BY <2>2, <2>3
  <2>6. qx <= ((drawn + 1) - n - 1) * Million
    <3>1. q <= (drawn - n - 1) * Million
      BY <1>2 DEF SumOf
    <3>2. ((drawn + 1) - n - 1) * Million = (drawn - n - 1) * Million + Million
      BY <1>0
    <3>3. (drawn - n - 1) * Million \in Int
      BY <1>0
    <3> QED BY <1>0, <1>1, <3>1, <3>2, <3>3 DEF qx
  <2>5. SumOf(drawn + 1, n, qx, sx)
    BY <1>2, <2>3, <2>4, <2>6 DEF SumOf
  <2> QED BY <1>2, <2>5 DEF sx, qx
<1>3. CASE ~(drawn > n)
  <2>1. q = 0 /\ s = 0
    BY <1>3 DEF SumOf
  <2>2. SumOf(drawn + 1, n, 0, 0)
    <3>1. drawn + 1 > n => (drawn + 1 - n - 1) * Million = 0
      BY <1>0, <1>3
    <3> QED BY <1>3, <3>1 DEF SumOf
  <2> QED BY <1>3, <2>1, <2>2
<1> QED BY <1>2, <1>3

\* What leaves the sums alone.
SameSums(x, y) ==
  /\ DOMAIN y = VideoMembers /\ y.late \in Int /\ y.frame \in Int
  /\ y.drawn = x.drawn /\ y.totAcc = x.totAcc /\ y.sumSqAcc = x.sumSqAcc
  /\ y.sumFrame = x.sumFrame /\ y.sumSqFrame = x.sumSqFrame

LEMMA SumsStay ==
  ASSUME NEW x, Summed(x), NEW y, SameSums(x, y)
  PROVE  Summed(y)
  BY DEF Summed, SameSums

LEMMA FramesKeepSums ==
  ASSUME NEW x, Timed(x), Summed(x), NEW late \in Int, NEW time \in Int, NEW start \in Int,
         NEW duration \in Int, NEW between \in Int
  PROVE  /\ SameSums(x, DropFrame(x, late))
         /\ SameSums(x, PlayAtOnce(x, time, late, between))
         /\ SameSums(x, PlayInTime(x, time, start, late, duration, between))
<1>1. DOMAIN x = VideoMembers /\ x.late \in Int /\ x.frame \in Int
  BY DEF Summed
<1>2. SameSums(x, DropFrame(x, late))
  BY <1>1 DEF DropFrame, SameSums, VideoMembers
<1>3. SameSums(x, PlayAtOnce(x, time, late, between))
  BY <1>1 DEF PlayAtOnce, SameSums, VideoMembers
<1> DEFINE early == IF x.earliness < -duration THEN -duration ELSE x.earliness
           at == start + early
<1>4. early \in Int /\ at \in Int /\ at - x.lastDraw \in Int
  BY DEF Timed
<1>5. SameSums(x, PlayInTime(x, time, start, late, duration, between))
  <2>1. CASE late < 0
    BY <1>1, <1>4, <2>1 DEF PlayInTime, SameSums, VideoMembers
  <2>2. CASE ~(late < 0)
    BY <1>1, <1>4, <2>2 DEF PlayInTime, SameSums, VideoMembers
  <2> QED BY <2>1, <2>2
<1> QED BY <1>2, <1>3, <1>5

LEMMA RecordingKeepsSums ==
  ASSUME NEW x, Summed(x)
  PROVE  Summed(RecordFrameLateness(x))
<1> DEFINE late  == Div(x.late, Milliseconds(1))
           sync  == IF Abs(late) <= 1000 THEN late
                    ELSE IF x.drawn <= 1 THEN 0 ELSE IF late > 0 THEN 1000 ELSE -1000
           ms    == Div(x.frame, Milliseconds(1))
           inter == IF ms > 1000 \/ ms < 0 THEN 1000 ELSE ms
           y     == RecordFrameLateness(x)
<1>1. late \in Int /\ ms \in Int
  <2>1. Milliseconds(1) \in Nat \ {0}
    BY DEF Milliseconds
  <2>2. x.late \in Int /\ x.frame \in Int
    BY DEF Summed
  <2> QED BY <2>1, <2>2, DivIsInt
<1>2. sync \in -1000..1000 /\ inter \in 0..1000
  <2> HIDE DEF late, ms
  <2>1. sync \in -1000..1000
    BY <1>1 DEF Abs
  <2>2. inter \in 0..1000
    BY <1>1
  <2> QED BY <2>1, <2>2
<1>5. \A z \in -1000..1000 : z * z <= Million
  <2> SUFFICES ASSUME NEW z \in -1000..1000 PROVE z * z <= Million
    OBVIOUS
  <2>1. (1000 - z) * (1000 + z) >= 0
    BY SMT
  <2>2. (1000 - z) * (1000 + z) = 1000 * 1000 - z * z
    BY SMT
  <2>3. 1000 * 1000 = Million
    BY SMT DEF Million
  <2> QED BY <2>1, <2>2, <2>3, SMT
<1>6. sync * sync <= Million /\ inter * inter <= Million
  <2> HIDE DEF late, ms, sync, inter
  <2>1. inter \in -1000..1000
    BY <1>2
  <2> QED BY <1>2, <1>5, <2>1
<1>3. /\ DOMAIN y = VideoMembers /\ y.late = x.late /\ y.frame = x.frame
      /\ y.totAcc = x.totAcc + (IF x.drawn > 1 THEN sync ELSE 0)
      /\ y.sumSqAcc = x.sumSqAcc + (IF x.drawn > 1 THEN sync * sync ELSE 0)
      /\ y.sumFrame = x.sumFrame + (IF x.drawn > 2 THEN inter ELSE 0)
      /\ y.sumSqFrame = x.sumSqFrame + (IF x.drawn > 2 THEN inter * inter ELSE 0)
      /\ y.drawn = x.drawn + 1
  BY DEF RecordFrameLateness, Summed, VideoMembers
<1> HIDE DEF sync, inter, y
<1>4. SumOf(x.drawn + 1, 1, y.sumSqAcc, y.totAcc)
  <2>1. sync \in Int /\ x.drawn \in Nat /\ SumOf(x.drawn, 1, x.sumSqAcc, x.totAcc)
    BY <1>2 DEF Summed
  <2>2. SumOf(x.drawn + 1, 1, x.sumSqAcc + (IF x.drawn > 1 THEN sync * sync ELSE 0),
              x.totAcc + (IF x.drawn > 1 THEN sync ELSE 0))
    BY <1>6, <2>1, SumGrows
  <2> QED BY <1>3, <2>2
<1>7. SumOf(x.drawn + 1, 2, y.sumSqFrame, y.sumFrame)
  <2>1. inter \in Int /\ x.drawn \in Nat /\ SumOf(x.drawn, 2, x.sumSqFrame, x.sumFrame)
    BY <1>2 DEF Summed
  <2>2. SumOf(x.drawn + 1, 2, x.sumSqFrame + (IF x.drawn > 2 THEN inter * inter ELSE 0),
              x.sumFrame + (IF x.drawn > 2 THEN inter ELSE 0))
    BY <1>6, <2>1, SumGrows
  <2> QED BY <1>3, <2>2
<1> QED BY <1>3, <1>4, <1>7 DEF Summed, y

LEMMA VarianceStep ==
  ASSUME VarianceInv, [VideoNext]_vvars
  PROVE  VarianceInv'
<1>0. VideoInv /\ Summed(v) /\ DOMAIN v = VideoMembers /\ v.late \in Int /\ v.frame \in Int
  BY DEF VarianceInv, Summed
<1>1. VideoInv'
  <2>1. CASE UNCHANGED vvars
    BY <1>0, <2>1 DEF vvars, VideoInv, VideoTypes, DrawnWhenShown, FreshStart
  <2> QED BY <1>0, <2>1, VideoStep
<1>2. Summed(v')
  <2>1. CASE UNCHANGED vvars
    BY <1>0, <2>1 DEF vvars
  <2>2. CASE OnStartStreaming
    BY <2>2 DEF OnStartStreaming, ResetStreamingTimes, Summed, SumOf, VideoMembers
  <2>3. CASE Notify
    <3>1. PICK p \in Proportions : v' = [v EXCEPT !.throttle = Throttle(p)]
      BY <2>3 DEF Notify
    <3>2. SameSums(v, v')
      BY <1>0, <3>1 DEF SameSums, VideoMembers
    <3> QED BY <1>0, <3>2, SumsStay
  <2>4. CASE ShouldDrawSampleNow
    <3>1. PICK gap \in Gaps, duration \in Durations, handled \in BOOLEAN, discontinuity \in BOOLEAN :
         LET stamp == file.n * FrameTime
             start == IF stamp >= Milliseconds(8) THEN stamp - Milliseconds(8) ELSE stamp
             time  == now + gap
             late  == time - start
             just  == (handled /\ discontinuity) \/ v.normal = -1
             rated == NewRate(duration)
             x == [rated EXCEPT !.earliness = Earliness(rated, late, just)]
             between == Least(time - x.lastDraw, Second)
         IN  \/ v' = DropFrame(x, late)
             \/ v' = PlayAtOnce(x, time, late, between)
             \/ v' = PlayInTime(x, time, start, late, duration, between)
      BY <2>4 DEF ShouldDrawSampleNow
    <3> DEFINE stamp == file.n * FrameTime
               start == IF stamp >= Milliseconds(8) THEN stamp - Milliseconds(8) ELSE stamp
               time  == now + gap
               late  == time - start
               just  == (handled /\ discontinuity) \/ v.normal = -1
               rated == NewRate(duration)
               x == [rated EXCEPT !.earliness = Earliness(rated, late, just)]
               between == Least(time - x.lastDraw, Second)
    <3>2. duration \in Int /\ time \in Int /\ start \in Int /\ late \in Int
      BY <1>0, FramesAreTimed DEF VideoInv, VideoTypes, Milliseconds
    <3>3. Timed(rated) /\ SameSums(v, rated)
      BY <1>0, <3>2 DEF NewRate, VideoInv, VideoTypes, Timed, SameSums, VideoMembers
    <3> HIDE DEF rated, start, time, late
    <3>4. Earliness(rated, late, just) \in Int
      <4>1. Div(rated.earliness, 8) \in Int
        BY <3>3, DivIsInt DEF Timed
      <4> QED BY <3>2, <3>3, <4>1 DEF Earliness, Timed
    <3>5. Timed(x) /\ SameSums(v, x)
      BY <3>3, <3>4 DEF Timed, SameSums, VideoMembers
    <3> HIDE DEF x
    <3>6. between \in Int
      BY <3>2, <3>5 DEF Timed, Least, Second
    <3> HIDE DEF between
    <3>7. Summed(x)
      BY <1>0, <3>5, SumsStay
    <3>8. SameSums(x, v')
      BY <3>1, <3>2, <3>5, <3>6, <3>7, FramesKeepSums DEF x, rated, start, time, late, between
    <3> QED BY <3>7, <3>8, SumsStay
  <2>5. CASE OnRenderStart
    BY <1>0, <2>5, RecordingKeepsSums DEF OnRenderStart
  <2>6. CASE OnDirectRender
    <3> DEFINE x == RecordFrameLateness(v)
    <3>1. Summed(x)
      BY <1>0, RecordingKeepsSums
    <3>2. v' = [x EXCEPT !.renderAvg = 0, !.renderLast = 5000]
      BY <2>6 DEF OnDirectRender
    <3> HIDE DEF x
    <3>3. SameSums(x, v')
      BY <3>1, <3>2 DEF Summed, SameSums, VideoMembers
    <3> QED BY <3>1, <3>3, SumsStay
  <2>7. CASE OnRenderEnd
    <3>1. PICK took \in DrawTimes :
            v' = [v EXCEPT !.renderLast = took,
                           !.renderAvg = IF took < @ * 2 \/ took < 2 * v.renderLast
                                         THEN Mix(took, @) ELSE @]
      BY <2>7 DEF OnRenderEnd
    <3>2. SameSums(v, v')
      BY <1>0, <3>1 DEF SameSums, VideoMembers
    <3> QED BY <1>0, <3>2, SumsStay
  <2> QED BY <2>1, <2>2, <2>3, <2>4, <2>5, <2>6, <2>7 DEF VarianceInv, VideoNext
<1> QED BY <1>1, <1>2 DEF VarianceInv

-----------------------------------------------------------------------------
(* The square root.                                                        *)

LEMMA Induction ==
  ASSUME NEW S \in SUBSET Nat, 0 \in S, \A n \in S : n + 1 \in S
  PROVE  S = Nat
<1> DEFINE T == Nat \ S
<1>1. SUFFICES ASSUME T # {} PROVE FALSE
  OBVIOUS
<1>2. PICK x \in T : \A y \in T : <<y, x>> \notin OpToRel(<, Nat)
  <2>1. T \subseteq Nat
    OBVIOUS
  <2> HIDE DEF T
  <2> QED
    BY <1>1, <2>1, WFMin, NatLessThanWellFounded, Zenon
<1>3. \A y \in T : ~(y < x)
  <2> SUFFICES ASSUME NEW y \in T, y < x PROVE FALSE
    OBVIOUS
  <2>1. y \in Nat /\ x \in Nat
    OBVIOUS
  <2>2. <<y, x>> \in OpToRel(<, Nat)
    BY <2>1, Zenon DEF OpToRel
  <2> QED
    BY <1>2, <2>2, Zenon
<1>4. x - 1 \in Nat /\ x - 1 < x /\ x - 1 + 1 = x
  OBVIOUS
<1>5. x - 1 \in T
  <2>1. x - 1 \in S => x - 1 + 1 \in S
    BY Zenon
  <2> QED
    BY <1>4, <2>1
<1> QED
  BY <1>3, <1>4, <1>5

\* Every number has an integer root.
LEMMA HasRoot ==
  ASSUME NEW x \in Nat
  PROVE  \E root \in Nat : root * root <= x /\ x <= root * root + 2 * root
<1> DEFINE S == {n \in Nat : \E root \in Nat : root * root <= n /\ n <= root * root + 2 * root}
<1>1. 0 \in S
  <2>1. 0 * 0 <= 0 /\ 0 <= 0 * 0 + 2 * 0
    OBVIOUS
  <2> QED BY <2>1
<1>2. \A n \in S : n + 1 \in S
  <2> SUFFICES ASSUME NEW n \in Nat, NEW root \in Nat, root * root <= n, n <= root * root + 2 * root
               PROVE  n + 1 \in S
    OBVIOUS
  <2>1. CASE n < root * root + 2 * root
    <3>1. root * root <= n + 1 /\ n + 1 <= root * root + 2 * root
      BY <2>1
    <3> QED BY <3>1
  <2>2. CASE n = root * root + 2 * root
    <3> DEFINE t == root + 1
    <3>1. t * t = root * root + 2 * root + 1
      OBVIOUS
    <3>2. t \in Nat /\ n + 1 \in Nat /\ t * t <= n + 1 /\ n + 1 <= t * t + 2 * t
      BY <2>2, <3>1
    <3> HIDE DEF t
    <3> QED BY <3>2
  <2> QED BY <2>1, <2>2
<1>3. S \in SUBSET Nat
  OBVIOUS
<1> HIDE DEF S
<1>4. S = Nat
  BY <1>1, <1>2, <1>3, Induction
<1> QED BY <1>4 DEF S

\* An iteration never falls below the root, and squares the error.
LEMMA NewtonError ==
  ASSUME NEW x \in Nat, NEW root \in Nat, NEW y \in Nat, root > 0, y >= root, root * root <= x, x <= root * root + 2 * root
  PROVE  /\ NewtonRaphson(y, x) \in Nat /\ NewtonRaphson(y, x) >= root
         /\ 2 * (y * (NewtonRaphson(y, x) - root - 1)) <= (y - root) * (y - root)
<1> DEFINE z == NewtonRaphson(y, x)
           yy == y * y
           rr == root * root
           yr == y * root
           yz == y * z
<1>1. z \in Nat /\ 2 * yz <= yy + x /\ yy + x < 2 * yz + 2 * y
  <2> DEFINE a == yy + x
             b == 2 * y
  <2>1. a \in Nat /\ b \in Nat /\ b > 0 /\ z = a \div b
    BY DEF NewtonRaphson
  <2> HIDE DEF a, z
  <2>2. z \in Nat /\ b * z <= a /\ a < b * z + b
    BY <2>1
  <2>3. b * z = 2 * yz
    BY <2>2
  <2> QED BY <2>2, <2>3 DEF a
<1>2. (y - root) * (y - root) = yy + rr - 2 * yr
  OBVIOUS
<1>3. (y - root) * (y - root) >= 0
  <2> DEFINE d == y - root
  <2>1. d \in Nat OBVIOUS
  <2> HIDE DEF d
  <2>2. d * d >= 0 BY <2>1
  <2> QED BY <2>2 DEF d
<1>4. yy \in Nat /\ rr \in Nat /\ yr \in Nat
  OBVIOUS
<1>5. yz \in Nat
  BY <1>1
<1>6. z >= root
  <2> SUFFICES ASSUME z <= root - 1 PROVE FALSE
    BY <1>1
  <2> HIDE DEF z
  <2>1. y * z <= y * (root - 1)
    BY <1>1
  <2>2. y * (root - 1) = y * root - y
    OBVIOUS
  <2>3. yz <= yr - y
    BY <2>1, <2>2
  <2> QED BY <1>1, <1>2, <1>3, <1>4, <1>5, <2>3
<1>7. y * (z - root - 1) = yz - yr - y
  <2> HIDE DEF z
  <2> QED BY <1>1
<1>8. 2 * (yz - yr - y) <= yy + rr - 2 * yr
  BY <1>1, <1>4, <1>5
<1> QED BY <1>1, <1>2, <1>6, <1>7, <1>8

\* The bound of the error after an iteration, from the bound before.
LEMMA NewtonBound ==
  ASSUME NEW x \in Nat, NEW root \in Nat, NEW y \in Nat, root > 0, y >= root, root * root <= x, x <= root * root + 2 * root,
         NEW E \in Nat, NEW F \in Nat, NEW m \in Nat, y - root <= E, m <= y, E * E < 2 * (m * F)
  PROVE  /\ NewtonRaphson(y, x) \in Nat /\ NewtonRaphson(y, x) >= root /\ NewtonRaphson(y, x) - root <= F
<1> DEFINE z == NewtonRaphson(y, x)
           d == y - root
           e == z - root - 1
<1>1. z \in Nat /\ z >= root /\ 2 * (y * e) <= d * d
  BY NewtonError
<1>2. d \in Nat /\ d <= E /\ e \in Int
  BY <1>1
<1> HIDE DEF z, d, e
<1>3. d * d <= E * E
  <2>1. d * d <= d * E BY <1>2
  <2>2. d * E <= E * E BY <1>2
  <2> QED BY <1>2, <2>1, <2>2
<1>4. m * F <= y * F
  OBVIOUS
<1>5. y * e < y * F
  BY <1>1, <1>2, <1>3, <1>4
<1>6. e < F
  <2> SUFFICES ASSUME e >= F PROVE FALSE
    BY <1>2
  <2>1. y * e >= y * F BY <1>2
  <2> QED BY <1>2, <1>5, <2>1
<1> QED BY <1>1, <1>6 DEF z, e

\* The root found from a guess that is none too small and less than twice too large: the bounds of the error after
\* each iteration.
LEMMA ThreeIterations ==
  ASSUME NEW x \in Nat, NEW root \in Nat, root > 0, root * root <= x, x <= root * root + 2 * root, NEW g \in Nat, g >= root,
         NEW m \in Nat, m <= root, NEW D \in Nat, NEW E \in Nat, NEW F \in Nat,
         g - root <= D, D * D < 2 * (g * E), E * E < 2 * (m * F), F * F < 2 * m
  PROVE  LET z == NewtonRaphson(NewtonRaphson(NewtonRaphson(g, x), x), x)
         IN  z \in Nat /\ root <= z /\ z <= root + 1
<1> DEFINE a == NewtonRaphson(g, x)
           b == NewtonRaphson(a, x)
           z == NewtonRaphson(b, x)
<1>0. g <= g /\ root \in Nat
  OBVIOUS
<1>1. a \in Nat /\ a >= root /\ a - root <= E
  <2> HIDE DEF a
  <2> QED BY <1>0, NewtonBound DEF a
<1> HIDE DEF a
<1>2. b \in Nat /\ b >= root /\ b - root <= F
  <2>1. m <= a BY <1>1
  <2> QED BY <1>1, <2>1, NewtonBound
<1> HIDE DEF b
<1>3. z \in Nat /\ z >= root /\ z - root <= 1
  <2>1. m <= b /\ F * F < 2 * (m * 1) BY <1>2
  <2> QED BY <1>2, <2>1, NewtonBound
<1> HIDE DEF z
<1>4. z \in Nat /\ root <= z /\ z <= root + 1
  BY <1>3
<1> QED BY <1>4 DEF z, a, b

\* Bounds of the errors that prove three iterations from g enough: m of the root from below, D, E and F of the guess and
\* of the first two iterations.
Enough(g, root) ==
  \E m, D, E, F \in Nat :
    m <= root /\ g - root <= D /\ D * D < 2 * (g * E) /\ E * E < 2 * (m * F) /\ F * F < 2 * m

LEMMA GuessIs ==
  ASSUME NEW x \in Nat, x > 0, x <= Million
  PROVE  /\ Guess(x) \in Powers /\ Guess(x) <= 1024 /\ Guess(x) * Guess(x) >= x
         /\ Guess(x) = 1 \/ (Guess(x) \div 2) * (Guess(x) \div 2) < x
<1> DEFINE Fits(g) == (g * g >= x \/ g = 32768) /\ (g = 1 \/ (g \div 2) * (g \div 2) < x)
<1>1. \E g \in Powers : Fits(g)
  <2>1. CASE x <= 16
    <3>1. CASE x <= 1
      <4>1. Fits(1) /\ 1 \in Powers BY <3>1, SMT DEF Powers
      <4> QED BY <4>1
    <3>2. CASE 1 < x /\ x <= 4
      <4>1. Fits(2) /\ 2 \in Powers BY <3>2, SMT DEF Powers
      <4> QED BY <4>1
    <3>3. CASE 4 < x /\ x <= 16
      <4>1. Fits(4) /\ 4 \in Powers BY <3>3, SMT DEF Powers
      <4> QED BY <4>1
    <3> QED BY <2>1, <3>1, <3>2, <3>3
  <2>2. CASE 16 < x /\ x <= 64
    <3>1. Fits(8) /\ 8 \in Powers BY <2>2, SMT DEF Powers
    <3> QED BY <3>1
  <2>3. CASE 64 < x /\ x <= 256
    <3>1. Fits(16) /\ 16 \in Powers BY <2>3, SMT DEF Powers
    <3> QED BY <3>1
  <2>4. CASE 256 < x /\ x <= 1024
    <3>1. Fits(32) /\ 32 \in Powers BY <2>4, SMT DEF Powers
    <3> QED BY <3>1
  <2>5. CASE 1024 < x /\ x <= 4096
    <3>1. Fits(64) /\ 64 \in Powers BY <2>5, SMT DEF Powers
    <3> QED BY <3>1
  <2>6. CASE 4096 < x /\ x <= 16384
    <3>1. Fits(128) /\ 128 \in Powers BY <2>6, SMT DEF Powers
    <3> QED BY <3>1
  <2>7. CASE 16384 < x /\ x <= 65536
    <3>1. Fits(256) /\ 256 \in Powers BY <2>7, SMT DEF Powers
    <3> QED BY <3>1
  <2>8. CASE 65536 < x /\ x <= 262144
    <3>1. Fits(512) /\ 512 \in Powers BY <2>8, SMT DEF Powers
    <3> QED BY <3>1
  <2>9. CASE 262144 < x
    <3>1. Fits(1024) /\ 1024 \in Powers BY <2>9, SMT DEF Powers, Million
    <3> QED BY <3>1
  <2> HIDE DEF Fits
  <2> QED BY <2>1, <2>2, <2>3, <2>4, <2>5, <2>6, <2>7, <2>8, <2>9, SMT
<1>2. Guess(x) \in Powers /\ Fits(Guess(x))
  <2>1. Guess(x) = CHOOSE g \in Powers : Fits(g)
    BY DEF Guess
  <2> HIDE DEF Fits
  <2> QED BY <1>1, <2>1, Zenon
<1> DEFINE g == Guess(x)
<1> HIDE DEF g
<1>3. g \in Powers /\ Fits(g)
  BY <1>2 DEF g
<1>4. g <= 1024 /\ g * g >= x
  BY <1>3, SMT DEF Powers, Million
<1> QED BY <1>3, <1>4 DEF g

\* The root is one of the two whole numbers next to it, for every number the statistics may ask the root of.
LEMMA RootIsRight ==
  ASSUME NEW x \in Nat, x <= Million
  PROVE  IsRoot(isqrt(x), x)
<1>1. CASE x = 0
  <2>1. isqrt(x) = 0
    BY <1>1 DEF isqrt
  <2> QED BY <1>1, <2>1 DEF IsRoot
<1>2. CASE x > 0
  <2> DEFINE g == Guess(x)
  <2>1. /\ g \in Powers /\ g <= 1024 /\ g * g >= x
        /\ g = 1 \/ (g \div 2) * (g \div 2) < x
    BY <1>2, GuessIs
  <2>2. PICK root \in Nat : root * root <= x /\ x <= root * root + 2 * root
    BY HasRoot
  <2> DEFINE z == NewtonRaphson(NewtonRaphson(NewtonRaphson(g, x), x), x)
  <2>3. isqrt(x) = z
    BY <1>2 DEF isqrt
  <2> HIDE DEF g
  <2>4. root > 0
    BY <1>2, <2>2
  <2>5. g \in Nat /\ root <= g
    <3>1. g \in Nat /\ root * root <= g * g
      BY <2>1, <2>2, SMT DEF Powers
    <3>2. SUFFICES ASSUME g + 1 <= root PROVE FALSE
      BY <3>1
    <3>3. (g + 1) * (g + 1) <= (g + 1) * root /\ (g + 1) * root <= root * root
      BY <3>1, <3>2
    <3>4. (g + 1) * (g + 1) = g * g + 2 * g + 1
      BY <3>1
    <3> QED BY <3>1, <3>3, <3>4
  <2>6. \A m \in Nat : m * m < x => m <= root
    <3> SUFFICES ASSUME NEW m \in Nat, m * m < x, root + 1 <= m PROVE FALSE
      OBVIOUS
    <3>1. (root + 1) * (root + 1) <= (root + 1) * m /\ (root + 1) * m <= m * m
      OBVIOUS
    <3>2. (root + 1) * (root + 1) = root * root + 2 * root + 1
      OBVIOUS
    <3> QED BY <2>2, <3>1, <3>2
  <2>7. Enough(g, root)
    <3>1. ASSUME g = 1 PROVE Enough(g, root)
      <4>1. /\ 1 \in Nat /\ 0 \in Nat
            /\ 1 <= root /\ g - root <= 0 /\ 0 * 0 < 2 * (g * 1) /\ 1 * 1 < 2 * (1 * 1) /\ 1 * 1 < 2 * 1
        BY <2>4, <2>5, <3>1, SMT
      <4> QED BY <4>1 DEF Enough
    <3>2. ASSUME g = 2 PROVE Enough(g, root)
      <4> DEFINE h == 1
                 e == 1
                 f == 1
      <4>1. h <= root
        BY <2>1, <2>6, <3>2, SMT
      <4>2. /\ h \in Nat /\ e \in Nat /\ f \in Nat
            /\ h <= root /\ g - root <= h /\ h * h < 2 * (g * e) /\ e * e < 2 * (h * f) /\ f * f < 2 * h
        BY <2>5, <3>2, <4>1, SMT
      <4> HIDE DEF h, e, f
      <4> QED BY <4>2 DEF Enough
    <3>3. ASSUME g = 4 PROVE Enough(g, root)
      <4> DEFINE h == 2
                 e == 1
                 f == 1
      <4>1. h <= root
        BY <2>1, <2>6, <3>3, SMT
      <4>2. /\ h \in Nat /\ e \in Nat /\ f \in Nat
            /\ h <= root /\ g - root <= h /\ h * h < 2 * (g * e) /\ e * e < 2 * (h * f) /\ f * f < 2 * h
        BY <2>5, <3>3, <4>1, SMT
      <4> HIDE DEF h, e, f
      <4> QED BY <4>2 DEF Enough
    <3>4. ASSUME g = 8 PROVE Enough(g, root)
      <4> DEFINE h == 4
                 e == 2
                 f == 1
      <4>1. h <= root
        BY <2>1, <2>6, <3>4, SMT
      <4>2. /\ h \in Nat /\ e \in Nat /\ f \in Nat
            /\ h <= root /\ g - root <= h /\ h * h < 2 * (g * e) /\ e * e < 2 * (h * f) /\ f * f < 2 * h
        BY <2>5, <3>4, <4>1, SMT
      <4> HIDE DEF h, e, f
      <4> QED BY <4>2 DEF Enough
    <3>5. ASSUME g = 16 PROVE Enough(g, root)
      <4> DEFINE h == 8
                 e == 3
                 f == 1
      <4>1. h <= root
        BY <2>1, <2>6, <3>5, SMT
      <4>2. /\ h \in Nat /\ e \in Nat /\ f \in Nat
            /\ h <= root /\ g - root <= h /\ h * h < 2 * (g * e) /\ e * e < 2 * (h * f) /\ f * f < 2 * h
        BY <2>5, <3>5, <4>1, SMT
      <4> HIDE DEF h, e, f
      <4> QED BY <4>2 DEF Enough
    <3>6. ASSUME g = 32 PROVE Enough(g, root)
      <4> DEFINE h == 16
                 e == 5
                 f == 1
      <4>1. h <= root
        BY <2>1, <2>6, <3>6, SMT
      <4>2. /\ h \in Nat /\ e \in Nat /\ f \in Nat
            /\ h <= root /\ g - root <= h /\ h * h < 2 * (g * e) /\ e * e < 2 * (h * f) /\ f * f < 2 * h
        BY <2>5, <3>6, <4>1, SMT
      <4> HIDE DEF h, e, f
      <4> QED BY <4>2 DEF Enough
    <3>7. ASSUME g = 64 PROVE Enough(g, root)
      <4> DEFINE h == 32
                 e == 9
                 f == 2
      <4>1. h <= root
        BY <2>1, <2>6, <3>7, SMT
      <4>2. /\ h \in Nat /\ e \in Nat /\ f \in Nat
            /\ h <= root /\ g - root <= h /\ h * h < 2 * (g * e) /\ e * e < 2 * (h * f) /\ f * f < 2 * h
        BY <2>5, <3>7, <4>1, SMT
      <4> HIDE DEF h, e, f
      <4> QED BY <4>2 DEF Enough
    <3>8. ASSUME g = 128 PROVE Enough(g, root)
      <4> DEFINE h == 64
                 e == 17
                 f == 3
      <4>1. h <= root
        BY <2>1, <2>6, <3>8, SMT
      <4>2. /\ h \in Nat /\ e \in Nat /\ f \in Nat
            /\ h <= root /\ g - root <= h /\ h * h < 2 * (g * e) /\ e * e < 2 * (h * f) /\ f * f < 2 * h
        BY <2>5, <3>8, <4>1, SMT
      <4> HIDE DEF h, e, f
      <4> QED BY <4>2 DEF Enough
    <3>9. ASSUME g = 256 PROVE Enough(g, root)
      <4> DEFINE h == 128
                 e == 33
                 f == 5
      <4>1. h <= root
        BY <2>1, <2>6, <3>9, SMT
      <4>2. /\ h \in Nat /\ e \in Nat /\ f \in Nat
            /\ h <= root /\ g - root <= h /\ h * h < 2 * (g * e) /\ e * e < 2 * (h * f) /\ f * f < 2 * h
        BY <2>5, <3>9, <4>1, SMT
      <4> HIDE DEF h, e, f
      <4> QED BY <4>2 DEF Enough
    <3>10. ASSUME g = 512 PROVE Enough(g, root)
      <4> DEFINE h == 256
                 e == 65
                 f == 9
      <4>1. h <= root
        BY <2>1, <2>6, <3>10, SMT
      <4>2. /\ h \in Nat /\ e \in Nat /\ f \in Nat
            /\ h <= root /\ g - root <= h /\ h * h < 2 * (g * e) /\ e * e < 2 * (h * f) /\ f * f < 2 * h
        BY <2>5, <3>10, <4>1, SMT
      <4> HIDE DEF h, e, f
      <4> QED BY <4>2 DEF Enough
    <3>11. ASSUME g = 1024 PROVE Enough(g, root)
      <4> DEFINE h == 512
                 e == 129
                 f == 17
      <4>1. h <= root
        BY <2>1, <2>6, <3>11, SMT
      <4>2. /\ h \in Nat /\ e \in Nat /\ f \in Nat
            /\ h <= root /\ g - root <= h /\ h * h < 2 * (g * e) /\ e * e < 2 * (h * f) /\ f * f < 2 * h
        BY <2>5, <3>11, <4>1, SMT
      <4> HIDE DEF h, e, f
      <4> QED BY <4>2 DEF Enough
    <3> QED BY <2>1, <3>1, <3>2, <3>3, <3>4, <3>5, <3>6, <3>7, <3>8, <3>9, <3>10, <3>11, SMT DEF Powers
  <2>8. z \in Nat /\ root <= z /\ z <= root + 1
    <3>1. PICK m \in Nat, D \in Nat, E \in Nat, F \in Nat :
            m <= root /\ g - root <= D /\ D * D < 2 * (g * E) /\ E * E < 2 * (m * F) /\ F * F < 2 * m
      BY <2>7 DEF Enough
    <3> HIDE DEF z
    <3> QED BY <2>2, <2>4, <2>5, <3>1, ThreeIterations DEF z
  <2> HIDE DEF z
  <2>9. (root + 1) * (root + 1) = root * root + 2 * root + 1 /\ root * root <= (root + 1) * (root + 1)
    OBVIOUS
  <2>10. x < (z + 1) * (z + 1)
    <3>1. (z + 1) * (z + 1) = z * z + 2 * z + 1 /\ root * root <= z * z
      BY <2>8, <2>9
    <3> QED BY <2>2, <2>8, <2>9, <3>1
  <2>11. (z - 1) * (z - 1) <= x
    <3>1. CASE z = root + 1
      <4>1. z - 1 = root
        BY <2>8, <3>1
      <4> QED BY <2>2, <4>1
    <3>2. CASE z = root
      <4>1. (root - 1) * (root - 1) = root * root - 2 * root + 1
        OBVIOUS
      <4> QED BY <2>2, <2>4, <3>2, <4>1
    <3> QED BY <2>8, <3>1, <3>2
  <2> QED BY <2>3, <2>10, <2>11 DEF IsRoot
<1> QED BY <1>1, <1>2

(***************************************************************************)
(* The statistics never call for the root of a negative number, for any    *)
(* number of frames, however late and however far apart, and the root      *)
(* isqrt finds is one of the two whole milliseconds next to it.            *)
(***************************************************************************)
THEOREM StatisticsAreReal == VideoSpec => []DeviationsAreReal
<1>1. VideoInit => VarianceInv
  BY DEF VideoInit, VideoInv, VideoTypes, DrawnWhenShown, FreshStart, Timed, VideoMembers, ResetStreamingTimes,
         VarianceInv, Summed, SumOf
<1>2. VarianceInv => DeviationsAreReal
  <2> SUFFICES ASSUME VarianceInv, NEW n, NEW q, NEW s, n > 1,
                      \/ n = v.drawn - 1 /\ q = v.sumSqAcc /\ s = v.totAcc
                      \/ n = v.drawn - 2 /\ q = v.sumSqFrame /\ s = v.sumFrame
               PROVE  Variance(n, q, s) >= 0 /\ IsRoot(isqrt(Variance(n, q, s)), Variance(n, q, s))
    BY DEF DeviationsAreReal, NoRootOfNegative, RootsAreRight, Deviations
  <2>1. n \in Nat /\ q \in Nat /\ s \in Int /\ s * s <= n * q /\ q <= (n - 1) * Million
    BY DEF VarianceInv, Summed, SumOf
  <2>2. Million \in Nat
    BY SMT DEF Million
  <2>3. Variance(n, q, s) \in Nat /\ Variance(n, q, s) <= Million
    BY <2>1, <2>2, NoNegativeVariance
  <2>4. Variance(n, q, s) >= 0
    BY <2>3
  <2> QED BY <2>3, <2>4, RootIsRight
<1> QED BY <1>1, <1>2, VarianceStep, PTL DEF VideoSpec

-----------------------------------------------------------------------------
(* Positions.  A seek that is not told yet is in the hands of some thread, *)
(* and a stop position EOS has been given is one that was set.             *)

PosTypes ==
  /\ seeking \in [start : Int, stop : Int]
  /\ told \in [start : Int, stop : Int]
  /\ seeker \in [Seekers -> SUBSET {"start", "stop"}]
  /\ media \in [start : Int, reset : BOOLEAN, segment : Nat]
  /\ ending \in [at : {"idle", "asking", "setting"}, stop : Int]
  /\ segment \in [number : Nat, stops : SUBSET Int]

SomebodyTells ==
  /\ told.start # seeking.start => \E k \in Seekers : "start" \in seeker[k]
  /\ told.stop # seeking.stop => \E k \in Seekers : "stop" \in seeker[k]

EndIsKnown ==
  /\ ending.at = "asking" => seeking.stop \in segment.stops
  /\ ending.at = "setting" => ending.stop \in segment.stops

PosInv == PosTypes /\ SomebodyTells /\ EndIsKnown /\ PositionIsCurrent /\ EndReachesStop

LEMMA SeekKeepsPositions ==
  ASSUME PosInv, NEW k \in Seekers, SetPositions(k)
  PROVE  PosInv'
<1> PICK startHow \in Moves \ {"incremental"}, stopHow \in Moves, a \in Distances, b \in Distances :
      /\ seeker[k] = {}
      /\ {NewStart(startHow, a), NewStop(stopHow, b, NewStart(startHow, a))} \subseteq 0 .. MaxPosition
      /\ seeking' = [start |-> NewStart(startHow, a),
                     stop |-> NewStop(stopHow, b, NewStart(startHow, a))]
      /\ seeker' = [seeker EXCEPT ![k] = (IF stopHow = "none" THEN {} ELSE {"stop"})
                                           \cup (IF startHow = "none" THEN {} ELSE {"start"})]
      /\ segment' = [segment EXCEPT !.stops =
           IF ending.at = "asking" THEN @ \cup {NewStop(stopHow, b, NewStart(startHow, a))} ELSE @]
      /\ UNCHANGED <<told, media, ending>>
  BY DEF SetPositions
<1> DEFINE start == NewStart(startHow, a)
           stop == NewStop(stopHow, b, start)
           new == (IF stopHow = "none" THEN {} ELSE {"stop"}) \cup (IF startHow = "none" THEN {} ELSE {"start"})
           stops == IF ending.at = "asking" THEN segment.stops \cup {stop} ELSE segment.stops
<1>0. PosTypes /\ SomebodyTells /\ EndIsKnown /\ PositionIsCurrent /\ EndReachesStop
  BY DEF PosInv
<1>1. start \in Int /\ stop \in Int /\ new \subseteq {"start", "stop"} /\ stops \subseteq Int
  BY <1>0, PositionsAreBounded DEF PosTypes
<1>2. /\ seeking' = [start |-> start, stop |-> stop]
      /\ seeker' = [seeker EXCEPT ![k] = new] /\ seeker[k] = {}
      /\ segment' = [segment EXCEPT !.stops = stops]
      /\ told' = told /\ media' = media /\ ending' = ending
  OBVIOUS
<1>3. startHow = "none" => start = seeking.start
  BY DEF NewStart
<1>4. stopHow = "none" => stop = seeking.stop
  BY DEF NewStop
<1>5. (startHow # "none" => "start" \in new) /\ (stopHow # "none" => "stop" \in new)
  OBVIOUS
<1>6. segment.stops \subseteq stops /\ (ending.at = "asking" => stop \in stops)
      /\ (ending.at # "asking" => stops = segment.stops)
  OBVIOUS
<1> HIDE DEF start, stop, new, stops
<1>7. PosTypes'
  BY <1>0, <1>1, <1>2 DEF PosTypes
<1>8. seeker'[k] = new /\ \A l \in Seekers \ {k} : seeker'[l] = seeker[l]
  BY <1>0, <1>2 DEF PosTypes
<1>9. seeking'.start = start /\ seeking'.stop = stop /\ segment'.stops = stops /\ segment'.number = segment.number
  BY <1>0, <1>2 DEF PosTypes
<1>10. SomebodyTells'
  <2>1. ASSUME told'.start # seeking'.start PROVE \E l \in Seekers : "start" \in seeker'[l]
    <3>1. CASE startHow # "none"
      BY <1>5, <1>8, <3>1
    <3>2. CASE startHow = "none"
      BY <1>0, <1>2, <1>3, <1>8, <1>9, <2>1, <3>2 DEF SomebodyTells
    <3> QED BY <3>1, <3>2
  <2>2. ASSUME told'.stop # seeking'.stop PROVE \E l \in Seekers : "stop" \in seeker'[l]
    <3>1. CASE stopHow # "none"
      BY <1>5, <1>8, <3>1
    <3>2. CASE stopHow = "none"
      BY <1>0, <1>2, <1>4, <1>8, <1>9, <2>2, <3>2 DEF SomebodyTells
    <3> QED BY <3>1, <3>2
  <2> QED BY <2>1, <2>2 DEF SomebodyTells
<1>11. EndIsKnown' /\ PositionIsCurrent' /\ EndReachesStop'
  BY <1>0, <1>2, <1>6, <1>9 DEF EndIsKnown, PositionIsCurrent, EndReachesStop
<1> QED BY <1>7, <1>10, <1>11 DEF PosInv

LEMMA TellingKeepsPositions ==
  ASSUME PosInv, NEW k \in Seekers, ChangeStop(k) \/ ChangeStart(k)
  PROVE  PosInv'
<1>0. PosTypes /\ SomebodyTells /\ EndIsKnown /\ PositionIsCurrent /\ EndReachesStop
  BY DEF PosInv
<1>1. CASE ChangeStop(k)
  <2>1. /\ told' = [told EXCEPT !.stop = seeking.stop]
        /\ seeker' = [seeker EXCEPT ![k] = @ \ {"stop"}]
        /\ seeking' = seeking /\ media' = media /\ ending' = ending /\ segment' = segment
    BY <1>1 DEF ChangeStop
  <2>2. /\ told'.stop = seeking.stop /\ told'.start = told.start
        /\ \A l \in Seekers : "start" \in seeker[l] => "start" \in seeker'[l]
    BY <1>0, <2>1 DEF PosTypes
  <2>3. PosTypes'
    BY <1>0, <2>1 DEF PosTypes
  <2>4. SomebodyTells'
    BY <1>0, <2>1, <2>2 DEF SomebodyTells
  <2> QED BY <1>0, <2>1, <2>3, <2>4 DEF PosInv, EndIsKnown, PositionIsCurrent, EndReachesStop
<1>2. CASE ChangeStart(k)
  <2>1. /\ told' = [told EXCEPT !.start = seeking.start]
        /\ seeker[k] = {"start"} /\ seeker' = [seeker EXCEPT ![k] = {}]
        /\ seeking' = seeking /\ media' = media /\ ending' = ending /\ segment' = segment
    BY <1>2 DEF ChangeStart
  <2>2. /\ told'.start = seeking.start /\ told'.stop = told.stop
        /\ \A l \in Seekers : "stop" \in seeker[l] => "stop" \in seeker'[l]
    BY <1>0, <2>1 DEF PosTypes
  <2>3. PosTypes'
    BY <1>0, <2>1 DEF PosTypes
  <2>4. SomebodyTells'
    BY <1>0, <2>1, <2>2 DEF SomebodyTells
  <2> QED BY <1>0, <2>1, <2>3, <2>4 DEF PosInv, EndIsKnown, PositionIsCurrent, EndReachesStop
<1> QED BY <1>1, <1>2

LEMMA ResetTimes ==
  ASSUME NEW x \in [start : Int, reset : BOOLEAN, segment : Nat]
  PROVE  [x EXCEPT !.start = 0, !.reset = TRUE] \in [start : Int, reset : BOOLEAN, segment : Nat]
<1>1. ASSUME NEW z \in Int, NEW b \in BOOLEAN
      PROVE  [x EXCEPT !.start = z, !.reset = b] \in [start : Int, reset : BOOLEAN, segment : Nat]
  OBVIOUS
<1>2. 0 \in Int
  OBVIOUS
<1> QED BY <1>1, <1>2, Zenon

LEMMA MediaTimesKept ==
  ASSUME PosInv, RegisterMediaTime \/ ResetMediaTime \/ BeginEOS \/ GetStopPosition \/ EndEOS
  PROVE  PosInv'
<1>0. PosTypes /\ SomebodyTells /\ EndIsKnown /\ PositionIsCurrent /\ EndReachesStop
  BY DEF PosInv
<1>1. seeking' = seeking /\ told' = told /\ seeker' = seeker
  BY DEF RegisterMediaTime, ResetMediaTime, BeginEOS, GetStopPosition, EndEOS
<1>2. SomebodyTells'
  BY <1>0, <1>1 DEF SomebodyTells
<1>3. PosTypes' /\ EndIsKnown' /\ PositionIsCurrent' /\ EndReachesStop'
  <2> USE DEF PosTypes, EndIsKnown, PositionIsCurrent, EndReachesStop
  <2>1. CASE RegisterMediaTime
    BY <1>0, <1>1, <2>1, PositionsAreBounded DEF RegisterMediaTime
  <2>2. CASE ResetMediaTime
    <3>1. /\ media' = [media EXCEPT !.start = 0, !.reset = TRUE]
          /\ segment' = [segment EXCEPT !.number = segment.number + 1]
          /\ ending' = ending
      BY <2>2 DEF ResetMediaTime
    <3>2. PosTypes'
      <4> DEFINE n == segment.number + 1
      <4>1. n \in Nat /\ segment' = [segment EXCEPT !.number = n]
        BY <1>0, <3>1
      <4> HIDE DEF n
      <4>2. segment' \in [number : Nat, stops : SUBSET Int]
        BY <1>0, <4>1
      <4>3. media' \in [start : Int, reset : BOOLEAN, segment : Nat]
        BY <1>0, <3>1, ResetTimes
      <4> QED BY <1>0, <1>1, <3>1, <4>2, <4>3
    <3>3. media'.reset /\ segment'.stops = segment.stops
      BY <1>0, <3>1
    <3> QED BY <1>0, <1>1, <3>1, <3>2, <3>3
  <2>3. CASE BeginEOS
    BY <1>0, <1>1, <2>3 DEF BeginEOS
  <2>4. CASE GetStopPosition
    BY <1>0, <1>1, <2>4 DEF GetStopPosition
  <2>5. CASE EndEOS
    BY <1>0, <1>1, <2>5 DEF EndEOS
  <2> QED BY <2>1, <2>2, <2>3, <2>4, <2>5
<1> QED BY <1>2, <1>3 DEF PosInv

(***************************************************************************)
(* Seeks are told, positions are of this segment and end at a stop that    *)
(* was set, for any number of threads that seek.                           *)
(***************************************************************************)
THEOREM PositionsAreSafe == PosSpec => []PositionsSafe
<1>1. PosInit => PosInv
  BY PositionsAreBounded DEF PosInit, PosInv, PosTypes, SomebodyTells, EndIsKnown, PositionIsCurrent, EndReachesStop
<1>2. PosInv /\ [PosNext]_posvars => PosInv'
  <2> SUFFICES ASSUME PosInv, [PosNext]_posvars PROVE PosInv'
    OBVIOUS
  <2>1. CASE UNCHANGED posvars
    BY <2>1 DEF posvars, PosInv, PosTypes, SomebodyTells, EndIsKnown, PositionIsCurrent, EndReachesStop
  <2> QED BY <2>1, SeekKeepsPositions, TellingKeepsPositions, MediaTimesKept DEF PosNext
<1>3. PosInv => PositionsSafe
  <2> SUFFICES ASSUME PosInv PROVE SeeksAreTold
    BY DEF PosInv, PositionsSafe
  <2> SUFFICES ASSUME \A k \in Seekers : seeker[k] = {} PROVE told = seeking
    BY DEF SeeksAreTold
  <2>1. told.start = seeking.start /\ told.stop = seeking.stop
    BY DEF PosInv, SomebodyTells
  <2> QED BY <2>1 DEF PosInv, PosTypes
<1> QED BY <1>1, <1>2, <1>3, PTL DEF PosSpec

-----------------------------------------------------------------------------
(* The reference clock.  The list is in the order of time, every advise in *)
(* it has been signalled as often as its time says, and the thread is      *)
(* woken in time for the first.                                            *)

Packets == [cookie : Nat, time : Int, period : Nat, start : Int]
Listed(s) == {s[i] : i \in DOMAIN s}

ClockTypes ==
  /\ sched \in Seq(Packets) /\ count = Len(sched) /\ lastCookie \in Nat
  /\ signals \in Seq(Nat) /\ Len(signals) = lastCookie
  /\ schedEvent \in BOOLEAN /\ private \in Int /\ slack \in Int
  /\ advisor \in [pc : {"sleeping", "awake", "signalling"}, wake : Nat \cup {Never}, now : Int]

InTimeOrder(s) ==
  \A i, j \in DOMAIN s : i < j => s[i].time <= s[j].time /\ s[i].cookie # s[j].cookie

SignalledInTime(packets, sig) ==
  \A p \in packets :
    /\ p.cookie \in DOMAIN sig
    /\ p.time = p.start + sig[p.cookie] * p.period
    /\ p.period = 0 => sig[p.cookie] = 0

OthersAreDone(packets, sig, gone) ==
  \A c \in DOMAIN sig : (\A p \in packets : p.cookie # c) => c \in gone \/ sig[c] = 1

\* The thread may still find that time has moved on since it was read by the small corrections.
WakesInTime ==
  sched # <<>> /\ ~schedEvent =>
    IF advisor.pc = "sleeping"
    THEN advisor.wake # Never /\ advisor.wake <= (Head(sched).time - private) + slack
    ELSE private - advisor.now <= slack

ClockInv ==
  /\ ClockTypes /\ WakesInTime
  /\ InTimeOrder(sched)
  /\ SignalledInTime(Listed(sched), signals)
  /\ OthersAreDone(Listed(sched), signals, cancelled)

\* What a wait may last: more for a later head, one less when time has gone on by one.
LEMMA LaterHead ==
  ASSUME NEW w \in Int, NEW t \in Int, NEW u \in Int, NEW time \in Int, NEW more \in Int,
         t <= u, w <= (t - time) + more
  PROVE  w <= (u - time) + more
OBVIOUS

LEMMA LaterTime ==
  ASSUME NEW w \in Int, NEW t \in Int, NEW time \in Int, NEW more \in Int, w <= (t - time) + more
  PROVE  w - 1 <= (t - (time + 1)) + more
OBVIOUS

LEMMA EarlierRead ==
  ASSUME NEW w \in Nat, NEW t \in Int, NEW time \in Int, NEW more \in Int, NEW before \in Int,
         w <= t - before, time - before <= more
  PROVE  w <= (t - time) + more
OBVIOUS

LEMMA WaitIsLess ==
  ASSUME NEW w \in Nat \cup {Never}, w # 0, w # Never
  PROVE  w \in Int /\ w - 1 \in Nat \cup {Never} /\ w - 1 # Never
BY DEF Never

\* A sequence with an element put in, and one with an element taken out.
IsInserted(new, s, i, e) ==
  /\ new \in Seq(Packets) /\ Len(new) = Len(s) + 1
  /\ \A j \in 1..(Len(s) + 1) : new[j] = IF j < i THEN s[j] ELSE IF j = i THEN e ELSE s[j - 1]

IsRemoved(new, s, i) ==
  /\ new \in Seq(Packets) /\ Len(new) = Len(s) - 1
  /\ \A j \in 1..(Len(s) - 1) : new[j] = IF j < i THEN s[j] ELSE s[j + 1]

LEMMA InsertedIs ==
  ASSUME NEW s \in Seq(Packets), NEW i \in 1..(Len(s) + 1), NEW e \in Packets
  PROVE  IsInserted(InsertAt(s, i, e), s, i, e)
<1> DEFINE a == SubSeq(s, 1, i - 1)
           b == SubSeq(s, i, Len(s))
           ae == a \o <<e>>
<1>0. Len(s) \in Nat /\ i \in Nat /\ i >= 1 /\ i <= Len(s) + 1
  OBVIOUS
<1>1. a \in Seq(Packets) /\ Len(a) = i - 1 /\ \A j \in 1..(i - 1) : a[j] = s[j]
  OBVIOUS
<1>2. b \in Seq(Packets) /\ Len(b) = Len(s) - i + 1 /\ \A j \in 1..(Len(s) - i + 1) : b[j] = s[i + j - 1]
  OBVIOUS
<1> HIDE DEF a, b
<1>3. ae \in Seq(Packets) /\ Len(ae) = i /\ ae[i] = e /\ \A j \in 1..(i - 1) : ae[j] = s[j]
  <2>1. <<e>> \in Seq(Packets) /\ Len(<<e>>) = 1 /\ <<e>>[1] = e
    OBVIOUS
  <2>2. /\ ae \in Seq(Packets) /\ Len(ae) = Len(a) + Len(<<e>>)
        /\ \A j \in 1..(Len(a) + Len(<<e>>)) : ae[j] = IF j <= Len(a) THEN a[j] ELSE <<e>>[j - Len(a)]
    BY <1>1, <2>1, ConcatProperties
  <2> HIDE DEF ae
  <2>3. Len(a) + Len(<<e>>) = i /\ i <= i /\ i \in 1..i /\ ~(i <= Len(a)) /\ i - Len(a) = 1
    BY <1>0, <1>1, <2>1
  <2>4. ae[i] = e
    BY <2>1, <2>2, <2>3
  <2>5. \A j \in 1..(i - 1) : j <= Len(a) /\ j \in 1..i
    BY <1>0, <1>1
  <2>6. \A j \in 1..(i - 1) : ae[j] = s[j]
    BY <1>1, <2>2, <2>3, <2>5
  <2> QED BY <2>2, <2>3, <2>4, <2>6
<1> HIDE DEF ae
<1> DEFINE q == ae \o b
<1>4. q \in Seq(Packets) /\ Len(q) = Len(s) + 1
  <2>1. q \in Seq(Packets) /\ Len(q) = Len(ae) + Len(b)
    BY <1>2, <1>3, ConcatProperties
  <2> QED BY <1>0, <1>2, <1>3, <2>1
<1>5. \A j \in 1..(Len(s) + 1) : q[j] = IF j <= i THEN ae[j] ELSE b[j - i]
  <2>1. \A j \in 1..(Len(ae) + Len(b)) : q[j] = IF j <= Len(ae) THEN ae[j] ELSE b[j - Len(ae)]
    BY <1>2, <1>3, ConcatProperties
  <2> HIDE DEF q
  <2> QED BY <1>0, <1>2, <1>3, <2>1
<1>6. \A j \in 1..(Len(s) + 1) : q[j] = IF j < i THEN s[j] ELSE IF j = i THEN e ELSE s[j - 1]
  <2> TAKE j \in 1..(Len(s) + 1)
  <2>1. CASE j <= i
    BY <1>3, <1>5, <2>1
  <2>2. CASE j > i
    <3>1. q[j] = b[j - i]
      <4> HIDE DEF q
      <4> QED BY <1>0, <1>5, <2>2
    <3>2. j - i \in 1..(Len(s) - i + 1) /\ i + (j - i) - 1 = j - 1
      BY <1>0, <2>2
    <3>3. b[j - i] = s[i + (j - i) - 1]
      BY <1>2, <3>2
    <3>4. q[j] = s[j - 1]
      BY <3>1, <3>2, <3>3
    <3>5. ~(j < i) /\ j # i
      BY <1>0, <2>2
    <3> QED BY <3>4, <3>5
  <2> HIDE DEF q
  <2> QED BY <1>0, <2>1, <2>2
<1>7. q = InsertAt(s, i, e)
  BY DEF InsertAt, a, b, ae
<1> HIDE DEF q
<1> QED BY <1>4, <1>6, <1>7 DEF IsInserted

LEMMA RemovedIs ==
  ASSUME NEW s \in Seq(Packets), NEW i \in 1..Len(s)
  PROVE  IsRemoved(RemoveAt(s, i), s, i)
<1> DEFINE a == SubSeq(s, 1, i - 1)
           b == SubSeq(s, i + 1, Len(s))
           q == a \o b
<1>0. Len(s) \in Nat /\ i \in Nat /\ i >= 1 /\ i <= Len(s)
  OBVIOUS
<1>1. a \in Seq(Packets) /\ Len(a) = i - 1 /\ \A j \in 1..(i - 1) : a[j] = s[j]
  OBVIOUS
<1>2. b \in Seq(Packets) /\ Len(b) = Len(s) - i /\ \A j \in 1..(Len(s) - i) : b[j] = s[i + j]
  <2>1. \A j \in 1..(Len(s) - i) : b[j] = s[(i + 1) + j - 1] /\ (i + 1) + j - 1 = i + j
    OBVIOUS
  <2> QED BY <2>1
<1> HIDE DEF a, b
<1>4. q \in Seq(Packets) /\ Len(q) = Len(s) - 1
  <2>1. q \in Seq(Packets) /\ Len(q) = Len(a) + Len(b)
    BY <1>1, <1>2, ConcatProperties
  <2> QED BY <1>0, <1>1, <1>2, <2>1
<1>6. \A j \in 1..(Len(s) - 1) : q[j] = IF j < i THEN s[j] ELSE s[j + 1]
  <2> TAKE j \in 1..(Len(s) - 1)
  <2>1. CASE j < i
    BY <1>1, <1>2, <2>1
  <2>2. CASE j >= i
    <3>1. q[j] = b[j - (i - 1)]
      BY <1>0, <1>1, <1>2, <2>2
    <3>2. j - (i - 1) \in 1..(Len(s) - i) /\ i + (j - (i - 1)) = j + 1
      BY <1>0, <2>2
    <3>3. b[j - (i - 1)] = s[i + (j - (i - 1))]
      BY <1>2, <3>2
    <3>4. q[j] = s[j + 1]
      BY <3>1, <3>2, <3>3
    <3>5. ~(j < i)
      BY <1>0, <2>2
    <3> QED BY <3>4, <3>5
  <2> HIDE DEF q
  <2> QED BY <1>0, <2>1, <2>2
<1>7. q = RemoveAt(s, i)
  BY DEF RemoveAt, a, b
<1> HIDE DEF q
<1> QED BY <1>4, <1>6, <1>7 DEF IsRemoved

LEMMA TailIsRemoved ==
  ASSUME NEW s \in Seq(Packets), s # <<>>
  PROVE  IsRemoved(Tail(s), s, 1)
BY DEF IsRemoved

\* What is put in at its place keeps the order, ...
LEMMA InsertKeepsOrder ==
  ASSUME NEW s \in Seq(Packets), InTimeOrder(s), NEW e \in Packets, NEW at \in 1..(Len(s) + 1), NEW new,
         IsInserted(new, s, at, e),
         \A i \in 1..(at - 1) : s[i].time <= e.time,
         at <= Len(s) => e.time <= s[at].time,
         \A p \in Listed(s) : p.cookie # e.cookie
  PROVE  InTimeOrder(new) /\ Listed(new) = Listed(s) \cup {e}
<1>0. /\ Len(s) \in Nat /\ at \in Nat /\ at >= 1 /\ at <= Len(s) + 1 /\ DOMAIN s = 1..Len(s)
      /\ DOMAIN new = 1..(Len(s) + 1) /\ \A i \in 1..Len(s) : s[i] \in Packets
  BY DEF IsInserted
<1>1. \A j \in 1..(Len(s) + 1) : new[j] = IF j < at THEN s[j] ELSE IF j = at THEN e ELSE s[j - 1]
  BY DEF IsInserted
<1>2. \A i \in 1..Len(s) : s[i].cookie # e.cookie
  BY <1>0 DEF Listed
<1>3. \A i \in 1..Len(s) : /\ i < at => s[i].time <= e.time
                           /\ i >= at => e.time <= s[i].time
  <2> TAKE i \in 1..Len(s)
  <2>1. CASE i < at
    BY <1>0, <2>1
  <2>2. CASE i >= at
    <3>1. at \in 1..Len(s) /\ e.time <= s[at].time
      BY <1>0, <2>2
    <3>2. at = i \/ s[at].time <= s[i].time
      BY <1>0, <2>2, <3>1 DEF InTimeOrder
    <3>3. s[at].time \in Int /\ s[i].time \in Int /\ e.time \in Int
      BY <1>0, <3>1 DEF Packets
    <3>4. CASE at = i
      BY <3>1, <3>4
    <3>5. CASE s[at].time <= s[i].time
      <4> DEFINE x == e.time
                 y == s[at].time
                 z == s[i].time
      <4>1. x \in Int /\ y \in Int /\ z \in Int /\ x <= y /\ y <= z
        BY <3>1, <3>3, <3>5
      <4> HIDE DEF x, y, z
      <4>2. x <= z
        BY <4>1
      <4> QED BY <2>2, <4>2, <1>0 DEF x, z
    <3> QED BY <3>2, <3>4, <3>5
  <2> QED BY <1>0, <2>1, <2>2
<1>4. InTimeOrder(new)
  <2> SUFFICES ASSUME NEW i \in 1..(Len(s) + 1), NEW j \in 1..(Len(s) + 1), i < j
               PROVE  new[i].time <= new[j].time /\ new[i].cookie # new[j].cookie
    BY <1>0 DEF InTimeOrder
  <2>1. CASE j < at
    BY <1>0, <1>1, <2>1 DEF InTimeOrder
  <2>2. CASE j = at
    BY <1>0, <1>1, <1>2, <1>3, <2>2
  <2>3. CASE j > at /\ i < at
    <3>1. new[i] = s[i] /\ new[j] = s[j - 1] /\ i \in 1..Len(s) /\ j - 1 \in 1..Len(s) /\ i < j - 1
      BY <1>0, <1>1, <2>3
    <3> QED BY <1>0, <3>1 DEF InTimeOrder
  <2>4. CASE j > at /\ i = at
    <3>1. new[i] = e /\ new[j] = s[j - 1] /\ j - 1 \in 1..Len(s) /\ j - 1 >= at
      BY <1>0, <1>1, <2>4
    <3> QED BY <1>2, <1>3, <3>1
  <2>5. CASE j > at /\ i > at
    <3>1. new[i] = s[i - 1] /\ new[j] = s[j - 1] /\ i - 1 \in 1..Len(s) /\ j - 1 \in 1..Len(s) /\ i - 1 < j - 1
      BY <1>0, <1>1, <2>5
    <3> QED BY <1>0, <3>1 DEF InTimeOrder
  <2> QED BY <1>0, <2>1, <2>2, <2>3, <2>4, <2>5
<1>5. Listed(new) \subseteq Listed(s) \cup {e}
  <2> SUFFICES ASSUME NEW j \in 1..(Len(s) + 1) PROVE new[j] \in Listed(s) \cup {e}
    BY <1>0 DEF Listed
  <2>1. CASE j < at
    <3>1. new[j] = s[j] /\ j \in DOMAIN s
      BY <1>0, <1>1, <2>1
    <3> QED BY <3>1 DEF Listed
  <2>2. CASE j = at
    BY <1>0, <1>1, <2>2
  <2>3. CASE j > at
    <3>1. new[j] = s[j - 1] /\ j - 1 \in DOMAIN s
      BY <1>0, <1>1, <2>3
    <3> QED BY <3>1 DEF Listed
  <2> QED BY <1>0, <2>1, <2>2, <2>3
<1>6. Listed(s) \cup {e} \subseteq Listed(new)
  <2>1. new[at] = e /\ at \in DOMAIN new
    BY <1>0, <1>1
  <2>2. ASSUME NEW i \in 1..Len(s) PROVE s[i] \in Listed(new)
    <3>1. CASE i < at
      <4>1. new[i] = s[i] /\ i \in DOMAIN new
        BY <1>0, <1>1, <3>1
      <4> QED BY <4>1 DEF Listed
    <3>2. CASE i >= at
      <4>1. new[i + 1] = s[i] /\ i + 1 \in DOMAIN new
        BY <1>0, <1>1, <3>2
      <4> QED BY <4>1 DEF Listed
    <3> QED BY <1>0, <3>1, <3>2
  <2> QED BY <1>0, <2>1, <2>2 DEF Listed
<1> QED BY <1>4, <1>5, <1>6

\* ... and so does what is left.
LEMMA RemoveKeepsOrder ==
  ASSUME NEW s \in Seq(Packets), InTimeOrder(s), NEW at \in 1..Len(s), NEW new, IsRemoved(new, s, at)
  PROVE  /\ InTimeOrder(new) /\ Listed(new) = Listed(s) \ {s[at]}
         /\ \A p \in Listed(new) : p.cookie # s[at].cookie
<1>0. /\ Len(s) \in Nat /\ at \in Nat /\ at >= 1 /\ at <= Len(s) /\ DOMAIN s = 1..Len(s)
      /\ DOMAIN new = 1..(Len(s) - 1)
  BY DEF IsRemoved
<1>1. \A j \in 1..(Len(s) - 1) : new[j] = IF j < at THEN s[j] ELSE s[j + 1]
  BY DEF IsRemoved
<1>2. \A i \in 1..Len(s) : i # at => s[i].cookie # s[at].cookie
  BY <1>0 DEF InTimeOrder
<1>3. InTimeOrder(new)
  <2> SUFFICES ASSUME NEW i \in 1..(Len(s) - 1), NEW j \in 1..(Len(s) - 1), i < j
               PROVE  new[i].time <= new[j].time /\ new[i].cookie # new[j].cookie
    BY <1>0 DEF InTimeOrder
  <2>1. PICK k, l \in 1..Len(s) : k < l /\ new[i] = s[k] /\ new[j] = s[l]
    <3>1. CASE j < at
      BY <1>0, <1>1, <3>1
    <3>2. CASE j >= at /\ i < at
      <4>1. new[i] = s[i] /\ new[j] = s[j + 1] /\ i < j + 1 /\ i \in 1..Len(s) /\ j + 1 \in 1..Len(s)
        BY <1>0, <1>1, <3>2
      <4> QED BY <4>1
    <3>3. CASE i >= at
      <4>1. new[i] = s[i + 1] /\ new[j] = s[j + 1] /\ i + 1 < j + 1 /\ i + 1 \in 1..Len(s) /\ j + 1 \in 1..Len(s)
        BY <1>0, <1>1, <3>3
      <4> QED BY <4>1
    <3> QED BY <1>0, <3>1, <3>2, <3>3
  <2> QED BY <1>0, <2>1 DEF InTimeOrder
<1>4. Listed(new) \subseteq Listed(s) /\ \A p \in Listed(new) : p.cookie # s[at].cookie
  <2> SUFFICES ASSUME NEW j \in 1..(Len(s) - 1) PROVE new[j] \in Listed(s) /\ new[j].cookie # s[at].cookie
    BY <1>0 DEF Listed
  <2>1. CASE j < at
    <3>1. new[j] = s[j] /\ j \in 1..Len(s) /\ j # at
      BY <1>0, <1>1, <2>1
    <3> QED BY <1>0, <1>2, <3>1 DEF Listed
  <2>2. CASE j >= at
    <3>1. new[j] = s[j + 1] /\ j + 1 \in 1..Len(s) /\ j + 1 # at
      BY <1>0, <1>1, <2>2
    <3> QED BY <1>0, <1>2, <3>1 DEF Listed
  <2> QED BY <1>0, <2>1, <2>2
<1>5. Listed(s) \ {s[at]} \subseteq Listed(new)
  <2> SUFFICES ASSUME NEW i \in 1..Len(s), i # at PROVE s[i] \in Listed(new)
    BY <1>0 DEF Listed
  <2>1. CASE i < at
    <3>1. new[i] = s[i] /\ i \in DOMAIN new
      BY <1>0, <1>1, <2>1
    <3> QED BY <3>1 DEF Listed
  <2>2. CASE i > at
    <3>1. new[i - 1] = s[i] /\ i - 1 \in DOMAIN new
      BY <1>0, <1>1, <2>2
    <3> QED BY <3>1 DEF Listed
  <2> QED BY <1>0, <2>1, <2>2
<1> QED BY <1>3, <1>4, <1>5

-----------------------------------------------------------------------------
\* Cookies are new, so nobody listed has the next one.
LEMMA AddKeeps ==
  ASSUME ClockInv, NEW time \in Int, NEW period \in Nat, AddAdvisePacket(time, period)
  PROVE  ClockInv'
<1> DEFINE p == [cookie |-> lastCookie + 1, time |-> time, period |-> period, start |-> time]
<1>1. PICK at \in 1..(Len(sched) + 1) :
        /\ InsertsAt(sched, time, at)
        /\ sched' = InsertAt(sched, at, p) /\ schedEvent' = (schedEvent \/ at = 1)
  BY DEF AddAdvisePacket
<1>2. /\ count' = count + 1 /\ lastCookie' = lastCookie + 1 /\ signals' = Append(signals, 0)
      /\ UNCHANGED <<private, advisor, cancelled, slack>>
  BY DEF AddAdvisePacket
<1>0. ClockTypes /\ InTimeOrder(sched) /\ SignalledInTime(Listed(sched), signals)
  BY DEF ClockInv
<1>3. p \in Packets /\ p.cookie = lastCookie + 1 /\ p.time = time /\ p.period = period /\ p.start = time
  BY <1>0 DEF ClockTypes, Packets
<1> HIDE DEF p
<1>4. sched \in Seq(Packets) /\ Len(sched) \in Nat /\ DOMAIN sched = 1..Len(sched)
  BY <1>0 DEF ClockTypes
<1>5. IsInserted(sched', sched, at, p)
  BY <1>1, <1>3, <1>4, InsertedIs
<1>6. DOMAIN signals = 1..lastCookie /\ lastCookie \in Nat /\ signals \in Seq(Nat)
  BY <1>0 DEF ClockTypes
<1>7. \A q \in Listed(sched) : q.cookie # p.cookie
  BY <1>0, <1>3, <1>6 DEF SignalledInTime
<1>8. InTimeOrder(sched') /\ Listed(sched') = Listed(sched) \cup {p}
  <2>1. /\ \A i \in 1..(at - 1) : sched[i].time <= p.time
        /\ at <= Len(sched) => p.time <= sched[at].time
    <3>1. \A i \in 1..Len(sched) : sched[i].time \in Int
      <4>1. \A i \in 1..Len(sched) : sched[i] \in Packets
        BY <1>4
      <4> QED BY <4>1 DEF Packets
    <3> QED BY <1>1, <1>3, <1>4, <3>1 DEF InsertsAt
  <2> QED BY <1>0, <1>3, <1>4, <1>5, <1>7, <2>1, InsertKeepsOrder
<1>9. /\ signals' \in Seq(Nat) /\ Len(signals') = lastCookie + 1 /\ DOMAIN signals' = 1..(lastCookie + 1)
      /\ \A c \in 1..lastCookie : signals'[c] = signals[c]
      /\ signals'[lastCookie + 1] = 0
  BY <1>0, <1>2, <1>6 DEF ClockTypes
<1>10. ClockTypes'
  <2>1. sched' \in Seq(Packets) /\ Len(sched') = Len(sched) + 1
    BY <1>5 DEF IsInserted
  <2> QED BY <1>0, <1>1, <1>2, <1>4, <1>9, <2>1 DEF ClockTypes
<1>11. SignalledInTime(Listed(sched'), signals')
  <2>1. ASSUME NEW q \in Listed(sched)
        PROVE  q.cookie \in DOMAIN signals' /\ signals'[q.cookie] = signals[q.cookie]
    BY <1>0, <1>6, <1>9 DEF SignalledInTime
  <2>2. p.cookie \in DOMAIN signals' /\ signals'[p.cookie] = 0
    BY <1>3, <1>6, <1>9
  <2>3. p.time = p.start + 0 * p.period
    BY <1>3
  <2> QED BY <1>0, <1>8, <2>1, <2>2, <2>3 DEF SignalledInTime
<1>12. OthersAreDone(Listed(sched'), signals', cancelled')
  <2> SUFFICES ASSUME NEW c \in 1..(lastCookie + 1), \A q \in Listed(sched') : q.cookie # c
               PROVE  c \in cancelled \/ signals'[c] = 1
    BY <1>2, <1>9 DEF OthersAreDone
  <2>1. c \in 1..lastCookie /\ \A q \in Listed(sched) : q.cookie # c
    BY <1>3, <1>6, <1>8
  <2> QED BY <1>6, <1>9, <2>1 DEF ClockInv, OthersAreDone
<1>13. WakesInTime'
  <2>1. CASE at = 1
    BY <1>1, <2>1 DEF WakesInTime
  <2>2. CASE at > 1
    <3>1. sched # <<>> /\ Head(sched') = Head(sched) /\ (schedEvent' => schedEvent \/ at = 1)
      <4>1. 1 \in 1..Len(sched) /\ sched'[1] = sched[1] /\ sched' # <<>>
        BY <1>4, <1>5, <2>2 DEF IsInserted
      <4>2. Head(sched') = sched'[1] /\ Head(sched) = sched[1] /\ sched # <<>>
        BY <1>4, <1>5, <4>1 DEF IsInserted
      <4> QED BY <1>1, <4>1, <4>2
    <3>2. ~schedEvent' => ~schedEvent
      BY <1>1
    <3> QED BY <1>2, <3>1, <3>2 DEF ClockInv, WakesInTime
  <2> QED BY <1>4, <2>1, <2>2
<1> QED BY <1>8, <1>10, <1>11, <1>12, <1>13 DEF ClockInv

LEMMA UnadviseKeeps ==
  ASSUME ClockInv, Unadvise
  PROVE  ClockInv'
<1>1. PICK at \in DOMAIN sched :
        sched' = RemoveAt(sched, at) /\ cancelled' = cancelled \cup {sched[at].cookie}
  BY DEF Unadvise
<1>2. count' = count - 1 /\ UNCHANGED <<lastCookie, schedEvent, private, advisor, signals, slack>>
  BY DEF Unadvise
<1>0. ClockTypes /\ InTimeOrder(sched) /\ SignalledInTime(Listed(sched), signals)
  BY DEF ClockInv
<1>4. /\ sched \in Seq(Packets) /\ Len(sched) \in Nat /\ DOMAIN sched = 1..Len(sched) /\ at \in 1..Len(sched)
      /\ \A i \in 1..Len(sched) : sched[i] \in Packets
  BY <1>0, <1>1 DEF ClockTypes
<1>5. IsRemoved(sched', sched, at)
  BY <1>1, <1>4, RemovedIs
<1>6. InTimeOrder(sched') /\ Listed(sched') = Listed(sched) \ {sched[at]}
  BY <1>0, <1>4, <1>5, RemoveKeepsOrder
<1>7. ClockTypes'
  BY <1>0, <1>2, <1>4, <1>5 DEF ClockTypes, IsRemoved
<1>8. SignalledInTime(Listed(sched'), signals')
  BY <1>0, <1>2, <1>6 DEF SignalledInTime
<1>9. OthersAreDone(Listed(sched'), signals', cancelled')
  <2> SUFFICES ASSUME NEW c \in DOMAIN signals, \A q \in Listed(sched') : q.cookie # c
               PROVE  c \in cancelled' \/ signals[c] = 1
    BY <1>2 DEF OthersAreDone
  <2>1. CASE c = sched[at].cookie
    BY <1>1, <2>1
  <2>2. CASE c # sched[at].cookie
    <3>1. \A q \in Listed(sched) : q.cookie # c
      BY <1>6, <2>2
    <3> QED BY <1>1, <3>1 DEF ClockInv, OthersAreDone
  <2> QED BY <2>1, <2>2
<1>10. WakesInTime'
  <2> SUFFICES ASSUME sched' # <<>> PROVE WakesInTime'
    BY DEF WakesInTime
  <2>1. 1 \in 1..Len(sched) /\ 1 \in 1..Len(sched') /\ Head(sched') = sched'[1] /\ Head(sched) = sched[1] /\ sched # <<>>
    BY <1>4, <1>5 DEF IsRemoved
  <2>2. PICK k \in 1..Len(sched) : sched'[1] = sched[k]
    BY <1>4, <1>5, <2>1 DEF IsRemoved
  <2>3. Head(sched).time <= Head(sched').time /\ Head(sched).time \in Int /\ Head(sched').time \in Int
    <3>1. sched[1].time \in Int /\ sched[k].time \in Int
      BY <1>4, <2>1 DEF Packets
    <3>2. k = 1 \/ sched[1].time <= sched[k].time
      BY <1>0, <1>4, <2>1 DEF InTimeOrder
    <3> QED BY <2>1, <2>2, <3>1, <3>2
  <2>4. private \in Int /\ slack \in Int /\ (advisor.wake # Never => advisor.wake \in Int)
    BY <1>0 DEF ClockTypes
  <2>5. ASSUME advisor.wake # Never, advisor.wake <= (Head(sched).time - private) + slack
        PROVE  advisor.wake <= (Head(sched').time - private) + slack
    BY <2>3, <2>4, <2>5, LaterHead, Zenon
  <2> QED BY <1>2, <2>1, <2>5 DEF ClockInv, WakesInTime
<1> QED BY <1>6, <1>7, <1>8, <1>9, <1>10 DEF ClockInv

LEMMA SmallCorrection ==
  ASSUME NEW time \in Int, NEW d \in Int, d <= 1, NEW more \in Int, NEW x \in Int, NEW y \in Int
  PROVE  /\ x <= (y - time) + more => x <= (y - (time + d)) + (IF d = 1 THEN more + 1 ELSE more)
         /\ time - x <= more => (time + d) - x <= (IF d = 1 THEN more + 1 ELSE more)
OBVIOUS

\* A thread that is awake has a time that is out by the small corrections only, or has been told.
LEMMA DeltaKeeps ==
  ASSUME ClockInv, SetTimeDelta, Deltas \subseteq Int
  PROVE  ClockInv'
<1>1. PICK d \in Int :
        /\ private' = private + d /\ schedEvent' = (schedEvent \/ (d > 1 /\ count > 0))
        /\ slack' = IF d = 1 THEN slack + 1 ELSE slack
  BY DEF SetTimeDelta
<1>2. UNCHANGED <<sched, count, lastCookie, advisor, signals, cancelled>>
  BY DEF SetTimeDelta
<1>3. ClockTypes'
  <2>1. private' \in Int /\ slack' \in Int /\ schedEvent' \in BOOLEAN
    BY <1>1 DEF ClockInv, ClockTypes
  <2> QED BY <1>2, <2>1 DEF ClockInv, ClockTypes
<1>4. sched # <<>> => count > 0 /\ Head(sched).time \in Int
  <2> SUFFICES ASSUME sched # <<>> PROVE count > 0 /\ Head(sched).time \in Int
    OBVIOUS
  <2>1. sched \in Seq(Packets) /\ count = Len(sched)
    BY DEF ClockInv, ClockTypes
  <2>2. Len(sched) \in Nat /\ Len(sched) # 0 /\ Head(sched) \in Packets
    BY <2>1
  <2> QED BY <2>1, <2>2 DEF Packets
<1>5. ASSUME d <= 1, sched # <<>>
      PROVE  /\ private - advisor.now <= slack => private' - advisor.now <= slack'
             /\ advisor.wake # Never /\ advisor.wake <= (Head(sched).time - private) + slack =>
                  advisor.wake <= (Head(sched).time - private') + slack'
  <2>1. private' = private + d /\ slack' = IF d = 1 THEN slack + 1 ELSE slack
    BY <1>1
  <2>2. /\ private \in Int /\ slack \in Int /\ advisor.now \in Int
        /\ advisor.wake # Never => advisor.wake \in Int
    BY DEF ClockInv, ClockTypes
  <2>3. Head(sched).time \in Int
    BY <1>4, <1>5
  <2>4. ASSUME private - advisor.now <= slack
        PROVE  private' - advisor.now <= slack'
    <3>1. (private + d) - advisor.now <= (IF d = 1 THEN slack + 1 ELSE slack)
      BY <1>5, <2>2, <2>4, SmallCorrection
    <3> QED BY <2>1, <3>1, Zenon
  <2>5. ASSUME advisor.wake # Never, advisor.wake <= (Head(sched).time - private) + slack
        PROVE  advisor.wake <= (Head(sched).time - private') + slack'
    <3>1. advisor.wake <= (Head(sched).time - (private + d)) + (IF d = 1 THEN slack + 1 ELSE slack)
      BY <1>5, <2>2, <2>3, <2>5, SmallCorrection
    <3> QED BY <2>1, <3>1, Zenon
  <2> QED BY <2>4, <2>5
<1>6. WakesInTime'
  <2> SUFFICES ASSUME sched # <<>>, ~schedEvent' PROVE WakesInTime'
    BY <1>2 DEF WakesInTime
  <2>1. ~schedEvent /\ ~(d > 1 /\ count > 0)
    BY <1>1, Zenon
  <2>2. d <= 1
    <3>1. count > 0
      BY <1>4
    <3>2. ~(d > 1)
      BY <2>1, <3>1, Zenon
    <3> QED BY <3>2
  <2> QED BY <1>2, <1>5, <2>1, <2>2 DEF ClockInv, WakesInTime
<1> QED BY <1>2, <1>3, <1>6 DEF ClockInv

LEMMA WakeKeeps ==
  ASSUME ClockInv, AdvisorWakes
  PROVE  ClockInv'
<1>1. /\ schedEvent' = FALSE /\ advisor' = [advisor EXCEPT !.pc = "awake", !.now = private] /\ slack' = 0
      /\ UNCHANGED <<sched, count, lastCookie, private, signals, cancelled>>
  BY DEF AdvisorWakes
<1>2. advisor'.pc = "awake" /\ advisor'.now = private /\ private \in Int
  BY <1>1 DEF ClockInv, ClockTypes
<1>3. ClockTypes'
  <2>1. advisor' \in [pc : {"sleeping", "awake", "signalling"}, wake : Nat \cup {Never}, now : Int]
    BY <1>1 DEF ClockInv, ClockTypes
  <2>2. schedEvent' \in BOOLEAN
    BY <1>1
  <2>3. slack' \in Int
    BY <1>1
  <2> QED BY <1>1, <2>1, <2>2, <2>3 DEF ClockInv, ClockTypes
<1>4. WakesInTime'
  BY <1>1, <1>2 DEF WakesInTime
<1> QED BY <1>1, <1>3, <1>4 DEF ClockInv

LEMMA SleepKeeps ==
  ASSUME ClockInv, AdvisorSleeps
  PROVE  ClockInv'
<1> DEFINE ms == (Head(sched).time - advisor.now) \div Millisecond
           wake == IF sched = <<>> THEN Never ELSE ms * Millisecond
<1>1. /\ advisor' = [pc |-> "sleeping", now |-> 0, wake |-> wake]
      /\ UNCHANGED <<sched, count, lastCookie, schedEvent, private, signals, cancelled, slack>>
  BY DEF AdvisorSleeps
<1>2. ClockTypes
  BY DEF ClockInv
<1>3. sched # <<>> =>
        wake \in Nat /\ wake <= Head(sched).time - advisor.now /\ Head(sched).time \in Int /\ advisor.now \in Int
  <2> SUFFICES ASSUME sched # <<>> PROVE ms * Millisecond \in Nat /\ ms * Millisecond <= Head(sched).time - advisor.now
                                         /\ Head(sched).time \in Int /\ advisor.now \in Int
    OBVIOUS
  <2>1. Head(sched) \in Packets /\ advisor.now \in Int
    BY <1>2 DEF ClockTypes
  <2>2. Head(sched).time \in Int /\ ~(Head(sched).time <= advisor.now + Millisecond)
    BY <2>1 DEF AdvisorSleeps, HeadIsDue, Packets
  <2> DEFINE left == Head(sched).time - advisor.now
  <2>3. left \in Int /\ left > 2
    BY <2>1, <2>2 DEF Millisecond
  <2> HIDE DEF left
  <2>4. (left \div 2) * 2 \in Nat /\ (left \div 2) * 2 <= left
    BY <2>3
  <2> QED BY <2>1, <2>2, <2>4 DEF Millisecond, left
<1> HIDE DEF ms
<1>4. wake \in Nat \cup {Never} /\ (sched # <<>> => wake # Never)
  BY <1>3 DEF Never
<1> HIDE DEF wake
<1>5. advisor'.pc = "sleeping" /\ advisor'.wake = wake
  BY <1>1
<1>6. ClockTypes'
  BY <1>1, <1>2, <1>4 DEF ClockTypes
<1>7. WakesInTime'
  <2> SUFFICES ASSUME sched # <<>>, ~schedEvent PROVE wake <= (Head(sched).time - private) + slack
    BY <1>1, <1>4, <1>5 DEF WakesInTime
  <2>1. private \in Int /\ slack \in Int
    BY <1>2 DEF ClockTypes
  <2>2. private - advisor.now <= slack
    BY DEF ClockInv, WakesInTime, AdvisorSleeps
  <2>3. /\ wake \in Nat /\ wake <= Head(sched).time - advisor.now
        /\ Head(sched).time \in Int /\ advisor.now \in Int
    BY <1>3
  <2> QED BY <2>1, <2>2, <2>3, EarlierRead
<1> QED BY <1>1, <1>6, <1>7 DEF ClockInv

LEMMA TickKeeps ==
  ASSUME ClockInv, Tick
  PROVE  ClockInv'
<1>1. /\ advisor.pc = "sleeping" /\ advisor.wake # 0 /\ private' = private + 1
      /\ advisor' = [advisor EXCEPT !.wake = IF @ = Never THEN @ ELSE @ - 1]
      /\ UNCHANGED <<sched, count, lastCookie, schedEvent, signals, cancelled, slack>>
  BY DEF Tick
<1>2. ClockTypes
  BY DEF ClockInv
<1>3. /\ DOMAIN advisor = {"pc", "wake", "now"} /\ advisor.wake \in Nat \cup {Never}
      /\ private \in Int /\ slack \in Int
  BY <1>2 DEF ClockTypes
<1>4. advisor'.pc = "sleeping" /\ advisor'.wake = IF advisor.wake = Never THEN Never ELSE advisor.wake - 1
  BY <1>1, <1>3
<1>5. ASSUME advisor.wake # Never
      PROVE  /\ advisor.wake \in Int /\ advisor'.wake = advisor.wake - 1
             /\ advisor'.wake \in Nat \cup {Never} /\ advisor'.wake # Never
  <2>1. advisor.wake # 0
    BY <1>1
  <2>2. advisor'.wake = advisor.wake - 1
    BY <1>4, <1>5, Zenon
  <2> QED BY <1>3, <1>5, <2>1, <2>2, WaitIsLess, Zenon
<1>6. ClockTypes'
  <2>1. advisor'.wake \in Nat \cup {Never}
    BY <1>4, <1>5, Zenon
  <2>2. advisor' \in [pc : {"sleeping", "awake", "signalling"}, wake : Nat \cup {Never}, now : Int]
    BY <1>1, <1>2, <1>3, <2>1 DEF ClockTypes
  <2>3. private' \in Int
    BY <1>1, <1>3
  <2> QED BY <1>1, <1>2, <2>2, <2>3 DEF ClockTypes
<1>7. WakesInTime'
  <2> SUFFICES ASSUME sched # <<>>, ~schedEvent
               PROVE  advisor'.wake # Never /\ advisor'.wake <= (Head(sched).time - private') + slack
    BY <1>1, <1>4 DEF WakesInTime
  <2>1. advisor.wake # Never /\ advisor.wake <= (Head(sched).time - private) + slack
    BY <1>1 DEF ClockInv, WakesInTime
  <2>2. Head(sched).time \in Int
    <3>1. Head(sched) \in Packets
      BY <1>2 DEF ClockTypes
    <3> QED BY <3>1 DEF Packets
  <2>3. private' = private + 1
    BY <1>1
  <2>4. advisor.wake - 1 <= (Head(sched).time - (private + 1)) + slack
    BY <1>3, <1>5, <2>1, <2>2, LaterTime, Zenon
  <2> QED BY <1>5, <2>1, <2>3, <2>4, Zenon
<1> QED BY <1>1, <1>6, <1>7 DEF ClockInv

\* One more signal and one more period.
LEMMA OnePeriodMore ==
  ASSUME NEW n \in Nat, NEW d \in Nat, NEW t \in Int
  PROVE  (t + n * d) + d = t + (n + 1) * d
<1>1. (n + 1) * d = n * d + d
  OBVIOUS
<1>2. n * d \in Int
  OBVIOUS
<1> QED BY <1>1, <1>2

LEMMA SignalKeeps ==
  ASSUME ClockInv, SignalHead
  PROVE  ClockInv'
<1> DEFINE h == Head(sched)
           rest == Tail(sched)
<1>0. ClockTypes /\ InTimeOrder(sched) /\ SignalledInTime(Listed(sched), signals)
  BY DEF ClockInv
<1>1. /\ sched # <<>> /\ advisor.pc # "sleeping" /\ h.time <= advisor.now + Millisecond
      /\ signals' = [signals EXCEPT ![h.cookie] = @ + 1]
      /\ advisor' = [advisor EXCEPT !.pc = "signalling"]
      /\ UNCHANGED <<lastCookie, schedEvent, private, cancelled, slack>>
  BY DEF SignalHead, HeadIsDue
<1>2. \/ h.period > 0 /\ ShuntHead /\ count' = count
      \/ h.period = 0 /\ sched' = rest /\ count' = count - 1
  BY DEF SignalHead
<1>3. /\ sched \in Seq(Packets) /\ Len(sched) \in Nat /\ Len(sched) >= 1 /\ DOMAIN sched = 1..Len(sched)
      /\ h = sched[1] /\ h \in Packets /\ 1 \in 1..Len(sched) /\ count = Len(sched)
  BY <1>0, <1>1 DEF ClockTypes
<1>4. IsRemoved(rest, sched, 1)
  BY <1>1, <1>3, TailIsRemoved
<1> HIDE DEF h, rest
<1>5. /\ InTimeOrder(rest) /\ Listed(rest) = Listed(sched) \ {h}
      /\ \A p \in Listed(rest) : p.cookie # h.cookie
  BY <1>0, <1>3, <1>4, RemoveKeepsOrder
<1>6. rest \in Seq(Packets) /\ Len(rest) = Len(sched) - 1
  BY <1>4 DEF IsRemoved
<1>7. h.cookie \in Nat /\ h.time \in Int /\ h.period \in Nat /\ h.start \in Int
  BY <1>3 DEF Packets
<1>8. h \in Listed(sched)
  BY <1>3 DEF Listed
<1>9. /\ h.cookie \in DOMAIN signals /\ h.time = h.start + signals[h.cookie] * h.period
      /\ h.period = 0 => signals[h.cookie] = 0
  BY <1>0, <1>8 DEF SignalledInTime
<1>10. signals \in Seq(Nat) /\ Len(signals) = lastCookie /\ signals[h.cookie] \in Nat
  BY <1>0, <1>9 DEF ClockTypes
<1>11. /\ signals' \in Seq(Nat) /\ Len(signals') = lastCookie /\ DOMAIN signals' = DOMAIN signals
       /\ signals'[h.cookie] = signals[h.cookie] + 1
       /\ \A c \in DOMAIN signals : c # h.cookie => signals'[c] = signals[c]
  BY <1>1, <1>9, <1>10
<1>12. SignalledInTime(Listed(rest), signals')
  <2> SUFFICES ASSUME NEW p \in Listed(rest)
               PROVE  /\ p.cookie \in DOMAIN signals' /\ p.time = p.start + signals'[p.cookie] * p.period
                      /\ p.period = 0 => signals'[p.cookie] = 0
    BY DEF SignalledInTime
  <2>1. p \in Listed(sched) /\ p.cookie # h.cookie
    BY <1>5
  <2>2. p.cookie \in DOMAIN signals /\ signals'[p.cookie] = signals[p.cookie]
    BY <1>0, <1>11, <2>1 DEF SignalledInTime
  <2> QED BY <1>0, <1>11, <2>1, <2>2 DEF SignalledInTime
\* What becomes of the head: off the list, or back in it a period later.
<1>13. /\ sched' \in Seq(Packets) /\ count' = Len(sched') /\ InTimeOrder(sched')
       /\ SignalledInTime(Listed(sched'), signals')
       /\ OthersAreDone(Listed(sched'), signals', cancelled)
  <2>1. CASE h.period = 0
    <3>1. sched' = rest /\ count' = count - 1
      BY <1>2, <1>7, <2>1
    <3>2. OthersAreDone(Listed(rest), signals', cancelled)
      <4> SUFFICES ASSUME NEW c \in DOMAIN signals, \A p \in Listed(rest) : p.cookie # c
                   PROVE  c \in cancelled \/ signals'[c] = 1
        BY <1>11 DEF OthersAreDone
      <4>1. CASE c = h.cookie
        BY <1>9, <1>11, <2>1, <4>1
      <4>2. CASE c # h.cookie
        <5>1. \A p \in Listed(sched) : p.cookie # c
          BY <1>5, <4>2
        <5> QED BY <1>11, <4>2, <5>1 DEF ClockInv, OthersAreDone
      <4> QED BY <4>1, <4>2
    <3>3. sched' = rest /\ count' = count - 1
      BY <3>1
    <3>4. count - 1 = Len(rest)
      BY <1>3, <1>6
    <3>5. sched' \in Seq(Packets) /\ count' = Len(sched')
      BY <1>6, <3>3, <3>4, Zenon
    <3> QED BY <1>5, <1>12, <3>2, <3>3, <3>5, Zenon
  <2>2. CASE h.period # 0
    <3> DEFINE time == h.time + h.period
               e == [h EXCEPT !.time = time]
    <3>1. PICK at \in 1..Len(sched) : ShuntsTo(rest, time, at) /\ sched' = InsertAt(rest, at, e)
      BY <1>2, <2>2 DEF ShuntHead, h, rest
    <3>2. /\ e \in Packets /\ e.time = time /\ e.cookie = h.cookie /\ e.period = h.period /\ e.start = h.start
          /\ time \in Int
      <4>1. time \in Int
        BY <1>7
      <4>2. /\ DOMAIN h = {"cookie", "time", "period", "start"}
            /\ h = [cookie |-> h.cookie, time |-> h.time, period |-> h.period, start |-> h.start]
        BY <1>3 DEF Packets
      <4> HIDE DEF time
      <4>3. e = [cookie |-> h.cookie, time |-> time, period |-> h.period, start |-> h.start]
        BY <4>2
      <4> HIDE DEF e
      <4> QED BY <1>7, <4>1, <4>3 DEF Packets
    <3>3. e.time = e.start + signals'[e.cookie] * e.period
      <4> DEFINE n == signals[h.cookie]
      <4>1. (h.start + n * h.period) + h.period = h.start + (n + 1) * h.period
        BY <1>7, <1>10, OnePeriodMore
      <4>2. h.time = h.start + n * h.period /\ signals'[h.cookie] = n + 1
        BY <1>9, <1>11
      <4> HIDE DEF n
      <4>3. time = h.start + (n + 1) * h.period
        BY <4>1, <4>2
      <4> QED BY <3>2, <4>2, <4>3
    <3> HIDE DEF e, time
    <3>4. at \in 1..(Len(rest) + 1)
      BY <1>3, <1>6, <3>1
    <3>5. IsInserted(sched', rest, at, e)
      BY <1>6, <3>1, <3>2, <3>4, InsertedIs
    <3>6. /\ \A i \in 1..(at - 1) : rest[i].time <= e.time
          /\ at <= Len(rest) => e.time <= rest[at].time
      <4>1. \A i \in 1..Len(rest) : rest[i].time \in Int
        <5>1. \A i \in 1..Len(rest) : rest[i] \in Packets
          BY <1>6
        <5> QED BY <5>1 DEF Packets
      <4> QED BY <1>3, <1>6, <3>1, <3>2, <3>4, <4>1 DEF ShuntsTo
    <3>7. InTimeOrder(sched') /\ Listed(sched') = Listed(rest) \cup {e}
      BY <1>5, <1>6, <3>2, <3>4, <3>5, <3>6, InsertKeepsOrder
    <3>8. SignalledInTime(Listed(sched'), signals')
      BY <1>7, <1>9, <1>11, <1>12, <2>2, <3>2, <3>3, <3>7 DEF SignalledInTime
    <3>9. OthersAreDone(Listed(sched'), signals', cancelled)
      <4> SUFFICES ASSUME NEW c \in DOMAIN signals, \A p \in Listed(sched') : p.cookie # c
                   PROVE  c \in cancelled \/ signals'[c] = 1
        BY <1>11 DEF OthersAreDone
      <4>1. c # h.cookie /\ \A p \in Listed(sched) : p.cookie # c
        BY <1>5, <3>2, <3>7
      <4> QED BY <1>11, <4>1 DEF ClockInv, OthersAreDone
    <3>10. sched' \in Seq(Packets) /\ Len(sched') = Len(rest) + 1 /\ count' = count
      BY <1>2, <2>2, <3>5 DEF IsInserted
    <3> QED BY <1>3, <1>6, <3>7, <3>8, <3>9, <3>10
  <2> QED BY <2>1, <2>2
<1>14. advisor' \in [pc : {"sleeping", "awake", "signalling"}, wake : Nat \cup {Never}, now : Int]
  BY <1>0, <1>1 DEF ClockTypes
<1>15. ClockTypes'
  BY <1>0, <1>1, <1>11, <1>13, <1>14 DEF ClockTypes
<1>16. WakesInTime'
  <2>1. advisor'.pc = "signalling" /\ advisor'.now = advisor.now
    BY <1>0, <1>1 DEF ClockTypes
  <2>2. ~schedEvent => private - advisor.now <= slack
    BY <1>1 DEF ClockInv, WakesInTime
  <2> QED BY <1>1, <2>1, <2>2 DEF WakesInTime
<1> QED BY <1>1, <1>13, <1>15, <1>16 DEF ClockInv

LEMMA ClockStart == ClockInit => ClockInv
<1> SUFFICES ASSUME ClockInit PROVE ClockInv
  OBVIOUS
<1>1. ClockTypes
  <2>1. sched \in Seq(Packets) /\ signals \in Seq(Nat) /\ count = Len(sched) /\ Len(signals) = lastCookie
    BY DEF ClockInit
  <2>2. advisor \in [pc : {"sleeping", "awake", "signalling"}, wake : Nat \cup {Never}, now : Int]
    BY DEF ClockInit
  <2>3. lastCookie \in Nat /\ private \in Int /\ slack \in Int
    BY DEF ClockInit
  <2>4. schedEvent \in BOOLEAN
    BY DEF ClockInit
  <2> QED BY <2>1, <2>2, <2>3, <2>4 DEF ClockTypes
<1>2. WakesInTime /\ InTimeOrder(sched) /\ Listed(sched) = {} /\ DOMAIN signals = {}
  BY DEF ClockInit, WakesInTime, InTimeOrder, Listed
<1> QED BY <1>1, <1>2 DEF ClockInv, SignalledInTime, OthersAreDone

LEMMA ClockStep == ClockInv /\ [ClockNext]_cvars => ClockInv'
<1> SUFFICES ASSUME ClockInv, [ClockNext]_cvars PROVE ClockInv'
  OBVIOUS
<1>0. AdviseTimes \subseteq Int /\ Periods \subseteq Nat /\ Deltas \subseteq Int /\ 0 \in Nat
  BY ClockBounds
<1>1. CASE AdviseTime
  BY <1>0, <1>1, AddKeeps DEF AdviseTime
<1>2. CASE AdvisePeriodic
  BY <1>0, <1>2, AddKeeps DEF AdvisePeriodic
<1>3. CASE SetTimeDelta
  BY <1>0, <1>3, DeltaKeeps
<1>4. CASE UNCHANGED cvars
  BY <1>4 DEF cvars, ClockInv, ClockTypes, WakesInTime
<1> QED BY <1>1, <1>2, <1>3, <1>4, UnadviseKeeps, WakeKeeps, SignalKeeps, SleepKeeps, TickKeeps DEF ClockNext

LEMMA ClockKeepsAdvises == ClockInv => AdvisesKept
<1> SUFFICES ASSUME ClockInv PROVE AdvisesKept
  OBVIOUS
<1>1. /\ sched \in Seq(Packets) /\ DOMAIN sched = 1..Len(sched) /\ Len(sched) \in Nat /\ count = Len(sched)
      /\ DOMAIN signals = 1..lastCookie
  BY DEF ClockInv, ClockTypes
<1>2. \A i \in 1..(Len(sched) - 1) : sched[i].time <= sched[i + 1].time
  BY <1>1 DEF ClockInv, InTimeOrder
<1>3. \A i \in DOMAIN sched :
        /\ sched[i].time = sched[i].start + signals[sched[i].cookie] * sched[i].period
        /\ sched[i].period = 0 => signals[sched[i].cookie] = 0
  BY DEF ClockInv, SignalledInTime, Listed
<1>4. \A c \in 1..lastCookie :
        (\A i \in DOMAIN sched : sched[i].cookie # c) => c \in cancelled \/ signals[c] = 1
  BY <1>1 DEF ClockInv, OthersAreDone, Listed
<1>5. AdvisesAccounted
  BY <1>1, <1>2, <1>3, <1>4 DEF AdvisesAccounted
<1>6. NoAdviseOverslept
  BY DEF ClockInv, WakesInTime, NoAdviseOverslept
<1> QED BY <1>5, <1>6 DEF AdvisesKept

(***************************************************************************)
(* The list of advises is in the order of time, a one-shot advise is       *)
(* signalled once or cancelled, a periodic one once for every period, and  *)
(* the advising thread never sleeps past the first of them, whatever is    *)
(* added, cancelled or corrected meanwhile (CAMSchedule,                   *)
(* CBaseReferenceClock::AdviseThread).                                     *)
(***************************************************************************)
THEOREM AdvisesAreKept == ClockSpec => []AdvisesKept
BY ClockStart, ClockStep, ClockKeepsAdvises, PTL DEF ClockSpec

(***************************************************************************)
(* Advises, positions and the muxer's time limit together.                 *)
(***************************************************************************)
THEOREM TimesAreKept == TimesSpec => []TimesSafe
BY AdvisesAreKept, PositionsAreSafe, LimitsAreKept, PTL DEF TimesSpec, TimesSafe
=============================================================================
