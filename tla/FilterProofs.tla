---------------------------- MODULE FilterProofs ----------------------------
(***************************************************************************)
(* Proofs about the parts of a filter that calls reach one at a time: the  *)
(* transform filters, the queue of deferred commands, the connection of    *)
(* pins, samples and enumerators.                                          *)
(***************************************************************************)
EXTENDS TransformFilters, CommandQueue, PinConnection, SampleEnumerators,
        FiniteSetTheorems, SequenceTheorems, WellFoundedInduction, TLAPS

-----------------------------------------------------------------------------
(* CTransInPlaceFilter: which allocator each pin uses.                     *)

InPins == [connected : BOOLEAN, alloc : {"none", "up", "down", "temp"}, readOnly : BOOLEAN,
           ro : BOOLEAN, insists : BOOLEAN]
OutPins == [connected : BOOLEAN, alloc : {"none", "up", "old", "down", "own", "temp"}, offers : BOOLEAN,
            told : {"none", "up", "old", "down", "own", "temp"}, toldRO : BOOLEAN]

TipTypeOK == modifies \in BOOLEAN /\ inPin \in InPins /\ outPin \in OutPins /\ reconnect \in BOOLEAN

\* A pin that is not connected has nothing, and only a connected input waits to be reconnected.
Disconnected ==
    /\ ~inPin.connected => inPin = NoInput /\ ~reconnect
    /\ ~outPin.connected => outPin = NoOutput

\* The input's allocator is upstream's own if it insists, and only upstream's can be read-only.
InputAgreed ==
    inPin.connected =>
        /\ inPin.alloc # "none"
        /\ inPin.readOnly <=> (inPin.ro /\ inPin.alloc = "up")
        /\ inPin.insists => inPin.alloc = "up"

\* The output has downstream's allocator if that offers one, its own if not, or the input's, and downstream was told so
\* as long as there is an input.
OutputAgreed ==
    outPin.connected =>
        /\ outPin.alloc \notin {"none", "temp"} /\ outPin.told # "none"
        /\ inPin.connected => outPin.alloc = outPin.told
        /\ outPin.alloc = "up" => inPin.connected /\ inPin.alloc = "up"
        /\ outPin.told = "up" => outPin.alloc = "up"
        /\ outPin.alloc = "down" => outPin.offers
        /\ outPin.alloc = "own" => ~outPin.offers

TipInv == TipTypeOK /\ Disconnected /\ InputAgreed /\ OutputAgreed /\ TransInPlaceSafe

\* What upstream's attempt to agree on an allocator does to the output pin and gives to the input pin.
LEMMA JoinKeeps ==
  ASSUME TipInv, NEW ro \in BOOLEAN, NEW insists \in BOOLEAN, UNCHANGED modifies, reconnect' = FALSE,
         JoinInput([ro |-> ro, insists |-> insists]),
         inPin.connected => inPin.ro = ro /\ inPin.insists = insists
  PROVE  TipInv'
<1> USE DEF TipInv, TipTypeOK, InPins, OutPins, Disconnected, InputAgreed, OutputAgreed, TransInPlaceSafe,
            ReadOnlyIsCopied, DownstreamKnows, InPlaceWhenPossible, Settled, NoInput, NoOutput
<1> DEFINE p == [ro |-> ro, insists |-> insists]
           n == Negotiated(outPin, p)
<1> DEFINE Told(a, readOnly) == [connected |-> TRUE, alloc |-> a, offers |-> outPin.offers, told |-> a, toldRO |-> readOnly]
           In(a, readOnly) == [connected |-> TRUE, alloc |-> a, readOnly |-> readOnly, ro |-> ro, insists |-> insists]
<1> USE DEF JoinInput, Negotiated, InputNotifyAllocator, OfferedUpstream, AfterOffer
<1>0. /\ outPin = [connected |-> outPin.connected, alloc |-> outPin.alloc, offers |-> outPin.offers,
                   told |-> outPin.told, toldRO |-> outPin.toldRO]
      /\ outPin.offers \in BOOLEAN /\ outPin.toldRO \in BOOLEAN
  OBVIOUS
<1>1. CASE ~outPin.connected
  <2>1. outPin' = outPin /\ inPin' \in {In("up", ro), In("temp", FALSE)} /\ (insists => inPin' = In("up", ro))
    BY <1>1, <1>0
  <2>2. OutputAgreed' /\ TransInPlaceSafe'
    BY <1>1, <2>1
  <2>3. CASE inPin' = In("up", ro)
    <3>1. TipTypeOK' BY <1>1, <2>1, <2>3
    <3>2. Disconnected' /\ InputAgreed' BY <1>1, <2>1, <2>3
    <3> QED BY <2>2, <3>1, <3>2
  <2>4. CASE inPin' = In("temp", FALSE) /\ ~insists
    <3>1. TipTypeOK' BY <1>1, <2>1, <2>4
    <3>2. Disconnected' /\ InputAgreed' BY <1>1, <2>1, <2>4
    <3> QED BY <2>2, <3>1, <3>2
  <2> QED BY <2>1, <2>3, <2>4
<1>2. CASE outPin.connected /\ outPin.offers /\ ~insists
  <2>1. n = [ok |-> TRUE, alloc |-> "down", readOnly |-> FALSE, out |-> Told("down", FALSE)]
    BY <1>2, <1>0
  <2>2. outPin' = Told("down", FALSE) /\ inPin' = In("down", FALSE)
    BY <2>1
  <2>3. TipTypeOK' /\ Disconnected' /\ InputAgreed'
    BY <1>2, <2>2
  <2>4. OutputAgreed' /\ TransInPlaceSafe'
    BY <1>2, <2>2
  <2> QED BY <2>3, <2>4
<1>3. CASE outPin.connected /\ outPin.offers /\ insists
  <2>1. CASE ro /\ modifies
    <3>1. n = [ok |-> TRUE, alloc |-> "up", readOnly |-> ro, out |-> Told("down", FALSE)]
      BY <1>3, <2>1, <1>0
    <3>2. AfterOffer(outPin) = [outPin EXCEPT !.alloc = "down"]
      BY <1>3
    <3>3. \/ outPin' = Told("down", FALSE) /\ inPin' = In("up", ro)
          \/ outPin' = [outPin EXCEPT !.alloc = "down"] /\ inPin' = NoInput
      BY <3>1, <3>2
    <3>4. CASE outPin' = Told("down", FALSE) /\ inPin' = In("up", ro)
      <4>1. TipTypeOK' BY <1>3, <2>1, <3>4
      <4>2. Disconnected' /\ InputAgreed' BY <1>3, <2>1, <3>4
      <4>3. OutputAgreed' /\ TransInPlaceSafe' BY <1>3, <2>1, <3>4
      <4> QED BY <4>1, <4>2, <4>3
    <3>5. CASE outPin' = [outPin EXCEPT !.alloc = "down"] /\ inPin' = NoInput
      <4>0. outPin' = [connected |-> TRUE, alloc |-> "down", offers |-> TRUE, told |-> outPin.told, toldRO |-> outPin.toldRO]
        BY <1>3, <1>0, <3>5
      <4>1. TipTypeOK' BY <1>3, <2>1, <3>5, <4>0
      <4>2. Disconnected' /\ InputAgreed' BY <1>3, <2>1, <3>5, <4>0
      <4>3. OutputAgreed' /\ TransInPlaceSafe' BY <1>3, <2>1, <3>5, <4>0
      <4> QED BY <4>1, <4>2, <4>3
    <3> QED BY <3>3, <3>4, <3>5
  <2>2. CASE ~(ro /\ modifies)
    <3>1. n = [ok |-> TRUE, alloc |-> "up", readOnly |-> ro, out |-> Told("up", ro)]
      BY <1>3, <2>2, <1>0
    <3>2. outPin' = Told("up", ro) /\ inPin' = In("up", ro)
      BY <3>1, <2>2
    <3>3. TipTypeOK' /\ Disconnected' /\ InputAgreed'
      BY <1>3, <2>2, <3>2
    <3>4. OutputAgreed' /\ TransInPlaceSafe'
      BY <1>3, <2>2, <3>2
    <3> QED BY <3>3, <3>4
  <2> QED BY <2>1, <2>2
<1>4. CASE outPin.connected /\ ~outPin.offers
  <2>1. CASE ro /\ modifies
    <3>1. n = IF outPin.alloc = "up" THEN [ok |-> FALSE, alloc |-> "up", readOnly |-> ro, out |-> outPin]
              ELSE [ok |-> TRUE, alloc |-> "up", readOnly |-> ro, out |-> Told(outPin.alloc, FALSE)]
      BY <1>4, <2>1, <1>0
    <3>2. \/ outPin' = Told(outPin.alloc, FALSE) /\ inPin' = In("up", ro) /\ outPin.alloc # "up"
          \/ outPin' = outPin /\ inPin' = NoInput
      BY <3>1, <1>4
    <3>3. CASE outPin' = Told(outPin.alloc, FALSE) /\ inPin' = In("up", ro) /\ outPin.alloc # "up"
      <4>1. TipTypeOK' BY <1>4, <2>1, <3>3
      <4>2. Disconnected' /\ InputAgreed' BY <1>4, <2>1, <3>3
      <4>3. OutputAgreed' /\ TransInPlaceSafe' BY <1>4, <2>1, <3>3
      <4> QED BY <4>1, <4>2, <4>3
    <3>4. CASE outPin' = outPin /\ inPin' = NoInput
      <4>1. TipTypeOK' BY <1>4, <2>1, <3>4
      <4>2. Disconnected' /\ InputAgreed' BY <1>4, <2>1, <3>4
      <4>3. OutputAgreed' /\ TransInPlaceSafe' BY <1>4, <2>1, <3>4
      <4> QED BY <4>1, <4>2, <4>3
    <3> QED BY <3>2, <3>3, <3>4
  <2>2. CASE ~(ro /\ modifies)
    <3>1. n = [ok |-> TRUE, alloc |-> "up", readOnly |-> ro, out |-> Told("up", ro)]
      BY <1>4, <2>2, <1>0
    <3>2. outPin' = Told("up", ro) /\ inPin' = In("up", ro)
      BY <3>1, <2>2
    <3>3. TipTypeOK' /\ Disconnected' /\ InputAgreed'
      BY <1>4, <2>2, <3>2
    <3>4. OutputAgreed' /\ TransInPlaceSafe'
      BY <1>4, <2>2, <3>2
    <3> QED BY <3>3, <3>4
  <2> QED BY <2>1, <2>2
<1> QED BY <1>1, <1>2, <1>3, <1>4

LEMMA TipKeeps == TipInv /\ [TipNext]_tipvars => TipInv'
<1> SUFFICES ASSUME TipInv, [TipNext]_tipvars PROVE TipInv'
  OBVIOUS
<1> USE DEF TipInv, TipTypeOK, InPins, OutPins, Disconnected, InputAgreed, OutputAgreed, TransInPlaceSafe,
            ReadOnlyIsCopied, DownstreamKnows, InPlaceWhenPossible, Settled, NoInput, NoOutput
<1>1. ASSUME NEW ro \in BOOLEAN, NEW insists \in BOOLEAN, ConnectInput(ro, insists) PROVE TipInv'
  BY <1>1, JoinKeeps DEF ConnectInput
<1>2. ASSUME NEW offers \in BOOLEAN, ConnectOutput(offers) PROVE TipInv'
  BY <1>2 DEF ConnectOutput
<1>3. CASE ReconnectInput
  BY <1>3, JoinKeeps DEF ReconnectInput
<1>4. CASE DisconnectInput
  <2>0. /\ outPin'.connected = outPin.connected /\ outPin'.offers = outPin.offers /\ outPin'.toldRO = outPin.toldRO
        /\ outPin' = [connected |-> outPin'.connected, alloc |-> outPin'.alloc, offers |-> outPin'.offers,
                      told |-> outPin'.told, toldRO |-> outPin'.toldRO]
        /\ outPin'.alloc \in {outPin.alloc, "old"} /\ outPin'.told \in {outPin.told, "old"}
    BY <1>4 DEF DisconnectInput
  <2>1. TipTypeOK'
    <3>1. outPin' \in OutPins BY <2>0
    <3>2. inPin' \in InPins BY <1>4 DEF DisconnectInput
    <3> HIDE DEF InPins, OutPins
    <3> QED BY <1>4, <3>1, <3>2 DEF DisconnectInput
  <2>2. Disconnected'
    <3>1. ASSUME ~outPin.connected PROVE outPin' = NoOutput
      <4>1. outPin = NoOutput BY <3>1
      <4>2. outPin'.connected = FALSE /\ outPin'.offers = FALSE /\ outPin'.toldRO = FALSE
        BY <4>1, <2>0
      <4>3. outPin'.alloc = "none" /\ outPin'.told = "none"
        BY <4>1, <1>4 DEF DisconnectInput
      <4> QED BY <4>2, <4>3, <2>0
    <3> QED BY <1>4, <2>0, <3>1 DEF DisconnectInput
  <2>3. InputAgreed' BY <1>4 DEF DisconnectInput
  <2>4. OutputAgreed' BY <1>4 DEF DisconnectInput
  <2>5. TransInPlaceSafe' BY <1>4 DEF DisconnectInput
  <2> QED BY <2>1, <2>2, <2>3, <2>4, <2>5
<1>5. CASE DisconnectOutput
  BY <1>5 DEF DisconnectOutput
<1>6. CASE UNCHANGED tipvars
  BY <1>6 DEF tipvars
<1> QED BY <1>1, <1>2, <1>3, <1>4, <1>5, <1>6 DEF TipNext

LEMMA TipSafe == TipSpec => []TransInPlaceSafe
<1>1. TipInit => TipInv
  <2> SUFFICES ASSUME TipInit PROVE TipInv OBVIOUS
  <2> USE DEF TipInit, TipInv, TipTypeOK, InPins, OutPins, Disconnected, InputAgreed, OutputAgreed, TransInPlaceSafe,
         ReadOnlyIsCopied, DownstreamKnows, InPlaceWhenPossible, Settled, NoInput, NoOutput
  <2>1. TipTypeOK OBVIOUS
  <2>2. Disconnected OBVIOUS
  <2>3. InputAgreed OBVIOUS
  <2>4. OutputAgreed OBVIOUS
  <2>5. TransInPlaceSafe OBVIOUS
  <2> QED BY <2>1, <2>2, <2>3, <2>4, <2>5
<1>2. TipInv => TransInPlaceSafe
  BY DEF TipInv
<1> QED BY <1>1, <1>2, TipKeeps, PTL DEF TipSpec

-----------------------------------------------------------------------------
(* CVideoTransformFilter: which frames are left out.                       *)

\* What its fields may be; the times and counts it keeps besides do not matter here.
Members(v) ==
    /\ DOMAIN v = {"itrLate", "nKeyFramePeriod", "nFramesSinceKeyFrame", "bSkipping", "nWaitForKey",
                   "bSampleSkipped", "bQualityChanged"}
    /\ v.nWaitForKey \in Nat /\ v.bSkipping \in BOOLEAN /\ v.bSampleSkipped \in BOOLEAN

Observations(s) ==
    /\ DOMAIN s = {"frames", "whole", "excused", "mustKey", "dropped", "shown", "flagged"}
    /\ s.frames \in Nat /\ s.whole \in BOOLEAN /\ s.excused \in BOOLEAN /\ s.mustKey \in BOOLEAN
    /\ s.dropped \in BOOLEAN /\ s.shown \in BOOLEAN /\ s.flagged \in BOOLEAN

\* What the decoder has is whole, or the code has excused itself, or it holds frames back, or it skips up to a key frame.
Carried == seen.whole \/ seen.excused \/ vt.nWaitForKey > 0 \/ (seen.mustKey /\ vt.bSkipping)

\* m_bSampleSkipped remembers what became of the last frame.
Remembered == seen.frames = 0 \/ (vt.bSampleSkipped <=> seen.dropped)

VtInv == Members(vt) /\ Observations(seen) /\ Carried /\ Remembered /\ VideoTransformSafe

LEMMA RestartedIs ==
  ASSUME NEW v, Members(v)
  PROVE  /\ Members(Restarted(v)) /\ Restarted(v).nWaitForKey = v.nWaitForKey
         /\ Restarted(v).bSkipping = FALSE /\ Restarted(v).bSampleSkipped = FALSE
BY DEF Restarted, Members

LEMMA SeesKeyIs ==
  ASSUME NEW v, Members(v), NEW f \in Frames
  PROVE  /\ Members(SeesKey(v, f))
         /\ SeesKey(v, f).nWaitForKey = v.nWaitForKey
         /\ SeesKey(v, f).bSampleSkipped = v.bSampleSkipped
         /\ SeesKey(v, f).bSkipping = IF f.key THEN FALSE ELSE v.bSkipping
BY DEF SeesKey, Members, Frames

\* ShouldSkipFrame leaves the wait and the memory alone, and ends a skip at a key frame only.
LEMMA JudgedIs ==
  ASSUME NEW v, Members(v), NEW f \in Frames
  PROVE  /\ Members(Judged(v, f))
         /\ Judged(v, f).nWaitForKey = v.nWaitForKey
         /\ Judged(v, f).bSampleSkipped = v.bSampleSkipped
         /\ v.bSkipping /\ ~f.key => Judged(v, f).bSkipping
<1>1. CASE ~f.timed
  BY <1>1 DEF Judged
<1>2. CASE f.timed
  <2> DEFINE k == SeesKey(v, f)
             skips == k.bSkipping \/ BeginsToSkip(k, f)
             j == [k EXCEPT !.bSkipping = skips, !.nFramesSinceKeyFrame = @ + 1,
                            !.itrLate = IF skips THEN @ - FrameTime ELSE @, !.bQualityChanged = @ \/ skips]
  <2>1. Judged(v, f) = j
    BY <1>2 DEF Judged
  <2>2. /\ Members(k) /\ k.nWaitForKey = v.nWaitForKey /\ k.bSampleSkipped = v.bSampleSkipped
        /\ v.bSkipping /\ ~f.key => k.bSkipping
    BY SeesKeyIs DEF Members
  <2>3. skips \in BOOLEAN /\ (k.bSkipping => skips)
    OBVIOUS
  <2> HIDE DEF k, skips
  <2>4. j.bSkipping = skips /\ j.nWaitForKey = k.nWaitForKey /\ j.bSampleSkipped = k.bSampleSkipped
        /\ DOMAIN j = DOMAIN k
    BY <2>2 DEF Members
  <2> QED BY <2>1, <2>2, <2>3, <2>4 DEF Members
<1> QED BY <1>1, <1>2

LEMMA WaitedIs ==
  ASSUME NEW v, Members(v), NEW f \in Frames, v.nWaitForKey < WaitFrames
  PROVE  /\ Waited(v, f) \in Nat /\ Waited(v, f) < WaitFrames
         /\ f.key => Waited(v, f) = 0
         /\ f.gap \/ f.newOut => f.key \/ Waited(v, f) > 0
         /\ v.nWaitForKey > 0 => f.key \/ Waited(v, f) > 0 \/ v.nWaitForKey = 1
BY FrameBounds DEF Waited, Members, Frames

\* What a frame that is decoded leaves of the fields: whether it is held back, and the wait that is left.
Decoded(v, newOut, wait, holds) ==
    LET buffered == [v EXCEPT !.bSampleSkipped = FALSE]
        decoded == [(IF newOut THEN Restarted(buffered) ELSE buffered) EXCEPT !.nWaitForKey = wait]
    IN  IF holds THEN [decoded EXCEPT !.bSampleSkipped = TRUE, !.bQualityChanged = TRUE] ELSE decoded

IsDecoded(after, v, newOut, wait, holds) ==
    /\ Members(after) /\ after.nWaitForKey = wait /\ (after.bSampleSkipped <=> holds)
    /\ ~newOut => after.bSkipping = v.bSkipping

LEMMA DecodedIs ==
  ASSUME NEW v, Members(v), NEW newOut \in BOOLEAN, NEW wait \in Nat, NEW holds \in BOOLEAN, NEW after,
         after = Decoded(v, newOut, wait, holds)
  PROVE  IsDecoded(after, v, newOut, wait, holds)
<1> DEFINE buffered == [v EXCEPT !.bSampleSkipped = FALSE]
           base == IF newOut THEN Restarted(buffered) ELSE buffered
           decoded == [base EXCEPT !.nWaitForKey = wait]
           left == IF holds THEN [decoded EXCEPT !.bSampleSkipped = TRUE, !.bQualityChanged = TRUE] ELSE decoded
<1>1. Members(buffered) /\ buffered.bSampleSkipped = FALSE /\ buffered.bSkipping = v.bSkipping
  BY DEF Members
<1> HIDE DEF buffered
<1>2. Members(base) /\ base.bSampleSkipped = FALSE /\ (~newOut => base.bSkipping = v.bSkipping)
  BY <1>1, RestartedIs
<1> HIDE DEF base
<1>3. Members(decoded) /\ decoded.nWaitForKey = wait /\ decoded.bSampleSkipped = FALSE
      /\ decoded.bSkipping = base.bSkipping
  BY <1>2 DEF Members
<1> HIDE DEF decoded
<1>4. Members(left) /\ left.nWaitForKey = wait /\ left.bSkipping = decoded.bSkipping
      /\ (left.bSampleSkipped <=> holds)
  BY <1>3 DEF Members
<1> HIDE DEF left
<1>5. Members(left) /\ left.nWaitForKey = wait /\ (left.bSampleSkipped <=> holds)
      /\ (~newOut => left.bSkipping = v.bSkipping)
  BY <1>2, <1>3, <1>4
<1>6. after = left
  BY DEF Decoded, left, decoded, base, buffered
<1> QED BY <1>5, <1>6 DEF IsDecoded

LEMMA VtKeeps == VtInv /\ [VtNext]_vtvars => VtInv'
<1> SUFFICES ASSUME VtInv, [VtNext]_vtvars PROVE VtInv'
  OBVIOUS
<1> USE DEF VtInv, Carried, Remembered, VideoTransformSafe, ShownIsWhole, SkipIsFlagged, WaitBounded
<1>1. CASE StartStreaming
  <2>1. Members(vt') /\ vt'.nWaitForKey = vt.nWaitForKey /\ vt'.bSampleSkipped = FALSE
    BY <1>1, RestartedIs DEF StartStreaming
  <2>2. /\ Observations(seen') /\ seen'.excused /\ seen'.dropped = FALSE
        /\ seen'.shown = seen.shown /\ seen'.flagged = seen.flagged
    BY <1>1 DEF StartStreaming, Observations
  <2> QED BY <2>1, <2>2
<1>2. ASSUME NEW late \in LateTimes, AlterQuality(late) PROVE VtInv'
  <2>1. Members(vt') /\ vt'.nWaitForKey = vt.nWaitForKey /\ vt'.bSampleSkipped = vt.bSampleSkipped
        /\ vt'.bSkipping = vt.bSkipping /\ seen' = seen
    BY <1>2 DEF AlterQuality, Members
  <2> QED BY <2>1
<1>3. ASSUME NEW f \in Frames, ReceiveFrame(f) PROVE VtInv'
  <2> DEFINE from == IF f.newIn THEN Restarted(vt) ELSE vt
             judged == Judged(from, f)
             wait == Waited(judged, f)
             holds == wait > 0 \/ f.refused
             whole == f.key \/ (seen.whole /\ ~f.gap /\ ~f.newOut)
             excused == ~f.key /\ (seen.excused \/ (judged.nWaitForKey = 1 /\ wait = 0)
                                     \/ (seen.mustKey /\ (~f.timed \/ f.newIn)))
  <2>1. /\ Members(from) /\ from.nWaitForKey = vt.nWaitForKey
        /\ ~f.newIn => from = vt
    BY RestartedIs
  <2> HIDE DEF from
  <2>2. /\ Members(judged) /\ judged.nWaitForKey = vt.nWaitForKey
        /\ ~f.newIn => judged.bSampleSkipped = vt.bSampleSkipped
        /\ ~f.newIn /\ ~f.key /\ vt.bSkipping => judged.bSkipping
    BY <2>1, JudgedIs
  <2> HIDE DEF judged
  <2>3. CASE Skips(judged, f)
    <3>1. /\ vt' = [judged EXCEPT !.bSampleSkipped = TRUE]
          /\ seen' = [seen EXCEPT !.frames = @ + 1, !.whole = FALSE, !.mustKey = TRUE, !.dropped = TRUE]
      BY <1>3, <2>3 DEF ReceiveFrame, judged, from
    <3>2. Members(vt') /\ vt'.nWaitForKey = vt.nWaitForKey /\ vt'.bSampleSkipped = TRUE /\ vt'.bSkipping
      BY <2>2, <2>3, <3>1 DEF Members, Skips
    <3>3. Observations(seen') /\ seen'.mustKey /\ seen'.dropped = TRUE
          /\ seen'.shown = seen.shown /\ seen'.flagged = seen.flagged /\ seen'.frames = seen.frames + 1
      <4>1. /\ DOMAIN seen' = DOMAIN seen /\ seen'.frames = seen.frames + 1 /\ seen'.whole = FALSE
            /\ seen'.excused = seen.excused /\ seen'.mustKey = TRUE /\ seen'.dropped = TRUE
            /\ seen'.shown = seen.shown /\ seen'.flagged = seen.flagged
        <5> DEFINE s == seen
        <5>1. Observations(s) /\ seen' = [s EXCEPT !.frames = @ + 1, !.whole = FALSE, !.mustKey = TRUE, !.dropped = TRUE]
          BY <3>1
        <5>2. s = seen
          OBVIOUS
        <5> HIDE DEF s, VtInv
        <5> QED BY <5>1, <5>2 DEF Observations
      <4>2. Observations(seen')
        <5>1. Observations(seen)
          OBVIOUS
        <5>2. seen'.frames \in Nat
          BY <4>1, <5>1 DEF Observations
        <5>3. seen'.excused \in BOOLEAN /\ seen'.shown \in BOOLEAN /\ seen'.flagged \in BOOLEAN
          BY <4>1, <5>1 DEF Observations
        <5>4. DOMAIN seen' = {"frames", "whole", "excused", "mustKey", "dropped", "shown", "flagged"}
          BY <4>1, <5>1 DEF Observations
        <5> QED BY <4>1, <5>2, <5>3, <5>4 DEF Observations
      <4>3. seen'.mustKey
        BY <4>1
      <4> QED BY <4>1, <4>2, <4>3
    <3> QED BY <3>2, <3>3
  <2>4. CASE ~Skips(judged, f)
    <3>1. /\ wait \in Nat /\ wait < WaitFrames /\ (f.key => wait = 0)
          /\ f.gap \/ f.newOut => f.key \/ wait > 0
          /\ vt.nWaitForKey > 0 => f.key \/ wait > 0 \/ judged.nWaitForKey = 1
      BY <2>2, WaitedIs
    <3> HIDE DEF wait
    <3>2. holds \in BOOLEAN /\ whole \in BOOLEAN /\ excused \in BOOLEAN
      BY DEF Frames
    <3>3. /\ seen' = [frames |-> seen.frames + 1, whole |-> whole, excused |-> excused,
                      mustKey |-> seen.mustKey /\ ~f.key /\ ~f.newIn, dropped |-> holds,
                      shown |-> seen.shown /\ (holds \/ whole \/ excused),
                      flagged |-> seen.flagged
                                 /\ (judged.bSampleSkipped = seen.dropped \/ f.newIn \/ seen.frames = 0)]
      BY <1>3, <2>4 DEF ReceiveFrame, judged, from, wait
    <3>4. Members(vt') /\ vt'.nWaitForKey = wait /\ (vt'.bSampleSkipped <=> holds)
          /\ (~f.newOut => vt'.bSkipping = judged.bSkipping)
      <4>1. vt' = Decoded(judged, f.newOut, wait, holds)
        BY <1>3, <2>4 DEF ReceiveFrame, Decoded, judged, from, wait
      <4>2. f.newOut \in BOOLEAN
        BY DEF Frames
      <4>3. Members(judged) /\ wait \in Nat /\ holds \in BOOLEAN
        BY <2>2, <3>1, <3>2
      <4> HIDE DEF holds, whole, excused, VtInv, Carried, Remembered
      <4>4. IsDecoded(Decoded(judged, f.newOut, wait, holds), judged, f.newOut, wait, holds)
        BY <4>2, <4>3, DecodedIs
      <4> QED BY <4>1, <4>4 DEF IsDecoded
    <3>5. Observations(seen')
      BY <3>2, <3>3, <2>2 DEF Observations, Members, Frames
    <3>10. whole \/ excused \/ wait > 0
      <4>1. CASE seen.mustKey /\ vt.bSkipping
        BY <2>2, <2>4, <3>1, <4>1 DEF Skips
      <4>2. CASE seen.whole \/ seen.excused \/ vt.nWaitForKey > 0
        BY <2>2, <3>1, <4>2 DEF Members
      <4> QED BY <4>1, <4>2
    <3>6. Carried'
      BY <3>10, <3>3, <3>4
    <3>7. Remembered'
      BY <3>3, <3>4, <3>2
    <3>8. seen'.shown
      BY <3>10, <3>3
    <3>9. seen'.flagged
      BY <2>2, <3>3 DEF Observations, Members
    <3> QED BY <3>1, <3>4, <3>5, <3>6, <3>7, <3>8, <3>9
  <2> QED BY <2>3, <2>4
<1>4. CASE UNCHANGED vtvars
  BY <1>4 DEF vtvars
<1> QED BY <1>1, <1>2, <1>3, <1>4 DEF VtNext

LEMMA VtSafe == VtSpec => []VideoTransformSafe
<1>1. VtInit => VtInv
  <2> SUFFICES ASSUME VtInit PROVE VtInv OBVIOUS
  <2>1. Members(vt) BY DEF VtInit, Members
  <2>2. Observations(seen) BY DEF VtInit, Observations
  <2>3. Carried /\ Remembered BY DEF VtInit, Carried, Remembered
  <2>4. VideoTransformSafe
    BY FrameBounds DEF VtInit, VideoTransformSafe, ShownIsWhole, SkipIsFlagged, WaitBounded
  <2> QED BY <2>1, <2>2, <2>3, <2>4 DEF VtInv
<1>2. VtInv => VideoTransformSafe
  BY DEF VtInv
<1> QED BY <1>1, <1>2, VtKeeps, PTL DEF VtSpec

-----------------------------------------------------------------------------
(* CTransformFilter: state changes, flushes and Receive.                   *)

XformTypes ==
    /\ class \in {"transform", "video"}
    /\ DOMAIN xf = {"state", "flushing", "eos", "in", "out", "committed", "streaming", "failed", "flushes"}
    /\ xf.state \in {"stopped", "paused", "running"} /\ xf.flushing \in BOOLEAN /\ xf.eos \in BOOLEAN
    /\ xf.in \in BOOLEAN /\ xf.out \in BOOLEAN /\ xf.committed \in BOOLEAN /\ xf.failed \in BOOLEAN
    /\ xf.streaming \in Int /\ xf.flushes \in Nat
    /\ DOMAIN locks = {"filter", "receive"}
    /\ app \in {"idle", "stopping"}
    /\ flusher \in {"idle", "forward", "begun", "sync", "restart", "unblock"}
    /\ DOMAIN pusher = {"at", "flush"} /\ pusher.at \in {"idle", "buffer", "transform", "deliver", "end"}
    /\ pusher.flush \in Nat
    /\ DOMAIN below = {"flushing", "stopped", "held", "ends", "flushes", "current", "overtaken"}
    /\ below.overtaken \in BOOLEAN /\ below.flushing \in BOOLEAN /\ below.stopped \in BOOLEAN /\ below.current \in BOOLEAN
    /\ below.held \in Nat /\ below.ends \in Nat /\ below.flushes \in Nat

\* Who has which lock.
LocksHeld ==
    /\ locks.receive = IF pusher.at = "idle" THEN "free" ELSE "pusher"
    /\ locks.filter = IF app = "stopping" THEN "app"
                      ELSE IF flusher \in {"forward", "sync", "restart", "unblock"} THEN "flusher" ELSE "free"
    /\ app = "stopping" => flusher \in {"idle", "begun"}

\* Only a connected filter streams, and one whose receiver has stopped has no buffers.
Streams ==
    /\ pusher.at # "idle" => Connected /\ xf.state # "stopped"
    /\ xf.committed => Connected /\ xf.state # "stopped" /\ ~below.stopped
    /\ app = "stopping" => below.stopped /\ Connected /\ xf.state # "stopped"
    /\ ~xf.failed => xf.streaming = (IF Connected /\ xf.state # "stopped" THEN 1 ELSE 0)

\* A sample from before a flush is still in Receive only while the receiver refuses it, unless EndFlush overtook it.
OldIsRefused ==
    /\ below.flushes <= xf.flushes
    /\ class = "video" => ~below.overtaken
    /\ class = "video" /\ flusher \in {"restart", "unblock"} /\ pusher.at # "idle" => pusher.flush >= below.flushes
    /\ ~below.overtaken =>
          /\ pusher.at # "idle" /\ pusher.flush < below.flushes => below.flushing \/ below.stopped
          /\ below.current

\* The end of the stream is delivered by the Pause that finds no input, once in a session.
EndDelivered ==
    /\ xf.state = "stopped" => ~xf.eos
    /\ xf.state # "stopped" => (xf.eos <=> ~xf.in)
    /\ ~below.stopped => below.ends = IF xf.eos /\ xf.out THEN 1 ELSE 0
    /\ below.ends =< 1

XformInv == XformTypes /\ LocksHeld /\ Streams /\ OldIsRefused /\ EndDelivered

LEMMA XformKeeps == XformInv /\ [XformNext]_xvars => XformInv'
<1> SUFFICES ASSUME XformInv, [XformNext]_xvars PROVE XformInv'
  OBVIOUS
<1>0. class' = class
  BY DEF XformNext, xvars
<1> USE <1>0 DEF XformInv, Connected, InReceiveSinceBefore
<1>1. ASSUME NEW i \in BOOLEAN, NEW o \in BOOLEAN, ConnectPins(i, o) PROVE XformInv'
  <2>1. XformTypes'
    BY <1>1 DEF ConnectPins, XformTypes
  <2>2. LocksHeld'
    BY <1>1 DEF ConnectPins, XformTypes, LocksHeld
  <2>3. Streams'
    BY <1>1 DEF ConnectPins, XformTypes, LocksHeld, Streams
  <2>4. OldIsRefused'
    BY <1>1 DEF ConnectPins, XformTypes, LocksHeld, Streams, OldIsRefused
  <2>5. EndDelivered'
    BY <1>1 DEF ConnectPins, XformTypes, EndDelivered
  <2> QED BY <2>1, <2>2, <2>3, <2>4, <2>5
<1>2. CASE BelowPauses
  <2>1. XformTypes'
    BY <1>2 DEF BelowPauses, XformTypes
  <2>2. LocksHeld'
    BY <1>2 DEF BelowPauses, XformTypes, LocksHeld
  <2>3. Streams'
    BY <1>2 DEF BelowPauses, XformTypes, LocksHeld, Streams
  <2>4. OldIsRefused'
    BY <1>2 DEF BelowPauses, XformTypes, LocksHeld, Streams, OldIsRefused
  <2>5. EndDelivered'
    BY <1>2 DEF BelowPauses, XformTypes, EndDelivered
  <2> QED BY <2>1, <2>2, <2>3, <2>4, <2>5
<1>3. CASE BelowStops
  <2>1. XformTypes'
    BY <1>3 DEF BelowStops, XformTypes
  <2>2. LocksHeld'
    BY <1>3 DEF BelowStops, XformTypes, LocksHeld
  <2>3. Streams'
    BY <1>3 DEF BelowStops, XformTypes, LocksHeld, Streams
  <2>4. OldIsRefused'
    BY <1>3 DEF BelowStops, XformTypes, LocksHeld, Streams, OldIsRefused
  <2>5. EndDelivered'
    BY <1>3 DEF BelowStops, XformTypes, EndDelivered
  <2> QED BY <2>1, <2>2, <2>3, <2>4, <2>5
<1>4. CASE BelowReleases
  <2>1. XformTypes'
    BY <1>4 DEF BelowReleases, XformTypes
  <2>2. LocksHeld'
    BY <1>4 DEF BelowReleases, XformTypes, LocksHeld
  <2>3. Streams'
    BY <1>4 DEF BelowReleases, XformTypes, LocksHeld, Streams
  <2>4. OldIsRefused'
    BY <1>4 DEF BelowReleases, XformTypes, LocksHeld, Streams, OldIsRefused
  <2>5. EndDelivered'
    BY <1>4 DEF BelowReleases, XformTypes, EndDelivered
  <2> QED BY <2>1, <2>2, <2>3, <2>4, <2>5
<1>5. CASE PauseUnconnected
  <2>1. XformTypes'
    BY <1>5 DEF PauseUnconnected, XformTypes
  <2>2. LocksHeld'
    BY <1>5 DEF PauseUnconnected, XformTypes, LocksHeld
  <2>3. Streams'
    BY <1>5 DEF PauseUnconnected, XformTypes, LocksHeld, Streams
  <2>4. OldIsRefused'
    BY <1>5 DEF PauseUnconnected, XformTypes, LocksHeld, Streams, OldIsRefused
  <2>5. EndDelivered'
    <3>1. xf' = [xf EXCEPT !.state = "paused", !.eos = @ \/ ~xf.in] /\ ~below.stopped /\ xf.state # "paused"
      BY <1>5 DEF PauseUnconnected
    <3>2. xf'.state = "paused" /\ xf'.in = xf.in /\ xf'.out = xf.out /\ (xf'.eos <=> xf.eos \/ ~xf.in)
      BY <3>1 DEF XformTypes
    <3>3. CASE ~xf.in /\ ~xf.eos /\ xf.out
      <4>1. below' = [below EXCEPT !.ends = @ + 1]
        BY <1>5, <3>3 DEF PauseUnconnected
      <4> QED BY <3>1, <3>2, <3>3, <4>1 DEF XformTypes, EndDelivered
    <3>4. CASE ~(~xf.in /\ ~xf.eos /\ xf.out)
      <4>1. below' = below
        BY <1>5, <3>4 DEF PauseUnconnected
      <4> QED BY <3>1, <3>2, <3>4, <4>1 DEF XformTypes, EndDelivered
    <3> QED BY <3>3, <3>4
  <2> QED BY <2>1, <2>2, <2>3, <2>4, <2>5
<1>6. CASE PauseConnected
  <2>1. \/ xf' = [xf EXCEPT !.state = "paused", !.committed = TRUE,
                          !.streaming = IF xf.state = "stopped" THEN @ + 1 ELSE @]
        \/ xf' = [xf EXCEPT !.failed = TRUE]
        \/ xf' = [xf EXCEPT !.failed = TRUE, !.streaming = @ + 1]
    BY <1>6 DEF PauseConnected
  <2>2. /\ DOMAIN xf' = DOMAIN xf /\ xf'.in = xf.in /\ xf'.out = xf.out /\ xf'.eos = xf.eos
        /\ xf'.flushing = xf.flushing /\ xf'.flushes = xf.flushes
    BY <2>1 DEF XformTypes
  <2>3. \/ /\ xf'.state = "paused" /\ xf'.committed = TRUE /\ xf'.failed = xf.failed
           /\ xf'.streaming = IF xf.state = "stopped" THEN xf.streaming + 1 ELSE xf.streaming
        \/ /\ xf'.state = xf.state /\ xf'.committed = xf.committed /\ xf'.failed = TRUE
           /\ xf'.streaming \in {xf.streaming, xf.streaming + 1}
    <3>1. CASE xf' = [xf EXCEPT !.state = "paused", !.committed = TRUE,
                                !.streaming = IF xf.state = "stopped" THEN @ + 1 ELSE @]
      BY <3>1 DEF XformTypes
    <3>2. CASE xf' = [xf EXCEPT !.failed = TRUE]
      BY <3>2 DEF XformTypes
    <3>3. CASE xf' = [xf EXCEPT !.failed = TRUE, !.streaming = @ + 1]
      BY <3>3 DEF XformTypes
    <3> QED BY <2>1, <3>1, <3>2, <3>3
  <2>4. Connected /\ ~below.stopped /\ app = "idle" /\ xf.state # "paused"
        /\ UNCHANGED <<locks, app, flusher, pusher, below>>
    BY <1>6 DEF PauseConnected
  <2>10. xf'.streaming \in Int
    BY <2>3 DEF XformTypes
  <2>11. xf'.state \in {"stopped", "paused", "running"}
    BY <2>3 DEF XformTypes
  <2>12. xf'.committed \in BOOLEAN
    BY <2>3 DEF XformTypes
  <2>13. xf'.failed \in BOOLEAN
    BY <2>3 DEF XformTypes
  <2>5. XformTypes'
    BY <2>2, <2>4, <2>10, <2>11, <2>12, <2>13 DEF XformTypes
  <2>6. LocksHeld'
    BY <2>4 DEF LocksHeld
  <2>7. Streams'
    BY <2>2, <2>3, <2>4 DEF XformTypes, Streams
  <2>8. OldIsRefused'
    BY <2>2, <2>4 DEF OldIsRefused
  <2>9. EndDelivered'
    BY <2>2, <2>3, <2>4 DEF XformTypes, EndDelivered
  <2> QED BY <2>5, <2>6, <2>7, <2>8, <2>9
<1>7. CASE RunFilter
  <2>1. XformTypes'
    BY <1>7 DEF RunFilter, XformTypes
  <2>2. LocksHeld'
    BY <1>7 DEF RunFilter, XformTypes, LocksHeld
  <2>3. Streams'
    BY <1>7 DEF RunFilter, XformTypes, LocksHeld, Streams
  <2>4. OldIsRefused'
    BY <1>7 DEF RunFilter, XformTypes, LocksHeld, Streams, OldIsRefused
  <2>5. EndDelivered'
    BY <1>7 DEF RunFilter, XformTypes, EndDelivered
  <2> QED BY <2>1, <2>2, <2>3, <2>4, <2>5
<1>8. CASE StopBegins
  <2>1. CASE Connected
    <3>1. /\ xf' = [xf EXCEPT !.flushing = FALSE] /\ locks' = [locks EXCEPT !.filter = "app"]
          /\ app' = "stopping" /\ below.stopped /\ xf.state # "stopped" /\ UNCHANGED <<flusher, pusher, below>>
          /\ locks.filter = "free" /\ app = "idle"
      BY <1>8, <2>1 DEF StopBegins
    <3>6. /\ DOMAIN xf' = DOMAIN xf /\ xf'.state = xf.state /\ xf'.flushing = FALSE /\ xf'.eos = xf.eos
          /\ xf'.in = xf.in /\ xf'.out = xf.out /\ xf'.committed = xf.committed /\ xf'.failed = xf.failed
          /\ xf'.streaming = xf.streaming /\ xf'.flushes = xf.flushes /\ DOMAIN locks' = DOMAIN locks
      BY <3>1 DEF XformTypes
    <3>7. UNCHANGED class /\ app' = "stopping" /\ UNCHANGED <<flusher, pusher, below>>
      BY <3>1
    <3>8. xf'.state \in {"stopped", "paused", "running"}
      BY <3>6 DEF XformTypes
    <3>9. /\ xf'.flushing \in BOOLEAN /\ xf'.eos \in BOOLEAN /\ xf'.in \in BOOLEAN /\ xf'.out \in BOOLEAN
          /\ xf'.committed \in BOOLEAN /\ xf'.failed \in BOOLEAN /\ xf'.streaming \in Int /\ xf'.flushes \in Nat
      BY <3>6 DEF XformTypes
    <3>2. XformTypes'
      BY <3>6, <3>7, <3>8, <3>9 DEF XformTypes
    <3>3. LocksHeld'
      BY <3>1 DEF XformTypes, LocksHeld
    <3>4. Streams'
      BY <2>1, <3>1 DEF XformTypes, Streams
    <3>5. OldIsRefused' /\ EndDelivered'
      BY <3>1 DEF XformTypes, OldIsRefused, EndDelivered
    <3> QED BY <3>2, <3>3, <3>4, <3>5
  <2>2. CASE ~Connected
    <3>1. /\ xf' = [xf EXCEPT !.state = "stopped", !.eos = FALSE]
          /\ below.stopped /\ app = "idle" /\ UNCHANGED <<locks, app, flusher, pusher, below>>
      BY <1>8, <2>2 DEF StopBegins
    <3>6. /\ DOMAIN xf' = DOMAIN xf /\ xf'.state = "stopped" /\ xf'.flushing = xf.flushing /\ xf'.eos = FALSE
          /\ xf'.in = xf.in /\ xf'.out = xf.out /\ xf'.committed = xf.committed /\ xf'.failed = xf.failed
          /\ xf'.streaming = xf.streaming /\ xf'.flushes = xf.flushes
      BY <3>1 DEF XformTypes
    <3>7. UNCHANGED class /\ UNCHANGED <<locks, app, flusher, pusher, below>>
      BY <3>1
    <3>8. xf'.state \in {"stopped", "paused", "running"}
      BY <3>6 DEF XformTypes
    <3>9. /\ xf'.flushing \in BOOLEAN /\ xf'.eos \in BOOLEAN /\ xf'.in \in BOOLEAN /\ xf'.out \in BOOLEAN
          /\ xf'.committed \in BOOLEAN /\ xf'.failed \in BOOLEAN /\ xf'.streaming \in Int /\ xf'.flushes \in Nat
      BY <3>6 DEF XformTypes
    <3>2. XformTypes'
      BY <3>6, <3>7, <3>8, <3>9 DEF XformTypes
    <3>3. LocksHeld'
      BY <3>1 DEF LocksHeld
    <3>4. Streams'
      BY <2>2, <3>1 DEF XformTypes, Streams
    <3>5. OldIsRefused' /\ EndDelivered'
      BY <3>1 DEF XformTypes, OldIsRefused, EndDelivered
    <3> QED BY <3>2, <3>3, <3>4, <3>5
  <2> QED BY <2>1, <2>2
<1>9. CASE StopEnds
  <2>1. \/ xf' = [xf EXCEPT !.committed = FALSE, !.state = "stopped", !.eos = FALSE, !.streaming = @ - 1]
        \/ xf' = [xf EXCEPT !.committed = FALSE, !.failed = TRUE, !.streaming = 0]
    BY <1>9 DEF StopEnds
  <2>2. /\ DOMAIN xf' = DOMAIN xf /\ xf'.in = xf.in /\ xf'.out = xf.out /\ xf'.committed = FALSE
        /\ xf'.flushing = xf.flushing /\ xf'.flushes = xf.flushes
    BY <2>1 DEF XformTypes
  <2>3. \/ xf'.state = "stopped" /\ xf'.eos = FALSE /\ xf'.failed = xf.failed /\ xf'.streaming = xf.streaming - 1
        \/ xf'.state = xf.state /\ xf'.eos = xf.eos /\ xf'.failed = TRUE /\ xf'.streaming = 0
    BY <2>1 DEF XformTypes
  <2>4. /\ app = "stopping" /\ locks.receive = "free" /\ locks' = [locks EXCEPT !.filter = "free"] /\ app' = "idle"
        /\ UNCHANGED <<flusher, pusher, below>>
    BY <1>9 DEF StopEnds
  <2>10. xf'.streaming \in Int
    BY <2>3 DEF XformTypes
  <2>11. xf'.state \in {"stopped", "paused", "running"}
    BY <2>3 DEF XformTypes
  <2>12. xf'.eos \in BOOLEAN
    BY <2>3 DEF XformTypes
  <2>13. xf'.failed \in BOOLEAN
    BY <2>3 DEF XformTypes
  <2>14. locks'.filter \in {"free", "app", "flusher"} /\ locks'.receive = locks.receive /\ DOMAIN locks' = DOMAIN locks
    BY <2>4 DEF XformTypes
  <2>15. app' = "idle" /\ UNCHANGED class /\ UNCHANGED <<flusher, pusher, below>>
    BY <2>4
  <2>16. xf'.committed \in BOOLEAN
    BY <2>2
  <2>5. XformTypes'
    BY <2>2, <2>15, <2>16, <2>10, <2>11, <2>12, <2>13, <2>14 DEF XformTypes
  <2>6. LocksHeld'
    BY <2>4 DEF XformTypes, LocksHeld
  <2>7. Streams'
    BY <2>2, <2>3, <2>4 DEF XformTypes, LocksHeld, Streams
  <2>8. OldIsRefused'
    BY <2>2, <2>4 DEF OldIsRefused
  <2>9. EndDelivered'
    BY <2>2, <2>3, <2>4 DEF XformTypes, Streams, EndDelivered
  <2> QED BY <2>5, <2>6, <2>7, <2>8, <2>9
<1>10. CASE FlushBlocks
  <2>1. /\ xf' = [xf EXCEPT !.flushing = TRUE, !.flushes = @ + 1] /\ locks' = [locks EXCEPT !.filter = "flusher"]
        /\ flusher = "idle" /\ flusher' = "forward" /\ locks.filter = "free" /\ UNCHANGED <<app, pusher, below>>
    BY <1>10 DEF FlushBlocks
  <2>2. /\ DOMAIN xf' = DOMAIN xf /\ xf'.in = xf.in /\ xf'.out = xf.out /\ xf'.committed = xf.committed
        /\ xf'.flushing = TRUE /\ xf'.flushes = xf.flushes + 1 /\ xf'.state = xf.state /\ xf'.eos = xf.eos
        /\ xf'.failed = xf.failed /\ xf'.streaming = xf.streaming
    BY <2>1 DEF XformTypes
  <2>3. XformTypes'
    BY <2>1, <2>2 DEF XformTypes
  <2>4. LocksHeld'
    BY <2>1 DEF XformTypes, LocksHeld
  <2>5. Streams' /\ EndDelivered'
    BY <2>1, <2>2 DEF Streams, EndDelivered
  <2>6. OldIsRefused'
    BY <2>1, <2>2 DEF XformTypes, OldIsRefused
  <2> QED BY <2>3, <2>4, <2>5, <2>6
<1>11. CASE FlushForwards
  <2>1. XformTypes'
    BY <1>11 DEF FlushForwards, XformTypes
  <2>2. LocksHeld'
    BY <1>11 DEF FlushForwards, XformTypes, LocksHeld
  <2>3. Streams'
    BY <1>11 DEF FlushForwards, XformTypes, LocksHeld, Streams
  <2>4. OldIsRefused'
    BY <1>11 DEF FlushForwards, XformTypes, LocksHeld, Streams, OldIsRefused
  <2>5. EndDelivered'
    BY <1>11 DEF FlushForwards, XformTypes, EndDelivered
  <2> QED BY <2>1, <2>2, <2>3, <2>4, <2>5
<1>12. CASE FlushEnds
  <2>1. XformTypes'
    BY <1>12 DEF FlushEnds, XformTypes
  <2>2. LocksHeld'
    BY <1>12 DEF FlushEnds, XformTypes, LocksHeld
  <2>3. Streams'
    BY <1>12 DEF FlushEnds, XformTypes, LocksHeld, Streams
  <2>4. OldIsRefused'
    BY <1>12 DEF FlushEnds, XformTypes, LocksHeld, Streams, OldIsRefused
  <2>5. EndDelivered'
    BY <1>12 DEF FlushEnds, XformTypes, EndDelivered
  <2> QED BY <2>1, <2>2, <2>3, <2>4, <2>5
<1>13. CASE FlushSyncs
  <2>1. XformTypes'
    BY <1>13 DEF FlushSyncs, XformTypes
  <2>2. LocksHeld'
    BY <1>13 DEF FlushSyncs, XformTypes, LocksHeld
  <2>3. Streams'
    BY <1>13 DEF FlushSyncs, XformTypes, LocksHeld, Streams
  <2>4. OldIsRefused'
    BY <1>13 DEF FlushSyncs, XformTypes, LocksHeld, Streams, OldIsRefused
  <2>5. EndDelivered'
    BY <1>13 DEF FlushSyncs, XformTypes, EndDelivered
  <2> QED BY <2>1, <2>2, <2>3, <2>4, <2>5
<1>14. CASE FlushRestartsBelow
  <2>1. XformTypes'
    BY <1>14 DEF FlushRestartsBelow, XformTypes
  <2>2. LocksHeld'
    BY <1>14 DEF FlushRestartsBelow, XformTypes, LocksHeld
  <2>3. Streams'
    BY <1>14 DEF FlushRestartsBelow, XformTypes, LocksHeld, Streams
  <2>4. OldIsRefused'
    BY <1>14 DEF FlushRestartsBelow, XformTypes, LocksHeld, Streams, OldIsRefused
  <2>5. EndDelivered'
    BY <1>14 DEF FlushRestartsBelow, XformTypes, EndDelivered
  <2> QED BY <2>1, <2>2, <2>3, <2>4, <2>5
<1>15. CASE FlushUnblocks
  <2>1. XformTypes'
    BY <1>15 DEF FlushUnblocks, XformTypes
  <2>2. LocksHeld'
    BY <1>15 DEF FlushUnblocks, XformTypes, LocksHeld
  <2>3. Streams'
    BY <1>15 DEF FlushUnblocks, XformTypes, LocksHeld, Streams
  <2>4. OldIsRefused'
    BY <1>15 DEF FlushUnblocks, XformTypes, LocksHeld, Streams, OldIsRefused
  <2>5. EndDelivered'
    BY <1>15 DEF FlushUnblocks, XformTypes, EndDelivered
  <2> QED BY <2>1, <2>2, <2>3, <2>4, <2>5
<1>16. ASSUME NEW where \in {"buffer", "end"}, Enters(where) PROVE XformInv'
  <2>1. XformTypes'
    <3>1. /\ pusher' = [at |-> where, flush |-> xf.flushes] /\ locks' = [locks EXCEPT !.receive = "pusher"]
          /\ UNCHANGED <<xf, app, flusher, below>>
      BY <1>16 DEF Enters
    <3> QED BY <3>1 DEF XformTypes
  <2>2. LocksHeld'
    BY <1>16 DEF Enters, CheckStreamingOK, XformTypes, LocksHeld
  <2>3. Streams'
    BY <1>16 DEF Enters, CheckStreamingOK, XformTypes, LocksHeld, Streams
  <2>4. OldIsRefused'
    BY <1>16 DEF Enters, CheckStreamingOK, XformTypes, LocksHeld, Streams, OldIsRefused
  <2>5. EndDelivered'
    BY <1>16 DEF Enters, CheckStreamingOK, XformTypes, EndDelivered
  <2> QED BY <2>1, <2>2, <2>3, <2>4, <2>5
<1>17. CASE GetsBuffer
  <2>1. XformTypes'
    BY <1>17 DEF GetsBuffer, Leaves, XformTypes
  <2>2. LocksHeld'
    BY <1>17 DEF GetsBuffer, Leaves, XformTypes, LocksHeld
  <2>3. Streams'
    BY <1>17 DEF GetsBuffer, Leaves, XformTypes, LocksHeld, Streams
  <2>4. OldIsRefused'
    BY <1>17 DEF GetsBuffer, Leaves, XformTypes, LocksHeld, Streams, OldIsRefused
  <2>5. EndDelivered'
    BY <1>17 DEF GetsBuffer, Leaves, XformTypes, EndDelivered
  <2> QED BY <2>1, <2>2, <2>3, <2>4, <2>5
<1>18. CASE Transforms
  <2>1. XformTypes'
    BY <1>18 DEF Transforms, Leaves, XformTypes
  <2>2. LocksHeld'
    BY <1>18 DEF Transforms, Leaves, XformTypes, LocksHeld
  <2>3. Streams'
    BY <1>18 DEF Transforms, Leaves, XformTypes, LocksHeld, Streams
  <2>4. OldIsRefused'
    BY <1>18 DEF Transforms, Leaves, XformTypes, LocksHeld, Streams, OldIsRefused
  <2>5. EndDelivered'
    BY <1>18 DEF Transforms, Leaves, XformTypes, EndDelivered
  <2> QED BY <2>1, <2>2, <2>3, <2>4, <2>5
<1>19. CASE Delivers
  <2>1. \/ below' = below
        \/ /\ ~below.flushing /\ ~below.stopped
           /\ \E kept \in 0..1 : below' = [below EXCEPT !.current = @ /\ pusher.flush >= below.flushes, !.held = @ + kept]
    BY <1>19 DEF Delivers
  <2>2. /\ pusher.at = "deliver" /\ pusher' = [pusher EXCEPT !.at = "idle"] /\ locks' = [locks EXCEPT !.receive = "free"]
        /\ UNCHANGED <<xf, app, flusher>>
    BY <1>19 DEF Delivers, Leaves
  <2>3. /\ DOMAIN below' = DOMAIN below /\ below'.flushing = below.flushing /\ below'.stopped = below.stopped
        /\ below'.ends = below.ends /\ below'.flushes = below.flushes /\ below'.held \in Nat
        /\ below'.overtaken = below.overtaken
    <3>1. CASE below' = below
      BY <3>1 DEF XformTypes
    <3>2. ASSUME NEW kept \in 0..1,
                 below' = [below EXCEPT !.current = @ /\ pusher.flush >= below.flushes, !.held = @ + kept]
          PROVE  /\ DOMAIN below' = DOMAIN below /\ below'.flushing = below.flushing /\ below'.stopped = below.stopped
                 /\ below'.ends = below.ends /\ below'.flushes = below.flushes /\ below'.held \in Nat
                 /\ below'.overtaken = below.overtaken
      <4>1. below'.held = below.held + kept
        BY <3>2 DEF XformTypes
      <4>2. /\ DOMAIN below' = DOMAIN below /\ below'.flushing = below.flushing /\ below'.stopped = below.stopped
            /\ below'.ends = below.ends /\ below'.flushes = below.flushes /\ below'.overtaken = below.overtaken
        BY <3>2 DEF XformTypes
      <4> QED BY <4>1, <4>2 DEF XformTypes
    <3> QED BY <2>1, <3>1, <3>2
  <2>4. below'.current \in BOOLEAN /\ (~below.overtaken => below'.current = TRUE)
    <3>2. CASE below' = below
      BY <3>2 DEF XformTypes, OldIsRefused
    <3>3. CASE ~below.flushing /\ ~below.stopped /\ below' # below
      <4>1. ~below.overtaken => below.current = TRUE /\ pusher.flush >= below.flushes
        BY <2>2, <3>3 DEF XformTypes, OldIsRefused
      <4>2. PICK kept \in 0..1 :
              below' = [below EXCEPT !.current = @ /\ pusher.flush >= below.flushes, !.held = @ + kept]
        BY <2>1, <3>3
      <4>3. below'.current = (below.current /\ pusher.flush >= below.flushes)
        BY <4>2 DEF XformTypes
      <4> QED BY <4>1, <4>3
    <3> QED BY <2>1, <3>2, <3>3
  <2>10. /\ DOMAIN pusher' = {"at", "flush"} /\ pusher'.at = "idle" /\ pusher'.flush \in Nat
         /\ DOMAIN locks' = {"filter", "receive"}
    BY <2>2 DEF XformTypes
  <2>11. /\ DOMAIN below' = {"flushing", "stopped", "held", "ends", "flushes", "current", "overtaken"} /\ below'.overtaken \in BOOLEAN
         /\ below'.flushing \in BOOLEAN /\ below'.stopped \in BOOLEAN /\ below'.current \in BOOLEAN
    BY <2>3, <2>4 DEF XformTypes
  <2>12. below'.held \in Nat /\ below'.ends \in Nat /\ below'.flushes \in Nat
    BY <2>3 DEF XformTypes
  <2>5. XformTypes'
    BY <2>2, <2>10, <2>11, <2>12 DEF XformTypes
  <2>6. LocksHeld'
    BY <2>2 DEF XformTypes, LocksHeld
  <2>7. Streams'
    BY <2>2, <2>3 DEF XformTypes, Streams
  <2>8. OldIsRefused'
    BY <2>2, <2>3, <2>4 DEF XformTypes, OldIsRefused
  <2>9. EndDelivered'
    BY <2>2, <2>3 DEF EndDelivered
  <2> QED BY <2>5, <2>6, <2>7, <2>8, <2>9
<1>20. CASE DeliversEnd
  <2>1. XformTypes'
    BY <1>20 DEF DeliversEnd, Leaves, XformTypes
  <2>2. LocksHeld'
    BY <1>20 DEF DeliversEnd, Leaves, XformTypes, LocksHeld
  <2>3. Streams'
    BY <1>20 DEF DeliversEnd, Leaves, XformTypes, LocksHeld, Streams
  <2>4. OldIsRefused'
    BY <1>20 DEF DeliversEnd, Leaves, XformTypes, LocksHeld, Streams, OldIsRefused
  <2>5. EndDelivered'
    BY <1>20 DEF DeliversEnd, Leaves, XformTypes, EndDelivered
  <2> QED BY <2>1, <2>2, <2>3, <2>4, <2>5
<1>21. CASE UNCHANGED xvars
  <2>1. XformTypes' /\ LocksHeld' BY <1>21 DEF xvars, XformTypes, LocksHeld
  <2>2. Streams' /\ OldIsRefused' BY <1>21 DEF xvars, Streams, OldIsRefused
  <2>3. EndDelivered' BY <1>21 DEF xvars, EndDelivered
  <2> QED BY <2>1, <2>2, <2>3
<1> QED BY <1>1, <1>2, <1>3, <1>4, <1>5, <1>6, <1>7, <1>8, <1>9, <1>10, <1>11, <1>12, <1>13,
           <1>14, <1>15, <1>16, <1>17, <1>18, <1>19, <1>20, <1>21 DEF XformNext

LEMMA XformSafe == XformSpec => []TransformSafe
<1>1. XformInit => XformInv
  <2> SUFFICES ASSUME XformInit PROVE XformInv OBVIOUS
  <2>1. XformTypes BY DEF XformInit, XformTypes
  <2>2. LocksHeld /\ Streams /\ OldIsRefused BY DEF XformInit, LocksHeld, Streams, OldIsRefused, Connected
  <2>3. EndDelivered BY DEF XformInit, EndDelivered
  <2> QED BY <2>1, <2>2, <2>3 DEF XformInv
<1>2. XformInv => TransformSafe
  BY DEF XformInv, XformTypes, LocksHeld, Streams, OldIsRefused, EndDelivered, TransformSafe, FlushedIsGone, StoppedIsQuiet,
         StopNotHeld, EndsOnce, Connected
<1> QED BY <1>1, <1>2, XformKeeps, PTL DEF XformSpec

-----------------------------------------------------------------------------
\* The transform filters: flushes and stops leave nothing downstream of what came before them and the stream ends
\* once; frames left out leave something that can be decoded; and no read-only sample is written, nor any copied
\* without need - for every size of pool, frame time and lateness.
THEOREM TransformsKeepTheirPromises == TransformsSpec => []TransformsSafe
BY XformSafe, VtSafe, TipSafe, PTL DEF TransformsSpec, TransformsSafe

-----------------------------------------------------------------------------
(* CCmdQueue and CDeferredCommand: the lists, the references and the advise. *)

\* One element put into a list of commands, and one taken out of it.
IsInserted(new, s, i, e) ==
    /\ new \in Seq(Commands) /\ DOMAIN new = 1..(Len(s) + 1)
    /\ \A j \in 1..(Len(s) + 1) : new[j] = IF j < i THEN s[j] ELSE IF j = i THEN e ELSE s[j - 1]

LEMMA InsertedIs ==
  ASSUME NEW s \in Seq(Commands), NEW i \in 1..(Len(s) + 1), NEW e \in Commands
  PROVE  IsInserted(InsertAt(s, i, e), s, i, e)
<1> DEFINE a == SubSeq(s, 1, i - 1)
           b == SubSeq(s, i, Len(s))
           ae == a \o <<e>>
<1>1. a \in Seq(Commands) /\ Len(a) = i - 1 /\ \A j \in 1..(i - 1) : a[j] = s[j]
  OBVIOUS
<1>2. b \in Seq(Commands) /\ Len(b) = Len(s) - i + 1 /\ \A j \in 1..(Len(s) - i + 1) : b[j] = s[i + j - 1]
  OBVIOUS
<1> HIDE DEF a, b
<1>3. ae \in Seq(Commands) /\ Len(ae) = i /\ ae[i] = e /\ \A j \in 1..(i - 1) : ae[j] = s[j]
  BY <1>1
<1> HIDE DEF ae
<1> DEFINE q == ae \o b
<1>0. Len(s) \in Nat /\ i \in Nat /\ i >= 1 /\ i <= Len(s) + 1
  OBVIOUS
<1>4. q \in Seq(Commands) /\ Len(q) = Len(s) + 1
  <2>1. q \in Seq(Commands) /\ Len(q) = Len(ae) + Len(b)
    BY <1>2, <1>3, ConcatProperties
  <2> QED BY <1>0, <1>2, <1>3, <2>1
<1>5. \A j \in 1..(Len(s) + 1) : q[j] = IF j <= i THEN ae[j] ELSE b[j - i]
  <2>1. \A j \in 1..(Len(ae) + Len(b)) : q[j] = IF j <= Len(ae) THEN ae[j] ELSE b[j - Len(ae)]
    BY <1>2, <1>3, ConcatProperties
  <2> HIDE DEF q
  <2> QED BY <1>0, <1>2, <1>3, <2>1
<1>6. \A j \in 1..(Len(s) + 1) : q[j] = IF j < i THEN s[j] ELSE IF j = i THEN e ELSE s[j - 1]
  <2> TAKE j \in 1..(Len(s) + 1)
  <2>1. CASE j <= i
    BY <1>3, <1>5, <2>1
  <2>2. CASE j > i
    <3>1. q[j] = b[j - i]
      <4> HIDE DEF q
      <4> QED BY <1>0, <1>5, <2>2
    <3>2. j - i \in 1..(Len(s) - i + 1) /\ i + (j - i) - 1 = j - 1
      BY <1>0, <2>2
    <3>3. b[j - i] = s[i + (j - i) - 1]
      BY <1>2, <3>2
    <3>4. q[j] = s[j - 1]
      BY <3>1, <3>2, <3>3
    <3>5. ~(j < i) /\ j # i
      BY <1>0, <2>2
    <3> QED BY <3>4, <3>5
  <2> HIDE DEF q
  <2> QED BY <1>0, <2>1, <2>2
<1>7. q = InsertAt(s, i, e)
  BY DEF InsertAt, a, b, ae
<1> HIDE DEF q
<1> QED BY <1>4, <1>6, <1>7 DEF IsInserted

LEMMA RemovedIs ==
  ASSUME NEW s \in Seq(Commands), NEW i \in 1..Len(s)
  PROVE  /\ RemoveAt(s, i) \in Seq(Commands) /\ DOMAIN RemoveAt(s, i) = 1..(Len(s) - 1)
         /\ \A j \in 1..(Len(s) - 1) : RemoveAt(s, i)[j] = IF j < i THEN s[j] ELSE s[j + 1]
<1> DEFINE a == SubSeq(s, 1, i - 1)
           b == SubSeq(s, i + 1, Len(s))
           q == a \o b
<1>1. a \in Seq(Commands) /\ Len(a) = i - 1 /\ \A j \in 1..(i - 1) : a[j] = s[j]
  OBVIOUS
<1>2. b \in Seq(Commands) /\ Len(b) = Len(s) - i /\ \A j \in 1..(Len(s) - i) : b[j] = s[i + j]
  <2>1. \A j \in 1..(Len(s) - i) : b[j] = s[(i + 1) + j - 1] /\ (i + 1) + j - 1 = i + j
    OBVIOUS
  <2> QED BY <2>1
<1> HIDE DEF a, b
<1>0. Len(s) \in Nat /\ i \in Nat /\ i >= 1 /\ i <= Len(s)
  OBVIOUS
<1>4. q \in Seq(Commands) /\ Len(q) = Len(s) - 1
  <2>1. q \in Seq(Commands) /\ Len(q) = Len(a) + Len(b)
    BY <1>1, <1>2, ConcatProperties
  <2> QED BY <1>0, <1>1, <1>2, <2>1
<1>6. \A j \in 1..(Len(s) - 1) : q[j] = IF j < i THEN s[j] ELSE s[j + 1]
  <2> TAKE j \in 1..(Len(s) - 1)
  <2>1. CASE j < i
    BY <1>1, <1>2, <2>1
  <2>2. CASE j >= i
    <3>1. q[j] = b[j - (i - 1)]
      BY <1>0, <1>1, <1>2, <2>2
    <3>2. j - (i - 1) \in 1..(Len(s) - i) /\ i + (j - (i - 1)) = j + 1
      BY <1>0, <2>2
    <3>3. b[j - (i - 1)] = s[i + (j - (i - 1))]
      BY <1>2, <3>2
    <3>4. q[j] = s[j + 1]
      BY <3>1, <3>2, <3>3
    <3>5. ~(j < i)
      BY <1>0, <2>2
    <3> QED BY <3>4, <3>5
  <2> HIDE DEF q
  <2> QED BY <1>0, <2>1, <2>2
<1>7. q = RemoveAt(s, i)
  BY DEF RemoveAt, a, b
<1> HIDE DEF q
<1> QED BY <1>4, <1>6, <1>7

CommandTypes(k) ==
    /\ DOMAIN k = Commands
    /\ \A c \in Commands :
         /\ DOMAIN k[c] = {"time", "stream", "queued", "refs", "app"}
         /\ k[c].time \in Nat /\ k[c].stream \in BOOLEAN /\ k[c].queued \in BOOLEAN /\ k[c].refs \in Int
         /\ k[c].app \in {"none", "new", "holds", "postponing"}

AdviseTypes(q) ==
    /\ DOMAIN q = {"clock", "running", "due", "advise", "current"}
    /\ q.running \in BOOLEAN /\ q.due \in BOOLEAN /\ q.current \in Nat
    /\ DOMAIN q.advise = {"clock", "time", "armed"} /\ q.advise.time \in Nat /\ q.advise.armed \in BOOLEAN

WorkerTypes ==
    /\ DOMAIN invoker = {"at", "cmd", "counted", "ahead"}
    /\ invoker.counted \in BOOLEAN /\ invoker.ahead \in BOOLEAN
    /\ \/ invoker.at \in {"idle", "looking", "unlocked", "blocked"} /\ invoker.cmd = Nobody /\ ~invoker.counted
       \/ invoker.at \in {"got", "invoked", "release"} /\ invoker.cmd \in Commands

RanTypes ==
    /\ DOMAIN ran = {"times", "early", "rewired", "clash"} /\ DOMAIN ran.times = Commands
    /\ \A c \in Commands : ran.times[c] \in 0..1
    /\ ran.early \in BOOLEAN /\ ran.rewired \in BOOLEAN /\ ran.clash \in BOOLEAN

IsIn(c, list) == \E i \in DOMAIN list : list[i] = c
Sorted(list, k) ==
    \A i, j \in DOMAIN list : i < j => list[i] # list[j] /\ k[list[i]].time <= k[list[j]].time

\* Each list holds the commands of its kind in the order of their times.
ListsOrdered(l, k) ==
    /\ DOMAIN l = {"presentation", "stream"}
    /\ \A name \in {"presentation", "stream"} :
         /\ l[name] \in Seq(Commands) /\ Sorted(l[name], k)
         /\ \A i \in DOMAIN l[name] : k[l[name][i]].stream <=> name = "stream"

\* A command is in its list unless it is cancelled, carried out or being postponed.
Waiting(k, c) == k[c].queued /\ k[c].app # "postponing"
ListedRight(l, k) ==
    \A c \in Commands : Waiting(k, c) <=> IsIn(c, l[IF k[c].stream THEN "stream" ELSE "presentation"])

\* A command that was ever queued has a time, which keeps New from using it again.
Known == \A c \in Commands : cmd[c].queued \/ invoker.cmd = c => cmd[c].time # NoTime

RunOnce ==
    \A c \in Commands :
        /\ cmd[c].app = "postponing" => cmd[c].queued
        /\ invoker.at = "invoked" /\ invoker.cmd = c => Waiting(cmd, c)
        /\ ran.times[c] = 1 => cmd[c].time # NoTime /\ (~cmd[c].queued \/ (invoker.at = "invoked" /\ invoker.cmd = c))

\* What the worker was given as due stays due.
NotEarly ==
    /\ ~ran.early
    /\ invoker.at = "got" /\ ~invoker.ahead =>
         cmd[invoker.cmd].time + (IF cmd[invoker.cmd].stream THEN Offset ELSE 0) <= now

Counted ==
    \A c \in Commands :
        cmd[c].refs = (IF Waiting(cmd, c) THEN 1 ELSE 0) + (IF cmd[c].app \in {"holds", "postponing"} THEN 1 ELSE 0)
                      + (IF invoker.cmd = c /\ invoker.counted THEN 1 ELSE 0)

\* The current advise is for the earliest head, and until a clock is taken away it is armed while it is to come.
Armed(q, n, rewired) ==
    /\ q.clock = NoClock /\ ~rewired => q.current = NoTime
    /\ q.clock # NoClock /\ ~rewired /\ q.current > n => q.advise.armed /\ q.advise.time = q.current
ForFirst(q, l, k) ==
    q.clock # NoClock /\ Heads(q, l, k) # {} =>
        q.current \in Heads(q, l, k) /\ \A t \in Heads(q, l, k) : q.current <= t

ListsInv ==
    /\ CommandTypes(cmd) /\ AdviseTypes(queue)
    /\ ListsOrdered(lists, cmd) /\ ListedRight(lists, cmd)
    /\ Armed(queue, now, ran.rewired) /\ ForFirst(queue, lists, cmd)
WorkInv == WorkerTypes /\ RanTypes /\ now \in Nat \ {0} /\ Known /\ RunOnce /\ NotEarly /\ Counted
QueueInv == ListsInv /\ WorkInv

-----------------------------------------------------------------------------
\* There are at most two heads, and so an earliest.
LEMMA HeadsHaveFirst ==
  ASSUME NEW q, NEW l, NEW k, CommandTypes(k), ListsOrdered(l, k)
  PROVE  /\ Heads(q, l, k) \subseteq Nat
         /\ Heads(q, l, k) # {} => \E t \in Heads(q, l, k) : \A u \in Heads(q, l, k) : t <= u
<1> DEFINE A == {k[l.presentation[i]].time : i \in {1} \cap DOMAIN l.presentation}
           B == {k[l.stream[i]].time + Offset : i \in {j \in {1} \cap DOMAIN l.stream : q.running}}
<1>1. Heads(q, l, k) = A \cup B
  BY DEF Heads
<1>2. l.presentation \in Seq(Commands) /\ l.stream \in Seq(Commands)
  BY DEF ListsOrdered
<1>3. A \subseteq Nat /\ \A t, u \in A : t = u
  BY <1>2 DEF CommandTypes
<1>4. B \subseteq Nat /\ \A t, u \in B : t = u
  <2>1. \A i \in DOMAIN l.stream : k[l.stream[i]].time + Offset \in Nat
    BY <1>2, CommandBounds DEF CommandTypes
  <2> QED BY <2>1
<1> HIDE DEF A, B
<1>5. A \cup B # {} => \E t \in A \cup B : \A u \in A \cup B : t <= u
  <2>1. CASE A = {} /\ B # {}
    <3>1. PICK b \in B : TRUE
      BY <2>1
    <3>2. \A u \in A \cup B : u = b
      BY <1>4, <2>1
    <3>3. b \in Nat /\ b <= b
      BY <1>4
    <3> QED BY <3>2, <3>3
  <2>2. CASE A # {} /\ B = {}
    <3>1. PICK a \in A : TRUE
      BY <2>2
    <3>2. \A u \in A \cup B : u = a
      BY <1>3, <2>2
    <3>3. a \in Nat /\ a <= a
      BY <1>3
    <3> QED BY <3>2, <3>3
  <2>3. CASE A # {} /\ B # {}
    <3>1. PICK a \in A, b \in B : TRUE
      BY <2>3
    <3>2. \A u \in A \cup B : u = a \/ u = b
      BY <1>3, <1>4
    <3>3. a \in Nat /\ b \in Nat /\ a \in A \cup B /\ b \in A \cup B
      BY <1>3, <1>4
    <3>4. CASE a <= b
      BY <3>2, <3>3, <3>4
    <3>5. CASE b <= a
      BY <3>2, <3>3, <3>5
    <3> QED BY <3>3, <3>4, <3>5
  <2> QED BY <2>1, <2>2, <2>3
<1> QED BY <1>1, <1>3, <1>4, <1>5

LEMMA AdviseFollows ==
  ASSUME NEW q, NEW l, NEW k, CommandTypes(k), ListsOrdered(l, k), AdviseTypes(q),
         NEW n \in Nat, NEW w \in BOOLEAN, Armed(q, n, w)
  PROVE  /\ AdviseTypes(SetTimeAdvise(q, l, k)) /\ Armed(SetTimeAdvise(q, l, k), n, w)
         /\ ForFirst(SetTimeAdvise(q, l, k), l, k)
         /\ SetTimeAdvise(q, l, k).clock = q.clock /\ SetTimeAdvise(q, l, k).running = q.running
<1> DEFINE heads == Heads(q, l, k)
           first == CHOOSE t \in heads : \A u \in heads : t <= u
           p == SetTimeAdvise(q, l, k)
<1>1. heads \subseteq Nat /\ (heads # {} => first \in heads /\ \A u \in heads : first <= u)
  <2>1. heads \subseteq Nat /\ (heads # {} => \E t \in heads : \A u \in heads : t <= u)
    BY HeadsHaveFirst
  <2> HIDE DEF heads
  <2> QED BY <2>1
<1>2. \A p2 : p2.running = q.running => Heads(p2, l, k) = heads
  BY DEF Heads
<1>3. p = IF q.clock = NoClock THEN q
          ELSE IF heads = {} \/ first = q.current THEN [q EXCEPT !.due = FALSE]
          ELSE [q EXCEPT !.due = FALSE, !.current = first,
                         !.advise = [clock |-> q.clock, time |-> first, armed |-> TRUE]]
  BY DEF SetTimeAdvise
<1> HIDE DEF heads, first, p
<1>4. CASE q.clock = NoClock
  <2>1. p = q
    BY <1>3, <1>4
  <2> QED BY <2>1, <1>4 DEF ForFirst, p
<1>5. CASE q.clock # NoClock /\ (heads = {} \/ first = q.current)
  <2>1. p = [q EXCEPT !.due = FALSE]
    BY <1>3, <1>5
  <2>2. /\ DOMAIN p = DOMAIN q /\ p.clock = q.clock /\ p.running = q.running /\ p.current = q.current
        /\ p.advise = q.advise /\ p.due = FALSE
    BY <2>1 DEF AdviseTypes
  <2>3. AdviseTypes(p) /\ Armed(p, n, w)
    BY <2>2 DEF AdviseTypes, Armed
  <2>4. Heads(p, l, k) = heads
    BY <1>2, <2>2
  <2>5. heads # {} => q.current \in heads /\ \A u \in heads : q.current <= u
    BY <1>1, <1>5
  <2>6. ForFirst(p, l, k)
    BY <2>2, <2>4, <2>5 DEF ForFirst
  <2> QED BY <2>2, <2>3, <2>6 DEF p
<1>6. CASE q.clock # NoClock /\ heads # {} /\ first # q.current
  <2>1. p = [q EXCEPT !.due = FALSE, !.current = first,
                      !.advise = [clock |-> q.clock, time |-> first, armed |-> TRUE]]
    BY <1>3, <1>6
  <2>2. /\ DOMAIN p = DOMAIN q /\ p.clock = q.clock /\ p.running = q.running /\ p.current = first
        /\ p.advise = [clock |-> q.clock, time |-> first, armed |-> TRUE] /\ p.due = FALSE
    BY <2>1 DEF AdviseTypes
  <2>3. first \in Nat
    BY <1>1, <1>6
  <2>4. DOMAIN p.advise = {"clock", "time", "armed"} /\ p.advise.time = first /\ p.advise.armed = TRUE
    BY <2>2
  <2>5. AdviseTypes(p)
    BY <2>2, <2>3, <2>4 DEF AdviseTypes
  <2>6. Armed(p, n, w)
    BY <1>6, <2>2, <2>4 DEF Armed
  <2>7. Heads(p, l, k) = heads
    BY <1>2, <2>2
  <2>8. ForFirst(p, l, k)
    BY <1>1, <1>6, <2>2, <2>7 DEF ForFirst
  <2> QED BY <2>2, <2>5, <2>6, <2>8 DEF p
<1> QED BY <1>4, <1>5, <1>6

\* Only the times of the commands matter to the heads.
LEMMA HeadsStay ==
  ASSUME NEW q, NEW l, NEW k, NEW k2, ListsOrdered(l, k), \A c \in Commands : k2[c].time = k[c].time
  PROVE  Heads(q, l, k2) = Heads(q, l, k)
<1>1. l.presentation \in Seq(Commands) /\ l.stream \in Seq(Commands)
  BY DEF ListsOrdered
<1>2. /\ \A i \in DOMAIN l.presentation : k2[l.presentation[i]].time = k[l.presentation[i]].time
      /\ \A i \in DOMAIN l.stream : k2[l.stream[i]].time = k[l.stream[i]].time
  BY <1>1
<1> QED BY <1>2 DEF Heads

\* Only the times and the kinds of the commands that are in the lists matter to the lists.
LEMMA ListsStay ==
  ASSUME NEW l, NEW k, NEW k2, ListsOrdered(l, k),
         \A c \in Commands : (IsIn(c, l.presentation) \/ IsIn(c, l.stream)) =>
             k2[c].time = k[c].time /\ (k2[c].stream <=> k[c].stream)
  PROVE  ListsOrdered(l, k2)
<1> SUFFICES ASSUME NEW name \in {"presentation", "stream"}
             PROVE  /\ l[name] \in Seq(Commands) /\ Sorted(l[name], k2)
                    /\ \A i \in DOMAIN l[name] : k2[l[name][i]].stream <=> name = "stream"
  BY DEF ListsOrdered
<1>1. /\ l[name] \in Seq(Commands) /\ Sorted(l[name], k)
      /\ \A i \in DOMAIN l[name] : k[l[name][i]].stream <=> name = "stream"
  BY DEF ListsOrdered
<1>2. ASSUME NEW i \in DOMAIN l[name]
      PROVE  k2[l[name][i]].time = k[l[name][i]].time /\ (k2[l[name][i]].stream <=> k[l[name][i]].stream)
  <2>1. l[name][i] \in Commands
    BY <1>1
  <2>2. IsIn(l[name][i], l.presentation) \/ IsIn(l[name][i], l.stream)
    BY DEF IsIn
  <2> QED BY <2>1, <2>2
<1> QED BY <1>1, <1>2 DEF Sorted

\* A command that does not wait is in neither list.
LEMMA NotListed ==
  ASSUME NEW l, NEW k, ListsOrdered(l, k), ListedRight(l, k), NEW c \in Commands, ~Waiting(k, c)
  PROVE  ~IsIn(c, l.presentation) /\ ~IsIn(c, l.stream)
<1>1. ASSUME NEW name \in {"presentation", "stream"}, IsIn(c, l[name]) PROVE FALSE
  <2>1. PICK i \in DOMAIN l[name] : l[name][i] = c
    BY <1>1 DEF IsIn
  <2>2. k[c].stream <=> name = "stream"
    BY <2>1 DEF ListsOrdered
  <2>3. ~IsIn(c, l[IF k[c].stream THEN "stream" ELSE "presentation"])
    BY DEF ListedRight
  <2> QED BY <1>1, <2>2, <2>3
<1> QED BY <1>1

LEMMA InsertKeeps ==
  ASSUME NEW list \in Seq(Commands), NEW k, CommandTypes(k), Sorted(list, k), NEW c \in Commands, ~IsIn(c, list),
         NEW at \in 1..(Len(list) + 1), \A i \in 1..(at - 1) : k[list[i]].time <= k[c].time,
         at <= Len(list) => k[list[at]].time > k[c].time
  PROVE  /\ InsertAt(list, at, c) \in Seq(Commands) /\ Sorted(InsertAt(list, at, c), k)
         /\ \A d : IsIn(d, InsertAt(list, at, c)) <=> IsIn(d, list) \/ d = c
<1> DEFINE new == InsertAt(list, at, c)
<1>1. /\ new \in Seq(Commands) /\ DOMAIN new = 1..(Len(list) + 1)
      /\ \A j \in 1..(Len(list) + 1) : new[j] = IF j < at THEN list[j] ELSE IF j = at THEN c ELSE list[j - 1]
  <2>1. IsInserted(new, list, at, c)
    BY InsertedIs
  <2> QED BY <2>1 DEF IsInserted
<1> HIDE DEF new
<1>0. Len(list) \in Nat /\ at \in Nat /\ DOMAIN list = 1..Len(list) /\ \A i \in 1..Len(list) : k[list[i]].time \in Nat
  BY DEF CommandTypes
<1>6. k[c].time \in Nat
  BY DEF CommandTypes
<1>2. \A i \in 1..Len(list) : i >= at => k[c].time <= k[list[i]].time
  <2> SUFFICES ASSUME NEW i \in 1..Len(list), i >= at PROVE k[c].time <= k[list[i]].time
    OBVIOUS
  <2>1. at \in DOMAIN list /\ i \in DOMAIN list /\ k[list[at]].time > k[c].time
    BY <1>0
  <2>2. i = at \/ k[list[at]].time <= k[list[i]].time
    BY <1>0, <2>1 DEF Sorted
  <2> QED BY <1>0, <1>6, <2>1, <2>2
<1>3. Sorted(new, k)
  <2> SUFFICES ASSUME NEW i \in 1..(Len(list) + 1), NEW j \in 1..(Len(list) + 1), i < j
               PROVE  new[i] # new[j] /\ k[new[i]].time <= k[new[j]].time
    BY <1>1 DEF Sorted
  <2>1. CASE j < at
    <3>1. new[i] = list[i] /\ new[j] = list[j] /\ i \in DOMAIN list /\ j \in DOMAIN list
      BY <1>0, <1>1, <2>1
    <3> QED BY <3>1 DEF Sorted
  <2>2. CASE j = at
    <3>1. new[i] = list[i] /\ new[j] = c /\ i \in 1..(at - 1) /\ i \in DOMAIN list
      BY <1>0, <1>1, <2>2
    <3> QED BY <3>1 DEF IsIn
  <2>3. CASE j > at /\ i < at
    <3>1. new[i] = list[i] /\ new[j] = list[j - 1] /\ i \in DOMAIN list /\ j - 1 \in DOMAIN list /\ i < j - 1
      BY <1>0, <1>1, <2>3
    <3> QED BY <3>1 DEF Sorted
  <2>4. CASE j > at /\ i = at
    <3>1. new[i] = c /\ new[j] = list[j - 1] /\ j - 1 \in 1..Len(list) /\ j - 1 >= at /\ j - 1 \in DOMAIN list
      BY <1>0, <1>1, <2>4
    <3> QED BY <1>2, <3>1 DEF IsIn
  <2>5. CASE i > at
    <3>1. new[i] = list[i - 1] /\ new[j] = list[j - 1] /\ i - 1 \in DOMAIN list /\ j - 1 \in DOMAIN list /\ i - 1 < j - 1
      BY <1>0, <1>1, <2>5
    <3> QED BY <3>1 DEF Sorted
  <2> QED BY <1>0, <2>1, <2>2, <2>3, <2>4, <2>5
<1>4. ASSUME NEW d, IsIn(d, new) PROVE IsIn(d, list) \/ d = c
  <2>1. PICK j \in 1..(Len(list) + 1) : new[j] = d
    BY <1>1, <1>4 DEF IsIn
  <2>2. \/ j \in DOMAIN list /\ d = list[j]
        \/ d = c
        \/ j - 1 \in DOMAIN list /\ d = list[j - 1]
    BY <1>0, <1>1, <2>1
  <2> QED BY <2>2 DEF IsIn
<1>5. ASSUME NEW d, IsIn(d, list) \/ d = c PROVE IsIn(d, new)
  <2>1. CASE d = c
    <3>1. new[at] = c /\ at \in DOMAIN new
      BY <1>0, <1>1
    <3> QED BY <2>1, <3>1 DEF IsIn
  <2>2. CASE IsIn(d, list)
    <3>1. PICK i \in 1..Len(list) : list[i] = d
      BY <1>0, <2>2 DEF IsIn
    <3>2. CASE i < at
      <4>1. new[i] = d /\ i \in DOMAIN new
        BY <1>0, <1>1, <3>1, <3>2
      <4> QED BY <4>1 DEF IsIn
    <3>3. CASE i >= at
      <4>1. new[i + 1] = list[(i + 1) - 1] /\ (i + 1) - 1 = i /\ i + 1 \in DOMAIN new
        BY <1>0, <1>1, <3>3
      <4> QED BY <3>1, <4>1 DEF IsIn
    <3> QED BY <1>0, <3>2, <3>3
  <2> QED BY <1>5, <2>1, <2>2
<1> QED BY <1>1, <1>3, <1>4, <1>5 DEF new

LEMMA RemoveKeeps ==
  ASSUME NEW list \in Seq(Commands), NEW k, CommandTypes(k), Sorted(list, k), NEW at \in DOMAIN list
  PROVE  /\ RemoveAt(list, at) \in Seq(Commands) /\ Sorted(RemoveAt(list, at), k)
         /\ \A d : IsIn(d, RemoveAt(list, at)) <=> IsIn(d, list) /\ d # list[at]
<1> DEFINE new == RemoveAt(list, at)
<1>0. Len(list) \in Nat /\ at \in 1..Len(list) /\ DOMAIN list = 1..Len(list)
  OBVIOUS
<1>1. /\ new \in Seq(Commands) /\ DOMAIN new = 1..(Len(list) - 1)
      /\ \A j \in 1..(Len(list) - 1) : new[j] = IF j < at THEN list[j] ELSE list[j + 1]
  BY <1>0, RemovedIs
<1> HIDE DEF new
<1>3. Sorted(new, k)
  <2> SUFFICES ASSUME NEW i \in 1..(Len(list) - 1), NEW j \in 1..(Len(list) - 1), i < j
               PROVE  new[i] # new[j] /\ k[new[i]].time <= k[new[j]].time
    BY <1>1 DEF Sorted
  <2> DEFINE Old(m) == IF m < at THEN m ELSE m + 1
  <2>1. new[i] = list[Old(i)] /\ new[j] = list[Old(j)]
    BY <1>1
  <2>2. Old(i) \in DOMAIN list /\ Old(j) \in DOMAIN list /\ Old(i) < Old(j)
    BY <1>0
  <2> HIDE DEF Old
  <2> QED BY <2>1, <2>2 DEF Sorted
<1>6. \A a, b \in DOMAIN list : list[a] = list[b] => a = b
  BY <1>0 DEF Sorted
<1>4. ASSUME NEW d, IsIn(d, new) PROVE IsIn(d, list) /\ d # list[at]
  <2>1. PICK j \in 1..(Len(list) - 1) : new[j] = d
    BY <1>1, <1>4 DEF IsIn
  <2> DEFINE a == IF j < at THEN j ELSE j + 1
  <2>2. d = list[a]
    BY <1>1, <2>1
  <2>3. a \in DOMAIN list /\ a # at
    BY <1>0
  <2> HIDE DEF a
  <2> QED BY <1>0, <1>6, <2>2, <2>3 DEF IsIn
<1>5. ASSUME NEW d, IsIn(d, list), d # list[at] PROVE IsIn(d, new)
  <2>1. PICK i \in 1..Len(list) : list[i] = d
    BY <1>0, <1>5 DEF IsIn
  <2>2. CASE i < at
    <3>1. new[i] = d /\ i \in DOMAIN new
      BY <1>0, <1>1, <2>1, <2>2
    <3> QED BY <3>1 DEF IsIn
  <2>3. CASE i > at
    <3>1. i - 1 \in DOMAIN new /\ ~(i - 1 < at) /\ (i - 1) + 1 = i
      BY <1>0, <1>1, <2>3
    <3>2. new[i - 1] = d
      BY <1>1, <2>1, <3>1
    <3> QED BY <3>1, <3>2 DEF IsIn
  <2> QED BY <1>0, <1>5, <2>1, <2>2, <2>3
<1> QED BY <1>1, <1>3, <1>4, <1>5 DEF new

\* What InsertCommand does to the lists.
LEMMA InsertRight ==
  ASSUME NEW l, NEW k, NEW l2, CommandTypes(k), ListsOrdered(l, k), NEW c \in Commands, Waiting(k, c),
         ~IsIn(c, l.presentation), ~IsIn(c, l.stream),
         \A d \in Commands \ {c} : Waiting(k, d) <=> IsIn(d, l[IF k[d].stream THEN "stream" ELSE "presentation"]),
         NEW name \in {"presentation", "stream"}, name = (IF k[c].stream THEN "stream" ELSE "presentation"),
         NEW at \in 1..(Len(l[name]) + 1), \A i \in 1..(at - 1) : k[l[name][i]].time <= k[c].time,
         at <= Len(l[name]) => k[l[name][at]].time > k[c].time,
         l2 = [l EXCEPT ![name] = InsertAt(@, at, c)]
  PROVE  ListsOrdered(l2, k) /\ ListedRight(l2, k)
<1>1. /\ DOMAIN l = {"presentation", "stream"}
      /\ l[name] \in Seq(Commands) /\ Sorted(l[name], k) /\ ~IsIn(c, l[name])
  BY DEF ListsOrdered
<1>2. /\ InsertAt(l[name], at, c) \in Seq(Commands) /\ Sorted(InsertAt(l[name], at, c), k)
      /\ \A d : IsIn(d, InsertAt(l[name], at, c)) <=> IsIn(d, l[name]) \/ d = c
  BY <1>1, InsertKeeps
<1>3. /\ DOMAIN l2 = {"presentation", "stream"} /\ l2[name] = InsertAt(l[name], at, c)
      /\ \A o \in {"presentation", "stream"} \ {name} : l2[o] = l[o]
  BY <1>1
<1>4. ASSUME NEW i \in DOMAIN l2[name] PROVE k[l2[name][i]].stream <=> name = "stream"
  <2>1. IsIn(l2[name][i], l2[name])
    BY DEF IsIn
  <2>2. IsIn(l2[name][i], l[name]) \/ l2[name][i] = c
    BY <1>2, <1>3, <2>1
  <2>3. CASE l2[name][i] = c
    BY <2>3
  <2>4. CASE IsIn(l2[name][i], l[name])
    <3>1. PICK j \in DOMAIN l[name] : l[name][j] = l2[name][i]
      BY <2>4 DEF IsIn
    <3>2. k[l[name][j]].stream <=> name = "stream"
      BY DEF ListsOrdered
    <3> QED BY <3>1, <3>2
  <2> QED BY <2>2, <2>3, <2>4
<1>5. ListsOrdered(l2, k)
  <2> SUFFICES ASSUME NEW o \in {"presentation", "stream"}
               PROVE  /\ l2[o] \in Seq(Commands) /\ Sorted(l2[o], k)
                      /\ \A i \in DOMAIN l2[o] : k[l2[o][i]].stream <=> o = "stream"
    BY <1>3 DEF ListsOrdered
  <2>1. CASE o = name
    BY <1>2, <1>3, <1>4, <2>1
  <2>2. CASE o # name
    BY <1>3, <2>2 DEF ListsOrdered
  <2> QED BY <2>1, <2>2
<1>6. ListedRight(l2, k)
  <2> SUFFICES ASSUME NEW d \in Commands
               PROVE  Waiting(k, d) <=> IsIn(d, l2[IF k[d].stream THEN "stream" ELSE "presentation"])
    BY DEF ListedRight
  <2> DEFINE of == IF k[d].stream THEN "stream" ELSE "presentation"
  <2>1. CASE d = c
    BY <1>2, <1>3, <2>1
  <2>2. CASE d # c
    <3>1. Waiting(k, d) <=> IsIn(d, l[of])
      BY <2>2
    <3>2. of \in {"presentation", "stream"}
      OBVIOUS
    <3> HIDE DEF of
    <3>3. IsIn(d, l2[of]) <=> IsIn(d, l[of])
      <4>1. CASE of = name
        BY <1>2, <1>3, <2>2, <4>1
      <4>2. CASE of # name
        BY <1>3, <3>2, <4>2
      <4> QED BY <4>1, <4>2
    <3> QED BY <3>1, <3>3 DEF of
  <2> QED BY <2>1, <2>2
<1> QED BY <1>5, <1>6

\* What RemoveCommand does to the lists; the command may get another time with it.
LEMMA RemoveRight ==
  ASSUME NEW l, NEW k, NEW l2, NEW k2, CommandTypes(k), ListsOrdered(l, k), ListedRight(l, k),
         NEW c \in Commands, Waiting(k, c), ~Waiting(k2, c), k2[c].stream <=> k[c].stream,
         \A d \in Commands \ {c} : k2[d] = k[d],
         NEW name \in {"presentation", "stream"}, name = (IF k[c].stream THEN "stream" ELSE "presentation"),
         NEW at \in DOMAIN l[name], l[name][at] = c,
         l2 = [l EXCEPT ![name] = RemoveAt(@, at)]
  PROVE  ListsOrdered(l2, k2) /\ ListedRight(l2, k2)
<1>1. /\ DOMAIN l = {"presentation", "stream"} /\ l[name] \in Seq(Commands) /\ Sorted(l[name], k)
  BY DEF ListsOrdered
<1>2. /\ RemoveAt(l[name], at) \in Seq(Commands) /\ Sorted(RemoveAt(l[name], at), k)
      /\ \A d : IsIn(d, RemoveAt(l[name], at)) <=> IsIn(d, l[name]) /\ d # c
  BY <1>1, RemoveKeeps
<1>3. /\ DOMAIN l2 = {"presentation", "stream"} /\ l2[name] = RemoveAt(l[name], at)
      /\ \A o \in {"presentation", "stream"} \ {name} : l2[o] = l[o]
  BY <1>1
<1>4. ASSUME NEW i \in DOMAIN l2[name] PROVE k[l2[name][i]].stream <=> name = "stream"
  <2>1. IsIn(l2[name][i], l2[name])
    BY DEF IsIn
  <2>2. IsIn(l2[name][i], l[name])
    BY <1>2, <1>3, <2>1
  <2>3. PICK j \in DOMAIN l[name] : l[name][j] = l2[name][i]
    BY <2>2 DEF IsIn
  <2>4. k[l[name][j]].stream <=> name = "stream"
    BY DEF ListsOrdered
  <2> QED BY <2>3, <2>4
<1>5. ListsOrdered(l2, k)
  <2> SUFFICES ASSUME NEW o \in {"presentation", "stream"}
               PROVE  /\ l2[o] \in Seq(Commands) /\ Sorted(l2[o], k)
                      /\ \A i \in DOMAIN l2[o] : k[l2[o][i]].stream <=> o = "stream"
    BY <1>3 DEF ListsOrdered
  <2>1. CASE o = name
    BY <1>2, <1>3, <1>4, <2>1
  <2>2. CASE o # name
    BY <1>3, <2>2 DEF ListsOrdered
  <2> QED BY <2>1, <2>2
<1>6. \A o \in {"presentation", "stream"} : ~IsIn(c, l2[o])
  <2> SUFFICES ASSUME NEW o \in {"presentation", "stream"}, IsIn(c, l2[o]) PROVE FALSE
    OBVIOUS
  <2>1. PICK i \in DOMAIN l2[o] : l2[o][i] = c
    BY DEF IsIn
  <2>2. k[c].stream <=> o = "stream"
    <3>1. \A j \in DOMAIN l2[o] : k[l2[o][j]].stream <=> o = "stream"
      BY <1>5, Zenon DEF ListsOrdered
    <3> QED BY <2>1, <3>1
  <2>3. o = name
    BY <2>2
  <2> QED BY <1>2, <1>3, <2>3
<1>7. ListsOrdered(l2, k2)
  <2>1. \A d \in Commands : (IsIn(d, l2.presentation) \/ IsIn(d, l2.stream)) => d # c
    BY <1>6
  <2>2. \A d \in Commands : (IsIn(d, l2.presentation) \/ IsIn(d, l2.stream)) =>
             k2[d].time = k[d].time /\ (k2[d].stream <=> k[d].stream)
    BY <2>1
  <2> QED BY <1>5, <2>2, ListsStay
<1>8. ListedRight(l2, k2)
  <2> SUFFICES ASSUME NEW d \in Commands
               PROVE  Waiting(k2, d) <=> IsIn(d, l2[IF k2[d].stream THEN "stream" ELSE "presentation"])
    BY DEF ListedRight
  <2>1. CASE d = c
    BY <1>6, <2>1
  <2>2. CASE d # c
    <3> DEFINE of == IF k[d].stream THEN "stream" ELSE "presentation"
    <3>1. k2[d] = k[d] /\ (Waiting(k, d) <=> IsIn(d, l[of]))
      BY <2>2 DEF ListedRight
    <3>2. of \in {"presentation", "stream"} /\ (Waiting(k2, d) <=> Waiting(k, d))
      BY <3>1 DEF Waiting
    <3>4. of = IF k2[d].stream THEN "stream" ELSE "presentation"
      BY <3>1
    <3> HIDE DEF of
    <3>3. IsIn(d, l2[of]) <=> IsIn(d, l[of])
      <4>1. CASE of = name
        BY <1>2, <1>3, <2>2, <4>1
      <4>2. CASE of # name
        BY <1>3, <3>2, <4>2
      <4> QED BY <4>1, <4>2
    <3> QED BY <3>1, <3>2, <3>3, <3>4
  <2> QED BY <2>1, <2>2
<1> QED BY <1>7, <1>8

\* The types of the commands after a step on one of them.
LEMMA OneCommand ==
  ASSUME NEW k, NEW k2, CommandTypes(k), NEW c \in Commands, DOMAIN k2 = Commands,
         \A d \in Commands \ {c} : k2[d] = k[d], DOMAIN k2[c] = {"time", "stream", "queued", "refs", "app"},
         k2[c].time \in Nat, k2[c].stream \in BOOLEAN, k2[c].queued \in BOOLEAN, k2[c].refs \in Int,
         k2[c].app \in {"none", "new", "holds", "postponing"}
  PROVE  CommandTypes(k2)
<1> SUFFICES ASSUME NEW d \in Commands
             PROVE  /\ DOMAIN k2[d] = {"time", "stream", "queued", "refs", "app"}
                    /\ k2[d].time \in Nat /\ k2[d].stream \in BOOLEAN /\ k2[d].queued \in BOOLEAN /\ k2[d].refs \in Int
                    /\ k2[d].app \in {"none", "new", "holds", "postponing"}
  BY DEF CommandTypes
<1>1. CASE d = c
  BY <1>1, Zenon
<1>2. CASE d # c
  <2>1. k2[d] = k[d]
    BY <1>2
  <2> QED BY <2>1, Zenon DEF CommandTypes
<1> QED BY <1>1, <1>2

-----------------------------------------------------------------------------
\* Where the lists change, the advise follows.
LEMMA Inserts ==
  ASSUME ListsInv, now \in Nat, RanTypes, NEW c \in Commands, NEW k, CommandTypes(k), Waiting(k, c), ~Waiting(cmd, c),
         \A d \in Commands \ {c} : k[d] = cmd[d], InsertCommand(c, k), now' = now, ran' = ran
  PROVE  cmd' = k /\ ListsInv'
<1> DEFINE name == IF k[c].stream THEN "stream" ELSE "presentation"
<1>1. name \in {"presentation", "stream"}
  OBVIOUS
<1>2. PICK at \in 1..(Len(lists[name]) + 1) :
         /\ \A i \in 1..(at - 1) : k[lists[name][i]].time <= k[c].time
         /\ at <= Len(lists[name]) => k[lists[name][at]].time > k[c].time
         /\ cmd' = k
         /\ lists' = [lists EXCEPT ![name] = InsertAt(@, at, c)]
         /\ queue' = SetTimeAdvise(queue, lists', k)
  BY DEF InsertCommand
<1>3. ~IsIn(c, lists.presentation) /\ ~IsIn(c, lists.stream)
  BY NotListed DEF ListsInv
<1>4. ListsOrdered(lists, k)
  <2>1. \A d \in Commands : (IsIn(d, lists.presentation) \/ IsIn(d, lists.stream)) => k[d] = cmd[d]
    BY <1>3
  <2>2. \A d \in Commands : (IsIn(d, lists.presentation) \/ IsIn(d, lists.stream)) =>
             k[d].time = cmd[d].time /\ (k[d].stream <=> cmd[d].stream)
    BY <2>1
  <2> QED BY <2>2, ListsStay DEF ListsInv
<1>5. \A d \in Commands \ {c} : Waiting(k, d) <=> IsIn(d, lists[IF k[d].stream THEN "stream" ELSE "presentation"])
  <2> SUFFICES ASSUME NEW d \in Commands \ {c}
               PROVE  Waiting(k, d) <=> IsIn(d, lists[IF k[d].stream THEN "stream" ELSE "presentation"])
    OBVIOUS
  <2>1. Waiting(cmd, d) <=> IsIn(d, lists[IF cmd[d].stream THEN "stream" ELSE "presentation"])
    BY DEF ListsInv, ListedRight
  <2>2. k[d] = cmd[d]
    OBVIOUS
  <2> QED BY <2>1, <2>2 DEF Waiting
<1>6. name = IF k[c].stream THEN "stream" ELSE "presentation"
  OBVIOUS
<1> HIDE DEF name
<1>7. ListsOrdered(lists', k) /\ ListedRight(lists', k)
  BY <1>1, <1>2, <1>3, <1>4, <1>5, <1>6, InsertRight
<1>8. ran.rewired \in BOOLEAN /\ AdviseTypes(queue) /\ Armed(queue, now, ran.rewired)
  BY DEF ListsInv, RanTypes
<1>9. AdviseTypes(queue') /\ Armed(queue', now, ran.rewired) /\ ForFirst(queue', lists', k)
  BY <1>2, <1>7, <1>8, AdviseFollows
<1> QED BY <1>2, <1>7, <1>9 DEF ListsInv

LEMMA Removes ==
  ASSUME ListsInv, now \in Nat, RanTypes, NEW c \in Commands, NEW k, CommandTypes(k), Waiting(cmd, c), ~Waiting(k, c),
         k[c].stream <=> cmd[c].stream, \A d \in Commands \ {c} : k[d] = cmd[d],
         RemoveCommand(c, k), now' = now, ran' = ran
  PROVE  /\ \A d \in Commands \ {c} : cmd'[d] = cmd[d]
         /\ cmd'[c].time = k[c].time /\ cmd'[c].stream = k[c].stream /\ cmd'[c].queued = k[c].queued
         /\ cmd'[c].app = k[c].app /\ cmd'[c].refs = k[c].refs - 1
         /\ ListsInv'
<1> DEFINE name == ListOf(c)
<1>1. name \in {"presentation", "stream"} /\ name = IF cmd[c].stream THEN "stream" ELSE "presentation"
  BY DEF ListOf
<1>2. ~ \A i \in DOMAIN lists[name] : lists[name][i] # c
  <2>1. IsIn(c, lists[name])
    BY <1>1 DEF ListsInv, ListedRight
  <2> QED BY <2>1 DEF IsIn
<1>3. PICK at \in DOMAIN lists[name] :
         /\ lists[name][at] = c
         /\ cmd' = [k EXCEPT ![c].refs = @ - 1]
         /\ lists' = [lists EXCEPT ![name] = RemoveAt(@, at)]
         /\ queue' = SetTimeAdvise(queue, lists', k)
  BY <1>2 DEF RemoveCommand
<1> HIDE DEF name
<1>4. ListsOrdered(lists, cmd) /\ ListedRight(lists, cmd) /\ CommandTypes(cmd)
  BY DEF ListsInv
<1>5. ListsOrdered(lists', k) /\ ListedRight(lists', k)
  BY <1>1, <1>3, <1>4, RemoveRight
<1>6. ran.rewired \in BOOLEAN /\ AdviseTypes(queue) /\ Armed(queue, now, ran.rewired)
  BY DEF ListsInv, RanTypes
<1>7. AdviseTypes(queue') /\ Armed(queue', now, ran.rewired) /\ ForFirst(queue', lists', k)
  BY <1>3, <1>5, <1>6, AdviseFollows
<1>8. /\ DOMAIN cmd' = Commands /\ \A d \in Commands \ {c} : cmd'[d] = k[d]
      /\ DOMAIN cmd'[c] = DOMAIN k[c]
      /\ cmd'[c].time = k[c].time /\ cmd'[c].stream = k[c].stream /\ cmd'[c].queued = k[c].queued
      /\ cmd'[c].app = k[c].app /\ cmd'[c].refs = k[c].refs - 1
  BY <1>3 DEF CommandTypes
<1>9. CommandTypes(cmd')
  BY <1>8 DEF CommandTypes
<1>10. \A d \in Commands : cmd'[d].time = k[d].time /\ (cmd'[d].stream <=> k[d].stream) /\ (Waiting(cmd', d) <=> Waiting(k, d))
  BY <1>8 DEF Waiting
<1>11. ListsOrdered(lists', cmd')
  BY <1>5, <1>10, ListsStay
<1>12. ListedRight(lists', cmd')
  BY <1>5, <1>10 DEF ListedRight
<1>13. ForFirst(queue', lists', cmd')
  <2>1. Heads(queue', lists', cmd') = Heads(queue', lists', k)
    BY <1>5, <1>10, HeadsStay
  <2> QED BY <1>7, <2>1 DEF ForFirst
<1>14. ListsInv'
  BY <1>7, <1>9, <1>11, <1>12, <1>13 DEF ListsInv
<1> QED BY <1>8, <1>14

\* Where neither the lists nor the advise change, nor what the commands are waiting for.
LEMMA Stays ==
  ASSUME ListsInv, CommandTypes(cmd'), UNCHANGED <<lists, queue, now>>, ran'.rewired = ran.rewired,
         \A d \in Commands : cmd'[d].time = cmd[d].time /\ (cmd'[d].stream <=> cmd[d].stream),
         \A d \in Commands : Waiting(cmd', d) <=> Waiting(cmd, d)
  PROVE  ListsInv'
<1>0. ListsOrdered(lists, cmd) /\ ListedRight(lists, cmd)
  BY DEF ListsInv
<1>1. \A d \in Commands : cmd'[d].time = cmd[d].time /\ (cmd'[d].stream <=> cmd[d].stream)
  OBVIOUS
<1>2. ListsOrdered(lists, cmd')
  BY <1>0, <1>1, ListsStay
<1>3. ListedRight(lists, cmd')
  <2> SUFFICES ASSUME NEW d \in Commands
               PROVE  Waiting(cmd', d) <=> IsIn(d, lists[IF cmd'[d].stream THEN "stream" ELSE "presentation"])
    BY DEF ListedRight
  <2>1. Waiting(cmd, d) <=> IsIn(d, lists[IF cmd[d].stream THEN "stream" ELSE "presentation"])
    BY <1>0 DEF ListedRight
  <2>2. (IF cmd'[d].stream THEN "stream" ELSE "presentation") = (IF cmd[d].stream THEN "stream" ELSE "presentation")
    BY <1>1
  <2> QED BY <2>1, <2>2
<1>4. Heads(queue, lists, cmd') = Heads(queue, lists, cmd)
  BY <1>0, <1>1, HeadsStay
<1>5. ForFirst(queue, lists, cmd')
  BY <1>4 DEF ListsInv, ForFirst
<1> QED BY <1>2, <1>3, <1>5 DEF ListsInv

-----------------------------------------------------------------------------
\* One lemma per operation.
LEMMA NoClash == ASSUME RanTypes, ~ran'.clash PROVE ~Clash
<1> SUFFICES ASSUME Clash PROVE FALSE
  OBVIOUS
<1>1. ran' = [ran EXCEPT !.clash = TRUE] /\ "clash" \in DOMAIN ran
  BY DEF Clash, RanTypes
<1> QED BY <1>1

LEMMA NewKeeps ==
  ASSUME QueueInv, NEW c \in Commands, New(c)
  PROVE  QueueInv'
<1>1. PICK t \in CommandTimes, s \in BOOLEAN :
         /\ cmd[c].refs = 0 /\ ~cmd[c].queued /\ cmd[c].time = NoTime
         /\ InsertCommand(c, [cmd EXCEPT ![c] = [time |-> t, stream |-> s, queued |-> TRUE, refs |-> 1, app |-> "new"]])
         /\ UNCHANGED <<now, invoker, ran>>
  BY DEF New
<1> DEFINE k == [cmd EXCEPT ![c] = [time |-> t, stream |-> s, queued |-> TRUE, refs |-> 1, app |-> "new"]]
<1>2. CommandTypes(cmd) /\ RanTypes /\ now \in Nat \ {0} /\ t \in Nat \ {0} /\ ListsInv
  BY CommandBounds DEF QueueInv, ListsInv, WorkInv, NoTime
<1>3. /\ DOMAIN k = Commands /\ \A d \in Commands \ {c} : k[d] = cmd[d]
      /\ k[c] = [time |-> t, stream |-> s, queued |-> TRUE, refs |-> 1, app |-> "new"]
  BY <1>2 DEF CommandTypes
<1>4. /\ DOMAIN k[c] = {"time", "stream", "queued", "refs", "app"}
      /\ k[c].time = t /\ k[c].stream = s /\ k[c].queued = TRUE /\ k[c].refs = 1 /\ k[c].app = "new"
  BY <1>3
<1>5. InsertCommand(c, k)
  BY <1>1
<1> HIDE DEF k
<1>6. CommandTypes(k)
  <2>1. k[c].stream \in BOOLEAN /\ k[c].queued \in BOOLEAN
    BY <1>2, <1>3, <1>4, Zenon DEF CommandTypes
  <2>2. k[c].time \in Nat /\ k[c].refs \in Int
    BY <1>2, <1>3, <1>4, SMT DEF CommandTypes
  <2>3. k[c].app \in {"none", "new", "holds", "postponing"} /\ DOMAIN k[c] = {"time", "stream", "queued", "refs", "app"}
    BY <1>2, <1>3, <1>4, Zenon DEF CommandTypes
  <2> QED BY <1>2, <1>3, <1>4, <2>1, <2>2, <2>3, OneCommand
<1>7. Waiting(k, c) /\ ~Waiting(cmd, c)
  BY <1>1, <1>4 DEF Waiting
<1>8. cmd' = k /\ ListsInv'
  BY <1>1, <1>2, <1>3, <1>5, <1>6, <1>7, Inserts
<1>9. invoker.cmd # c /\ ran.times[c] = 0
  BY <1>1 DEF QueueInv, WorkInv, Known, RunOnce, RanTypes
<1>10. WorkerTypes' /\ RanTypes' /\ now' \in Nat \ {0}
  BY <1>1 DEF QueueInv, WorkInv, WorkerTypes, RanTypes
<1>11. Known'
  BY <1>1, <1>2, <1>3, <1>4, <1>8 DEF QueueInv, WorkInv, Known, NoTime
<1>12. RunOnce'
  BY <1>1, <1>3, <1>4, <1>8, <1>9 DEF QueueInv, WorkInv, RunOnce, Waiting
<1>13. NotEarly'
  BY <1>1, <1>3, <1>8, <1>9 DEF QueueInv, WorkInv, NotEarly, WorkerTypes
<1>14. Counted'
  <2>1. \A d \in Commands \ {c} : cmd'[d] = cmd[d]
    BY <1>3, <1>8
  <2>2. cmd'[c].refs = 1 /\ Waiting(cmd', c) /\ cmd'[c].app = "new" /\ invoker'.cmd # c /\ invoker' = invoker
    BY <1>1, <1>4, <1>7, <1>8, <1>9
  <2> QED BY <2>1, <2>2 DEF QueueInv, WorkInv, Counted, Waiting
<1> QED BY <1>8, <1>10, <1>11, <1>12, <1>13, <1>14 DEF QueueInv, WorkInv

LEMMA CancelKeeps ==
  ASSUME QueueInv, NEW c \in Commands, Cancel(c), ~ran'.clash
  PROVE  QueueInv'
<1> DEFINE k == [cmd EXCEPT ![c].queued = FALSE]
<1>1. /\ cmd[c].queued /\ cmd[c].app = "holds" /\ ~(invoker.cmd = c /\ invoker.at = "invoked")
      /\ RemoveCommand(c, k) /\ UNCHANGED <<now, invoker, ran>>
  BY NoClash DEF QueueInv, WorkInv, Cancel, InInvoke
<1>2. CommandTypes(cmd) /\ RanTypes /\ now \in Nat \ {0} /\ ListsInv
  BY DEF QueueInv, ListsInv, WorkInv
<1>3. /\ DOMAIN k = Commands /\ \A d \in Commands \ {c} : k[d] = cmd[d]
      /\ DOMAIN k[c] = DOMAIN cmd[c] /\ k[c].time = cmd[c].time /\ k[c].stream = cmd[c].stream
      /\ k[c].queued = FALSE /\ k[c].refs = cmd[c].refs /\ k[c].app = cmd[c].app
  BY <1>2 DEF CommandTypes
<1> HIDE DEF k
<1>4. CommandTypes(k)
  <2>1. k[c].stream \in BOOLEAN /\ k[c].queued \in BOOLEAN
    BY <1>2, <1>3, Zenon DEF CommandTypes
  <2>2. k[c].time \in Nat /\ k[c].refs \in Int
    BY <1>2, <1>3, SMT DEF CommandTypes
  <2>3. k[c].app \in {"none", "new", "holds", "postponing"} /\ DOMAIN k[c] = {"time", "stream", "queued", "refs", "app"}
    BY <1>2, <1>3, Zenon DEF CommandTypes
  <2> QED BY <1>2, <1>3, <2>1, <2>2, <2>3, OneCommand
<1>5. Waiting(cmd, c) /\ ~Waiting(k, c) /\ (k[c].stream <=> cmd[c].stream)
  BY <1>1, <1>3 DEF Waiting
<1>6. /\ \A d \in Commands \ {c} : cmd'[d] = cmd[d]
      /\ cmd'[c].time = k[c].time /\ cmd'[c].stream = k[c].stream /\ cmd'[c].queued = k[c].queued
      /\ cmd'[c].app = k[c].app /\ cmd'[c].refs = k[c].refs - 1 /\ ListsInv'
  BY <1>1, <1>2, <1>3, <1>4, <1>5, Removes
<1>7. WorkerTypes' /\ RanTypes' /\ now' \in Nat \ {0}
  BY <1>1 DEF QueueInv, WorkInv, WorkerTypes, RanTypes
<1>8. Known'
  BY <1>1, <1>3, <1>6 DEF QueueInv, WorkInv, Known
<1>9. RunOnce'
  BY <1>1, <1>3, <1>6 DEF QueueInv, WorkInv, RunOnce, Waiting
<1>10. NotEarly'
  BY <1>1, <1>3, <1>6 DEF QueueInv, WorkInv, NotEarly, WorkerTypes
<1>11. Counted'
  BY <1>1, <1>2, <1>3, <1>6 DEF QueueInv, WorkInv, Counted, Waiting, CommandTypes
<1> QED BY <1>6, <1>7, <1>8, <1>9, <1>10, <1>11 DEF QueueInv, WorkInv

LEMMA PostponeKeeps ==
  ASSUME QueueInv, NEW c \in Commands, Postpone(c), ~ran'.clash
  PROVE  QueueInv'
<1>1. PICK t \in CommandTimes : RemoveCommand(c, [cmd EXCEPT ![c].app = "postponing", ![c].time = t])
  BY NoClash DEF QueueInv, WorkInv, Postpone
<1> DEFINE k == [cmd EXCEPT ![c].app = "postponing", ![c].time = t]
<1>2. /\ cmd[c].queued /\ cmd[c].app = "holds" /\ ~(invoker.cmd = c /\ invoker.at = "invoked")
      /\ UNCHANGED <<now, ran>>
      /\ invoker' = IF invoker.cmd = c THEN [invoker EXCEPT !.ahead = TRUE] ELSE invoker
  BY NoClash DEF QueueInv, WorkInv, Postpone, InInvoke
<1>3. CommandTypes(cmd) /\ RanTypes /\ now \in Nat \ {0} /\ ListsInv /\ t \in Nat \ {0}
  BY CommandBounds DEF QueueInv, ListsInv, WorkInv, NoTime
<1>4. /\ DOMAIN k = Commands /\ \A d \in Commands \ {c} : k[d] = cmd[d]
      /\ DOMAIN k[c] = DOMAIN cmd[c] /\ k[c].time = t /\ k[c].stream = cmd[c].stream
      /\ k[c].queued = cmd[c].queued /\ k[c].refs = cmd[c].refs /\ k[c].app = "postponing"
  BY <1>3 DEF CommandTypes
<1>5. RemoveCommand(c, k)
  BY <1>1
<1> HIDE DEF k
<1>6. CommandTypes(k)
  <2>1. k[c].stream \in BOOLEAN /\ k[c].queued \in BOOLEAN
    BY <1>3, <1>4, Zenon DEF CommandTypes
  <2>2. k[c].time \in Nat /\ k[c].refs \in Int
    BY <1>3, <1>4, SMT DEF CommandTypes
  <2>3. k[c].app \in {"none", "new", "holds", "postponing"} /\ DOMAIN k[c] = {"time", "stream", "queued", "refs", "app"}
    BY <1>3, <1>4, Zenon DEF CommandTypes
  <2> QED BY <1>3, <1>4, <2>1, <2>2, <2>3, OneCommand
<1>7. Waiting(cmd, c) /\ ~Waiting(k, c) /\ (k[c].stream <=> cmd[c].stream)
  BY <1>2, <1>4 DEF Waiting
<1>8. /\ \A d \in Commands \ {c} : cmd'[d] = cmd[d]
      /\ cmd'[c].time = k[c].time /\ cmd'[c].stream = k[c].stream /\ cmd'[c].queued = k[c].queued
      /\ cmd'[c].app = k[c].app /\ cmd'[c].refs = k[c].refs - 1 /\ ListsInv'
  BY <1>2, <1>3, <1>4, <1>5, <1>6, <1>7, Removes
<1>9. /\ DOMAIN invoker' = DOMAIN invoker /\ invoker'.at = invoker.at /\ invoker'.cmd = invoker.cmd
      /\ invoker'.counted = invoker.counted
      /\ invoker'.ahead = IF invoker.cmd = c THEN TRUE ELSE invoker.ahead
  BY <1>2 DEF QueueInv, WorkInv, WorkerTypes
<1>10. WorkerTypes' /\ RanTypes' /\ now' \in Nat \ {0}
  BY <1>2, <1>9 DEF QueueInv, WorkInv, WorkerTypes, RanTypes
<1>11. Known'
  BY <1>2, <1>3, <1>4, <1>8, <1>9 DEF QueueInv, WorkInv, Known, NoTime
<1>12. RunOnce'
  <2> SUFFICES ASSUME NEW d \in Commands
               PROVE  /\ cmd'[d].app = "postponing" => cmd'[d].queued
                      /\ invoker.at = "invoked" /\ invoker.cmd = d => Waiting(cmd', d)
                      /\ ran.times[d] = 1 => cmd'[d].time # NoTime /\ (~cmd'[d].queued \/ (invoker.at = "invoked" /\ invoker.cmd = d))
    BY <1>2, <1>9 DEF RunOnce
  <2>1. /\ cmd[d].app = "postponing" => cmd[d].queued
        /\ invoker.at = "invoked" /\ invoker.cmd = d => Waiting(cmd, d)
        /\ ran.times[d] = 1 => cmd[d].time # NoTime /\ (~cmd[d].queued \/ (invoker.at = "invoked" /\ invoker.cmd = d))
    BY DEF QueueInv, WorkInv, RunOnce
  <2>2. CASE d = c
    BY <1>2, <1>3, <1>4, <1>8, <2>1, <2>2 DEF NoTime
  <2>3. CASE d # c
    BY <1>8, <2>1, <2>3 DEF Waiting
  <2> QED BY <2>2, <2>3
<1>13. NotEarly'
  BY <1>2, <1>8, <1>9 DEF QueueInv, WorkInv, NotEarly, WorkerTypes
<1>14. Counted'
  BY <1>2, <1>3, <1>4, <1>8, <1>9 DEF QueueInv, WorkInv, Counted, Waiting, CommandTypes
<1> QED BY <1>8, <1>10, <1>11, <1>12, <1>13, <1>14 DEF QueueInv, WorkInv

LEMMA RequeueKeeps ==
  ASSUME QueueInv, NEW c \in Commands, Requeue(c)
  PROVE  QueueInv'
<1> DEFINE k == [cmd EXCEPT ![c].app = "holds", ![c].refs = @ + 1]
<1>1. cmd[c].app = "postponing" /\ InsertCommand(c, k) /\ UNCHANGED <<now, invoker, ran>>
  BY DEF Requeue
<1>2. CommandTypes(cmd) /\ RanTypes /\ now \in Nat \ {0} /\ ListsInv /\ cmd[c].queued
  BY <1>1 DEF QueueInv, ListsInv, WorkInv, RunOnce
<1>3. /\ DOMAIN k = Commands /\ \A d \in Commands \ {c} : k[d] = cmd[d]
      /\ DOMAIN k[c] = DOMAIN cmd[c] /\ k[c].time = cmd[c].time /\ k[c].stream = cmd[c].stream
      /\ k[c].queued = cmd[c].queued /\ k[c].refs = cmd[c].refs + 1 /\ k[c].app = "holds"
  BY <1>2 DEF CommandTypes
<1> HIDE DEF k
<1>4. CommandTypes(k)
  <2>1. k[c].stream \in BOOLEAN /\ k[c].queued \in BOOLEAN
    BY <1>2, <1>3, Zenon DEF CommandTypes
  <2>2. k[c].time \in Nat /\ k[c].refs \in Int
    BY <1>2, <1>3, SMT DEF CommandTypes
  <2>3. k[c].app \in {"none", "new", "holds", "postponing"} /\ DOMAIN k[c] = {"time", "stream", "queued", "refs", "app"}
    BY <1>2, <1>3, Zenon DEF CommandTypes
  <2> QED BY <1>2, <1>3, <2>1, <2>2, <2>3, OneCommand
<1>5. Waiting(k, c) /\ ~Waiting(cmd, c)
  BY <1>1, <1>2, <1>3 DEF Waiting
<1>6. cmd' = k /\ ListsInv'
  BY <1>1, <1>2, <1>3, <1>4, <1>5, Inserts
<1>7. WorkerTypes' /\ RanTypes' /\ now' \in Nat \ {0}
  BY <1>1 DEF QueueInv, WorkInv, WorkerTypes, RanTypes
<1>8. Known'
  BY <1>1, <1>3, <1>6 DEF QueueInv, WorkInv, Known
<1>9. RunOnce'
  BY <1>1, <1>2, <1>3, <1>5, <1>6 DEF QueueInv, WorkInv, RunOnce, Waiting
<1>10. NotEarly'
  BY <1>1, <1>3, <1>6 DEF QueueInv, WorkInv, NotEarly, WorkerTypes
<1>11. Counted'
  BY <1>1, <1>2, <1>3, <1>5, <1>6 DEF QueueInv, WorkInv, Counted, Waiting, CommandTypes
<1> QED BY <1>6, <1>7, <1>8, <1>9, <1>10, <1>11 DEF QueueInv, WorkInv

LEMMA AddRefNewKeeps ==
  ASSUME QueueInv, NEW c \in Commands, AddRefNew(c), ~ran'.clash
  PROVE  QueueInv'
<1>1. cmd[c].app = "new" /\ cmd' = [cmd EXCEPT ![c].app = "holds", ![c].refs = @ + 1]
      /\ UNCHANGED <<now, lists, queue, invoker, ran>>
  BY NoClash DEF QueueInv, WorkInv, AddRefNew
<1>2. CommandTypes(cmd) /\ ListsInv
  BY DEF QueueInv, ListsInv
<1>3. /\ DOMAIN cmd' = Commands /\ \A d \in Commands \ {c} : cmd'[d] = cmd[d]
      /\ DOMAIN cmd'[c] = DOMAIN cmd[c] /\ cmd'[c].time = cmd[c].time /\ cmd'[c].stream = cmd[c].stream
      /\ cmd'[c].queued = cmd[c].queued /\ cmd'[c].refs = cmd[c].refs + 1 /\ cmd'[c].app = "holds"
  BY <1>1, <1>2 DEF CommandTypes
<1>4. CommandTypes(cmd')
  <2>1. cmd'[c].stream \in BOOLEAN /\ cmd'[c].queued \in BOOLEAN
    BY <1>2, <1>3, Zenon DEF CommandTypes
  <2>2. cmd'[c].time \in Nat /\ cmd'[c].refs \in Int
    BY <1>2, <1>3, SMT DEF CommandTypes
  <2>3. cmd'[c].app \in {"none", "new", "holds", "postponing"} /\ DOMAIN cmd'[c] = {"time", "stream", "queued", "refs", "app"}
    BY <1>2, <1>3, Zenon DEF CommandTypes
  <2> QED BY <1>2, <1>3, <2>1, <2>2, <2>3, OneCommand
<1>5. /\ \A d \in Commands : cmd'[d].time = cmd[d].time /\ (cmd'[d].stream <=> cmd[d].stream)
      /\ \A d \in Commands : Waiting(cmd', d) <=> Waiting(cmd, d)
  BY <1>1, <1>3 DEF Waiting
<1>6. ListsInv'
  BY <1>1, <1>2, <1>4, <1>5, Stays
<1>7. WorkerTypes' /\ RanTypes' /\ now' \in Nat \ {0}
  BY <1>1 DEF QueueInv, WorkInv, WorkerTypes, RanTypes
<1>8. Known'
  BY <1>1, <1>3 DEF QueueInv, WorkInv, Known
<1>9. RunOnce'
  <2>1. \A d \in Commands : /\ cmd'[d].app = "postponing" => cmd[d].app = "postponing"
                            /\ cmd'[d].queued <=> cmd[d].queued
                            /\ cmd'[d].time = cmd[d].time
    BY <1>3
  <2> SUFFICES ASSUME NEW d \in Commands
               PROVE  /\ cmd'[d].app = "postponing" => cmd'[d].queued
                      /\ invoker.at = "invoked" /\ invoker.cmd = d => Waiting(cmd', d)
                      /\ ran.times[d] = 1 => cmd'[d].time # NoTime /\ (~cmd'[d].queued \/ (invoker.at = "invoked" /\ invoker.cmd = d))
    BY <1>1 DEF RunOnce
  <2>3. /\ cmd[d].app = "postponing" => cmd[d].queued
        /\ invoker.at = "invoked" /\ invoker.cmd = d => Waiting(cmd, d)
        /\ ran.times[d] = 1 => cmd[d].time # NoTime /\ (~cmd[d].queued \/ (invoker.at = "invoked" /\ invoker.cmd = d))
    BY DEF QueueInv, WorkInv, RunOnce
  <2>4. (cmd'[d].app = "postponing" => cmd[d].app = "postponing") /\ (cmd'[d].queued <=> cmd[d].queued) /\ cmd'[d].time = cmd[d].time
    BY <2>1
  <2>5. Waiting(cmd', d) <=> Waiting(cmd, d)
    BY <1>5
  <2> QED BY <2>3, <2>4, <2>5, Zenon
<1>10. NotEarly'
  BY <1>1, <1>3 DEF QueueInv, WorkInv, NotEarly, WorkerTypes
<1>11. Counted'
  BY <1>1, <1>2, <1>3, <1>5 DEF QueueInv, WorkInv, Counted, CommandTypes
<1> QED BY <1>6, <1>7, <1>8, <1>9, <1>10, <1>11 DEF QueueInv, WorkInv

LEMMA ReleaseKeeps ==
  ASSUME QueueInv, NEW c \in Commands, ReleaseCommand(c)
  PROVE  QueueInv'
<1>1. cmd[c].app = "holds" /\ cmd' = [cmd EXCEPT ![c].app = "none", ![c].refs = @ - 1]
      /\ UNCHANGED <<now, lists, queue, invoker, ran>>
  BY DEF ReleaseCommand
<1>2. CommandTypes(cmd) /\ ListsInv
  BY DEF QueueInv, ListsInv
<1>3. /\ DOMAIN cmd' = Commands /\ \A d \in Commands \ {c} : cmd'[d] = cmd[d]
      /\ DOMAIN cmd'[c] = DOMAIN cmd[c] /\ cmd'[c].time = cmd[c].time /\ cmd'[c].stream = cmd[c].stream
      /\ cmd'[c].queued = cmd[c].queued /\ cmd'[c].refs = cmd[c].refs - 1 /\ cmd'[c].app = "none"
  BY <1>1, <1>2 DEF CommandTypes
<1>4. CommandTypes(cmd')
  <2>1. cmd'[c].stream \in BOOLEAN /\ cmd'[c].queued \in BOOLEAN
    BY <1>2, <1>3, Zenon DEF CommandTypes
  <2>2. cmd'[c].time \in Nat /\ cmd'[c].refs \in Int
    BY <1>2, <1>3, SMT DEF CommandTypes
  <2>3. cmd'[c].app \in {"none", "new", "holds", "postponing"} /\ DOMAIN cmd'[c] = {"time", "stream", "queued", "refs", "app"}
    BY <1>2, <1>3, Zenon DEF CommandTypes
  <2> QED BY <1>2, <1>3, <2>1, <2>2, <2>3, OneCommand
<1>5. /\ \A d \in Commands : cmd'[d].time = cmd[d].time /\ (cmd'[d].stream <=> cmd[d].stream)
      /\ \A d \in Commands : Waiting(cmd', d) <=> Waiting(cmd, d)
  BY <1>1, <1>3 DEF Waiting
<1>6. ListsInv'
  BY <1>1, <1>2, <1>4, <1>5, Stays
<1>7. WorkerTypes' /\ RanTypes' /\ now' \in Nat \ {0}
  BY <1>1 DEF QueueInv, WorkInv, WorkerTypes, RanTypes
<1>8. Known'
  BY <1>1, <1>3 DEF QueueInv, WorkInv, Known
<1>9. RunOnce'
  <2>1. \A d \in Commands : /\ cmd'[d].app = "postponing" => cmd[d].app = "postponing"
                            /\ cmd'[d].queued <=> cmd[d].queued
                            /\ cmd'[d].time = cmd[d].time
    BY <1>3
  <2> SUFFICES ASSUME NEW d \in Commands
               PROVE  /\ cmd'[d].app = "postponing" => cmd'[d].queued
                      /\ invoker.at = "invoked" /\ invoker.cmd = d => Waiting(cmd', d)
                      /\ ran.times[d] = 1 => cmd'[d].time # NoTime /\ (~cmd'[d].queued \/ (invoker.at = "invoked" /\ invoker.cmd = d))
    BY <1>1 DEF RunOnce
  <2>3. /\ cmd[d].app = "postponing" => cmd[d].queued
        /\ invoker.at = "invoked" /\ invoker.cmd = d => Waiting(cmd, d)
        /\ ran.times[d] = 1 => cmd[d].time # NoTime /\ (~cmd[d].queued \/ (invoker.at = "invoked" /\ invoker.cmd = d))
    BY DEF QueueInv, WorkInv, RunOnce
  <2>4. (cmd'[d].app = "postponing" => cmd[d].app = "postponing") /\ (cmd'[d].queued <=> cmd[d].queued) /\ cmd'[d].time = cmd[d].time
    BY <2>1
  <2>5. Waiting(cmd', d) <=> Waiting(cmd, d)
    BY <1>5
  <2> QED BY <2>3, <2>4, <2>5, Zenon
<1>10. NotEarly'
  BY <1>1, <1>3 DEF QueueInv, WorkInv, NotEarly, WorkerTypes
<1>11. Counted'
  BY <1>1, <1>2, <1>3, <1>5 DEF QueueInv, WorkInv, Counted, CommandTypes
<1> QED BY <1>6, <1>7, <1>8, <1>9, <1>10, <1>11 DEF QueueInv, WorkInv

\* The lists are as they were and so is what is advised; the clocks and the filter's state are not.
LEMMA SourceKeeps ==
  ASSUME QueueInv, NEW clock \in Clocks \cup {NoClock}, SetSyncSource(clock)
  PROVE  QueueInv'
<1> DEFINE q == [queue EXCEPT !.clock = clock, !.advise = NoAdvise]
<1>1. /\ queue' = SetTimeAdvise(q, lists, cmd)
      /\ ran' = [ran EXCEPT !.rewired = @ \/ queue.clock # NoClock] /\ UNCHANGED <<now, cmd, lists, invoker>>
  BY DEF SetSyncSource
<1>2. CommandTypes(cmd) /\ ListsOrdered(lists, cmd) /\ AdviseTypes(queue) /\ RanTypes /\ now \in Nat /\ Armed(queue, now, ran.rewired)
  BY DEF QueueInv, ListsInv, WorkInv
<1>3. /\ DOMAIN q = DOMAIN queue /\ q.clock = clock /\ q.running = queue.running /\ q.due = queue.due
      /\ q.current = queue.current /\ q.advise = NoAdvise
  BY <1>2 DEF AdviseTypes
<1>4. /\ DOMAIN ran' = DOMAIN ran /\ ran'.times = ran.times /\ ran'.early = ran.early /\ ran'.clash = ran.clash
      /\ ran'.rewired = (ran.rewired \/ queue.clock # NoClock)
  BY <1>1, <1>2 DEF RanTypes
<1> HIDE DEF q
<1>5. AdviseTypes(q)
  <2>1. DOMAIN q.advise = {"clock", "time", "armed"} /\ q.advise.time \in Nat /\ q.advise.armed \in BOOLEAN
    BY <1>3 DEF NoAdvise, NoTime
  <2>2. q.running \in BOOLEAN /\ q.due \in BOOLEAN
    BY <1>2, <1>3, Zenon DEF AdviseTypes
  <2> QED BY <1>2, <1>3, <2>1, <2>2 DEF AdviseTypes
<1>6. ran'.rewired \in BOOLEAN /\ Armed(q, now, ran'.rewired)
  <2>1. ran'.rewired \in BOOLEAN
    BY <1>4
  <2>2. CASE ran'.rewired
    BY <2>1, <2>2 DEF Armed
  <2>3. CASE ~ran'.rewired
    <3>1. queue.clock = NoClock /\ ~ran.rewired
      BY <1>4, <2>3
    <3>2. queue.current = NoTime
      BY <1>2, <3>1 DEF Armed
    <3>3. q.current = NoTime /\ ~(q.current > now)
      BY <1>2, <1>3, <3>2 DEF NoTime
    <3> QED BY <2>1, <3>3 DEF Armed
  <2> QED BY <2>1, <2>2, <2>3
<1>7. AdviseTypes(queue') /\ Armed(queue', now, ran'.rewired) /\ ForFirst(queue', lists, cmd)
  BY <1>1, <1>2, <1>5, <1>6, AdviseFollows
<1>8. ListsInv'
  BY <1>1, <1>7 DEF QueueInv, ListsInv
<1>9. RanTypes'
  <2>1. DOMAIN ran' = {"times", "early", "rewired", "clash"} /\ DOMAIN ran'.times = Commands /\ \A c \in Commands : ran'.times[c] \in 0..1
    BY <1>2, <1>4 DEF RanTypes
  <2>2. ran'.early \in BOOLEAN /\ ran'.clash \in BOOLEAN
    BY <1>2, <1>4, Zenon DEF RanTypes
  <2> QED BY <1>6, <2>1, <2>2 DEF RanTypes
<1>10. WorkerTypes' /\ now' \in Nat \ {0} /\ Known' /\ Counted'
  BY <1>1 DEF QueueInv, WorkInv, WorkerTypes, Known, Counted
<1>11. RunOnce'
  BY <1>1, <1>4 DEF QueueInv, WorkInv, RunOnce
<1>12. NotEarly'
  BY <1>1, <1>4 DEF QueueInv, WorkInv, NotEarly
<1> QED BY <1>8, <1>9, <1>10, <1>11, <1>12 DEF QueueInv, WorkInv

LEMMA RunKeeps ==
  ASSUME QueueInv, RunQueue \/ EndRun
  PROVE  QueueInv'
<1>1. PICK on \in BOOLEAN : /\ queue' = SetTimeAdvise([queue EXCEPT !.running = on], lists, cmd)
                            /\ UNCHANGED <<now, cmd, lists, invoker, ran>>
  BY DEF RunQueue, EndRun
<1> DEFINE q == [queue EXCEPT !.running = on]
<1>2. CommandTypes(cmd) /\ ListsOrdered(lists, cmd) /\ AdviseTypes(queue) /\ RanTypes /\ now \in Nat /\ Armed(queue, now, ran.rewired)
  BY DEF QueueInv, ListsInv, WorkInv
<1>3. /\ DOMAIN q = DOMAIN queue /\ q.clock = queue.clock /\ q.running = on /\ q.due = queue.due
      /\ q.current = queue.current /\ q.advise = queue.advise
  BY <1>2 DEF AdviseTypes
<1>4. queue' = SetTimeAdvise(q, lists, cmd)
  BY <1>1
<1> HIDE DEF q
<1>5. AdviseTypes(q)
  <2>1. q.running \in BOOLEAN /\ q.due \in BOOLEAN /\ q.advise.armed \in BOOLEAN
    BY <1>2, <1>3, Zenon DEF AdviseTypes
  <2> QED BY <1>2, <1>3, <2>1 DEF AdviseTypes
<1>6. ran.rewired \in BOOLEAN /\ Armed(q, now, ran.rewired)
  BY <1>2, <1>3 DEF Armed, RanTypes
<1>7. AdviseTypes(queue') /\ Armed(queue', now, ran.rewired) /\ ForFirst(queue', lists, cmd)
  BY <1>2, <1>4, <1>5, <1>6, AdviseFollows
<1>8. ListsInv'
  BY <1>1, <1>7 DEF QueueInv, ListsInv
<1>9. WorkInv'
  BY <1>1 DEF QueueInv, WorkInv, WorkerTypes, RanTypes, Known, RunOnce, NotEarly, Counted
<1> QED BY <1>8, <1>9 DEF QueueInv

\* The clock, and the event it sets.
LEMMA ClockKeeps ==
  ASSUME QueueInv, ClockSignals \/ Tick
  PROVE  QueueInv'
<1>1. CASE ClockSignals
  <2>1. /\ queue.advise.armed /\ queue.advise.time <= now
        /\ queue' = [queue EXCEPT !.due = TRUE, !.advise.armed = FALSE]
        /\ invoker' = IF invoker.at = "blocked" THEN [invoker EXCEPT !.at = "looking"] ELSE invoker
        /\ UNCHANGED <<now, cmd, lists, ran>>
    BY <1>1 DEF ClockSignals
  <2>2. AdviseTypes(queue) /\ Armed(queue, now, ran.rewired) /\ ForFirst(queue, lists, cmd) /\ now \in Nat
    BY DEF QueueInv, ListsInv, WorkInv
  <2>3. /\ DOMAIN queue' = DOMAIN queue /\ queue'.clock = queue.clock /\ queue'.running = queue.running
        /\ queue'.due = TRUE /\ queue'.current = queue.current
        /\ DOMAIN queue'.advise = DOMAIN queue.advise /\ queue'.advise.time = queue.advise.time /\ queue'.advise.armed = FALSE
    BY <2>1, <2>2 DEF AdviseTypes
  <2>4. AdviseTypes(queue')
    <3>1. queue'.running \in BOOLEAN /\ queue'.due \in BOOLEAN /\ queue'.advise.armed \in BOOLEAN
      BY <2>2, <2>3, Zenon DEF AdviseTypes
    <3> QED BY <2>2, <2>3, <3>1 DEF AdviseTypes
  <2>5. Armed(queue', now, ran.rewired)
    BY <2>1, <2>2, <2>3 DEF Armed, AdviseTypes
  <2>6. ForFirst(queue', lists, cmd)
    <3>1. Heads(queue', lists, cmd) = Heads(queue, lists, cmd)
      BY <2>3 DEF Heads
    <3> QED BY <2>2, <2>3, <3>1 DEF ForFirst
  <2>7. ListsInv'
    BY <2>1, <2>4, <2>5, <2>6 DEF QueueInv, ListsInv
  <2>8. /\ DOMAIN invoker' = DOMAIN invoker /\ invoker'.cmd = invoker.cmd /\ invoker'.counted = invoker.counted
        /\ invoker'.ahead = invoker.ahead /\ invoker'.at = IF invoker.at = "blocked" THEN "looking" ELSE invoker.at
    BY <2>1 DEF QueueInv, WorkInv, WorkerTypes
  <2>9. WorkerTypes'
    BY <2>8 DEF QueueInv, WorkInv, WorkerTypes
  <2>10. Known' /\ RanTypes' /\ now' \in Nat \ {0} /\ Counted'
    BY <2>1, <2>8 DEF QueueInv, WorkInv, RanTypes, Known, Counted
  <2>11. RunOnce'
    BY <2>1, <2>8 DEF QueueInv, WorkInv, RunOnce
  <2>12. NotEarly'
    BY <2>1, <2>8 DEF QueueInv, WorkInv, NotEarly
  <2> QED BY <2>7, <2>9, <2>10, <2>11, <2>12 DEF QueueInv, WorkInv
<1>2. CASE Tick
  <2>1. now' = now + 1 /\ UNCHANGED <<cmd, lists, queue, invoker, ran>> /\ now \in Nat \ {0} /\ CommandTypes(cmd)
    BY <1>2 DEF Tick, QueueInv, WorkInv, ListsInv
  <2>2. ListsInv'
    BY <2>1 DEF QueueInv, ListsInv, Armed, AdviseTypes
  <2>3. NotEarly'
    <3>1. ~ran.early
      BY DEF QueueInv, WorkInv, NotEarly
    <3>2. ASSUME invoker.at = "got", ~invoker.ahead
          PROVE  cmd[invoker.cmd].time + (IF cmd[invoker.cmd].stream THEN Offset ELSE 0) <= now + 1
      <4>1. invoker.cmd \in Commands
        BY <3>2 DEF QueueInv, WorkInv, WorkerTypes
      <4>2. cmd[invoker.cmd].time \in Nat
        BY <2>1, <4>1 DEF CommandTypes
      <4>3. cmd[invoker.cmd].time + (IF cmd[invoker.cmd].stream THEN Offset ELSE 0) <= now
        BY <3>2 DEF QueueInv, WorkInv, NotEarly
      <4>4. CASE cmd[invoker.cmd].stream
        BY <2>1, <4>2, <4>3, <4>4, CommandBounds
      <4>5. CASE ~cmd[invoker.cmd].stream
        BY <2>1, <4>2, <4>3, <4>5
      <4> QED BY <4>4, <4>5
    <3> QED BY <2>1, <3>1, <3>2 DEF NotEarly
  <2>4. WorkerTypes' /\ RanTypes' /\ now' \in Nat \ {0} /\ Known' /\ RunOnce' /\ Counted'
    BY <2>1 DEF QueueInv, WorkInv, WorkerTypes, RanTypes, Known, RunOnce, Counted
  <2> QED BY <2>2, <2>3, <2>4 DEF QueueInv, WorkInv
<1> QED BY <1>1, <1>2

\* The worker is given a command that is in a list.
LEMMA TakeKeeps ==
  ASSUME QueueInv, NEW c \in Commands, NEW counted \in BOOLEAN, NEW ahead \in BOOLEAN,
         invoker.at \in {"looking", "idle"}, Waiting(cmd, c), Take(c, counted, ahead),
         ~ahead => cmd[c].time + (IF cmd[c].stream THEN Offset ELSE 0) <= now, UNCHANGED <<now, lists, queue, ran>>
  PROVE  QueueInv'
<1>1. /\ invoker' = [at |-> "got", cmd |-> c, counted |-> counted, ahead |-> ahead]
      /\ cmd' = IF counted THEN [cmd EXCEPT ![c].refs = @ + 1] ELSE cmd
  BY DEF Take
<1>2. CommandTypes(cmd) /\ ListsInv /\ invoker.cmd = Nobody /\ ~invoker.counted /\ Nobody \notin Commands
  BY CommandBounds DEF QueueInv, ListsInv, WorkInv, WorkerTypes
<1>3. /\ DOMAIN cmd' = Commands /\ \A d \in Commands \ {c} : cmd'[d] = cmd[d]
      /\ DOMAIN cmd'[c] = DOMAIN cmd[c] /\ cmd'[c].time = cmd[c].time /\ cmd'[c].stream = cmd[c].stream
      /\ cmd'[c].queued = cmd[c].queued /\ cmd'[c].app = cmd[c].app
      /\ cmd'[c].refs = cmd[c].refs + (IF counted THEN 1 ELSE 0)
  <2>1. CASE counted
    BY <1>1, <1>2, <2>1 DEF CommandTypes
  <2>2. CASE ~counted
    BY <1>1, <1>2, <2>2 DEF CommandTypes
  <2> QED BY <2>1, <2>2
<1>4. CommandTypes(cmd')
  <2>1. cmd'[c].stream \in BOOLEAN /\ cmd'[c].queued \in BOOLEAN
    BY <1>2, <1>3, Zenon DEF CommandTypes
  <2>2. cmd'[c].time \in Nat /\ cmd'[c].refs \in Int
    BY <1>2, <1>3, SMT DEF CommandTypes
  <2>3. cmd'[c].app \in {"none", "new", "holds", "postponing"} /\ DOMAIN cmd'[c] = {"time", "stream", "queued", "refs", "app"}
    BY <1>2, <1>3, Zenon DEF CommandTypes
  <2> QED BY <1>2, <1>3, <2>1, <2>2, <2>3, OneCommand
<1>5. /\ \A d \in Commands : cmd'[d].time = cmd[d].time /\ (cmd'[d].stream <=> cmd[d].stream)
      /\ \A d \in Commands : Waiting(cmd', d) <=> Waiting(cmd, d)
  BY <1>3 DEF Waiting
<1>6. ListsInv'
  BY <1>2, <1>4, <1>5, Stays
<1>7. /\ DOMAIN invoker' = {"at", "cmd", "counted", "ahead"} /\ invoker'.at = "got" /\ invoker'.cmd = c
      /\ invoker'.counted = counted /\ invoker'.ahead = ahead
  BY <1>1
<1>8. WorkerTypes' /\ RanTypes' /\ now' \in Nat \ {0}
  BY <1>7 DEF QueueInv, WorkInv, WorkerTypes, RanTypes
<1>9. Known'
  BY <1>3, <1>7 DEF QueueInv, WorkInv, Known, Waiting
<1>10. RunOnce'
  BY <1>2, <1>3, <1>7 DEF QueueInv, WorkInv, RunOnce, Waiting
<1>11. NotEarly'
  BY <1>3, <1>7 DEF QueueInv, WorkInv, NotEarly
<1>12. Counted'
  <2> SUFFICES ASSUME NEW d \in Commands
               PROVE  cmd'[d].refs = (IF Waiting(cmd', d) THEN 1 ELSE 0) + (IF cmd'[d].app \in {"holds", "postponing"} THEN 1 ELSE 0)
                                     + (IF invoker'.cmd = d /\ invoker'.counted THEN 1 ELSE 0)
    BY DEF Counted
  <2>1. cmd[d].refs = (IF Waiting(cmd, d) THEN 1 ELSE 0) + (IF cmd[d].app \in {"holds", "postponing"} THEN 1 ELSE 0)
    BY <1>2 DEF QueueInv, WorkInv, Counted
  <2>2. (Waiting(cmd', d) <=> Waiting(cmd, d)) /\ cmd'[d].app = cmd[d].app
    BY <1>3, <1>5
  <2>3. CASE d = c
    <3>1. cmd'[d].refs = cmd[d].refs + (IF counted THEN 1 ELSE 0) /\ invoker'.cmd = d /\ (invoker'.counted <=> counted)
      BY <1>3, <1>7, <2>3
    <3> QED BY <2>1, <2>2, <3>1
  <2>4. CASE d # c
    <3>1. cmd'[d].refs = cmd[d].refs /\ invoker'.cmd # d
      BY <1>3, <1>7, <2>4
    <3> QED BY <2>1, <2>2, <3>1
  <2> QED BY <2>3, <2>4
<1> QED BY <1>6, <1>8, <1>9, <1>10, <1>11, <1>12 DEF QueueInv, WorkInv

\* A step of the worker from one place to another, with nothing in hand.
LEMMA WaitKeeps ==
  ASSUME QueueInv, UNCHANGED <<now, cmd, lists, queue, ran>>,
         NEW at \in {"idle", "looking", "unlocked", "blocked"}, invoker' = [invoker EXCEPT !.at = at],
         invoker.at \in {"idle", "looking", "unlocked", "blocked"}
  PROVE  QueueInv'
<1>1. /\ DOMAIN invoker' = DOMAIN invoker /\ invoker'.at = at /\ invoker'.cmd = invoker.cmd
      /\ invoker'.counted = invoker.counted /\ invoker'.ahead = invoker.ahead
  BY DEF QueueInv, WorkInv, WorkerTypes
<1>2. WorkerTypes'
  BY <1>1 DEF QueueInv, WorkInv, WorkerTypes
<1>3. ListsInv'
  BY DEF QueueInv, ListsInv
<1>4. RanTypes' /\ now' \in Nat \ {0} /\ Known' /\ Counted'
  BY <1>1 DEF QueueInv, WorkInv, RanTypes, Known, Counted
<1>5. RunOnce'
  BY <1>1 DEF QueueInv, WorkInv, RunOnce
<1>6. NotEarly'
  BY <1>1 DEF QueueInv, WorkInv, NotEarly
<1> QED BY <1>2, <1>3, <1>4, <1>5, <1>6 DEF QueueInv, WorkInv

\* What is at the head of a list waits, and is of the list's kind.
LEMMA HeadsWait ==
  ASSUME QueueInv
  PROVE  /\ \A c \in PresentationHead : c \in Commands /\ Waiting(cmd, c) /\ ~cmd[c].stream
         /\ \A c \in StreamHead : c \in Commands /\ Waiting(cmd, c) /\ cmd[c].stream
<1>1. ASSUME NEW name \in {"presentation", "stream"}, NEW i \in DOMAIN lists[name]
      PROVE  lists[name][i] \in Commands /\ Waiting(cmd, lists[name][i]) /\ (cmd[lists[name][i]].stream <=> name = "stream")
  <2>1. lists[name][i] \in Commands /\ (cmd[lists[name][i]].stream <=> name = "stream")
    BY DEF QueueInv, ListsInv, ListsOrdered
  <2>2. IsIn(lists[name][i], lists[name])
    BY DEF IsIn
  <2>3. (IF cmd[lists[name][i]].stream THEN "stream" ELSE "presentation") = name
    BY <2>1
  <2>4. Waiting(cmd, lists[name][i]) <=>
          IsIn(lists[name][i], lists[IF cmd[lists[name][i]].stream THEN "stream" ELSE "presentation"])
    BY <2>1 DEF QueueInv, ListsInv, ListedRight
  <2> QED BY <2>1, <2>2, <2>3, <2>4
<1>2. \A c \in PresentationHead : \E i \in DOMAIN lists["presentation"] : c = lists["presentation"][i]
  BY DEF PresentationHead
<1>3. \A c \in StreamHead : \E i \in DOMAIN lists["stream"] : c = lists["stream"][i]
  BY DEF StreamHead
<1> QED BY <1>1, <1>2, <1>3

LEMMA DueKeeps ==
  ASSUME QueueInv, GetDueCommand
  PROVE  QueueInv'
<1> DEFINE due == {c \in Earliest : CheckTime(cmd[c].time, cmd[c].stream)}
<1>1. /\ invoker.at \in {"looking", "idle"} /\ UNCHANGED <<now, lists, queue, ran>>
      /\ \/ \E c \in due : Take(c, TRUE, FALSE)
         \/ invoker' = [invoker EXCEPT !.at = "unlocked"] /\ UNCHANGED cmd
  BY DEF GetDueCommand
<1>2. ASSUME NEW c \in due, Take(c, TRUE, FALSE) PROVE QueueInv'
  <2>1. c \in PresentationHead \cup StreamHead
    BY DEF Earliest
  <2>2. c \in Commands /\ Waiting(cmd, c)
    BY <2>1, HeadsWait
  <2>3. (IF cmd[c].stream THEN cmd[c].time + Offset ELSE cmd[c].time) <= now
    BY DEF CheckTime
  <2>4. cmd[c].time \in Nat
    BY <2>2 DEF QueueInv, ListsInv, CommandTypes
  <2>5. cmd[c].time + (IF cmd[c].stream THEN Offset ELSE 0) <= now
    BY <2>3, <2>4
  <2> QED BY <1>1, <1>2, <2>2, <2>5, TakeKeeps
<1>3. CASE invoker' = [invoker EXCEPT !.at = "unlocked"] /\ UNCHANGED cmd
  BY <1>1, <1>3, WaitKeeps
<1> QED BY <1>1, <1>2, <1>3

LEMMA DueForKeeps ==
  ASSUME QueueInv, NEW rtStream \in CommandTimes, GetCommandDueFor(rtStream)
  PROVE  QueueInv'
<1>1. invoker.at = "idle" /\ UNCHANGED <<now, lists, queue, ran>>
  BY DEF GetCommandDueFor
<1>2. \/ \E c \in PresentationHead : CheckTime(cmd[c].time, FALSE) /\ Take(c, TRUE, FALSE)
      \/ \E c \in StreamHead : Take(c, TRUE, TRUE)
      \/ \E c \in PresentationHead : Take(c, FALSE, TRUE)
  BY DEF GetCommandDueFor
<1>3. ASSUME NEW c \in PresentationHead, CheckTime(cmd[c].time, FALSE), Take(c, TRUE, FALSE) PROVE QueueInv'
  <2>1. c \in Commands /\ Waiting(cmd, c) /\ ~cmd[c].stream
    BY HeadsWait
  <2>2. cmd[c].time <= now /\ cmd[c].time \in Nat
    BY <1>3, <2>1 DEF CheckTime, QueueInv, ListsInv, CommandTypes
  <2>3. cmd[c].time + (IF cmd[c].stream THEN Offset ELSE 0) <= now
    BY <2>1, <2>2
  <2> QED BY <1>1, <1>3, <2>1, <2>3, TakeKeeps
<1>4. ASSUME NEW c \in StreamHead, Take(c, TRUE, TRUE) PROVE QueueInv'
  <2>1. c \in Commands /\ Waiting(cmd, c)
    BY HeadsWait
  <2> QED BY <1>1, <1>4, <2>1, TakeKeeps
<1>5. ASSUME NEW c \in PresentationHead, Take(c, FALSE, TRUE) PROVE QueueInv'
  <2>1. c \in Commands /\ Waiting(cmd, c)
    BY HeadsWait
  <2> QED BY <1>1, <1>5, <2>1, TakeKeeps
<1> QED BY <1>2, <1>3, <1>4, <1>5

LEMMA InvokeKeeps ==
  ASSUME QueueInv, Invoke, ~ran'.clash
  PROVE  QueueInv'
<1> DEFINE c == invoker.cmd
           t == cmd[c].time + (IF cmd[c].stream THEN Offset ELSE 0)
<1>1. /\ invoker.at = "got" /\ cmd[c].app # "postponing"
      /\ IF cmd[c].queued
         THEN /\ invoker' = [invoker EXCEPT !.at = "invoked"]
              /\ ran' = [ran EXCEPT !.times[c] = @ + 1, !.early = @ \/ (t > now /\ ~invoker.ahead)]
         ELSE invoker' = [invoker EXCEPT !.at = "release"] /\ UNCHANGED ran
      /\ UNCHANGED <<now, cmd, lists, queue>>
  BY NoClash DEF QueueInv, WorkInv, Invoke
<1>2. c \in Commands /\ CommandTypes(cmd) /\ RanTypes /\ WorkerTypes /\ now \in Nat /\ (~invoker.ahead => t <= now) /\ ~ran.early
  BY <1>1 DEF QueueInv, ListsInv, WorkInv, WorkerTypes, NotEarly
<1>3. t \in Int
  BY <1>2, CommandBounds DEF CommandTypes
<1> HIDE DEF t
<1>4. CASE cmd[c].queued
  <2>1. /\ DOMAIN invoker' = DOMAIN invoker /\ invoker'.at = "invoked" /\ invoker'.cmd = c
        /\ invoker'.counted = invoker.counted /\ invoker'.ahead = invoker.ahead
    BY <1>1, <1>2, <1>4 DEF WorkerTypes
  <2>2. /\ DOMAIN ran' = DOMAIN ran /\ DOMAIN ran'.times = DOMAIN ran.times
        /\ ran'.times[c] = ran.times[c] + 1 /\ \A d \in Commands \ {c} : ran'.times[d] = ran.times[d]
        /\ ran'.rewired = ran.rewired /\ ran'.clash = ran.clash
    <3> DEFINE e == ran.early \/ (t > now /\ ~invoker.ahead)
               times == [ran.times EXCEPT ![c] = @ + 1]
    <3>1. ran' = [ran EXCEPT !.times = times, !.early = e]
      BY <1>1, <1>4
    <3>2. DOMAIN times = DOMAIN ran.times /\ times[c] = ran.times[c] + 1 /\ \A d \in Commands \ {c} : times[d] = ran.times[d]
      BY <1>2 DEF RanTypes
    <3> HIDE DEF e, times
    <3>3. DOMAIN ran' = DOMAIN ran /\ ran'.times = times /\ ran'.rewired = ran.rewired /\ ran'.clash = ran.clash
      BY <1>2, <3>1 DEF RanTypes
    <3> QED BY <3>2, <3>3
  <2>3. ran'.early = FALSE
    <3>1. ran'.early = (ran.early \/ (t > now /\ ~invoker.ahead))
      BY <1>1, <1>2, <1>4 DEF RanTypes
    <3>2. ~(t > now /\ ~invoker.ahead)
      BY <1>2, <1>3
    <3> QED BY <1>2, <3>1, <3>2
  <2>4. Waiting(cmd, c) /\ ran.times[c] = 0
    BY <1>1, <1>2, <1>4 DEF QueueInv, WorkInv, RunOnce, RanTypes, Waiting
  <2> HIDE DEF c
  <2>5. RanTypes'
    <3>1. \A d \in Commands : ran'.times[d] \in 0..1
      BY <1>2, <2>2, <2>4 DEF RanTypes
    <3>2. ran'.rewired \in BOOLEAN /\ ran'.clash \in BOOLEAN
      BY <1>2, <2>2, Zenon DEF RanTypes
    <3> QED BY <1>2, <2>2, <2>3, <3>1, <3>2 DEF RanTypes
  <2>6. WorkerTypes'
    BY <1>2, <2>1 DEF WorkerTypes
  <2>7. ListsInv'
    BY <1>1, <2>2 DEF QueueInv, ListsInv
  <2>8. Known'
    BY <1>1, <2>1 DEF QueueInv, WorkInv, Known, c
  <2>9. Counted' /\ now' \in Nat \ {0}
    BY <1>1, <2>1 DEF QueueInv, WorkInv, Counted, c
  <2>10. RunOnce'
    <3> SUFFICES ASSUME NEW d \in Commands
                 PROVE  /\ cmd[d].app = "postponing" => cmd[d].queued
                        /\ d = c => Waiting(cmd, d)
                        /\ ran'.times[d] = 1 => cmd[d].time # NoTime /\ (~cmd[d].queued \/ d = c)
      BY <1>1, <2>1 DEF RunOnce
    <3>1. cmd[d].app = "postponing" => cmd[d].queued
      BY DEF QueueInv, WorkInv, RunOnce
    <3>2. CASE d = c
      <4>1. cmd[d].time # NoTime
        BY <3>2 DEF QueueInv, WorkInv, Known, c
      <4> QED BY <2>4, <3>1, <3>2, <4>1
    <3>3. CASE d # c
      <4>1. ran.times[d] = 1 => cmd[d].time # NoTime /\ ~cmd[d].queued
        BY <1>1 DEF QueueInv, WorkInv, RunOnce
      <4> QED BY <2>2, <3>1, <3>3, <4>1
    <3> QED BY <3>2, <3>3
  <2>11. NotEarly'
    BY <2>1, <2>3 DEF NotEarly
  <2> QED BY <2>5, <2>6, <2>7, <2>8, <2>9, <2>10, <2>11 DEF QueueInv, WorkInv
<1>5. CASE ~cmd[c].queued
  <2>1. /\ DOMAIN invoker' = DOMAIN invoker /\ invoker'.at = "release" /\ invoker'.cmd = c
        /\ invoker'.counted = invoker.counted /\ invoker'.ahead = invoker.ahead /\ ran' = ran
    BY <1>1, <1>2, <1>5 DEF WorkerTypes
  <2>2. WorkerTypes' /\ RanTypes'
    BY <1>2, <2>1 DEF WorkerTypes, RanTypes
  <2>3. ListsInv'
    BY <1>1, <2>1 DEF QueueInv, ListsInv
  <2>4. Known' /\ Counted' /\ now' \in Nat \ {0}
    BY <1>1, <2>1 DEF QueueInv, WorkInv, Known, Counted
  <2>5. RunOnce'
    BY <1>1, <2>1 DEF QueueInv, WorkInv, RunOnce
  <2>6. NotEarly'
    BY <1>2, <2>1 DEF NotEarly
  <2> QED BY <2>2, <2>3, <2>4, <2>5, <2>6 DEF QueueInv, WorkInv
<1> QED BY <1>4, <1>5

LEMMA InvokedKeeps ==
  ASSUME QueueInv, Invoked
  PROVE  QueueInv'
<1> DEFINE c == invoker.cmd
           k == [cmd EXCEPT ![c].queued = FALSE]
<1>1. /\ invoker.at = "invoked" /\ RemoveCommand(c, k)
      /\ invoker' = [invoker EXCEPT !.at = "release"] /\ UNCHANGED <<now, ran>>
  BY DEF Invoked
<1>2. CommandTypes(cmd) /\ RanTypes /\ WorkerTypes /\ now \in Nat \ {0} /\ ListsInv /\ c \in Commands /\ Waiting(cmd, c)
  BY <1>1 DEF QueueInv, ListsInv, WorkInv, WorkerTypes, RunOnce
<1>3. /\ DOMAIN k = Commands /\ \A d \in Commands \ {c} : k[d] = cmd[d]
      /\ DOMAIN k[c] = DOMAIN cmd[c] /\ k[c].time = cmd[c].time /\ k[c].stream = cmd[c].stream
      /\ k[c].queued = FALSE /\ k[c].refs = cmd[c].refs /\ k[c].app = cmd[c].app
  BY <1>2 DEF CommandTypes
<1>4. /\ DOMAIN invoker' = DOMAIN invoker /\ invoker'.at = "release" /\ invoker'.cmd = c
      /\ invoker'.counted = invoker.counted /\ invoker'.ahead = invoker.ahead
  BY <1>1, <1>2 DEF WorkerTypes
<1>5. cmd[c].time # NoTime
  BY <1>2 DEF QueueInv, WorkInv, Known
<1>6. invoker.cmd = c
  OBVIOUS
<1> HIDE DEF k, c
<1>7. CommandTypes(k)
  <2>1. k[c].stream \in BOOLEAN /\ k[c].queued \in BOOLEAN
    BY <1>2, <1>3, Zenon DEF CommandTypes
  <2>2. k[c].time \in Nat /\ k[c].refs \in Int
    BY <1>2, <1>3, SMT DEF CommandTypes
  <2>3. k[c].app \in {"none", "new", "holds", "postponing"} /\ DOMAIN k[c] = {"time", "stream", "queued", "refs", "app"}
    BY <1>2, <1>3, Zenon DEF CommandTypes
  <2> QED BY <1>2, <1>3, <2>1, <2>2, <2>3, OneCommand
<1>8. ~Waiting(k, c) /\ (k[c].stream <=> cmd[c].stream)
  BY <1>3 DEF Waiting
<1>9. /\ \A d \in Commands \ {c} : cmd'[d] = cmd[d]
      /\ cmd'[c].time = k[c].time /\ cmd'[c].stream = k[c].stream /\ cmd'[c].queued = k[c].queued
      /\ cmd'[c].app = k[c].app /\ cmd'[c].refs = k[c].refs - 1 /\ ListsInv'
  BY <1>1, <1>2, <1>3, <1>7, <1>8, Removes
<1>10. WorkerTypes' /\ RanTypes' /\ now' \in Nat \ {0}
  BY <1>1, <1>2, <1>4 DEF WorkerTypes, RanTypes
<1>11. Known'
  BY <1>3, <1>4, <1>5, <1>6, <1>9 DEF QueueInv, WorkInv, Known
<1>12. RunOnce'
  BY <1>1, <1>2, <1>3, <1>4, <1>5, <1>6, <1>9 DEF QueueInv, WorkInv, RunOnce, Waiting
<1>13. NotEarly'
  BY <1>1, <1>4 DEF QueueInv, WorkInv, NotEarly
<1>14. Counted'
  <2> SUFFICES ASSUME NEW d \in Commands
               PROVE  cmd'[d].refs = (IF Waiting(cmd', d) THEN 1 ELSE 0) + (IF cmd'[d].app \in {"holds", "postponing"} THEN 1 ELSE 0)
                                     + (IF invoker'.cmd = d /\ invoker'.counted THEN 1 ELSE 0)
    BY DEF Counted
  <2>1. cmd[d].refs = (IF Waiting(cmd, d) THEN 1 ELSE 0) + (IF cmd[d].app \in {"holds", "postponing"} THEN 1 ELSE 0)
                      + (IF invoker.cmd = d /\ invoker.counted THEN 1 ELSE 0)
    BY DEF QueueInv, WorkInv, Counted
  <2>2. invoker'.cmd = invoker.cmd /\ (invoker'.counted <=> invoker.counted)
    BY <1>4, <1>6
  <2>3. CASE d = c
    <3>1. cmd'[d].refs = cmd[d].refs - 1 /\ cmd'[d].app = cmd[d].app /\ ~Waiting(cmd', d) /\ Waiting(cmd, d)
      BY <1>2, <1>3, <1>9, <2>3 DEF Waiting
    <3> QED BY <2>1, <2>2, <3>1
  <2>4. CASE d # c
    <3>1. cmd'[d] = cmd[d] /\ (Waiting(cmd', d) <=> Waiting(cmd, d))
      BY <1>9, <2>4 DEF Waiting
    <3> QED BY <2>1, <2>2, <3>1
  <2> QED BY <2>3, <2>4
<1> QED BY <1>9, <1>10, <1>11, <1>12, <1>13, <1>14 DEF QueueInv, WorkInv

LEMMA WorkerKeeps ==
  ASSUME QueueInv, WorkerReleases
  PROVE  QueueInv'
<1> DEFINE c == invoker.cmd
<1>1. /\ invoker.at = "release" /\ cmd' = [cmd EXCEPT ![c].refs = IF invoker.counted THEN @ - 1 ELSE @]
      /\ invoker' = Idle /\ UNCHANGED <<now, lists, queue, ran>>
  BY DEF WorkerReleases
<1>2. CommandTypes(cmd) /\ RanTypes /\ ListsInv /\ c \in Commands /\ Nobody \notin Commands /\ now \in Nat \ {0}
  BY <1>1, CommandBounds DEF QueueInv, ListsInv, WorkInv, WorkerTypes
<1>3. /\ DOMAIN cmd' = Commands /\ \A d \in Commands \ {c} : cmd'[d] = cmd[d]
      /\ DOMAIN cmd'[c] = DOMAIN cmd[c] /\ cmd'[c].time = cmd[c].time /\ cmd'[c].stream = cmd[c].stream
      /\ cmd'[c].queued = cmd[c].queued /\ cmd'[c].app = cmd[c].app
      /\ cmd'[c].refs = IF invoker.counted THEN cmd[c].refs - 1 ELSE cmd[c].refs
  BY <1>1, <1>2 DEF CommandTypes
<1>4. invoker.cmd = c
  OBVIOUS
<1> HIDE DEF c
<1>5. CommandTypes(cmd')
  <2>1. cmd'[c].stream \in BOOLEAN /\ cmd'[c].queued \in BOOLEAN
    BY <1>2, <1>3, Zenon DEF CommandTypes
  <2>2. cmd'[c].time \in Nat /\ cmd'[c].refs \in Int
    BY <1>2, <1>3, SMT DEF CommandTypes
  <2>3. cmd'[c].app \in {"none", "new", "holds", "postponing"} /\ DOMAIN cmd'[c] = {"time", "stream", "queued", "refs", "app"}
    BY <1>2, <1>3, Zenon DEF CommandTypes
  <2> QED BY <1>2, <1>3, <2>1, <2>2, <2>3, OneCommand
<1>6. /\ \A d \in Commands : cmd'[d].time = cmd[d].time /\ (cmd'[d].stream <=> cmd[d].stream)
      /\ \A d \in Commands : Waiting(cmd', d) <=> Waiting(cmd, d)
  BY <1>3 DEF Waiting
<1>7. ListsInv'
  BY <1>1, <1>2, <1>5, <1>6, Stays
<1>8. /\ DOMAIN invoker' = {"at", "cmd", "counted", "ahead"} /\ invoker'.at = "idle" /\ invoker'.cmd = Nobody
      /\ invoker'.counted = FALSE /\ invoker'.ahead = FALSE
  BY <1>1 DEF Idle
<1>9. WorkerTypes' /\ RanTypes' /\ now' \in Nat \ {0}
  BY <1>1, <1>2, <1>8 DEF WorkerTypes, RanTypes
<1>10. Known'
  BY <1>2, <1>3, <1>8 DEF QueueInv, WorkInv, Known
<1>11. RunOnce'
  BY <1>1, <1>2, <1>3, <1>8 DEF QueueInv, WorkInv, RunOnce, Waiting
<1>12. NotEarly'
  BY <1>1, <1>8 DEF QueueInv, WorkInv, NotEarly
<1>13. Counted'
  <2> SUFFICES ASSUME NEW d \in Commands
               PROVE  cmd'[d].refs = (IF Waiting(cmd', d) THEN 1 ELSE 0) + (IF cmd'[d].app \in {"holds", "postponing"} THEN 1 ELSE 0)
    BY <1>2, <1>8 DEF Counted
  <2>1. cmd[d].refs = (IF Waiting(cmd, d) THEN 1 ELSE 0) + (IF cmd[d].app \in {"holds", "postponing"} THEN 1 ELSE 0)
                      + (IF invoker.cmd = d /\ invoker.counted THEN 1 ELSE 0)
    BY DEF QueueInv, WorkInv, Counted
  <2>2. Waiting(cmd', d) <=> Waiting(cmd, d)
    BY <1>6
  <2>3. CASE d = c
    <3>1. cmd'[d].refs = (IF invoker.counted THEN cmd[d].refs - 1 ELSE cmd[d].refs) /\ cmd'[d].app = cmd[d].app
      BY <1>3, <2>3
    <3> QED BY <1>4, <2>1, <2>2, <2>3, <3>1
  <2>4. CASE d # c
    BY <1>3, <1>4, <2>1, <2>2, <2>4
  <2> QED BY <2>3, <2>4
<1> QED BY <1>7, <1>9, <1>10, <1>11, <1>12, <1>13 DEF QueueInv, WorkInv

-----------------------------------------------------------------------------
LEMMA QueueStarts == QueueInit => QueueInv
<1> SUFFICES ASSUME QueueInit PROVE QueueInv
  OBVIOUS
<1>1. /\ now = 1 /\ lists = [presentation |-> <<>>, stream |-> <<>>]
      /\ queue = [clock |-> NoClock, running |-> FALSE, due |-> FALSE, advise |-> NoAdvise, current |-> NoTime]
      /\ invoker = Idle /\ ran = [times |-> [c \in Commands |-> 0], early |-> FALSE, rewired |-> FALSE, clash |-> FALSE]
  BY DEF QueueInit
<1>2. /\ DOMAIN cmd = Commands
      /\ \A c \in Commands : /\ DOMAIN cmd[c] = {"time", "stream", "queued", "refs", "app"}
                              /\ cmd[c].time = 0 /\ cmd[c].stream = FALSE /\ cmd[c].queued = FALSE
                              /\ cmd[c].refs = 0 /\ cmd[c].app = "none"
  BY DEF QueueInit, NoTime
<1>3. CommandTypes(cmd)
  <2>1. \A c \in Commands : cmd[c].stream \in BOOLEAN /\ cmd[c].queued \in BOOLEAN
    BY <1>2, Zenon
  <2>2. \A c \in Commands : cmd[c].time \in Nat /\ cmd[c].refs \in Int /\ cmd[c].app \in {"none", "new", "holds", "postponing"}
    BY <1>2, SMT
  <2> QED BY <1>2, <2>1, <2>2, Zenon DEF CommandTypes
<1>4. DOMAIN lists = {"presentation", "stream"} /\ \A name \in {"presentation", "stream"} : lists[name] = <<>>
  BY <1>1
<1>5. ListsOrdered(lists, cmd)
  <2>1. <<>> \in Seq(Commands) /\ DOMAIN <<>> = {}
    OBVIOUS
  <2> QED BY <1>4, <2>1 DEF ListsOrdered, Sorted
<1>6. ListedRight(lists, cmd)
  BY <1>2, <1>4 DEF ListedRight, Waiting, IsIn
<1>7. /\ queue.clock = NoClock /\ queue.running = FALSE /\ queue.due = FALSE /\ queue.current = 0
      /\ queue.advise.time = 0 /\ queue.advise.armed = FALSE /\ DOMAIN queue.advise = {"clock", "time", "armed"}
      /\ DOMAIN queue = {"clock", "running", "due", "advise", "current"}
  BY <1>1 DEF NoAdvise, NoTime
<1>8. AdviseTypes(queue) /\ Armed(queue, now, ran.rewired) /\ ForFirst(queue, lists, cmd)
  <2>1. queue.running \in BOOLEAN /\ queue.due \in BOOLEAN /\ queue.advise.armed \in BOOLEAN
    BY <1>7, Zenon
  <2>2. queue.current \in Nat /\ queue.advise.time \in Nat
    BY <1>7
  <2>3. AdviseTypes(queue)
    BY <1>7, <2>1, <2>2 DEF AdviseTypes
  <2>4. Armed(queue, now, ran.rewired) /\ ForFirst(queue, lists, cmd)
    BY <1>7 DEF Armed, ForFirst, NoTime
  <2> QED BY <2>3, <2>4
<1>9. /\ DOMAIN invoker = {"at", "cmd", "counted", "ahead"} /\ invoker.at = "idle" /\ invoker.cmd = Nobody
      /\ invoker.counted = FALSE /\ invoker.ahead = FALSE /\ Nobody \notin Commands
  BY <1>1, CommandBounds DEF Idle
<1>10. /\ DOMAIN ran = {"times", "early", "rewired", "clash"} /\ DOMAIN ran.times = Commands
       /\ \A c \in Commands : ran.times[c] = 0
       /\ ran.early = FALSE /\ ran.rewired = FALSE /\ ran.clash = FALSE
  BY <1>1
<1>11. WorkerTypes /\ RanTypes /\ now \in Nat \ {0}
  <2>1. invoker.counted \in BOOLEAN /\ invoker.ahead \in BOOLEAN /\ ran.early \in BOOLEAN /\ ran.rewired \in BOOLEAN /\ ran.clash \in BOOLEAN
    BY <1>9, <1>10, Zenon
  <2>2. WorkerTypes
    BY <1>9, <2>1 DEF WorkerTypes
  <2>3. RanTypes
    BY <1>10, <2>1 DEF RanTypes
  <2> QED BY <1>1, <2>2, <2>3
<1>12. Known /\ RunOnce /\ NotEarly
  BY <1>2, <1>9, <1>10 DEF Known, RunOnce, NotEarly
<1>13. Counted
  BY <1>2, <1>9 DEF Counted, Waiting
<1> QED BY <1>3, <1>5, <1>6, <1>8, <1>11, <1>12, <1>13 DEF QueueInv, ListsInv, WorkInv

\* Nothing is said of what comes after a clash.
QueueUntil == ran.clash \/ QueueInv

LEMMA QueueSteps == QueueUntil /\ [QueueNext]_qvars => QueueUntil'
<1> SUFFICES ASSUME QueueUntil, [QueueNext]_qvars, ~ran'.clash PROVE QueueInv'
  BY DEF QueueUntil
<1>0. QueueInv
  <2>1. ~QueueNext => ran' = ran
    BY DEF qvars
  <2>2. QueueNext => ~ran.clash
    BY DEF QueueNext
  <2> QED BY <2>1, <2>2, Zenon DEF QueueUntil
<1>1. ASSUME NEW c \in Commands, New(c) \/ AddRefNew(c) \/ Cancel(c) \/ Postpone(c) \/ Requeue(c) \/ ReleaseCommand(c) PROVE QueueInv'
  BY <1>0, <1>1, NewKeeps, AddRefNewKeeps, CancelKeeps, PostponeKeeps, RequeueKeeps, ReleaseKeeps
<1>2. ASSUME NEW k \in Clocks \cup {NoClock}, SetSyncSource(k) PROVE QueueInv'
  BY <1>0, <1>2, SourceKeeps
<1>3. CASE RunQueue \/ EndRun
  BY <1>0, <1>3, RunKeeps
<1>4. CASE GetDueCommand
  BY <1>0, <1>4, DueKeeps
<1>5. CASE WaitForDue
  <2>1. PICK at \in {"looking", "blocked", "idle"} :
          invoker' = [invoker EXCEPT !.at = at] /\ invoker.at \in {"unlocked", "blocked"} /\ UNCHANGED <<now, cmd, lists, queue, ran>>
    BY <1>5 DEF WaitForDue
  <2> QED BY <1>0, <2>1, WaitKeeps
<1>6. CASE Invoke
  BY <1>0, <1>6, InvokeKeeps
<1>7. CASE Invoked
  BY <1>0, <1>7, InvokedKeeps
<1>8. CASE WorkerReleases
  BY <1>0, <1>8, WorkerKeeps
<1>9. ASSUME NEW t \in CommandTimes, GetCommandDueFor(t) PROVE QueueInv'
  BY <1>0, <1>9, DueForKeeps
<1>10. CASE ClockSignals \/ Tick
  BY <1>0, <1>10, ClockKeeps
<1>11. CASE UNCHANGED qvars
  BY <1>0, <1>11 DEF qvars, QueueInv, ListsInv, WorkInv, WorkerTypes, RanTypes, Known, RunOnce, NotEarly, Counted
<1> QED BY <1>1, <1>2, <1>3, <1>4, <1>5, <1>6, <1>7, <1>8, <1>9, <1>10, <1>11 DEF QueueNext

\* What the invariant says of the lists, the references and the advise.
LEMMA QueueIsSafe == QueueUntil => CommandsSafe
<1> SUFFICES ASSUME QueueInv PROVE CarriedOutOnce /\ CommandsCounted /\ ComingIsAdvised
  BY DEF QueueUntil, CommandsSafe
<1>1. ListsOrdered(lists, cmd) /\ ListedRight(lists, cmd) /\ CommandTypes(cmd) /\ RanTypes
  BY DEF QueueInv, ListsInv, WorkInv
<1>2. DOMAIN lists = {"presentation", "stream"}
  BY <1>1 DEF ListsOrdered
<1>3. \A c \in Commands, l \in DOMAIN lists : c \in Range(lists[l]) <=> IsIn(c, lists[l])
  BY DEF Range, IsIn
<1>4. CarriedOutOnce
  <2>1. \A l \in DOMAIN lists : \A i, j \in DOMAIN lists[l] :
           i < j => lists[l][i] # lists[l][j] /\ cmd[lists[l][i]].time <= cmd[lists[l][j]].time
    BY <1>1, <1>2 DEF ListsOrdered, Sorted
  <2>2. \A c \in Commands : ran.times[c] <= 1
    BY <1>1 DEF RanTypes
  <2>3. ASSUME NEW c \in Commands PROVE c \in Range(lists[ListOf(c)]) <=> cmd[c].queued /\ cmd[c].app # "postponing"
    <3>1. ListOf(c) \in DOMAIN lists
      BY <1>2 DEF ListOf
    <3>2. Waiting(cmd, c) <=> IsIn(c, lists[ListOf(c)])
      BY <1>1 DEF ListedRight, ListOf
    <3> QED BY <1>3, <3>1, <3>2 DEF Waiting
  <2>4. ~ran.early
    BY DEF QueueInv, WorkInv, NotEarly
  <2>5. invoker.at = "invoked" => cmd[invoker.cmd].queued
    BY DEF QueueInv, WorkInv, WorkerTypes, RunOnce, Waiting
  <2> QED BY <2>1, <2>2, <2>3, <2>4, <2>5 DEF CarriedOutOnce
<1>5. CommandsCounted
  <2> SUFFICES ASSUME NEW c \in Commands
               PROVE  cmd[c].refs = Cardinality({l \in DOMAIN lists : c \in Range(lists[l])})
                      + (IF cmd[c].app \in {"holds", "postponing"} THEN 1 ELSE 0) + (IF invoker.cmd = c /\ invoker.counted THEN 1 ELSE 0)
    BY DEF CommandsCounted
  <2> DEFINE S == {l \in DOMAIN lists : c \in Range(lists[l])}
  <2>1. cmd[c].refs = (IF Waiting(cmd, c) THEN 1 ELSE 0) + (IF cmd[c].app \in {"holds", "postponing"} THEN 1 ELSE 0)
                      + (IF invoker.cmd = c /\ invoker.counted THEN 1 ELSE 0)
    BY DEF QueueInv, WorkInv, Counted
  <2>2. Cardinality(S) = IF Waiting(cmd, c) THEN 1 ELSE 0
    <3>1. CASE Waiting(cmd, c)
      <4>1. ListOf(c) \in DOMAIN lists /\ IsIn(c, lists[ListOf(c)])
        BY <1>1, <1>2, <3>1 DEF ListedRight, ListOf
      <4>2. ASSUME NEW l \in DOMAIN lists, IsIn(c, lists[l]) PROVE l = ListOf(c)
        <5>1. PICK i \in DOMAIN lists[l] : lists[l][i] = c
          BY <4>2 DEF IsIn
        <5>2. cmd[c].stream <=> l = "stream"
          BY <1>1, <1>2, <5>1 DEF ListsOrdered
        <5> QED BY <1>2, <5>2 DEF ListOf
      <4>3. S = {ListOf(c)}
        BY <1>3, <4>1, <4>2
      <4> HIDE DEF S
      <4> QED BY <3>1, <4>3, FS_Singleton
    <3>2. CASE ~Waiting(cmd, c)
      <4>1. ~IsIn(c, lists.presentation) /\ ~IsIn(c, lists.stream)
        BY <1>1, <3>2, NotListed
      <4>2. S = {}
        BY <1>2, <1>3, <4>1
      <4> HIDE DEF S
      <4> QED BY <3>2, <4>2, FS_EmptySet
    <3> QED BY <3>1, <3>2
  <2>3. Cardinality(S) \in Int
    BY <2>2
  <2> HIDE DEF S
  <2>4. cmd[c].refs = Cardinality(S) + (IF cmd[c].app \in {"holds", "postponing"} THEN 1 ELSE 0) + (IF invoker.cmd = c /\ invoker.counted THEN 1 ELSE 0)
    BY <2>1, <2>2
  <2> QED BY <2>4 DEF S
<1>6. ComingIsAdvised
  <2> DEFINE heads == Heads(queue, lists, cmd)
  <2> SUFFICES ASSUME queue.clock # NoClock, ~ran.rewired, \A t \in heads : t > now, NEW u \in heads
               PROVE  queue.due \/ (queue.advise.armed /\ queue.advise.time <= u)
    BY DEF ComingIsAdvised
  <2>1. queue.current \in heads /\ \A t \in heads : queue.current <= t
    BY DEF QueueInv, ListsInv, ForFirst
  <2>2. queue.current > now
    BY <2>1
  <2>3. queue.advise.armed /\ queue.advise.time = queue.current
    BY <2>2 DEF QueueInv, ListsInv, Armed
  <2> QED BY <2>1, <2>3
<1> QED BY <1>4, <1>5, <1>6

\* Deferred commands (CCmdQueue, CDeferredCommand): whatever the application queues, cancels, postpones and releases, whatever
\* clocks the filter is given and whenever the worker looks, until a freed command is used or two calls meet on one
\* command (m_pQueue read as NULL): the lists stay in the order of their times, a command is carried out at most once
\* and never before its time unasked, it still has its queue when Invoke takes it off its list, its references are
\* those that are held, and until SetSyncSource finds a clock set, commands that are all still to come have an advise
\* that fires no later than the first.
THEOREM CommandsAreCarriedOut == QueueSpec => []CommandsSafe
<1>1. QueueInit => QueueUntil
  BY QueueStarts DEF QueueUntil
<1>2. QueueUntil /\ [QueueNext]_qvars => QueueUntil'
  BY QueueSteps
<1>3. QueueUntil => CommandsSafe
  BY QueueIsSafe
<1> QED BY <1>1, <1>2, <1>3, PTL DEF QueueSpec

-----------------------------------------------------------------------------
(* CBasePin, CBaseOutputPin, CBaseInputPin: connecting, and what is undone. *)

PinTypes(s) ==
    /\ DOMAIN s = {"out", "in", "refs", "committed", "src", "dst"}
    /\ DOMAIN s.out = {"conn", "type", "alloc", "iface"} /\ DOMAIN s.in = {"conn", "type", "alloc", "flushing", "error"}
    /\ DOMAIN s.refs = Allocators /\ s.committed \subseteq Allocators
    /\ s.out.alloc \in Allocators \cup {None} /\ s.in.alloc \in Allocators \cup {None}
    /\ s.src \in {"stopped", "paused", "running"} /\ s.dst \in {"stopped", "paused", "running"}

\* Each pin counts for one reference on the allocator it holds.
RefsRight(s) ==
    \A a \in Allocators : s.refs[a] = (IF s.out.alloc = a THEN 1 ELSE 0) + (IF s.in.alloc = a THEN 1 ELSE 0)

PinsRight(s) == PinTypes(s) /\ RefsRight(s)

\* What a call on the way to a connection leaves alone.
SameSession(r, s) ==
    /\ r.src = s.src /\ r.dst = s.dst /\ r.committed \subseteq s.committed
    /\ (r.in.flushing <=> s.in.flushing) /\ (r.in.error <=> s.in.error)

\* The fields of a pin other than its allocator.
SameOut(r, s) == (r.out.conn <=> s.out.conn) /\ r.out.type = s.out.type /\ (r.out.iface <=> s.out.iface)
SameIn(r, s) == (r.in.conn <=> s.in.conn) /\ r.in.type = s.in.type

-----------------------------------------------------------------------------
LEMMA ReleaseIs ==
  ASSUME NEW s, PinTypes(s), \A b \in Allocators : s.refs[b] \in Int, NEW a \in Allocators \cup {None}
  PROVE  /\ DOMAIN Release(s, a) = DOMAIN s /\ Release(s, a).out = s.out /\ Release(s, a).in = s.in
         /\ Release(s, a).src = s.src /\ Release(s, a).dst = s.dst /\ Release(s, a).committed \subseteq s.committed
         /\ DOMAIN Release(s, a).refs = Allocators
         /\ \A b \in Allocators : Release(s, a).refs[b] = s.refs[b] - (IF b = a THEN 1 ELSE 0)
<1>1. CASE a = None
  <2>1. Release(s, a) = s
    BY <1>1 DEF Release
  <2>2. \A b \in Allocators : b # a
    BY <1>1 DEF Allocators, None
  <2> QED BY <2>1, <2>2 DEF PinTypes
<1>2. CASE a # None
  <2> DEFINE left == IF s.refs[a] = 1 THEN s.committed \ {a} ELSE s.committed
  <2>1. Release(s, a) = [s EXCEPT !.refs = [s.refs EXCEPT ![a] = @ - 1], !.committed = left]
    BY <1>2 DEF Release, PinTypes
  <2>2. left \subseteq s.committed /\ a \in Allocators
    BY <1>2
  <2> HIDE DEF left
  <2> QED BY <2>1, <2>2 DEF PinTypes
<1> QED BY <1>1, <1>2

LEMMA DropOutIs ==
  ASSUME NEW s, PinsRight(s)
  PROVE  /\ PinsRight(DropOut(s)) /\ DropOut(s).out.alloc = None /\ DropOut(s).in = s.in
         /\ SameOut(DropOut(s), s) /\ SameSession(DropOut(s), s)
<1> DEFINE p == Release(s, s.out.alloc)
           r == DropOut(s)
<1>1. PinTypes(s) /\ RefsRight(s)
  BY DEF PinsRight
<1>2. /\ DOMAIN p = DOMAIN s /\ p.out = s.out /\ p.in = s.in /\ p.src = s.src /\ p.dst = s.dst
      /\ p.committed \subseteq s.committed /\ DOMAIN p.refs = Allocators
      /\ \A a \in Allocators : p.refs[a] = s.refs[a] - (IF a = s.out.alloc THEN 1 ELSE 0)
  <2>1. s.out.alloc \in Allocators \cup {None} /\ \A a \in Allocators : s.refs[a] \in Int
    BY <1>1 DEF PinTypes, RefsRight
  <2> QED BY <1>1, <2>1, ReleaseIs
<1>3. r = [p EXCEPT !.out = [p.out EXCEPT !.alloc = None]]
  BY <1>1, <1>2 DEF DropOut, PinTypes
<1> HIDE DEF p, r
<1>4. /\ DOMAIN r = DOMAIN p /\ r.out = [p.out EXCEPT !.alloc = None] /\ r.in = p.in /\ r.src = p.src /\ r.dst = p.dst
      /\ r.refs = p.refs /\ r.committed = p.committed
  BY <1>1, <1>2, <1>3 DEF PinTypes
<1>5. /\ DOMAIN r.out = DOMAIN s.out /\ r.out.alloc = None
      /\ r.out.conn = s.out.conn /\ r.out.type = s.out.type /\ r.out.iface = s.out.iface
  BY <1>1, <1>2, <1>4 DEF PinTypes
<1>6. PinTypes(r)
  BY <1>1, <1>2, <1>4, <1>5 DEF PinTypes
<1>7. RefsRight(r)
  <2> SUFFICES ASSUME NEW a \in Allocators
               PROVE  r.refs[a] = (IF r.out.alloc = a THEN 1 ELSE 0) + (IF r.in.alloc = a THEN 1 ELSE 0)
    BY DEF RefsRight
  <2>1. r.refs[a] = s.refs[a] - (IF a = s.out.alloc THEN 1 ELSE 0)
    BY <1>2, <1>4
  <2>2. s.refs[a] = (IF s.out.alloc = a THEN 1 ELSE 0) + (IF s.in.alloc = a THEN 1 ELSE 0)
    BY <1>1 DEF RefsRight
  <2>3. r.out.alloc # a /\ r.in.alloc = s.in.alloc
    BY <1>2, <1>4, <1>5 DEF Allocators, None
  <2> QED BY <2>1, <2>2, <2>3
<1>8. SameOut(r, s) /\ SameSession(r, s)
  BY <1>2, <1>4, <1>5 DEF SameOut, SameSession
<1> QED BY <1>2, <1>4, <1>5, <1>6, <1>7, <1>8 DEF PinsRight, r

LEMMA BreakConnectInIs ==
  ASSUME NEW s, PinsRight(s)
  PROVE  /\ PinsRight(BreakConnectIn(s)) /\ BreakConnectIn(s).in.alloc = None /\ BreakConnectIn(s).out = s.out
         /\ SameIn(BreakConnectIn(s), s) /\ SameSession(BreakConnectIn(s), s)
<1> DEFINE o == [s EXCEPT !.committed = @ \ {s.in.alloc}]
           p == Release(o, s.in.alloc)
           r == BreakConnectIn(s)
<1>1. PinTypes(s) /\ RefsRight(s)
  BY DEF PinsRight
<1>0. /\ DOMAIN o = DOMAIN s /\ o.out = s.out /\ o.in = s.in /\ o.src = s.src /\ o.dst = s.dst /\ o.refs = s.refs
      /\ o.committed = s.committed \ {s.in.alloc}
  BY <1>1 DEF PinTypes
<1>9. r = [p EXCEPT !.in.alloc = None]
  BY DEF BreakConnectIn
<1> HIDE DEF o
<1>10. PinTypes(o)
  BY <1>0, <1>1 DEF PinTypes
<1>2. /\ DOMAIN p = DOMAIN s /\ p.out = s.out /\ p.in = s.in /\ p.src = s.src /\ p.dst = s.dst
      /\ p.committed \subseteq s.committed /\ DOMAIN p.refs = Allocators
      /\ \A a \in Allocators : p.refs[a] = s.refs[a] - (IF a = s.in.alloc THEN 1 ELSE 0)
  <2>1. s.in.alloc \in Allocators \cup {None} /\ \A a \in Allocators : o.refs[a] \in Int
    BY <1>0, <1>1 DEF PinTypes, RefsRight
  <2>2. /\ DOMAIN p = DOMAIN o /\ p.out = o.out /\ p.in = o.in /\ p.src = o.src /\ p.dst = o.dst
        /\ p.committed \subseteq o.committed /\ DOMAIN p.refs = Allocators
        /\ \A a \in Allocators : p.refs[a] = o.refs[a] - (IF a = s.in.alloc THEN 1 ELSE 0)
    BY <1>10, <2>1, ReleaseIs
  <2> HIDE DEF p
  <2> QED BY <1>0, <2>2
<1>3. r = [p EXCEPT !.in = [p.in EXCEPT !.alloc = None]]
  BY <1>1, <1>2, <1>9 DEF PinTypes
<1> HIDE DEF p, r
<1>4. /\ DOMAIN r = DOMAIN p /\ r.in = [p.in EXCEPT !.alloc = None] /\ r.out = p.out /\ r.src = p.src /\ r.dst = p.dst
      /\ r.refs = p.refs /\ r.committed = p.committed
  BY <1>1, <1>2, <1>3 DEF PinTypes
<1>5. /\ DOMAIN r.in = DOMAIN s.in /\ r.in.alloc = None /\ r.in.conn = s.in.conn /\ r.in.type = s.in.type
      /\ r.in.flushing = s.in.flushing /\ r.in.error = s.in.error
  BY <1>1, <1>2, <1>4 DEF PinTypes
<1>6. PinTypes(r)
  BY <1>1, <1>2, <1>4, <1>5 DEF PinTypes
<1>7. RefsRight(r)
  <2> SUFFICES ASSUME NEW a \in Allocators
               PROVE  r.refs[a] = (IF r.out.alloc = a THEN 1 ELSE 0) + (IF r.in.alloc = a THEN 1 ELSE 0)
    BY DEF RefsRight
  <2>1. r.refs[a] = s.refs[a] - (IF a = s.in.alloc THEN 1 ELSE 0)
    BY <1>2, <1>4
  <2>2. s.refs[a] = (IF s.out.alloc = a THEN 1 ELSE 0) + (IF s.in.alloc = a THEN 1 ELSE 0)
    BY <1>1 DEF RefsRight
  <2>3. r.in.alloc # a /\ r.out.alloc = s.out.alloc
    BY <1>2, <1>4, <1>5 DEF Allocators, None
  <2> QED BY <2>1, <2>2, <2>3
<1>8. SameIn(r, s) /\ SameSession(r, s)
  BY <1>2, <1>4, <1>5 DEF SameIn, SameSession
<1> QED BY <1>2, <1>4, <1>5, <1>6, <1>7, <1>8 DEF PinsRight, r

LEMMA BreakConnectOutIs ==
  ASSUME NEW s, PinsRight(s)
  PROVE  /\ PinsRight(BreakConnectOut(s)) /\ BreakConnectOut(s).out.alloc = None /\ ~BreakConnectOut(s).out.iface
         /\ (BreakConnectOut(s).out.conn <=> s.out.conn) /\ BreakConnectOut(s).out.type = s.out.type
         /\ BreakConnectOut(s).in = s.in /\ SameSession(BreakConnectOut(s), s)
<1> DEFINE o == [s EXCEPT !.committed = @ \ {s.out.alloc}]
           p == DropOut(o)
           r == BreakConnectOut(s)
<1>1. PinTypes(s) /\ RefsRight(s)
  BY DEF PinsRight
<1>2. /\ DOMAIN o = DOMAIN s /\ o.out = s.out /\ o.in = s.in /\ o.src = s.src /\ o.dst = s.dst /\ o.refs = s.refs
      /\ o.committed \subseteq s.committed
  BY <1>1 DEF PinTypes
<1>3. r = [p EXCEPT !.out.iface = FALSE]
  BY DEF BreakConnectOut
<1> HIDE DEF o
<1>4. PinsRight(o)
  BY <1>1, <1>2 DEF PinsRight, PinTypes, RefsRight
<1>5. PinsRight(p) /\ p.out.alloc = None /\ p.in = s.in /\ SameOut(p, s) /\ SameSession(p, s)
  <2>1. PinsRight(p) /\ p.out.alloc = None /\ p.in = o.in /\ SameOut(p, o) /\ SameSession(p, o)
    BY <1>4, DropOutIs
  <2> HIDE DEF p
  <2> QED BY <1>2, <2>1 DEF SameOut, SameSession
<1> HIDE DEF p, r
<1>6. /\ DOMAIN r = DOMAIN p /\ r.in = p.in /\ r.src = p.src /\ r.dst = p.dst
      /\ r.refs = p.refs /\ r.committed = p.committed
      /\ DOMAIN r.out = DOMAIN p.out /\ r.out.alloc = p.out.alloc /\ r.out.conn = p.out.conn /\ r.out.type = p.out.type
      /\ ~r.out.iface
  BY <1>3, <1>5 DEF PinsRight, PinTypes
<1>7. PinsRight(r)
  BY <1>5, <1>6 DEF PinsRight, PinTypes, RefsRight
<1>8. r.out.alloc = None /\ (r.out.conn <=> s.out.conn) /\ r.out.type = s.out.type /\ r.in = s.in /\ SameSession(r, s)
  BY <1>5, <1>6 DEF SameOut, SameSession
<1> QED BY <1>6, <1>7, <1>8 DEF r

\* NotifyAllocator: the input pin holds what it is told of.
LEMMA NotifyAllocatorIs ==
  ASSUME NEW s, PinsRight(s), NEW a \in Allocators
  PROVE  /\ PinsRight(NotifyAllocator(s, a)) /\ NotifyAllocator(s, a).in.alloc = a /\ NotifyAllocator(s, a).out = s.out
         /\ SameIn(NotifyAllocator(s, a), s) /\ SameSession(NotifyAllocator(s, a), s)
<1> DEFINE o == [s EXCEPT !.refs[a] = @ + 1, !.in.alloc = a]
           r == NotifyAllocator(s, a)
<1>1. PinTypes(s) /\ RefsRight(s)
  BY DEF PinsRight
<1>2. /\ DOMAIN o = DOMAIN s /\ o.out = s.out /\ o.src = s.src /\ o.dst = s.dst /\ o.committed = s.committed
      /\ DOMAIN o.in = DOMAIN s.in /\ o.in.alloc = a /\ o.in.conn = s.in.conn /\ o.in.type = s.in.type
      /\ o.in.flushing = s.in.flushing /\ o.in.error = s.in.error
      /\ o.refs = [s.refs EXCEPT ![a] = @ + 1]
  BY <1>1 DEF PinTypes
<1>3. r = Release(o, s.in.alloc)
  BY DEF NotifyAllocator
<1> HIDE DEF o, r
<1>4. PinTypes(o)
  BY <1>1, <1>2 DEF PinTypes
<1>5. \A b \in Allocators : o.refs[b] \in Int /\ o.refs[b] = s.refs[b] + (IF b = a THEN 1 ELSE 0) /\ s.refs[b] \in Int
  BY <1>1, <1>2 DEF PinTypes, RefsRight
<1>6. s.in.alloc \in Allocators \cup {None}
  BY <1>1 DEF PinTypes
<1>7. /\ DOMAIN r = DOMAIN o /\ r.out = o.out /\ r.in = o.in /\ r.src = o.src /\ r.dst = o.dst
      /\ r.committed \subseteq o.committed /\ DOMAIN r.refs = Allocators
      /\ \A b \in Allocators : r.refs[b] = o.refs[b] - (IF b = s.in.alloc THEN 1 ELSE 0)
  BY <1>3, <1>4, <1>5, <1>6, ReleaseIs
<1>8. PinTypes(r)
  BY <1>2, <1>4, <1>7 DEF PinTypes
<1>9. RefsRight(r)
  <2> SUFFICES ASSUME NEW b \in Allocators
               PROVE  r.refs[b] = (IF r.out.alloc = b THEN 1 ELSE 0) + (IF r.in.alloc = b THEN 1 ELSE 0)
    BY DEF RefsRight
  <2>1. s.refs[b] = (IF s.out.alloc = b THEN 1 ELSE 0) + (IF s.in.alloc = b THEN 1 ELSE 0)
    BY <1>1 DEF RefsRight
  <2>2. r.refs[b] = s.refs[b] + (IF b = a THEN 1 ELSE 0) - (IF b = s.in.alloc THEN 1 ELSE 0)
    BY <1>5, <1>7
  <2>3. r.in.alloc = a /\ r.out.alloc = s.out.alloc
    BY <1>2, <1>7
  <2> QED BY <2>1, <2>2, <2>3
<1>10. SameIn(r, s) /\ SameSession(r, s) /\ r.in.alloc = a /\ r.out = s.out
  BY <1>2, <1>7 DEF SameIn, SameSession
<1> QED BY <1>8, <1>9, <1>10 DEF PinsRight, r

\* GetAllocator: an output pin that holds none gets the input pin's.
LEMMA GetAllocatorIs ==
  ASSUME NEW s, PinsRight(s), s.out.alloc = None
  PROVE  /\ PinsRight(GetAllocator(s)) /\ GetAllocator(s).out.alloc \in Allocators
         /\ GetAllocator(s).in.alloc = GetAllocator(s).out.alloc
         /\ SameIn(GetAllocator(s), s) /\ SameOut(GetAllocator(s), s) /\ SameSession(GetAllocator(s), s)
<1> DEFINE has == IF s.in.alloc # None THEN s ELSE [s EXCEPT !.in.alloc = "theirs", !.refs["theirs"] = 1]
           r == GetAllocator(s)
<1>1. PinTypes(s) /\ RefsRight(s)
  BY DEF PinsRight
<1>2. "theirs" \in Allocators /\ None \notin Allocators
  BY DEF Allocators, None
<1>3. /\ PinTypes(has) /\ RefsRight(has) /\ has.in.alloc \in Allocators /\ has.out = s.out /\ SameIn(has, s) /\ SameSession(has, s)
  <2>1. CASE s.in.alloc # None
    BY <1>1, <2>1 DEF PinTypes, SameIn, SameSession
  <2>2. CASE s.in.alloc = None
    <3>1. has = [s EXCEPT !.in.alloc = "theirs", !.refs["theirs"] = 1]
      BY <2>2
    <3> HIDE DEF has
    <3>2. /\ DOMAIN has = DOMAIN s /\ has.out = s.out /\ has.src = s.src /\ has.dst = s.dst /\ has.committed = s.committed
          /\ DOMAIN has.in = DOMAIN s.in /\ has.in.alloc = "theirs" /\ has.in.conn = s.in.conn /\ has.in.type = s.in.type
          /\ has.in.flushing = s.in.flushing /\ has.in.error = s.in.error
          /\ has.refs = [s.refs EXCEPT !["theirs"] = 1]
      BY <1>1, <3>1 DEF PinTypes
    <3>3. PinTypes(has)
      BY <1>1, <1>2, <3>2 DEF PinTypes
    <3>4. RefsRight(has)
      <4> SUFFICES ASSUME NEW b \in Allocators
                   PROVE  has.refs[b] = (IF has.out.alloc = b THEN 1 ELSE 0) + (IF has.in.alloc = b THEN 1 ELSE 0)
        BY DEF RefsRight
      <4>1. s.refs[b] = 0 /\ has.out.alloc # b
        BY <1>1, <1>2, <2>2, <3>2 DEF RefsRight
      <4>2. has.refs[b] = IF b = "theirs" THEN 1 ELSE s.refs[b]
        BY <1>1, <1>2, <3>2 DEF PinTypes
      <4> QED BY <3>2, <4>1, <4>2
    <3> QED BY <1>2, <3>2, <3>3, <3>4 DEF SameIn, SameSession
  <2> QED BY <2>1, <2>2
<1>4. r = [has EXCEPT !.out.alloc = has.in.alloc, !.refs[has.in.alloc] = @ + 1]
  BY DEF GetAllocator
<1> HIDE DEF has, r
<1>5. /\ DOMAIN r = DOMAIN has /\ r.in = has.in /\ r.src = has.src /\ r.dst = has.dst /\ r.committed = has.committed
      /\ DOMAIN r.out = DOMAIN has.out /\ r.out.alloc = has.in.alloc /\ r.out.conn = has.out.conn
      /\ r.out.type = has.out.type /\ r.out.iface = has.out.iface
      /\ r.refs = [has.refs EXCEPT ![has.in.alloc] = @ + 1]
  BY <1>3, <1>4 DEF PinTypes
<1>6. PinTypes(r)
  BY <1>3, <1>5 DEF PinTypes
<1>7. RefsRight(r)
  <2> SUFFICES ASSUME NEW b \in Allocators
               PROVE  r.refs[b] = (IF r.out.alloc = b THEN 1 ELSE 0) + (IF r.in.alloc = b THEN 1 ELSE 0)
    BY DEF RefsRight
  <2>1. has.refs[b] = (IF has.in.alloc = b THEN 1 ELSE 0)
    BY <1>2, <1>3 DEF RefsRight
  <2>2. r.refs[b] = has.refs[b] + (IF b = has.in.alloc THEN 1 ELSE 0)
    BY <1>3, <1>5, <2>1 DEF PinTypes
  <2> QED BY <1>5, <2>1, <2>2
<1>8. SameIn(r, s) /\ SameOut(r, s) /\ SameSession(r, s)
  BY <1>3, <1>5 DEF SameIn, SameOut, SameSession
<1> QED BY <1>3, <1>5, <1>6, <1>7, <1>8 DEF PinsRight, r

\* DecideAllocator: the other pin's allocator, or one of our own, or none.
LEMMA DecideAllocatorIs ==
  ASSUME NEW s, PinsRight(s), s.out.alloc = None, NEW fails
  PROVE  /\ PinsRight(DecideAllocator(s, fails).s)
         /\ SameIn(DecideAllocator(s, fails).s, s) /\ SameOut(DecideAllocator(s, fails).s, s)
         /\ SameSession(DecideAllocator(s, fails).s, s)
         /\ DecideAllocator(s, fails).ok =>
               /\ DecideAllocator(s, fails).s.out.alloc \in Allocators
               /\ DecideAllocator(s, fails).s.in.alloc = DecideAllocator(s, fails).s.out.alloc
         /\ ~DecideAllocator(s, fails).ok => DecideAllocator(s, fails).s.out.alloc = None
<1> DEFINE first == IF "get" \in fails THEN s ELSE GetAllocator(s)
           dropped == DropOut(first)
           second == IF "init" \in fails THEN dropped ELSE [dropped EXCEPT !.out.alloc = "ours", !.refs["ours"] = @ + 1]
           d == DecideAllocator(s, fails)
<1>1. d = IF Agreed(first, fails, "size_theirs", "notify_theirs")
          THEN [ok |-> TRUE, s |-> NotifyAllocator(first, first.out.alloc)]
          ELSE IF Agreed(second, fails, "size_ours", "notify_ours")
          THEN [ok |-> TRUE, s |-> NotifyAllocator(second, "ours")]
          ELSE [ok |-> FALSE, s |-> DropOut(second)]
  BY DEF DecideAllocator
<1>0. "ours" \in Allocators /\ None \notin Allocators
  BY DEF Allocators, None
<1>2. /\ PinsRight(first) /\ SameIn(first, s) /\ SameOut(first, s) /\ SameSession(first, s)
      /\ first.out.alloc # None => first.out.alloc \in Allocators
  <2>1. CASE "get" \in fails
    BY <2>1 DEF SameIn, SameOut, SameSession
  <2>2. CASE "get" \notin fails
    BY <2>2, GetAllocatorIs
  <2> QED BY <2>1, <2>2
<1> HIDE DEF first
<1>3. /\ PinsRight(dropped) /\ SameIn(dropped, s) /\ SameOut(dropped, s) /\ SameSession(dropped, s) /\ dropped.out.alloc = None
  <2>1. /\ PinsRight(dropped) /\ dropped.out.alloc = None /\ dropped.in = first.in /\ SameOut(dropped, first) /\ SameSession(dropped, first)
    BY <1>2, DropOutIs
  <2> HIDE DEF dropped
  <2> QED BY <1>2, <2>1 DEF SameIn, SameOut, SameSession
<1> HIDE DEF dropped
<1>4. /\ PinsRight(second) /\ SameIn(second, s) /\ SameOut(second, s) /\ SameSession(second, s)
      /\ second.out.alloc # None => second.out.alloc = "ours"
  <2>1. CASE "init" \in fails
    BY <1>3, <2>1
  <2>2. CASE "init" \notin fails
    <3>1. second = [dropped EXCEPT !.out.alloc = "ours", !.refs["ours"] = @ + 1]
      BY <2>2
    <3> HIDE DEF second
    <3>2. /\ DOMAIN second = DOMAIN dropped /\ second.in = dropped.in /\ second.src = dropped.src /\ second.dst = dropped.dst
          /\ second.committed = dropped.committed /\ DOMAIN second.out = DOMAIN dropped.out /\ second.out.alloc = "ours"
          /\ second.out.conn = dropped.out.conn /\ second.out.type = dropped.out.type /\ second.out.iface = dropped.out.iface
          /\ second.refs = [dropped.refs EXCEPT !["ours"] = @ + 1]
      BY <1>3, <3>1 DEF PinsRight, PinTypes
    <3>3. PinTypes(second)
      BY <1>0, <1>3, <3>2 DEF PinsRight, PinTypes
    <3>4. RefsRight(second)
      <4> SUFFICES ASSUME NEW b \in Allocators
                   PROVE  second.refs[b] = (IF second.out.alloc = b THEN 1 ELSE 0) + (IF second.in.alloc = b THEN 1 ELSE 0)
        BY DEF RefsRight
      <4>1. dropped.refs[b] = (IF dropped.in.alloc = b THEN 1 ELSE 0)
        BY <1>0, <1>3 DEF PinsRight, RefsRight
      <4>2. second.refs[b] = dropped.refs[b] + (IF b = "ours" THEN 1 ELSE 0)
        BY <1>3, <3>2, <4>1 DEF PinsRight, PinTypes
      <4> QED BY <3>2, <4>1, <4>2
    <3> QED BY <1>3, <3>2, <3>3, <3>4 DEF PinsRight, SameIn, SameOut, SameSession
  <2> QED BY <2>1, <2>2
<1> HIDE DEF second, d
<1>5. CASE Agreed(first, fails, "size_theirs", "notify_theirs")
  <2>1. first.out.alloc \in Allocators
    BY <1>2, <1>5 DEF Agreed
  <2> DEFINE n == NotifyAllocator(first, first.out.alloc)
  <2>2. PinsRight(n) /\ n.in.alloc = first.out.alloc /\ n.out = first.out /\ SameIn(n, first) /\ SameSession(n, first)
    BY <1>2, <2>1, NotifyAllocatorIs
  <2>3. d.ok /\ d.s = n
    BY <1>1, <1>5
  <2> HIDE DEF n
  <2>4. SameIn(n, s) /\ SameOut(n, s) /\ SameSession(n, s)
    BY <1>2, <2>2 DEF SameIn, SameOut, SameSession
  <2> QED BY <2>1, <2>2, <2>3, <2>4 DEF d
<1>6. CASE ~Agreed(first, fails, "size_theirs", "notify_theirs") /\ Agreed(second, fails, "size_ours", "notify_ours")
  <2>1. second.out.alloc = "ours"
    BY <1>4, <1>6 DEF Agreed
  <2> DEFINE n == NotifyAllocator(second, "ours")
  <2>2. PinsRight(n) /\ n.in.alloc = "ours" /\ n.out = second.out /\ SameIn(n, second) /\ SameSession(n, second)
    BY <1>0, <1>4, NotifyAllocatorIs
  <2>3. d.ok /\ d.s = n
    BY <1>1, <1>6
  <2> HIDE DEF n
  <2>4. SameIn(n, s) /\ SameOut(n, s) /\ SameSession(n, s)
    BY <1>4, <2>2 DEF SameIn, SameOut, SameSession
  <2> QED BY <1>0, <2>1, <2>2, <2>3, <2>4 DEF d
<1>7. CASE ~Agreed(first, fails, "size_theirs", "notify_theirs") /\ ~Agreed(second, fails, "size_ours", "notify_ours")
  <2> DEFINE n == DropOut(second)
  <2>1. PinsRight(n) /\ n.out.alloc = None /\ n.in = second.in /\ SameOut(n, second) /\ SameSession(n, second)
    BY <1>4, DropOutIs
  <2>2. ~d.ok /\ d.s = n
    BY <1>1, <1>7
  <2> HIDE DEF n
  <2>3. SameIn(n, s) /\ SameOut(n, s) /\ SameSession(n, s)
    BY <1>4, <2>1 DEF SameIn, SameOut, SameSession
  <2> QED BY <2>1, <2>2, <2>3 DEF d
<1> QED BY <1>5, <1>6, <1>7

-----------------------------------------------------------------------------
(* One attempt, between pins that have nothing.                            *)

NoPlug(s) == PinsRight(s) /\ ~s.out.conn /\ ~s.in.conn /\ ~s.out.iface /\ s.out.alloc = None /\ s.in.alloc = None

Joined(s) ==
    /\ PinsRight(s) /\ s.out.conn /\ s.in.conn /\ s.out.iface
    /\ s.out.type = s.in.type /\ s.out.type \in offer.out \cap offer.in
    /\ s.out.alloc \in Allocators /\ s.in.alloc = s.out.alloc

LEMMA ReceiveConnectionIs ==
  ASSUME NEW s, PinsRight(s), ~s.in.conn, s.in.alloc = None, s.dst = "stopped", NEW t, NEW fails
  PROVE  /\ PinsRight(ReceiveConnection(s, t, fails).s) /\ ReceiveConnection(s, t, fails).s.out = s.out
         /\ SameSession(ReceiveConnection(s, t, fails).s, s) /\ ReceiveConnection(s, t, fails).s.in.alloc = None
         /\ ReceiveConnection(s, t, fails).ok =>
               /\ ReceiveConnection(s, t, fails).s.in.conn /\ ReceiveConnection(s, t, fails).s.in.type = t /\ t \in offer.in
         /\ ~ReceiveConnection(s, t, fails).ok => ~ReceiveConnection(s, t, fails).s.in.conn
<1> DEFINE set == [s EXCEPT !.in.conn = TRUE, !.in.type = IF "set_in" \in fails THEN @ ELSE t]
           off == [set EXCEPT !.in.conn = FALSE]
           r == ReceiveConnection(s, t, fails)
<1>1. r = IF t \notin offer.in THEN [ok |-> FALSE, s |-> BreakConnectIn(s)]
          ELSE IF fails \cap {"set_in", "complete_in"} = {} THEN [ok |-> TRUE, s |-> set]
          ELSE [ok |-> FALSE, s |-> BreakConnectIn(off)]
  BY DEF ReceiveConnection, MayConnect
<1>2. PinTypes(s) /\ RefsRight(s)
  BY DEF PinsRight
<1>3. /\ DOMAIN set = DOMAIN s /\ set.out = s.out /\ set.src = s.src /\ set.dst = s.dst /\ set.refs = s.refs
      /\ set.committed = s.committed /\ DOMAIN set.in = DOMAIN s.in /\ set.in.conn = TRUE /\ set.in.alloc = s.in.alloc
      /\ set.in.flushing = s.in.flushing /\ set.in.error = s.in.error
      /\ "set_in" \notin fails => set.in.type = t
  BY <1>2 DEF PinTypes
<1>4. /\ DOMAIN off = DOMAIN s /\ off.out = s.out /\ off.src = s.src /\ off.dst = s.dst /\ off.refs = s.refs
      /\ off.committed = s.committed /\ DOMAIN off.in = DOMAIN s.in /\ off.in.conn = FALSE /\ off.in.alloc = s.in.alloc
      /\ off.in.flushing = s.in.flushing /\ off.in.error = s.in.error
  <2> HIDE DEF set
  <2> QED BY <1>2, <1>3 DEF PinTypes
<1> HIDE DEF set, off, r
<1>5. PinsRight(set) /\ SameSession(set, s) /\ PinsRight(off) /\ SameSession(off, s)
  BY <1>2, <1>3, <1>4 DEF PinsRight, PinTypes, RefsRight, SameSession
<1>6. CASE t \notin offer.in
  <2>1. ~r.ok /\ r.s = BreakConnectIn(s)
    BY <1>1, <1>6
  <2>2. PinsRight(r.s) /\ r.s.in.alloc = None /\ r.s.out = s.out /\ SameIn(r.s, s) /\ SameSession(r.s, s)
    BY <2>1, BreakConnectInIs
  <2> QED BY <2>1, <2>2 DEF r, SameIn
<1>7. CASE t \in offer.in /\ fails \cap {"set_in", "complete_in"} = {}
  <2>1. r.ok /\ r.s = set
    BY <1>1, <1>7
  <2>2. set.in.type = t
    BY <1>3, <1>7
  <2>3. set.in.conn
    BY <1>3
  <2> QED BY <1>3, <1>5, <1>7, <2>1, <2>2, <2>3 DEF r
<1>8. CASE t \in offer.in /\ fails \cap {"set_in", "complete_in"} # {}
  <2>1. ~r.ok /\ r.s = BreakConnectIn(off)
    BY <1>1, <1>8
  <2>2. PinsRight(r.s) /\ r.s.in.alloc = None /\ r.s.out = off.out /\ SameIn(r.s, off) /\ SameSession(r.s, off)
    BY <1>5, <2>1, BreakConnectInIs
  <2>3. ~r.s.in.conn /\ SameSession(r.s, s)
    BY <1>4, <1>5, <2>2 DEF SameIn, SameSession
  <2> QED BY <1>4, <2>1, <2>2, <2>3 DEF r
<1> QED BY <1>6, <1>7, <1>8

\* What the output pin gives up when an attempt fails.
LEMMA UndoIs ==
  ASSUME NEW s, PinsRight(s)
  PROVE  /\ PinsRight(Undo(s)) /\ ~Undo(s).out.conn /\ ~Undo(s).out.iface /\ Undo(s).out.alloc = None
         /\ Undo(s).in = s.in /\ SameSession(Undo(s), s)
<1> DEFINE b == BreakConnectOut(s)
           r == Undo(s)
<1>1. /\ PinsRight(b) /\ b.out.alloc = None /\ ~b.out.iface /\ b.in = s.in /\ SameSession(b, s)
  BY BreakConnectOutIs
<1>2. r = [b EXCEPT !.out.conn = FALSE]
  BY DEF Undo
<1> HIDE DEF b, r
<1>3. /\ DOMAIN r = DOMAIN b /\ r.in = b.in /\ r.src = b.src /\ r.dst = b.dst /\ r.refs = b.refs
      /\ r.committed = b.committed /\ DOMAIN r.out = DOMAIN b.out /\ r.out.alloc = b.out.alloc
      /\ r.out.iface = b.out.iface /\ ~r.out.conn
  BY <1>1, <1>2 DEF PinsRight, PinTypes
<1>4. PinsRight(r) /\ SameSession(r, s)
  BY <1>1, <1>3 DEF PinsRight, PinTypes, RefsRight, SameSession
<1> QED BY <1>1, <1>3, <1>4 DEF r

\* CBasePin::Disconnect of the input pin of a stopped filter.
LEMMA DisconnectInIs ==
  ASSUME NEW s, PinsRight(s), s.dst = "stopped", s.in.conn
  PROVE  /\ PinsRight(DisconnectIn(s)) /\ ~DisconnectIn(s).in.conn /\ DisconnectIn(s).in.alloc = None
         /\ DisconnectIn(s).out = s.out /\ SameSession(DisconnectIn(s), s)
<1> DEFINE b == BreakConnectIn(s)
           r == DisconnectIn(s)
<1>1. PinsRight(b) /\ b.in.alloc = None /\ b.out = s.out /\ SameIn(b, s) /\ SameSession(b, s)
  BY BreakConnectInIs
<1>2. r = [b EXCEPT !.in.conn = FALSE]
  BY DEF DisconnectIn
<1> HIDE DEF b, r
<1>3. /\ DOMAIN r = DOMAIN b /\ r.out = b.out /\ r.src = b.src /\ r.dst = b.dst /\ r.refs = b.refs
      /\ r.committed = b.committed /\ DOMAIN r.in = DOMAIN b.in /\ r.in.alloc = b.in.alloc
      /\ r.in.flushing = b.in.flushing /\ r.in.error = b.in.error /\ ~r.in.conn
  BY <1>1, <1>2 DEF PinsRight, PinTypes
<1>4. PinsRight(r) /\ SameSession(r, s)
  BY <1>1, <1>3 DEF PinsRight, PinTypes, RefsRight, SameSession
<1> QED BY <1>1, <1>3, <1>4 DEF r

\* The connection is completed, or what it had got is undone.
LEMMA CompletedOrUndone ==
  ASSUME NEW s, PinsRight(s), s.src = "stopped", s.dst = "stopped", s.out.conn, s.out.iface, s.out.alloc = None,
         s.in.conn, s.in.alloc = None, s.out.type = s.in.type, s.out.type \in offer.out \cap offer.in, NEW fails
  PROVE  LET w == CompleteConnectOut(s, fails) IN
         /\ w.ok => Joined(w.s) /\ SameSession(w.s, s)
         /\ ~w.ok => NoPlug(Undo(DisconnectIn(w.s))) /\ SameSession(Undo(DisconnectIn(w.s)), s)
<1> DEFINE d == DecideAllocator(s, fails)
           w == CompleteConnectOut(s, fails)
<1>1. /\ PinsRight(d.s) /\ SameIn(d.s, s) /\ SameOut(d.s, s) /\ SameSession(d.s, s)
      /\ d.ok => d.s.out.alloc \in Allocators /\ d.s.in.alloc = d.s.out.alloc
      /\ ~d.ok => d.s.out.alloc = None
  BY DecideAllocatorIs
<1>2. w = d
  <2>1. w = IF d.ok /\ d.s.src # "stopped" THEN [d EXCEPT !.s.committed = @ \cup {d.s.out.alloc}] ELSE d
    BY DEF CompleteConnectOut
  <2> HIDE DEF d, w
  <2> QED BY <1>1, <2>1 DEF SameSession
<1> HIDE DEF d, w
<1>3. d.ok => Joined(d.s)
  BY <1>1 DEF SameIn, SameOut, Joined
<1>4. ASSUME ~d.ok PROVE NoPlug(Undo(DisconnectIn(d.s))) /\ SameSession(Undo(DisconnectIn(d.s)), s)
  <2> DEFINE c == DisconnectIn(d.s)
             u == Undo(c)
  <2>1. d.s.in.conn /\ d.s.dst = "stopped"
    BY <1>1 DEF SameIn, SameSession
  <2>2. PinsRight(c) /\ ~c.in.conn /\ c.in.alloc = None /\ SameSession(c, d.s)
    BY <1>1, <2>1, DisconnectInIs
  <2> HIDE DEF c
  <2>3. /\ PinsRight(u) /\ ~u.out.conn /\ ~u.out.iface /\ u.out.alloc = None /\ u.in = c.in /\ SameSession(u, c)
    BY <2>2, UndoIs
  <2> HIDE DEF u
  <2>4. NoPlug(u) /\ SameSession(u, s)
    BY <1>1, <2>2, <2>3 DEF NoPlug, SameSession
  <2> QED BY <2>4 DEF u, c
<1> QED BY <1>1, <1>2, <1>3, <1>4 DEF w

\* The three ways to fail before the output pin has completed its side, and the one that goes on.
LEMMA AttemptIs ==
  ASSUME NEW s, NoPlug(s), s.src = "stopped", s.dst = "stopped", NEW t, NEW fails
  PROVE  LET r == AttemptConnection(s, t, fails) IN
         /\ r.ok => Joined(r.s)
         /\ ~r.ok => NoPlug(r.s)
         /\ SameSession(r.s, s)
<1> DEFINE asked == [s EXCEPT !.out.iface = TRUE]
           mine  == [s EXCEPT !.out.iface = TRUE, !.out.conn = TRUE, !.out.type = IF "set_out" \in fails THEN @ ELSE t]
           other == ReceiveConnection(mine, t, fails)
           whole == CompleteConnectOut(other.s, fails)
           r == AttemptConnection(s, t, fails)
<1>1. r = IF "check" \in fails THEN [ok |-> FALSE, s |-> BreakConnectOut(s)]
          ELSE IF t \notin offer.out THEN [ok |-> FALSE, s |-> Undo(asked)]
          ELSE IF "set_out" \in fails THEN [ok |-> FALSE, s |-> Undo(mine)]
          ELSE IF ~other.ok THEN [ok |-> FALSE, s |-> Undo(other.s)]
          ELSE IF whole.ok THEN whole
          ELSE [ok |-> FALSE, s |-> Undo(DisconnectIn(whole.s))]
  BY DEF AttemptConnection
<1>2. PinTypes(s) /\ RefsRight(s) /\ PinsRight(s)
  BY DEF NoPlug, PinsRight
<1>3. /\ DOMAIN asked = DOMAIN s /\ asked.in = s.in /\ asked.src = s.src /\ asked.dst = s.dst /\ asked.refs = s.refs
      /\ asked.committed = s.committed /\ DOMAIN asked.out = DOMAIN s.out /\ asked.out.alloc = s.out.alloc
  BY <1>2 DEF PinTypes
<1>4. /\ DOMAIN mine = DOMAIN s /\ mine.in = s.in /\ mine.src = s.src /\ mine.dst = s.dst /\ mine.refs = s.refs
      /\ mine.committed = s.committed /\ DOMAIN mine.out = DOMAIN s.out /\ mine.out.alloc = s.out.alloc
      /\ mine.out.conn = TRUE /\ mine.out.iface = TRUE /\ ("set_out" \notin fails => mine.out.type = t)
  BY <1>2 DEF PinTypes
<1> HIDE DEF asked, mine, r
<1>5. PinsRight(asked) /\ SameSession(asked, s) /\ PinsRight(mine) /\ SameSession(mine, s)
  BY <1>2, <1>3, <1>4 DEF PinsRight, PinTypes, RefsRight, SameSession
<1>6. CASE "check" \in fails
  <2>1. ~r.ok /\ r.s = BreakConnectOut(s)
    BY <1>1, <1>6
  <2>2. /\ PinsRight(r.s) /\ r.s.out.alloc = None /\ ~r.s.out.iface /\ (r.s.out.conn <=> s.out.conn) /\ r.s.in = s.in
        /\ SameSession(r.s, s)
    BY <1>2, <2>1, BreakConnectOutIs
  <2>3. NoPlug(r.s)
    BY <2>2 DEF NoPlug
  <2> QED BY <2>1, <2>2, <2>3 DEF r
<1>7. CASE "check" \notin fails /\ t \notin offer.out
  <2>1. ~r.ok /\ r.s = Undo(asked)
    BY <1>1, <1>7
  <2>2. PinsRight(r.s) /\ ~r.s.out.conn /\ ~r.s.out.iface /\ r.s.out.alloc = None /\ r.s.in = asked.in /\ SameSession(r.s, asked)
    BY <1>5, <2>1, UndoIs
  <2>3. NoPlug(r.s) /\ SameSession(r.s, s)
    BY <1>3, <1>5, <2>2 DEF NoPlug, SameSession
  <2> QED BY <2>1, <2>3 DEF r
<1>8. CASE "check" \notin fails /\ t \in offer.out /\ "set_out" \in fails
  <2>1. ~r.ok /\ r.s = Undo(mine)
    BY <1>1, <1>8
  <2>2. PinsRight(r.s) /\ ~r.s.out.conn /\ ~r.s.out.iface /\ r.s.out.alloc = None /\ r.s.in = mine.in /\ SameSession(r.s, mine)
    BY <1>5, <2>1, UndoIs
  <2>3. NoPlug(r.s) /\ SameSession(r.s, s)
    BY <1>4, <1>5, <2>2 DEF NoPlug, SameSession
  <2> QED BY <2>1, <2>3 DEF r
<1>9. CASE "check" \notin fails /\ t \in offer.out /\ "set_out" \notin fails
  <2>1. ~mine.in.conn /\ mine.in.alloc = None /\ mine.dst = "stopped"
    BY <1>4 DEF NoPlug
  <2>2. /\ PinsRight(other.s) /\ other.s.out = mine.out /\ SameSession(other.s, mine) /\ other.s.in.alloc = None
        /\ other.ok => other.s.in.conn /\ other.s.in.type = t /\ t \in offer.in
        /\ ~other.ok => ~other.s.in.conn
    BY <1>5, <2>1, ReceiveConnectionIs
  <2> HIDE DEF other
  <2>3. CASE ~other.ok
    <3>1. ~r.ok /\ r.s = Undo(other.s)
      BY <1>1, <1>9, <2>3
    <3>2. PinsRight(r.s) /\ ~r.s.out.conn /\ ~r.s.out.iface /\ r.s.out.alloc = None /\ r.s.in = other.s.in /\ SameSession(r.s, other.s)
      BY <2>2, <3>1, UndoIs
    <3>3. NoPlug(r.s) /\ SameSession(r.s, s)
      BY <1>5, <2>2, <2>3, <3>2 DEF NoPlug, SameSession
    <3> QED BY <3>1, <3>3 DEF r
  <2>4. CASE other.ok
    <3>1. /\ other.s.src = "stopped" /\ other.s.dst = "stopped" /\ other.s.out.conn /\ other.s.out.iface
          /\ other.s.out.alloc = None /\ other.s.in.conn /\ other.s.in.alloc = None
          /\ other.s.out.type = other.s.in.type /\ other.s.out.type \in offer.out \cap offer.in
      BY <1>4, <1>5, <1>9, <2>2, <2>4 DEF NoPlug, SameSession
    <3>2. /\ whole.ok => Joined(whole.s) /\ SameSession(whole.s, other.s)
          /\ ~whole.ok => NoPlug(Undo(DisconnectIn(whole.s))) /\ SameSession(Undo(DisconnectIn(whole.s)), other.s)
      BY <2>2, <3>1, CompletedOrUndone
    <3>3. r = IF whole.ok THEN whole ELSE [ok |-> FALSE, s |-> Undo(DisconnectIn(whole.s))]
      BY <1>1, <1>9, <2>4
    <3> HIDE DEF whole
    <3>4. SameSession(other.s, s)
      BY <1>5, <2>2 DEF SameSession
    <3>5. (r.ok => Joined(r.s)) /\ (~r.ok => NoPlug(r.s)) /\ SameSession(r.s, other.s)
      BY <3>2, <3>3
    <3>6. SameSession(r.s, s)
      BY <3>4, <3>5 DEF SameSession
    <3> QED BY <3>5, <3>6 DEF r
  <2> QED BY <2>3, <2>4
<1> QED BY <1>6, <1>7, <1>8, <1>9

-----------------------------------------------------------------------------
(* Every attempt of AgreeMediaType.                                        *)

(* Induction over the natural numbers, for a set: its complement would     *)
(* have a least member.                                                    *)
LEMMA Induction ==
  ASSUME NEW S \in SUBSET Nat, 0 \in S, \A n \in S : n + 1 \in S
  PROVE  S = Nat
<1> DEFINE T == Nat \ S
<1>1. SUFFICES ASSUME T # {} PROVE FALSE
  OBVIOUS
<1>2. PICK x \in T : \A y \in T : <<y, x>> \notin OpToRel(<, Nat)
  <2>1. T \subseteq Nat
    OBVIOUS
  <2> HIDE DEF T
  <2> QED
    BY <1>1, <2>1, WFMin, NatLessThanWellFounded, Zenon
<1>3. \A y \in T : ~(y < x)
  <2> SUFFICES ASSUME NEW y \in T, y < x PROVE FALSE
    OBVIOUS
  <2>1. y \in Nat /\ x \in Nat
    OBVIOUS
  <2>2. <<y, x>> \in OpToRel(<, Nat)
    BY <2>1, Zenon DEF OpToRel
  <2> QED
    BY <1>2, <2>2, Zenon
<1>4. x - 1 \in Nat /\ x - 1 < x /\ x - 1 + 1 = x
  OBVIOUS
<1>5. x - 1 \in T
  <2>1. x - 1 \in S => x - 1 + 1 \in S
    BY Zenon
  <2> QED
    BY <1>4, <2>1
<1> QED
  BY <1>3, <1>4, <1>5


\* f[i] is what the first i attempts come to.
Tries(f, n, s, types, fails) ==
    f = [i \in 0 .. n |-> IF i = 0 THEN [ok |-> FALSE, s |-> s] ELSE TryNext(f[i - 1], types[i], fails)]

LEMMA TriesExist == \A s, types, fails : \A n \in Nat : \E f : Tries(f, n, s, types, fails)
<1> SUFFICES ASSUME NEW s, NEW types, NEW fails PROVE \A n \in Nat : \E f : Tries(f, n, s, types, fails)
  OBVIOUS
<1> DEFINE S == {n \in Nat : \E f : Tries(f, n, s, types, fails)}
<1>1. 0 \in S
  <2>1. Tries([i \in 0 .. 0 |-> [ok |-> FALSE, s |-> s]], 0, s, types, fails)
    BY DEF Tries
  <2> QED BY <2>1
<1>2. ASSUME NEW n \in S PROVE n + 1 \in S
  <2>1. PICK f : Tries(f, n, s, types, fails)
    OBVIOUS
  <2> DEFINE h == [i \in 0 .. n + 1 |-> IF i = n + 1 THEN TryNext(f[n], types[n + 1], fails) ELSE f[i]]
  <2>2. \A i \in 0 .. n : h[i] = f[i] /\ f[i] = IF i = 0 THEN [ok |-> FALSE, s |-> s] ELSE TryNext(f[i - 1], types[i], fails)
    <3>1. \A i \in 0 .. n : f[i] = IF i = 0 THEN [ok |-> FALSE, s |-> s] ELSE TryNext(f[i - 1], types[i], fails)
      BY <2>1, Zenon DEF Tries
    <3>2. \A i \in 0 .. n : i \in 0 .. n + 1 /\ i # n + 1
      OBVIOUS
    <3> QED BY <3>1, <3>2
  <2>3. \A i \in 0 .. n + 1 : h[i] = IF i = 0 THEN [ok |-> FALSE, s |-> s] ELSE TryNext(h[i - 1], types[i], fails)
    <3> SUFFICES ASSUME NEW i \in 0 .. n + 1
                 PROVE  h[i] = IF i = 0 THEN [ok |-> FALSE, s |-> s] ELSE TryNext(h[i - 1], types[i], fails)
      OBVIOUS
    <3>1. CASE i = n + 1
      <4>1. i # 0 /\ i - 1 = n /\ h[n] = f[n]
        BY <2>2, <3>1
      <4> QED BY <3>1, <4>1
    <3>2. CASE i # n + 1
      <4>1. i \in 0 .. n /\ (i # 0 => i - 1 \in 0 .. n)
        BY <3>2
      <4> QED BY <2>2, <4>1
    <3> QED BY <3>1, <3>2
  <2>4. Tries(h, n + 1, s, types, fails)
    BY <2>3 DEF Tries
  <2> QED BY <2>4
<1> HIDE DEF S
<1>3. S \in SUBSET Nat
  BY DEF S
<1>4. S = Nat
  BY <1>1, <1>2, <1>3, Induction
<1> QED BY <1>4 DEF S

\* Whatever is proposed and whatever fails, a connection is agreed as a whole or nothing is left of it.
LEMMA AgreeIs ==
  ASSUME NEW s, NoPlug(s), s.src = "stopped", s.dst = "stopped", NEW types, Len(types) \in Nat, NEW fails
  PROVE  LET r == AgreeMediaType(s, types, fails).s IN
         (NoPlug(r) \/ Joined(r)) /\ SameSession(r, s)
<1> DEFINE after == CHOOSE f : Tries(f, Len(types), s, types, fails)
           Good(r) == (r.ok => Joined(r.s)) /\ (~r.ok => NoPlug(r.s)) /\ SameSession(r.s, s)
<1>1. Tries(after, Len(types), s, types, fails)
  BY TriesExist
<1>2. AgreeMediaType(s, types, fails) = after[Len(types)]
  BY DEF AgreeMediaType, Tries
<1> HIDE DEF after
<1>3. \A i \in 0 .. Len(types) :
         after[i] = IF i = 0 THEN [ok |-> FALSE, s |-> s] ELSE TryNext(after[i - 1], types[i], fails)
  BY <1>1 DEF Tries
<1> DEFINE S == {i \in Nat : i <= Len(types) => Good(after[i])}
<1>4. 0 \in S
  <2>0. 0 \in 0 .. Len(types)
    OBVIOUS
  <2>1. after[0] = [ok |-> FALSE, s |-> s]
    BY <1>3, <2>0
  <2>2. SameSession(s, s)
    BY DEF SameSession
  <2> QED BY <2>1, <2>2
<1>5. ASSUME NEW i \in S PROVE i + 1 \in S
  <2> SUFFICES ASSUME i + 1 <= Len(types) PROVE Good(after[i + 1])
    OBVIOUS
  <2>1. i + 1 \in 0 .. Len(types) /\ i + 1 # 0 /\ i + 1 - 1 = i /\ i \in Nat /\ i <= Len(types)
    OBVIOUS
  <2>2. Good(after[i])
    BY <2>1
  <2>3. after[i + 1] = TryNext(after[i], types[i + 1], fails)
    BY <1>3, <2>1
  <2> HIDE DEF S
  <2> DEFINE last == after[i]
             t == types[i + 1]
  <2>4. CASE last.ok
    BY <2>2, <2>3, <2>4 DEF TryNext
  <2>5. CASE ~last.ok
    <3>1. after[i + 1] = AttemptConnection(last.s, t, fails)
      BY <2>3, <2>5 DEF TryNext
    <3>2. NoPlug(last.s) /\ last.s.src = "stopped" /\ last.s.dst = "stopped" /\ SameSession(last.s, s)
      BY <2>2, <2>5 DEF SameSession
    <3> HIDE DEF last, t
    <3> DEFINE r == AttemptConnection(last.s, t, fails)
    <3>3. (r.ok => Joined(r.s)) /\ (~r.ok => NoPlug(r.s)) /\ SameSession(r.s, last.s)
      BY <3>2, AttemptIs
    <3> HIDE DEF r
    <3>4. SameSession(r.s, s)
      BY <3>2, <3>3 DEF SameSession
    <3> QED BY <3>1, <3>3, <3>4 DEF r
  <2> QED BY <2>4, <2>5
<1> HIDE DEF S
<1>6. S \in SUBSET Nat
  BY DEF S
<1>7. S = Nat
  BY <1>4, <1>5, <1>6, Induction
<1>8. Good(after[Len(types)])
  BY <1>7 DEF S
<1> QED BY <1>2, <1>8

LEMMA SetToSeqIs ==
  ASSUME NEW S, IsFiniteSet(S)
  PROVE  SetToSeq(S) \in Seq(S)
<1> DEFINE n == Cardinality(S)
<1>1. n \in Nat /\ ExistsBijection(1 .. n, S)
  BY FS_CardinalityType
<1>2. \E f \in [1 .. n -> S] : IsInjective(f)
  BY <1>1 DEF ExistsBijection, Bijection, Injection, Surjection, IsInjective
<1>3. SetToSeq(S) \in [1 .. n -> S]
  BY <1>2, Zenon DEF SetToSeq
<1> QED BY <1>1, <1>3

LEMMA ProposalsEnd == ASSUME offer.out \subseteq Types, offer.in \subseteq Types PROVE Len(Proposals) \in Nat
<1> DEFINE listed(S) == SetToSeq(S \cap offer.partial)
<1>1. ASSUME NEW S \in SUBSET Types PROVE listed(S) \in Seq(Types)
  <2>1. IsFiniteSet(S \cap offer.partial) /\ S \cap offer.partial \subseteq Types
    BY FS_Subset, TypesAssumption
  <2>2. listed(S) \in Seq(S \cap offer.partial)
    BY <2>1, SetToSeqIs
  <2> HIDE DEF listed
  <2> QED BY <2>1, <2>2
<1>2. listed(offer.out) \in Seq(Types) /\ listed(offer.in) \in Seq(Types)
  BY <1>1
<1>3. Proposals = IF offer.mineFirst THEN listed(offer.out) \o listed(offer.in) ELSE listed(offer.in) \o listed(offer.out)
  BY DEF Proposals
<1> HIDE DEF listed
<1>4. Proposals \in Seq(Types)
  BY <1>2, <1>3
<1> QED BY <1>4

-----------------------------------------------------------------------------
(* The graph manager starts, stops and disconnects what it has connected.  *)

\* The first of the two calls that disconnect has been made.
HalfUnplugged(s) == PinsRight(s) /\ ~s.out.conn /\ ~s.out.iface /\ s.out.alloc = None /\ s.in.conn

Holds(s) == IF s.out.conn THEN {s.out.alloc} ELSE {}

\* What each stage of the graph leaves of the connection, of the states of its filters and of the committed buffers.
PlugInv ==
    /\ graph = "unplugging" => HalfUnplugged(g)
    /\ graph # "unplugging" => NoPlug(g) \/ Joined(g)

StageInv ==
    /\ graph \in {"rest", "unplugging", "starting", "active", "halting", "stopping"}
    /\ graph \in {"rest", "unplugging", "starting"} => g.src = "stopped" /\ g.committed = {}
    /\ graph \in {"rest", "unplugging"} => g.dst = "stopped"
    /\ graph \in {"starting", "active", "halting"} => g.dst # "stopped"
    /\ graph = "active" => g.src # "stopped" /\ g.committed = Holds(g)
    /\ graph = "stopping" => g.committed \subseteq Holds(g)
    /\ g.dst = "stopped" \/ graph = "halting" => g.committed = {}

\* What is left of a session, and of a Receive that its end overtook, in a pin that is not in use: the source is not
\* stopped while its thread is in the call.
LeftInv ==
    /\ g.dst = "stopped" \/ graph = "halting" \/ ~g.in.conn =>
          /\ g.in.error => "error" \in outlived
          /\ g.in.flushing => flush \/ "flush" \in outlived
    /\ ~g.out.conn /\ g.in.flushing => "flush" \in outlived
    /\ receiving # "none" => g.src # "stopped" /\ g.in.conn
    /\ receiving # "none" /\ (g.dst = "stopped" \/ graph = "halting") => receiving = "overtaken"

OfferInv == offer.out \subseteq Types /\ offer.in \subseteq Types

PinsInv == OfferInv /\ PlugInv /\ StageInv /\ LeftInv

\* A call that leaves the connection alone.
SamePlug(r, s) ==
    /\ DOMAIN r = DOMAIN s /\ r.out = s.out /\ r.refs = s.refs
    /\ DOMAIN r.in = DOMAIN s.in /\ (r.in.conn <=> s.in.conn) /\ r.in.type = s.in.type /\ r.in.alloc = s.in.alloc
    /\ r.committed \subseteq s.committed \cup Holds(s)
    /\ r.src \in {"stopped", "paused", "running"} /\ r.dst \in {"stopped", "paused", "running"}

LEMMA PlugKept ==
  ASSUME NEW s, NEW r, SamePlug(r, s), NoPlug(s) \/ Joined(s)
  PROVE  (NoPlug(r) \/ Joined(r)) /\ Holds(r) = Holds(s)
<1>1. PinTypes(s) /\ RefsRight(s) /\ PinsRight(s)
  BY DEF NoPlug, Joined, PinsRight
<1>2. Holds(s) \subseteq Allocators /\ Holds(r) = Holds(s)
  BY DEF NoPlug, Joined, Holds, SamePlug
<1>3. PinsRight(r)
  BY <1>1, <1>2 DEF PinsRight, PinTypes, RefsRight, SamePlug
<1>4. CASE NoPlug(s)
  BY <1>2, <1>3, <1>4 DEF NoPlug, SamePlug
<1>5. CASE Joined(s)
  <2>1. r.out = s.out /\ r.in.conn /\ r.in.type = s.in.type /\ r.in.alloc = s.in.alloc
    BY <1>5 DEF Joined, SamePlug
  <2>2. Joined(r)
    BY <1>3, <1>5, <2>1 DEF Joined
  <2> QED BY <1>2, <2>2
<1> QED BY <1>4, <1>5

\* What the type of the record says of its fields.
LEMMA PinsTyped == ASSUME PinsInv PROVE PinTypes(g) /\ PinsRight(g)
  BY DEF PinsInv, PlugInv, NoPlug, Joined, HalfUnplugged, PinsRight

LEMMA PinsInitially == ASSUME ConnInit PROVE PinsInv
<1>1. /\ DOMAIN g = {"out", "in", "refs", "committed", "src", "dst"}
      /\ DOMAIN g.out = {"conn", "type", "alloc", "iface"} /\ DOMAIN g.in = {"conn", "type", "alloc", "flushing", "error"}
      /\ ~g.out.conn /\ ~g.out.iface /\ g.out.alloc = None
      /\ ~g.in.conn /\ g.in.alloc = None /\ ~g.in.flushing /\ ~g.in.error
      /\ g.refs = [a \in Allocators |-> 0] /\ g.committed = {} /\ g.src = "stopped" /\ g.dst = "stopped"
  BY DEF ConnInit, Unplugged
<1>2. None \notin Allocators
  BY DEF Allocators, None
<1>3. PinTypes(g)
  BY <1>1 DEF PinTypes
<1>4. RefsRight(g)
  BY <1>1, <1>2 DEF RefsRight
<1>5. NoPlug(g)
  BY <1>1, <1>3, <1>4 DEF NoPlug, PinsRight
<1>6. graph = "rest" /\ offer.out \subseteq Types /\ offer.in \subseteq Types /\ receiving = "none"
  BY DEF ConnInit
<1>7. LeftInv
  BY <1>1, <1>6, Zenon DEF LeftInv
<1> QED BY <1>1, <1>5, <1>6, <1>7 DEF PinsInv, OfferInv, PlugInv, StageInv, Holds

\* A call that neither sets nor clears a flag, and leaves the thread in its call where it is.
LEMMA LeftKept ==
  ASSUME LeftInv, pushvars' = pushvars, g'.in.flushing <=> g.in.flushing, g'.in.error <=> g.in.error,
         g'.dst = "stopped" \/ graph' = "halting" \/ ~g'.in.conn => g.dst = "stopped" \/ graph = "halting" \/ ~g.in.conn,
         receiving # "none" => g'.src # "stopped" /\ g'.in.conn, g.out.conn => g'.out.conn,
         receiving # "none" /\ (g'.dst = "stopped" \/ graph' = "halting") => g.dst = "stopped" \/ graph = "halting"
  PROVE  LeftInv'
<1>1. receiving' = receiving /\ flush' = flush /\ outlived' = outlived
  BY DEF pushvars
<1> QED BY <1>1, Zenon DEF LeftInv

LEMMA ConnectStep ==
  ASSUME PinsInv, ~Dynamic, ConnectType \/ ConnectAny PROVE PinsInv'
<1>0. ASSUME NEW types, Connect(types)
      PROVE  \E fails :
                /\ ~g.out.conn /\ ~g.in.conn /\ graph = "rest" /\ g' = AgreeMediaType(g, types, fails).s
                /\ graph' = graph /\ offer' = offer /\ pushvars' = pushvars
  BY <1>0, Zenon DEF Connect
<1>1. PICK types, fails :
         /\ Len(types) \in Nat
         /\ ~g.out.conn /\ ~g.in.conn /\ graph = "rest" /\ g' = AgreeMediaType(g, types, fails).s
         /\ graph' = graph /\ offer' = offer /\ pushvars' = pushvars
  <2>1. CASE ConnectType
    <3>1. PICK t \in Types : Connect(<<t>>)
      BY <2>1 DEF ConnectType
    <3>2. Len(<<t>>) \in Nat
      OBVIOUS
    <3> QED BY <1>0, <3>1, <3>2
  <2>2. CASE ConnectAny
    <3>1. Len(Proposals) \in Nat
      BY ProposalsEnd DEF PinsInv, OfferInv
    <3> HIDE DEF Proposals
    <3> QED BY <1>0, <2>2, <3>1 DEF ConnectAny
  <2> QED BY <2>1, <2>2
<1>2. /\ NoPlug(g) /\ g.src = "stopped" /\ g.dst = "stopped" /\ g.committed = {} /\ receiving = "none"
  BY <1>1 DEF PinsInv, PlugInv, StageInv, LeftInv, Joined
<1>3. (NoPlug(g') \/ Joined(g')) /\ SameSession(g', g)
  BY <1>1, <1>2, AgreeIs
<1>4. /\ g'.src = "stopped" /\ g'.dst = "stopped" /\ g'.committed = {}
      /\ (g'.in.flushing <=> g.in.flushing) /\ (g'.in.error <=> g.in.error)
  BY <1>2, <1>3 DEF SameSession
<1>5. OfferInv'
  BY <1>1 DEF PinsInv, OfferInv
<1>6. PlugInv'
  BY <1>1, <1>3 DEF PlugInv, Joined
<1>7. StageInv'
  BY <1>1, <1>4 DEF StageInv
<1>8. LeftInv'
  BY <1>1, <1>2, <1>4, LeftKept DEF PinsInv
<1> QED BY <1>5, <1>6, <1>7, <1>8 DEF PinsInv

LEMMA UnplugStep == ASSUME PinsInv, Unplug PROVE PinsInv'
<1> DEFINE b == BreakConnectOut(g)
<1>1. /\ graph = "rest" /\ g.out.conn /\ g' = [b EXCEPT !.out.conn = FALSE] /\ graph' = "unplugging" /\ offer' = offer
      /\ outlived' = (IF g.in.flushing THEN outlived \cup {"flush"} ELSE outlived) /\ receiving' = receiving
  BY DEF Unplug
<1>2. /\ Joined(g) /\ g.src = "stopped" /\ g.dst = "stopped" /\ g.committed = {} /\ receiving = "none"
  BY <1>1 DEF PinsInv, PlugInv, StageInv, LeftInv, NoPlug
<1>3. PinsRight(g)
  BY <1>2 DEF Joined
<1>4. /\ PinsRight(Undo(g)) /\ ~Undo(g).out.conn /\ ~Undo(g).out.iface /\ Undo(g).out.alloc = None
      /\ Undo(g).in = g.in /\ SameSession(Undo(g), g)
  BY <1>3, UndoIs
<1>5. g' = Undo(g)
  BY <1>1 DEF Undo
<1>6. HalfUnplugged(g') /\ SameSession(g', g)
  BY <1>2, <1>4, <1>5 DEF HalfUnplugged, Joined
<1>7. /\ g'.src = "stopped" /\ g'.dst = "stopped" /\ g'.committed = {}
      /\ (g'.in.flushing <=> g.in.flushing) /\ (g'.in.error <=> g.in.error)
  BY <1>2, <1>6 DEF SameSession
<1>8. OfferInv' /\ PlugInv'
  BY <1>1, <1>6 DEF PinsInv, OfferInv, PlugInv
<1>9. StageInv'
  BY <1>1, <1>7 DEF StageInv
<1>10. LeftInv'
  <2>1. (g.in.error => "error" \in outlived) /\ receiving' = "none"
    BY <1>1, <1>2 DEF PinsInv, LeftInv
  <2>2. CASE g.in.flushing
    <3>1. outlived' = outlived \cup {"flush"}
      BY <1>1, <2>2, Zenon
    <3> QED BY <1>7, <2>1, <3>1 DEF LeftInv
  <2>3. CASE ~g.in.flushing
    <3>1. outlived' = outlived /\ ~g'.in.flushing
      BY <1>1, <1>7, <2>3, Zenon
    <3> QED BY <1>7, <2>1, <3>1 DEF LeftInv
  <2> QED BY <2>2, <2>3
<1> QED BY <1>8, <1>9, <1>10 DEF PinsInv

LEMMA UnplugOtherStep == ASSUME PinsInv, UnplugOther PROVE PinsInv'
<1>1. graph = "unplugging" /\ g' = DisconnectIn(g) /\ graph' = "rest" /\ offer' = offer /\ pushvars' = pushvars
  BY DEF UnplugOther
<1>2. /\ HalfUnplugged(g) /\ g.src = "stopped" /\ g.dst = "stopped" /\ g.committed = {} /\ receiving = "none"
  BY <1>1 DEF PinsInv, PlugInv, StageInv, LeftInv
<1>3. PinsRight(g) /\ g.in.conn
  BY <1>2 DEF HalfUnplugged
<1>4. PinsRight(g') /\ ~g'.in.conn /\ g'.in.alloc = None /\ g'.out = g.out /\ SameSession(g', g)
  BY <1>1, <1>2, <1>3, DisconnectInIs
<1>5. NoPlug(g')
  BY <1>2, <1>4 DEF HalfUnplugged, NoPlug
<1>6. /\ g'.src = "stopped" /\ g'.dst = "stopped" /\ g'.committed = {}
      /\ (g'.in.flushing <=> g.in.flushing) /\ (g'.in.error <=> g.in.error)
  BY <1>2, <1>4 DEF SameSession
<1>7. OfferInv' /\ PlugInv'
  BY <1>1, <1>5 DEF PinsInv, OfferInv, PlugInv
<1>8. StageInv'
  BY <1>1, <1>6 DEF StageInv
<1>9. LeftInv'
  BY <1>1, <1>2, <1>4, <1>6, LeftKept DEF PinsInv
<1> QED BY <1>7, <1>8, <1>9 DEF PinsInv

\* The other calls leave the connection as it is: what remains is the stage of the graph.
LEMMA PlugStays ==
  ASSUME PinsInv, graph # "unplugging", graph' # "unplugging", SamePlug(g', g), offer' = offer
  PROVE  OfferInv' /\ PlugInv' /\ Holds(g') = Holds(g)
<1>1. (NoPlug(g') \/ Joined(g')) /\ Holds(g') = Holds(g)
  BY PlugKept DEF PinsInv, PlugInv
<1>2. PlugInv'
  BY <1>1 DEF PlugInv, Joined
<1>3. OfferInv'
  BY DEF PinsInv, OfferInv
<1> QED BY <1>1, <1>2, <1>3

LEMMA PauseReceiverStep == ASSUME PinsInv, PauseReceiver PROVE PinsInv'
<1>1. /\ graph = "rest" /\ g' = [g EXCEPT !.dst = "paused"] /\ graph' = "starting" /\ offer' = offer
      /\ pushvars' = pushvars
  BY DEF PauseReceiver
<1>2. PinTypes(g) /\ StageInv
  BY PinsTyped DEF PinsInv
<1>3. /\ DOMAIN g' = DOMAIN g /\ g'.out = g.out /\ g'.in = g.in /\ g'.refs = g.refs /\ g'.committed = g.committed
      /\ g'.src = g.src /\ g'.dst = "paused"
  BY <1>1, <1>2 DEF PinTypes
<1>4. SamePlug(g', g)
  BY <1>2, <1>3 DEF SamePlug, PinTypes
<1>5. OfferInv' /\ PlugInv'
  BY <1>1, <1>4, PlugStays
<1>6. StageInv'
  BY <1>1, <1>2, <1>3 DEF StageInv
<1>7. LeftInv'
  <2>1. g'.in = g.in /\ g'.out = g.out /\ g'.dst # "stopped" /\ graph' # "halting"
    BY <1>1, <1>3
  <2>2. receiving # "none" => g'.src # "stopped" /\ g'.in.conn
    BY <1>1, <1>2, <1>3 DEF PinsInv, LeftInv, StageInv
  <2> QED BY <1>1, <2>1, <2>2, LeftKept DEF PinsInv
<1> QED BY <1>5, <1>6, <1>7 DEF PinsInv

LEMMA PauseSourceStep == ASSUME PinsInv, PauseSource PROVE PinsInv'
<1>1. graph = "starting" /\ offer' = offer /\ pushvars' = pushvars
  BY DEF PauseSource
<1>2. PinTypes(g) /\ StageInv
  BY PinsTyped DEF PinsInv
<1>3. /\ g.src = "stopped" /\ g.dst # "stopped" /\ g.committed = {}
      /\ receiving = "none"
  BY <1>1, <1>2 DEF StageInv, PinsInv, LeftInv
<1>4. /\ DOMAIN g' = DOMAIN g /\ g'.out = g.out /\ g'.in = g.in /\ g'.refs = g.refs /\ g'.dst = g.dst
      /\ \/ g'.src = "paused" /\ g'.committed = Holds(g) /\ graph' = "active"
         \/ g'.src = "stopped" /\ g'.committed \subseteq Holds(g) /\ graph' = "stopping"
  <2>1. CASE /\ g' = [g EXCEPT !.src = "paused", !.committed = IF g.out.conn THEN @ \cup {g.out.alloc} ELSE @]
             /\ graph' = "active"
    BY <1>2, <1>3, <2>1 DEF PinTypes, Holds
  <2>2. CASE /\ g' \in {g, [g EXCEPT !.committed = IF g.out.conn THEN @ \cup {g.out.alloc} ELSE @]}
             /\ graph' = "stopping"
    BY <1>2, <1>3, <2>2 DEF PinTypes, Holds
  <2> QED BY <2>1, <2>2 DEF PauseSource
<1>5. SamePlug(g', g)
  BY <1>2, <1>3, <1>4 DEF SamePlug, PinTypes
<1>6. OfferInv' /\ PlugInv' /\ Holds(g') = Holds(g)
  BY <1>1, <1>4, <1>5, PlugStays
<1>7. StageInv'
  BY <1>3, <1>4, <1>6 DEF StageInv
<1>8. LeftInv'
  <2>1. g'.in = g.in /\ g'.out = g.out /\ g'.dst # "stopped" /\ graph' # "halting"
    BY <1>3, <1>4
  <2> QED BY <1>1, <1>3, <2>1, LeftKept DEF PinsInv
<1> QED BY <1>6, <1>7, <1>8 DEF PinsInv

LEMMA RunStep == ASSUME PinsInv, Run PROVE PinsInv'
<1>1. /\ graph = "active" /\ g' = [g EXCEPT !.src = "running", !.dst = "running"] /\ graph' = graph /\ offer' = offer
      /\ pushvars' = pushvars
  BY DEF Run
<1>2. PinTypes(g) /\ StageInv
  BY PinsTyped DEF PinsInv
<1>3. /\ DOMAIN g' = DOMAIN g /\ g'.out = g.out /\ g'.in = g.in /\ g'.refs = g.refs /\ g'.committed = g.committed
      /\ g'.src = "running" /\ g'.dst = "running"
  BY <1>1, <1>2 DEF PinTypes
<1>4. SamePlug(g', g)
  BY <1>2, <1>3 DEF SamePlug, PinTypes
<1>5. OfferInv' /\ PlugInv' /\ Holds(g') = Holds(g)
  BY <1>1, <1>4, PlugStays
<1>6. StageInv'
  BY <1>1, <1>2, <1>3, <1>5 DEF StageInv
<1>7. LeftInv'
  <2>1. g'.in = g.in /\ g'.out = g.out /\ g'.dst # "stopped" /\ graph' # "halting"
    BY <1>1, <1>3
  <2>2. receiving # "none" => g'.src # "stopped" /\ g'.in.conn
    BY <1>1, <1>2, <1>3 DEF PinsInv, LeftInv, StageInv
  <2> QED BY <1>1, <2>1, <2>2, LeftKept DEF PinsInv
<1> QED BY <1>5, <1>6, <1>7 DEF PinsInv

\* Inactive of the input pin: it holds the allocator that its connection has committed.
LEMMA StopReceiverStep == ASSUME PinsInv, StopReceiver PROVE PinsInv'
<1>1. /\ graph \in {"active", "stopping"} /\ g.dst # "stopped" /\ g' = InactiveIn(g) /\ graph' = "halting" /\ offer' = offer
      /\ receiving' = Overtaken /\ outlived' = (IF g.in.conn THEN {} ELSE outlived) /\ flush' = flush
  BY DEF StopReceiver
<1>2. PinTypes(g) /\ StageInv /\ LeftInv
  BY PinsTyped DEF PinsInv
<1>3. NoPlug(g) \/ Joined(g)
  BY <1>1 DEF PinsInv, PlugInv
<1>4. g.committed \subseteq Holds(g)
  BY <1>1, <1>2 DEF StageInv
<1>5. /\ g.in.conn => g.in.alloc \in Allocators /\ Holds(g) = {g.in.alloc}
      /\ ~g.in.conn => Holds(g) = {}
  BY <1>3 DEF NoPlug, Joined, Holds
<1>6. /\ DOMAIN g' = DOMAIN g /\ g'.out = g.out /\ g'.refs = g.refs /\ g'.src = g.src /\ g'.dst = g.dst
      /\ g'.committed = (IF g.in.conn THEN g.committed \ {g.in.alloc} ELSE g.committed)
      /\ DOMAIN g'.in = DOMAIN g.in /\ g'.in.conn = g.in.conn /\ g'.in.type = g.in.type /\ g'.in.alloc = g.in.alloc
      /\ g'.in.error = (IF g.in.conn THEN FALSE ELSE g.in.error)
      /\ g'.in.flushing = (IF g.in.conn /\ g.in.alloc # None THEN FALSE ELSE g.in.flushing)
  BY <1>1, <1>2 DEF InactiveIn, PinTypes
<1>7. None \notin Allocators
  BY DEF Allocators, None
<1>8. g'.committed = {}
  <2>1. CASE g.in.conn
    BY <1>4, <1>5, <1>6, <1>7, <2>1
  <2>2. CASE ~g.in.conn
    BY <1>4, <1>5, <1>6, <1>7, <2>2
  <2> QED BY <2>1, <2>2
<1>9. SamePlug(g', g)
  BY <1>2, <1>6, <1>8 DEF SamePlug, PinTypes
<1>10. OfferInv' /\ PlugInv'
  BY <1>1, <1>9, PlugStays
<1>11. StageInv'
  BY <1>1, <1>6, <1>8 DEF StageInv
<1>12. LeftInv'
  <2>1. receiving' \in {"none", "overtaken"} /\ (receiving' # "none" => receiving # "none")
    BY <1>1 DEF Overtaken
  <2>2. receiving' # "none" => g'.src # "stopped" /\ g'.in.conn
    BY <1>2, <1>6, <2>1, Zenon DEF LeftInv
  <2>3. CASE g.in.conn
    <3>1. g.in.alloc # None
      BY <1>5, <1>7, <2>3
    <3>2. ~g'.in.error /\ ~g'.in.flushing
      BY <1>6, <2>3, <3>1
    <3> QED BY <2>1, <2>2, <3>2, Zenon DEF LeftInv
  <2>4. CASE ~g.in.conn
    <3>1. g'.in.error = g.in.error /\ g'.in.flushing = g.in.flushing /\ outlived' = outlived /\ g'.out = g.out
      BY <1>1, <1>6, <2>4
    <3> QED BY <1>1, <1>2, <2>1, <2>2, <2>4, <3>1, Zenon DEF LeftInv
  <2> QED BY <2>3, <2>4
<1> QED BY <1>10, <1>11, <1>12 DEF PinsInv

LEMMA ReceiverStoppedStep == ASSUME PinsInv, ReceiverStopped PROVE PinsInv'
<1>1. graph = "halting" /\ g' = [g EXCEPT !.dst = "stopped"] /\ graph' = "stopping" /\ offer' = offer /\ pushvars' = pushvars
  BY DEF ReceiverStopped
<1>2. PinTypes(g) /\ StageInv
  BY PinsTyped DEF PinsInv
<1>3. /\ DOMAIN g' = DOMAIN g /\ g'.out = g.out /\ g'.in = g.in /\ g'.refs = g.refs /\ g'.committed = g.committed
      /\ g'.src = g.src /\ g'.dst = "stopped"
  BY <1>1, <1>2 DEF PinTypes
<1>4. SamePlug(g', g)
  BY <1>2, <1>3 DEF SamePlug, PinTypes
<1>5. OfferInv' /\ PlugInv'
  BY <1>1, <1>4, PlugStays
<1>6. StageInv'
  BY <1>1, <1>2, <1>3 DEF StageInv
<1>7. LeftInv'
  <2>1. receiving # "none" => g'.src # "stopped" /\ g'.in.conn
    BY <1>3 DEF PinsInv, LeftInv
  <2> QED BY <1>1, <1>3, <2>1, LeftKept DEF PinsInv
<1> QED BY <1>5, <1>6, <1>7 DEF PinsInv

LEMMA StopSourceStep == ASSUME PinsInv, StopSource PROVE PinsInv'
<1>1. /\ graph = "stopping" /\ g.dst = "stopped" /\ receiving = "none" /\ graph' = "rest" /\ offer' = offer
      /\ g' = [g EXCEPT !.src = "stopped",
                        !.committed = IF g.out.conn /\ g.src # "stopped" THEN @ \ {g.out.alloc} ELSE @]
      /\ pushvars' = pushvars
  BY DEF StopSource
<1>2. PinTypes(g) /\ StageInv
  BY PinsTyped DEF PinsInv
<1>3. g.committed = {}
  BY <1>1, <1>2 DEF StageInv
<1>4. /\ DOMAIN g' = DOMAIN g /\ g'.out = g.out /\ g'.in = g.in /\ g'.refs = g.refs /\ g'.committed = {}
      /\ g'.src = "stopped" /\ g'.dst = g.dst
  BY <1>1, <1>2, <1>3 DEF PinTypes
<1>5. SamePlug(g', g)
  BY <1>2, <1>4 DEF SamePlug, PinTypes
<1>6. OfferInv' /\ PlugInv'
  BY <1>1, <1>5, PlugStays
<1>7. StageInv'
  BY <1>1, <1>3, <1>4 DEF StageInv
<1>8. LeftInv'
  BY <1>1, <1>4, LeftKept DEF PinsInv
<1> QED BY <1>6, <1>7, <1>8 DEF PinsInv

\* The thread in Receive touches no more than the error flag of a pin that stays connected while it is there.
LEMMA ReceiveStep == ASSUME PinsInv, Receive \/ ReceiveDone PROVE PinsInv'
<1>1. g' = g /\ graph' = graph /\ offer' = offer /\ flush' = flush /\ outlived' = outlived
  BY DEF Receive, ReceiveDone
<1>2. OfferInv' /\ PlugInv' /\ StageInv'
  BY <1>1 DEF PinsInv, OfferInv, PlugInv, StageInv, Joined
<1>3. LeftInv'
  <2>1. CASE Receive
    <3>1. /\ g.src # "stopped" /\ g.in.conn /\ g.dst # "stopped"
          /\ receiving' = (IF graph = "halting" THEN "overtaken" ELSE "passed")
      BY <2>1 DEF Receive, CheckStreaming
    <3>2. /\ g'.src # "stopped" /\ g'.in.conn /\ g'.dst # "stopped" /\ (graph' = "halting" => receiving' = "overtaken")
      BY <1>1, <3>1
    <3>3. /\ graph = "halting" => (g.in.error => "error" \in outlived) /\ (g.in.flushing => flush \/ "flush" \in outlived)
          /\ ~g.out.conn /\ g.in.flushing => "flush" \in outlived
      BY Zenon DEF PinsInv, LeftInv
    <3>4. /\ graph' = "halting" => (g'.in.error => "error" \in outlived') /\ (g'.in.flushing => flush' \/ "flush" \in outlived')
          /\ ~g'.out.conn /\ g'.in.flushing => "flush" \in outlived'
      BY <1>1, <3>3
    <3> QED BY <3>2, <3>4, Zenon DEF LeftInv
  <2>2. CASE ReceiveDone
    <3>1. receiving' = "none"
      BY <2>2 DEF ReceiveDone
    <3> QED BY <1>1, <3>1, Zenon DEF PinsInv, LeftInv
  <2> QED BY <2>1, <2>2
<1> QED BY <1>2, <1>3 DEF PinsInv

\* A step that sets or clears the flags of the input pin and nothing else there.
FlagsOnly(r, s) ==
    /\ DOMAIN r = DOMAIN s /\ r.out = s.out /\ r.refs = s.refs /\ r.src = s.src /\ r.dst = s.dst
    /\ r.committed = s.committed
    /\ DOMAIN r.in = DOMAIN s.in /\ r.in.conn = s.in.conn /\ r.in.type = s.in.type /\ r.in.alloc = s.in.alloc

LEMMA FlagsKeepPlug ==
  ASSUME PinsInv, graph # "unplugging", graph' = graph, offer' = offer, FlagsOnly(g', g)
  PROVE  OfferInv' /\ PlugInv' /\ StageInv'
<1>1. PinTypes(g) /\ StageInv
  BY PinsTyped DEF PinsInv
<1>2. SamePlug(g', g)
  BY <1>1 DEF SamePlug, FlagsOnly, PinTypes
<1>3. OfferInv' /\ PlugInv' /\ Holds(g') = Holds(g)
  BY <1>2, PlugStays
<1>4. StageInv'
  BY <1>1, <1>3 DEF StageInv, FlagsOnly
<1> QED BY <1>3, <1>4

LEMMA ReceiveRefusedStep == ASSUME PinsInv, ReceiveRefused PROVE PinsInv'
<1>1. /\ receiving # "none" /\ g' = [g EXCEPT !.in.error = TRUE] /\ receiving' = "none"
      /\ outlived' = (IF receiving = "overtaken" THEN outlived \cup {"error"} ELSE outlived)
      /\ graph' = graph /\ offer' = offer /\ flush' = flush
  BY DEF ReceiveRefused
<1>2. PinTypes(g) /\ StageInv /\ LeftInv
  BY PinsTyped DEF PinsInv
<1>3. FlagsOnly(g', g) /\ g'.in.error /\ g'.in.flushing = g.in.flushing
  BY <1>1, <1>2 DEF FlagsOnly, PinTypes
<1>4. g.src # "stopped" /\ g.in.conn
  BY <1>1, <1>2 DEF LeftInv
<1>5. graph # "unplugging"
  BY <1>2, <1>4 DEF StageInv
<1>6. OfferInv' /\ PlugInv' /\ StageInv'
  BY <1>1, <1>3, <1>5, FlagsKeepPlug
<1>7. ASSUME g'.dst = "stopped" \/ graph' = "halting" \/ ~g'.in.conn
      PROVE  "error" \in outlived' /\ (g'.in.flushing => flush' \/ "flush" \in outlived')
  <2>1. g.dst = "stopped" \/ graph = "halting"
    BY <1>1, <1>3, <1>4, <1>7 DEF FlagsOnly
  <2>2. receiving = "overtaken"
    BY <1>1, <1>2, <2>1 DEF LeftInv
  <2>3. outlived' = outlived \cup {"error"}
    BY <1>1, <2>2
  <2>4. g.in.flushing => flush \/ "flush" \in outlived
    BY <1>2, <2>1, Zenon DEF LeftInv
  <2> QED BY <1>1, <1>3, <2>3, <2>4
<1>8. ~g'.out.conn /\ g'.in.flushing => "flush" \in outlived'
  <2>1. ~g.out.conn /\ g.in.flushing => "flush" \in outlived
    BY <1>2, Zenon DEF LeftInv
  <2>2. outlived \subseteq outlived' /\ g'.out.conn = g.out.conn /\ g'.in.flushing = g.in.flushing
    BY <1>1, <1>3 DEF FlagsOnly
  <2> QED BY <2>1, <2>2
<1>9. LeftInv'
  BY <1>1, <1>7, <1>8, Zenon DEF LeftInv
<1> QED BY <1>6, <1>9 DEF PinsInv

LEMMA BeginFlushStep == ASSUME PinsInv, BeginFlush PROVE PinsInv'
<1>1. /\ g.out.conn /\ g' = [g EXCEPT !.in.flushing = TRUE] /\ flush' = TRUE
      /\ graph' = graph /\ offer' = offer /\ receiving' = receiving /\ outlived' = outlived
  BY DEF BeginFlush
<1>2. PinTypes(g) /\ PlugInv /\ LeftInv
  BY PinsTyped DEF PinsInv
<1>3. FlagsOnly(g', g) /\ g'.in.error = g.in.error
  BY <1>1, <1>2 DEF FlagsOnly, PinTypes
<1>4. graph # "unplugging"
  BY <1>1, <1>2 DEF PlugInv, HalfUnplugged
<1>5. OfferInv' /\ PlugInv' /\ StageInv'
  BY <1>1, <1>3, <1>4, FlagsKeepPlug
<1>6. g'.dst = g.dst /\ g'.src = g.src /\ g'.in.conn = g.in.conn /\ g'.out.conn
  BY <1>1, <1>3 DEF FlagsOnly
<1>7. LeftInv'
  BY <1>1, <1>2, <1>3, <1>6, Zenon DEF LeftInv
<1> QED BY <1>5, <1>7 DEF PinsInv

LEMMA EndFlushStep == ASSUME PinsInv, EndFlush PROVE PinsInv'
<1>1. graph' = graph /\ offer' = offer /\ flush' = FALSE /\ flush
  BY DEF EndFlush
<1>2. PinTypes(g) /\ PlugInv /\ LeftInv /\ StageInv
  BY PinsTyped DEF PinsInv
<1>3. CASE g.out.conn
  <2>1. g' = [g EXCEPT !.in.flushing = FALSE, !.in.error = FALSE] /\ receiving' = Overtaken /\ outlived' = {}
    BY <1>3 DEF EndFlush
  <2>2. FlagsOnly(g', g) /\ ~g'.in.flushing /\ ~g'.in.error
    BY <1>2, <2>1 DEF FlagsOnly, PinTypes
  <2>3. graph # "unplugging"
    BY <1>2, <1>3 DEF PlugInv, HalfUnplugged
  <2>4. OfferInv' /\ PlugInv' /\ StageInv'
    BY <1>1, <2>2, <2>3, FlagsKeepPlug
  <2>5. receiving' \in {"none", "overtaken"} /\ (receiving' # "none" => receiving # "none")
    BY <2>1 DEF Overtaken
  <2>6. g'.src = g.src /\ g'.in.conn = g.in.conn
    BY <2>2 DEF FlagsOnly
  <2>7. receiving' # "none" => g'.src # "stopped" /\ g'.in.conn
    BY <1>2, <2>5, <2>6, Zenon DEF LeftInv
  <2>8. LeftInv'
    BY <2>2, <2>5, <2>7, Zenon DEF LeftInv
  <2> QED BY <2>4, <2>8 DEF PinsInv
<1>4. CASE ~g.out.conn
  <2>1. g' = g /\ receiving' = receiving /\ outlived' = outlived
    BY <1>4 DEF EndFlush
  <2>2. OfferInv' /\ PlugInv' /\ StageInv'
    BY <1>1, <2>1 DEF PinsInv, OfferInv, PlugInv, StageInv, Joined
  <2>3. g.in.flushing => "flush" \in outlived
    BY <1>2, <1>4, Zenon DEF LeftInv
  <2>4. LeftInv'
    BY <1>1, <1>2, <2>1, <2>3, Zenon DEF LeftInv
  <2> QED BY <2>2, <2>4 DEF PinsInv
<1> QED BY <1>3, <1>4

\* References are counted by the pins that hold the allocator.
LEMMA CountedByPins ==
  ASSUME NEW s, PinsRight(s)
  PROVE  \A a \in Allocators : s.refs[a] = Cardinality({p \in {"out", "in"} : s[p].alloc = a})
<1> SUFFICES ASSUME NEW a \in Allocators PROVE s.refs[a] = Cardinality({p \in {"out", "in"} : s[p].alloc = a})
  OBVIOUS
<1> DEFINE H == {p \in {"out", "in"} : s[p].alloc = a}
<1>1. s.refs[a] = (IF s.out.alloc = a THEN 1 ELSE 0) + (IF s.in.alloc = a THEN 1 ELSE 0)
  BY DEF PinsRight, RefsRight
<1>2. Cardinality({}) = 0 /\ Cardinality({"out"}) = 1 /\ Cardinality({"in"}) = 1 /\ Cardinality({"out", "in"}) = 2
  <2>1. IsFiniteSet({"out"}) /\ Cardinality({"out"}) = 1 /\ Cardinality({"in"}) = 1
    BY FS_Singleton
  <2>2. Cardinality({"out"} \cup {"in"}) = Cardinality({"out"}) + 1
    BY <2>1, FS_AddElement
  <2>3. {"out"} \cup {"in"} = {"out", "in"}
    OBVIOUS
  <2> QED BY <2>1, <2>2, <2>3, FS_EmptySet
<1>3. H = (IF s.out.alloc = a THEN {"out"} ELSE {}) \cup (IF s.in.alloc = a THEN {"in"} ELSE {})
  OBVIOUS
<1> HIDE DEF H
<1>4. CASE s.out.alloc = a /\ s.in.alloc = a
  <2>1. H = {"out", "in"}
    BY <1>3, <1>4
  <2> QED BY <1>1, <1>2, <1>4, <2>1 DEF H
<1>5. CASE s.out.alloc = a /\ s.in.alloc # a
  <2>1. H = {"out"}
    BY <1>3, <1>5
  <2> QED BY <1>1, <1>2, <1>5, <2>1 DEF H
<1>6. CASE s.out.alloc # a /\ s.in.alloc = a
  <2>1. H = {"in"}
    BY <1>3, <1>6
  <2> QED BY <1>1, <1>2, <1>6, <2>1 DEF H
<1>7. CASE s.out.alloc # a /\ s.in.alloc # a
  <2>1. H = {}
    BY <1>3, <1>7
  <2> QED BY <1>1, <1>2, <1>7, <2>1 DEF H
<1> QED BY <1>4, <1>5, <1>6, <1>7

LEMMA PinsInvSafe == ASSUME PinsInv PROVE PinsSafe
<1>1. PinsRight(g) /\ PlugInv /\ StageInv
  BY PinsTyped DEF PinsInv
<1>2. None \notin Allocators
  BY DEF Allocators, None
<1>3. ConnectionsAgree
  BY <1>1, <1>2 DEF PlugInv, StageInv, NoPlug, Joined, HalfUnplugged, ConnectionsAgree
<1>4. ReferencesCounted
  BY <1>1, CountedByPins DEF ReferencesCounted
<1>5. CommittedWhileActive
  BY <1>1, Zenon DEF PinsInv, LeftInv, StageInv, Holds, CommittedWhileActive
<1> QED BY <1>3, <1>4, <1>5 DEF PinsSafe

(* Where pins are connected only while their filters are stopped, every    *)
(* attempt, however it fails, leaves both pins connected with one type and *)
(* one allocator, or both free and no reference to an allocator behind;    *)
(* and from a connection to its end, through starts that fail and stops,   *)
(* the allocator is committed as the filters' states say                   *)
(* (CBaseOutputPin::AttemptConnection, CBasePin::AgreeMediaType,           *)
(* CBaseInputPin::NotifyAllocator, CBaseFilter::Pause and Stop).           *)
THEOREM PinsAgree == ~Dynamic => (ConnSpec => []PinsSafe)
<1> SUFFICES ASSUME ~Dynamic PROVE ConnSpec => []PinsSafe
  OBVIOUS
<1>1. ConnInit => PinsInv
  BY PinsInitially
<1>2. PinsInv /\ [ConnNext]_nvars => PinsInv'
  <2> SUFFICES ASSUME PinsInv, [ConnNext]_nvars PROVE PinsInv'
    OBVIOUS
  <2>1. CASE ConnectType \/ ConnectAny
    BY <2>1, ConnectStep
  <2>2. CASE Unplug
    BY <2>2, UnplugStep
  <2>3. CASE UnplugOther
    BY <2>3, UnplugOtherStep
  <2>4. CASE PauseReceiver
    BY <2>4, PauseReceiverStep
  <2>5. CASE PauseSource
    BY <2>5, PauseSourceStep
  <2>6. CASE Run
    BY <2>6, RunStep
  <2>7. CASE StopReceiver
    BY <2>7, StopReceiverStep
  <2>8. CASE StopSource
    BY <2>8, StopSourceStep
  <2>9. CASE ReceiverStopped
    BY <2>9, ReceiverStoppedStep
  <2>10. CASE Receive \/ ReceiveDone
    BY <2>10, ReceiveStep
  <2>11. CASE ReceiveRefused
    BY <2>11, ReceiveRefusedStep
  <2>12. CASE BeginFlush
    BY <2>12, BeginFlushStep
  <2>13. CASE EndFlush
    BY <2>13, EndFlushStep
  <2>14. CASE UNCHANGED nvars
    BY <2>14 DEF nvars, PinsInv, OfferInv, PlugInv, StageInv, LeftInv, Joined
  <2> QED
    BY <2>1, <2>2, <2>3, <2>4, <2>5, <2>6, <2>7, <2>8, <2>9, <2>10, <2>11, <2>12, <2>13, <2>14 DEF ConnNext
<1>3. PinsInv => PinsSafe
  BY PinsInvSafe
<1> QED BY <1>1, <1>2, <1>3, PTL DEF ConnSpec

-----------------------------------------------------------------------------
(* CMediaSample: what it says of its type and its flags.                   *)

SampleInv ==
    /\ DOMAIN sample = {"refs", "flags", "mt", "stream", "start", "end", "ex"}
    /\ sample.refs \in Nat /\ sample.flags \subseteq Flags
    /\ "type" \in sample.flags <=> sample.mt # NoType
    /\ sample.refs = 0 => sample.flags = {} /\ sample.mt = NoType /\ sample.stream = "media"

IsMarked(r, s, f, on) ==
    /\ DOMAIN r = DOMAIN s /\ r.refs = s.refs /\ r.mt = s.mt /\ r.stream = s.stream
    /\ r.flags = (IF on THEN s.flags \cup {f} ELSE s.flags \ {f})

LEMMA MarkedIs ==
  \A s, f : \A on \in BOOLEAN :
     DOMAIN s = {"refs", "flags", "mt", "stream", "start", "end", "ex"} => IsMarked(Marked(s, f, on), s, f, on)
<1> SUFFICES ASSUME NEW s, NEW f, NEW on \in BOOLEAN, DOMAIN s = {"refs", "flags", "mt", "stream", "start", "end", "ex"}
             PROVE  IsMarked(Marked(s, f, on), s, f, on)
  OBVIOUS
<1>1. CASE on
  BY <1>1 DEF Marked, IsMarked
<1>2. CASE ~on
  BY <1>2 DEF Marked, IsMarked
<1> QED BY <1>1, <1>2

\* A call on a sample that somebody holds: what remains is that its type is told.
LEMMA TypeTold ==
  ASSUME SampleInv, sample.refs = 1, DOMAIN sample' = DOMAIN sample, sample'.refs = 1, sample'.flags \subseteq Flags,
         "type" \in sample'.flags <=> sample'.mt # NoType
  PROVE  SampleInv'
  BY DEF SampleInv

LEMMA SampleStep == ASSUME SampleInv, SampleNext PROVE SampleInv'
<1>1. CASE GetSample
  BY <1>1 DEF GetSample, SampleInv
<1>2. CASE AddRefSample
  BY <1>2 DEF AddRefSample, SampleInv
<1>3. CASE ReleaseSample
  <2>1. CASE sample.refs = 1
    <3>1. sample' = [sample EXCEPT !.refs = 0, !.flags = {}, !.mt = NoType, !.stream = "media"]
      BY <1>3, <2>1 DEF ReleaseSample, Freed
    <3> QED BY <3>1 DEF SampleInv
  <2>2. CASE sample.refs # 1
    <3>1. sample' = [sample EXCEPT !.refs = @ - 1] /\ sample.refs > 1
      BY <1>3, <2>2 DEF ReleaseSample, SampleInv
    <3> QED BY <3>1 DEF SampleInv
  <2> QED BY <2>1, <2>2
<1>4. CASE sample.refs = 1 /\ SetTime
  <2>1. CASE sample' = [sample EXCEPT !.flags = @ \ {"time", "stop"}]
    BY <1>4, <2>1, TypeTold DEF SampleInv, Flags
  <2>2. ASSUME NEW a, NEW b, sample' = [sample EXCEPT !.start = a, !.flags = (@ \ {"stop"}) \cup {"time"}]
        PROVE  SampleInv'
    BY <1>4, <2>2, TypeTold DEF SampleInv, Flags
  <2>3. ASSUME NEW a, NEW b, sample' = [sample EXCEPT !.start = a, !.end = b, !.flags = @ \cup {"time", "stop"}]
        PROVE  SampleInv'
    BY <1>4, <2>3, TypeTold DEF SampleInv, Flags
  <2> QED BY <1>4, <2>1, <2>2, <2>3 DEF SetTime
<1>5. CASE sample.refs = 1 /\ SetFlag
  <2>1. PICK f \in {"media", "sync"}, on \in BOOLEAN : sample' = Marked(sample, f, on)
    BY <1>5 DEF SetFlag
  <2>2. /\ DOMAIN sample' = DOMAIN sample /\ sample'.refs = sample.refs /\ sample'.mt = sample.mt
        /\ sample'.flags = IF on THEN sample.flags \cup {f} ELSE sample.flags \ {f}
    <3>1. IsMarked(sample', sample, f, on)
      BY <2>1, MarkedIs DEF SampleInv
    <3> QED BY <3>1 DEF IsMarked
  <2> QED BY <1>5, <2>2, TypeTold DEF SampleInv, Flags
<1>6. CASE sample.refs = 1 /\ SetMediaType
  <2>1. PICK t \in {NoType, "new"} : sample' = [Marked(sample, "type", t # NoType) EXCEPT !.mt = t]
    BY <1>6 DEF SetMediaType
  <2> DEFINE on == t # NoType
             s == Marked(sample, "type", on)
  <2>2. on \in BOOLEAN
    OBVIOUS
  <2>3. /\ DOMAIN s = DOMAIN sample /\ s.refs = sample.refs
        /\ s.flags = IF on THEN sample.flags \cup {"type"} ELSE sample.flags \ {"type"}
    <3> HIDE DEF on
    <3>1. IsMarked(s, sample, "type", on)
      BY <2>2, MarkedIs DEF SampleInv
    <3> QED BY <3>1 DEF IsMarked
  <2>4. sample' = [s EXCEPT !.mt = t]
    BY <2>1
  <2> HIDE DEF s
  <2>5. DOMAIN sample' = DOMAIN sample /\ sample'.refs = sample.refs /\ sample'.flags = s.flags /\ sample'.mt = t
    BY <2>3, <2>4 DEF SampleInv
  <2> QED BY <1>6, <2>3, <2>5, TypeTold DEF SampleInv, Flags
<1>7. CASE sample.refs = 1 /\ SetTimeEx
  BY <1>7, TypeTold DEF SetTimeEx, SampleInv
<1>8. CASE sample.refs = 1 /\ SetProperties
  <2>1. PICK n \in 1 .. Len(Fields), fl \in SUBSET (Flags \ {"media"}), a, b \in Times :
           sample' = FixedUp(
              [sample EXCEPT
                 !.stream = IF Given("stream", n) THEN "other" ELSE @,
                 !.flags = IF Given("flags", n) THEN fl \cup (@ \cap {"media"}) ELSE @,
                 !.end = IF Given("tStop", n) THEN b ELSE @,
                 !.start = IF Given("tStart", n) THEN a ELSE @,
                 !.mt = IF Given("mediaType", n) /\ "type" \in fl THEN "new" ELSE @])
    BY <1>8, Zenon DEF SetProperties
  <2> DEFINE stream == IF Given("stream", n) THEN "other" ELSE sample.stream
             flags == IF Given("flags", n) THEN fl \cup (sample.flags \cap {"media"}) ELSE sample.flags
             end == IF Given("tStop", n) THEN b ELSE sample.end
             start == IF Given("tStart", n) THEN a ELSE sample.start
             mt == IF Given("mediaType", n) /\ "type" \in fl THEN "new" ELSE sample.mt
  <2>6. sample' = FixedUp([sample EXCEPT !.stream = stream, !.flags = flags, !.end = end, !.start = start, !.mt = mt])
    BY <2>1, Zenon
  <2>7. flags \subseteq Flags
    BY DEF SampleInv
  <2> HIDE DEF stream, flags, end, start, mt
  <2> DEFINE s == [sample EXCEPT !.stream = stream, !.flags = flags, !.end = end, !.start = start, !.mt = mt]
             on == s.mt # NoType
  <2>2. DOMAIN s = DOMAIN sample /\ s.refs = sample.refs /\ s.flags = flags /\ s.mt = mt
    BY DEF SampleInv
  <2>3. sample' = Marked(s, "type", on)
    BY <2>6 DEF FixedUp
  <2>4. on \in BOOLEAN
    OBVIOUS
  <2> HIDE DEF s
  <2>5. /\ DOMAIN sample' = DOMAIN s /\ sample'.refs = s.refs /\ sample'.mt = s.mt
        /\ sample'.flags = IF on THEN s.flags \cup {"type"} ELSE s.flags \ {"type"}
    <3> HIDE DEF on
    <3>1. IsMarked(sample', s, "type", on)
      BY <2>2, <2>3, <2>4, MarkedIs DEF SampleInv
    <3> QED BY <3>1 DEF IsMarked
  <2> QED BY <1>8, <2>2, <2>5, <2>7, TypeTold DEF Flags
<1> QED BY <1>1, <1>2, <1>3, <1>4, <1>5, <1>6, <1>7, <1>8 DEF SampleNext

LEMMA SampleInvConsistent == ASSUME SampleInv PROVE SampleConsistent
<1> DEFINE p == GetProperties
           h == TheHardWay
<1>1. p.mt = h.mt /\ p.flags = sample.flags \ {"media"} /\ p.start = sample.start /\ p.stop = sample.end
  BY DEF GetProperties, TheHardWay
<1>2. /\ h.flags = (sample.flags \cap {"sync", "type"}) \cup
                   (IF sample.flags \cap {"time", "stop"} # {} THEN {"time", "stop"} ELSE {})
      /\ h.start = sample.start /\ ("stop" \in sample.flags => h.stop = sample.end)
  BY DEF TheHardWay, GetTime
<1>3. sample.flags \subseteq {"time", "stop", "media", "sync", "type"}
  BY DEF SampleInv, Flags
<1> HIDE DEF p, h
<1>4. /\ p.mt = h.mt /\ p.flags \ {"time", "stop"} = h.flags \ {"time", "stop"}
      /\ "time" \in p.flags => "time" \in h.flags /\ p.start = h.start
      /\ "stop" \in p.flags => "stop" \in h.flags /\ p.stop = h.stop
  BY <1>1, <1>2, <1>3
<1> QED BY <1>4 DEF SampleInv, SampleConsistent, p, h

-----------------------------------------------------------------------------
(* CEnumPins and CEnumMediaTypes: what they have told of the list.         *)

Distinct(q) == \A i, j \in DOMAIN q : q[i] = q[j] => i = j

EnumTypes ==
    /\ DOMAIN listing = {"items", "version"} /\ listing.items \in Seq(Pins) /\ listing.version \in Int
    /\ DOMAIN pinEnum = {"position", "count", "version", "cache"}
    /\ pinEnum.position \in Nat /\ pinEnum.count \in Nat /\ pinEnum.version \in Int
    /\ DOMAIN typeEnum = {"position", "version"} /\ typeEnum.position \in Nat /\ typeEnum.version \in Int
    /\ DOMAIN told = {"pins", "types", "skipped", "pinsDone", "typesDone"}
    /\ told.pins \in Seq(Pins) /\ told.types \in Seq(Pins)

\* No version is ahead of the list's, so an enumerator that has to refresh never looks in sync before it does.
Versions == pinEnum.version <= listing.version /\ typeEnum.version <= listing.version

\* The cache is what was told, each once; in front of the position of a user that skipped nothing everything is in it.
PinsTold ==
    /\ Distinct(listing.items) /\ Distinct(told.pins) /\ pinEnum.cache = Range(told.pins)
    /\ pinEnum.position <= pinEnum.count
    /\ InSync(pinEnum) => pinEnum.count = Len(listing.items)
    /\ InSync(pinEnum) /\ ~told.skipped => \A k \in 1 .. pinEnum.position : listing.items[k] \in pinEnum.cache
    /\ InSync(pinEnum) /\ told.pinsDone => pinEnum.position = pinEnum.count

\* The types told are those in front of the position, which stops one behind the end.
TypesTold ==
    InSync(typeEnum) =>
       /\ Len(told.types) = (IF typeEnum.position <= Len(listing.items) THEN typeEnum.position ELSE Len(listing.items))
       /\ \A i \in 1 .. Len(told.types) : told.types[i] = listing.items[i]
       /\ told.typesDone => Len(told.types) = Len(listing.items)

EnumInv == EnumTypes /\ Versions /\ PinsTold /\ TypesTold

LEMMA ListedIs == ASSUME NEW S \in SUBSET Pins PROVE SetToSeq(S) \in Seq(Pins) /\ Distinct(SetToSeq(S))
<1>1. IsFiniteSet(S)
  BY FS_Subset, EnumBounds
<1> DEFINE n == Cardinality(S)
<1>2. n \in Nat /\ ExistsBijection(1 .. n, S)
  BY <1>1, FS_CardinalityType
<1>3. \E f \in [1 .. n -> S] : IsInjective(f)
  BY <1>2 DEF ExistsBijection, Bijection, Injection, Surjection, IsInjective
<1>4. SetToSeq(S) \in [1 .. n -> S] /\ IsInjective(SetToSeq(S))
  BY <1>3, Zenon DEF SetToSeq
<1> HIDE DEF n
<1>5. SetToSeq(S) \in Seq(Pins)
  BY <1>2, <1>4
<1>6. Distinct(SetToSeq(S))
  BY <1>4, Zenon DEF Distinct, IsInjective
<1> QED BY <1>5, <1>6

LEMMA EnumInitially == ASSUME EnumInit PROVE EnumInv
<1>1. PICK S \in SUBSET Pins : listing = [items |-> SetToSeq(S), version |-> 1]
  BY DEF EnumInit
<1>2. DOMAIN listing = {"items", "version"} /\ listing.items = SetToSeq(S) /\ listing.version = 1
  BY <1>1
<1>3. listing.items \in Seq(Pins) /\ Distinct(listing.items)
  BY <1>2, ListedIs
<1>4. /\ DOMAIN pinEnum = {"position", "count", "version", "cache"} /\ DOMAIN typeEnum = {"position", "version"}
      /\ pinEnum.position = 0 /\ pinEnum.count = Len(listing.items) /\ pinEnum.version = 1 /\ pinEnum.cache = {}
      /\ typeEnum.position = 0 /\ typeEnum.version = 1
      /\ DOMAIN told = {"pins", "types", "skipped", "pinsDone", "typesDone"}
      /\ told.pins = <<>> /\ told.types = <<>> /\ ~told.pinsDone /\ ~told.typesDone
  BY DEF EnumInit
<1>5. Len(listing.items) \in Nat
  BY <1>3
<1>6. EnumTypes
  BY <1>2, <1>3, <1>4, <1>5 DEF EnumTypes
<1>7. Versions
  BY <1>2, <1>4 DEF Versions
<1>8. PinsTold
  <2>1. Distinct(told.pins) /\ Range(told.pins) = {}
    BY <1>4 DEF Distinct, Range
  <2> QED BY <1>3, <1>4, <1>5, <2>1 DEF PinsTold
<1>9. TypesTold
  BY <1>4, <1>5 DEF TypesTold
<1> QED BY <1>6, <1>7, <1>8, <1>9 DEF EnumInv

LEMMA ChangeListStep == ASSUME EnumInv, ChangeList PROVE EnumInv'
<1>1. PICK S \in SUBSET Pins : listing' = [items |-> SetToSeq(S), version |-> listing.version + 1]
  BY DEF ChangeList
<1>2. pinEnum' = pinEnum /\ typeEnum' = typeEnum /\ told' = told
  BY DEF ChangeList
<1>3. /\ DOMAIN listing' = {"items", "version"} /\ listing'.items = SetToSeq(S) /\ listing'.version = listing.version + 1
  BY <1>1
<1>4. listing'.items \in Seq(Pins) /\ Distinct(listing'.items)
  BY <1>3, ListedIs
<1>5. EnumTypes /\ Versions /\ PinsTold
  BY DEF EnumInv
<1>6. EnumTypes'
  BY <1>2, <1>3, <1>4, <1>5 DEF EnumTypes
<1>7. Versions' /\ ~InSync(pinEnum)' /\ ~InSync(typeEnum)'
  BY <1>2, <1>3, <1>5 DEF EnumTypes, Versions, InSync
<1>8. PinsTold'
  BY <1>2, <1>4, <1>5, <1>7 DEF PinsTold
<1>9. TypesTold'
  BY <1>7 DEF TypesTold
<1> QED BY <1>6, <1>7, <1>8, <1>9 DEF EnumInv

\* An enumerator that starts again; in Refresh with its cache, in Reset without.
LEMMA SyncedIs ==
  ASSUME EnumTypes
  PROVE  /\ DOMAIN Synced(pinEnum) = DOMAIN pinEnum /\ Synced(pinEnum).position = 0
         /\ Synced(pinEnum).count = Len(listing.items) /\ Synced(pinEnum).version = listing.version
         /\ Synced(pinEnum).cache = pinEnum.cache
  BY DEF EnumTypes, Synced

LEMMA ResetPinsStep == ASSUME EnumInv, ResetPins PROVE EnumInv'
<1>1. EnumTypes /\ Versions /\ PinsTold /\ TypesTold
  BY DEF EnumInv
<1>2. /\ pinEnum' = [Synced(pinEnum) EXCEPT !.cache = {}] /\ listing' = listing /\ typeEnum' = typeEnum
      /\ told' = [told EXCEPT !.pins = <<>>, !.skipped = FALSE, !.pinsDone = FALSE]
  BY DEF ResetPins
<1>3. /\ DOMAIN pinEnum' = DOMAIN pinEnum /\ pinEnum'.position = 0 /\ pinEnum'.count = Len(listing.items)
      /\ pinEnum'.version = listing.version /\ pinEnum'.cache = {}
  BY <1>1, <1>2, SyncedIs DEF EnumTypes
<1>4. /\ DOMAIN told' = DOMAIN told /\ told'.pins = <<>> /\ told'.types = told.types /\ ~told'.pinsDone
      /\ told'.typesDone = told.typesDone
  BY <1>1, <1>2 DEF EnumTypes
<1>5. Len(listing.items) \in Nat
  BY <1>1 DEF EnumTypes
<1>6. EnumTypes'
  BY <1>1, <1>2, <1>3, <1>4, <1>5 DEF EnumTypes
<1>7. Versions'
  BY <1>1, <1>2, <1>3 DEF EnumTypes, Versions
<1>8. PinsTold'
  <2>1. Distinct(told'.pins) /\ Range(told'.pins) = {}
    BY <1>4 DEF Distinct, Range
  <2> QED BY <1>1, <1>2, <1>3, <1>4, <1>5, <2>1 DEF PinsTold
<1>9. TypesTold'
  BY <1>1, <1>2, <1>4 DEF TypesTold, InSync
<1> QED BY <1>6, <1>7, <1>8, <1>9 DEF EnumInv

LEMMA SkipPinsStep == ASSUME EnumInv, SkipPins PROVE EnumInv'
<1>1. EnumTypes /\ Versions /\ PinsTold /\ TypesTold
  BY DEF EnumInv
<1>2. PICK n \in 1 .. MaxGrab :
         /\ InSync(pinEnum) /\ n <= pinEnum.count - pinEnum.position
         /\ pinEnum' = [pinEnum EXCEPT !.position = @ + n]
         /\ told' = [told EXCEPT !.skipped = TRUE, !.pinsDone = FALSE]
         /\ listing' = listing /\ typeEnum' = typeEnum
  BY DEF SkipPins
<1>3. /\ DOMAIN pinEnum' = DOMAIN pinEnum /\ pinEnum'.position = pinEnum.position + n /\ pinEnum'.count = pinEnum.count
      /\ pinEnum'.version = pinEnum.version /\ pinEnum'.cache = pinEnum.cache
  BY <1>1, <1>2 DEF EnumTypes
<1>4. /\ DOMAIN told' = DOMAIN told /\ told'.pins = told.pins /\ told'.types = told.types /\ ~told'.pinsDone
      /\ told'.typesDone = told.typesDone /\ told'.skipped
  BY <1>1, <1>2 DEF EnumTypes
<1>5. n \in Nat
  BY EnumBounds
<1>6. EnumTypes'
  BY <1>1, <1>2, <1>3, <1>4, <1>5 DEF EnumTypes
<1>7. Versions'
  BY <1>1, <1>2, <1>3 DEF Versions
<1>8. PinsTold'
  BY <1>1, <1>2, <1>3, <1>4, <1>5 DEF PinsTold, EnumTypes, InSync
<1>9. TypesTold'
  BY <1>1, <1>2, <1>4 DEF TypesTold, InSync
<1> QED BY <1>6, <1>7, <1>8, <1>9 DEF EnumInv

LEMMA ResetTypesStep == ASSUME EnumInv, ResetTypes PROVE EnumInv'
<1>1. EnumTypes /\ Versions /\ PinsTold /\ TypesTold
  BY DEF EnumInv
<1>2. /\ typeEnum' = [position |-> 0, version |-> listing.version] /\ listing' = listing /\ pinEnum' = pinEnum
      /\ told' = [told EXCEPT !.types = <<>>, !.typesDone = FALSE]
  BY DEF ResetTypes
<1>3. DOMAIN typeEnum' = {"position", "version"} /\ typeEnum'.position = 0 /\ typeEnum'.version = listing.version
  BY <1>2
<1>4. /\ DOMAIN told' = DOMAIN told /\ told'.pins = told.pins /\ told'.types = <<>> /\ told'.pinsDone = told.pinsDone
      /\ ~told'.typesDone /\ told'.skipped = told.skipped
  BY <1>1, <1>2 DEF EnumTypes
<1>5. Len(listing.items) \in Nat
  BY <1>1 DEF EnumTypes
<1>6. EnumTypes'
  BY <1>1, <1>2, <1>3, <1>4 DEF EnumTypes
<1>7. Versions'
  BY <1>1, <1>2, <1>3 DEF EnumTypes, Versions
<1>8. PinsTold'
  BY <1>1, <1>2, <1>4 DEF PinsTold, InSync
<1>9. TypesTold'
  BY <1>2, <1>3, <1>4, <1>5 DEF TypesTold
<1> QED BY <1>6, <1>7, <1>8, <1>9 DEF EnumInv

\* What a sequence and the next elements of another, from its position on, come to.
IsGrown(r, q, c, items, S) == r \in Seq(S) /\ Len(r) = Len(q) + c /\ \A i \in 1 .. Len(r) : r[i] = items[i]

LEMMA PrefixGrows ==
  ASSUME NEW S, NEW items \in Seq(S), NEW q \in Seq(S), NEW c \in Nat, Len(q) + c <= Len(items),
         \A i \in 1 .. Len(q) : q[i] = items[i]
  PROVE  IsGrown(q \o SubSeq(items, Len(q) + 1, Len(q) + c), q, c, items, S)
<1> DEFINE p == Len(q)
           got == SubSeq(items, p + 1, p + c)
           r == q \o got
<1>1. p \in Nat /\ Len(items) \in Nat
  OBVIOUS
<1>2. got \in Seq(S) /\ Len(got) = c /\ \A i \in 1 .. c : got[i] = items[p + i]
  BY <1>1
<1> HIDE DEF got
<1>3. r \in Seq(S) /\ Len(r) = p + c /\ \A i \in 1 .. p + c : r[i] = IF i <= p THEN q[i] ELSE got[i - p]
  <2>0. got \in Seq(S)
    BY <1>2
  <2>1. r \in Seq(S) /\ Len(r) = Len(q) + Len(got)
    BY <2>0, ConcatProperties
  <2>2. \A i \in 1 .. Len(q) + Len(got) : r[i] = IF i <= Len(q) THEN q[i] ELSE got[i - Len(q)]
    BY <2>0, ConcatProperties
  <2> QED BY <1>2, <2>1, <2>2
<1> HIDE DEF r
<1>4. ASSUME NEW i \in 1 .. Len(r) PROVE r[i] = items[i]
  <2>1. CASE i <= p
    BY <1>1, <1>3, <2>1
  <2>2. CASE i > p
    <3>1. i - p \in 1 .. c /\ p + (i - p) = i
      BY <1>1, <1>3, <2>2
    <3> QED BY <1>1, <1>2, <1>3, <2>2, <3>1
  <2> QED BY <1>1, <1>3, <2>1, <2>2
<1> QED BY <1>3, <1>4 DEF r, got, IsGrown

LEMMA NextTypesStep == ASSUME EnumInv, NextTypes PROVE EnumInv'
<1>1. EnumTypes /\ Versions /\ PinsTold /\ TypesTold
  BY DEF EnumInv
<1> DEFINE left == Len(listing.items) - typeEnum.position
<1>2. PICK n \in 1 .. MaxGrab :
         /\ InSync(typeEnum) /\ left >= 0
         /\ typeEnum' = [typeEnum EXCEPT !.position = @ + (IF n <= left THEN n ELSE left + 1)]
         /\ told' = [told EXCEPT !.types = @ \o SubSeq(listing.items, typeEnum.position + 1,
                                                       typeEnum.position + (IF n <= left THEN n ELSE left)),
                                 !.typesDone = left < n]
         /\ listing' = listing /\ pinEnum' = pinEnum
  BY Zenon DEF NextTypes
<1> DEFINE c == IF n <= left THEN n ELSE left
           more == told.types \o SubSeq(listing.items, typeEnum.position + 1, typeEnum.position + c)
<1>3. n \in Nat /\ n >= 1 /\ Len(listing.items) \in Nat /\ typeEnum.position \in Nat /\ left \in Nat /\ c \in Nat
  BY <1>1, <1>2, EnumBounds DEF EnumTypes
<1>4. Len(told.types) = typeEnum.position /\ \A i \in 1 .. Len(told.types) : told.types[i] = listing.items[i]
  BY <1>1, <1>2, <1>3 DEF TypesTold
<1>5. typeEnum.position + c <= Len(listing.items)
  BY <1>3
<1>6. /\ more \in Seq(Pins) /\ Len(more) = typeEnum.position + c /\ \A i \in 1 .. Len(more) : more[i] = listing.items[i]
  <2> DEFINE items == listing.items
             q == told.types
  <2>1. more = q \o SubSeq(items, Len(q) + 1, Len(q) + c)
    BY <1>4
  <2>2. items \in Seq(Pins) /\ q \in Seq(Pins) /\ Len(q) + c <= Len(items) /\ \A i \in 1 .. Len(q) : q[i] = items[i]
    BY <1>1, <1>4, <1>5 DEF EnumTypes
  <2> HIDE DEF c, left, items, q, more
  <2>3. IsGrown(more, q, c, items, Pins)
    BY <1>3, <2>1, <2>2, PrefixGrows
  <2> QED BY <1>4, <2>3 DEF IsGrown, items, q
<1>7. /\ DOMAIN typeEnum' = DOMAIN typeEnum /\ typeEnum'.version = typeEnum.version
      /\ typeEnum'.position = typeEnum.position + (IF n <= left THEN n ELSE left + 1)
  BY <1>1, <1>2 DEF EnumTypes
<1>8. /\ DOMAIN told' = DOMAIN told /\ told'.pins = told.pins /\ told'.types = more /\ told'.pinsDone = told.pinsDone
      /\ told'.skipped = told.skipped
  BY <1>1, <1>2 DEF EnumTypes
<1>9. told'.typesDone <=> left < n
  BY <1>1, <1>2, Zenon DEF EnumTypes
<1> HIDE DEF more
<1>10. EnumTypes'
  <2>1. typeEnum'.position \in Nat
    BY <1>3, <1>7
  <2> HIDE DEF left
  <2> QED BY <1>1, <1>2, <1>6, <1>7, <1>8, <2>1 DEF EnumTypes
<1>11. Versions'
  BY <1>1, <1>2, <1>7 DEF Versions
<1>12. PinsTold'
  BY <1>1, <1>2, <1>8 DEF PinsTold, InSync
<1>13. TypesTold'
  <2>1. Len(more) = IF typeEnum'.position <= Len(listing.items) THEN typeEnum'.position ELSE Len(listing.items)
    BY <1>3, <1>6, <1>7
  <2>2. told'.typesDone => Len(more) = Len(listing.items)
    BY <1>3, <1>6, <1>9
  <2> QED BY <1>2, <1>6, <1>8, <2>1, <2>2 DEF TypesTold
<1> QED BY <1>10, <1>11, <1>12, <1>13 DEF EnumInv

\* The pins of a call of Next are new, and each comes once.
AreNew(got, pins, items, at, S) ==
    /\ pins \o got \in Seq(S) /\ Distinct(pins \o got)
    /\ Range(pins \o got) = Range(pins) \cup Range(got)
    /\ \A k \in Range(at) : items[k] \in Range(got)

LEMMA GotIs ==
  ASSUME NEW S, NEW items \in Seq(S), Distinct(items), NEW pins \in Seq(S), Distinct(pins), NEW p \in Nat, NEW m \in Nat,
         NEW at \in [1 .. m -> {k \in p + 1 .. Len(items) : items[k] \notin Range(pins)}], Ascending(at),
         NEW got, got = [i \in 1 .. m |-> items[at[i]]]
  PROVE  AreNew(got, pins, items, at, S)
<1>1. \A i \in 1 .. m : at[i] \in 1 .. Len(items) /\ items[at[i]] \in S /\ items[at[i]] \notin Range(pins)
  BY DEF Range
<1>2. got \in Seq(S) /\ Len(got) = m /\ \A i \in 1 .. m : got[i] = items[at[i]] /\ got[i] \notin Range(pins)
  BY <1>1
<1>3. ASSUME NEW i \in 1 .. m, NEW j \in 1 .. m, got[i] = got[j] PROVE i = j
  <2>1. at[i] = at[j]
    <3>1. at[i] \in DOMAIN items /\ at[j] \in DOMAIN items /\ items[at[i]] = items[at[j]]
      BY <1>1, <1>2, <1>3
    <3> QED BY <3>1 DEF Distinct
  <2>2. i \in DOMAIN at /\ j \in DOMAIN at /\ at[i] \in Int /\ at[j] \in Int
    BY <1>1
  <2>3. ~(i < j) /\ ~(j < i)
    BY <2>1, <2>2 DEF Ascending
  <2> QED BY <2>3
<1> DEFINE r == pins \o got
           n == Len(pins)
<1>4. n \in Nat /\ r \in Seq(S) /\ Len(r) = n + m
  BY <1>2, ConcatProperties
<1>5. \A i \in 1 .. n + m : r[i] = IF i <= n THEN pins[i] ELSE got[i - n]
  BY <1>2, ConcatProperties
<1> HIDE DEF r
<1>6. /\ \A i \in 1 .. n : r[i] = pins[i] /\ r[i] \in Range(pins)
      /\ \A i \in 1 .. m : r[n + i] = got[i] /\ r[n + i] \in Range(got) /\ r[n + i] \notin Range(pins)
  <2>1. \A i \in 1 .. n : i \in 1 .. n + m /\ i <= n /\ pins[i] \in Range(pins)
    BY <1>4 DEF Range
  <2>2. \A i \in 1 .. m : n + i \in 1 .. n + m /\ ~(n + i <= n) /\ (n + i) - n = i
    BY <1>4
  <2>3. \A i \in 1 .. m : got[i] \in Range(got) /\ got[i] \notin Range(pins)
    BY <1>2 DEF Range
  <2> HIDE DEF n
  <2>4. ASSUME NEW i \in 1 .. n PROVE r[i] = pins[i]
    BY <1>5, <2>1
  <2>5. ASSUME NEW i \in 1 .. m PROVE r[n + i] = got[i]
    <3>1. n + i \in 1 .. n + m /\ ~(n + i <= n) /\ (n + i) - n = i
      BY <2>2
    <3>2. r[n + i] = IF n + i <= n THEN pins[n + i] ELSE got[(n + i) - n]
      BY <1>5, <3>1
    <3> QED BY <3>1, <3>2
  <2> QED BY <2>1, <2>3, <2>4, <2>5
<1>7. ASSUME NEW i \in 1 .. n + m PROVE i \in 1 .. n \/ \E j \in 1 .. m : i = n + j
  <2>1. CASE i <= n
    BY <1>4, <2>1
  <2>2. CASE i > n
    <3>1. i - n \in 1 .. m /\ i = n + (i - n)
      BY <1>4, <2>2
    <3> QED BY <3>1
  <2> QED BY <1>4, <2>1, <2>2
<1>8. Distinct(r)
  <2> SUFFICES ASSUME NEW i \in 1 .. n + m, NEW j \in 1 .. n + m, r[i] = r[j] PROVE i = j
    BY <1>4 DEF Distinct
  <2>1. CASE i \in 1 .. n /\ j \in 1 .. n
    <3>1. pins[i] = pins[j] /\ i \in DOMAIN pins /\ j \in DOMAIN pins
      <4>1. r[i] = pins[i] /\ r[j] = pins[j]
        BY <1>6, <2>1
      <4>2. DOMAIN pins = 1 .. n
        OBVIOUS
      <4> QED BY <2>1, <4>1, <4>2
    <3> QED BY <3>1, Zenon DEF Distinct
  <2>2. CASE (\E a \in 1 .. m : i = n + a) /\ (\E b \in 1 .. m : j = n + b)
    <3>1. PICK a \in 1 .. m, b \in 1 .. m : i = n + a /\ j = n + b
      BY <2>2
    <3>2. got[a] = got[b]
      BY <1>6, <3>1
    <3> QED BY <1>3, <3>1, <3>2
  <2>3. CASE i \in 1 .. n /\ (\E b \in 1 .. m : j = n + b)
    <3>1. r[i] \in Range(pins) /\ r[j] \notin Range(pins)
      BY <1>6, <2>3
    <3> QED BY <3>1
  <2>4. CASE j \in 1 .. n /\ (\E b \in 1 .. m : i = n + b)
    <3>1. r[j] \in Range(pins) /\ r[i] \notin Range(pins)
      BY <1>6, <2>4
    <3> QED BY <3>1
  <2> QED BY <1>7, <2>1, <2>2, <2>3, <2>4
<1>9. Range(r) = Range(pins) \cup Range(got)
  <2>1. Range(r) = {r[i] : i \in 1 .. n + m}
    BY <1>4 DEF Range
  <2>2. \A i \in 1 .. n : i \in 1 .. n + m
    BY <1>4
  <2>3. \A i \in 1 .. m : n + i \in 1 .. n + m
    BY <1>4
  <2>4. Range(pins) = {pins[i] : i \in 1 .. n} /\ Range(got) = {got[i] : i \in 1 .. m}
    <3>1. DOMAIN pins = 1 .. n /\ DOMAIN got = 1 .. m
      BY <1>2
    <3> QED BY <3>1, Zenon DEF Range
  <2>5. Range(r) \subseteq Range(pins) \cup Range(got)
    <3>1. \A i \in 1 .. n + m : r[i] \in Range(pins) \cup Range(got)
      <4> SUFFICES ASSUME NEW i \in 1 .. n + m PROVE r[i] \in Range(pins) \cup Range(got)
        OBVIOUS
      <4>1. CASE i \in 1 .. n
        BY <1>6, <4>1
      <4>2. CASE \E j \in 1 .. m : i = n + j
        BY <1>6, <4>2
      <4> QED BY <1>7, <4>1, <4>2
    <3> QED BY <2>1, <3>1
  <2>6. Range(pins) \subseteq Range(r)
    <3>1. \A i \in 1 .. n : pins[i] \in Range(r)
      <4> SUFFICES ASSUME NEW i \in 1 .. n PROVE pins[i] \in Range(r)
        OBVIOUS
      <4>1. i \in 1 .. n + m /\ r[i] = pins[i]
        BY <1>6, <2>2
      <4> QED BY <2>1, <4>1
    <3> QED BY <2>4, <3>1
  <2>7. Range(got) \subseteq Range(r)
    <3>1. \A i \in 1 .. m : got[i] \in Range(r)
      <4> SUFFICES ASSUME NEW i \in 1 .. m PROVE got[i] \in Range(r)
        OBVIOUS
      <4>1. n + i \in 1 .. n + m /\ r[n + i] = got[i]
        BY <1>6, <2>3
      <4> QED BY <2>1, <4>1
    <3> QED BY <2>4, <3>1
  <2> QED BY <2>5, <2>6, <2>7
<1>10. \A k \in Range(at) : items[k] \in Range(got)
  BY DEF Range
<1> QED BY <1>4, <1>8, <1>9, <1>10 DEF r, AreNew

LEMMA NextPinsStep == ASSUME EnumInv, NextPins PROVE EnumInv'
<1>1. EnumTypes /\ Versions /\ PinsTold /\ TypesTold
  BY DEF EnumInv
<1> DEFINE e == IF InSync(pinEnum) THEN pinEnum ELSE Synced(pinEnum)
           items == listing.items
<1>2. /\ DOMAIN e = {"position", "count", "version", "cache"} /\ e.position \in Nat /\ e.count = Len(items)
      /\ e.position <= e.count /\ e.version = listing.version /\ e.cache = Range(told.pins)
      /\ ~told.skipped => \A k \in 1 .. e.position : items[k] \in e.cache
  <2>1. CASE InSync(pinEnum)
    BY <1>1, <2>1 DEF EnumTypes, PinsTold, InSync
  <2>2. CASE ~InSync(pinEnum)
    <3>1. e = Synced(pinEnum) /\ Len(items) \in Nat
      BY <1>1, <2>2 DEF EnumTypes
    <3> QED BY <1>1, <3>1, SyncedIs DEF EnumTypes, PinsTold
  <2> QED BY <2>1, <2>2
<1>3. PICK n \in 1 .. MaxGrab, m \in 0 .. MaxGrab : \E at \in [1 .. m -> Fresh(e, e.count)] :
         LET to  == IF m = n THEN at[n] ELSE e.count
             got == [i \in 1 .. m |-> listing.items[at[i]]]
         IN  /\ m <= n /\ Ascending(at) /\ Range(at) = Fresh(e, to)
             /\ pinEnum' = [e EXCEPT !.position = to, !.cache = @ \cup Range(got)]
             /\ told' = [told EXCEPT !.pins = @ \o got, !.pinsDone = m < n]
             /\ UNCHANGED <<listing, typeEnum>>
  BY Zenon DEF NextPins, Refresh
<1>18. PICK at \in [1 .. m -> Fresh(e, e.count)] :
         LET to  == IF m = n THEN at[n] ELSE e.count
             got == [i \in 1 .. m |-> listing.items[at[i]]]
         IN  /\ m <= n /\ Ascending(at) /\ Range(at) = Fresh(e, to)
             /\ pinEnum' = [e EXCEPT !.position = to, !.cache = @ \cup Range(got)]
             /\ told' = [told EXCEPT !.pins = @ \o got, !.pinsDone = m < n]
             /\ UNCHANGED <<listing, typeEnum>>
  BY <1>3, Zenon
<1> DEFINE to == IF m = n THEN at[n] ELSE e.count
           got == [i \in 1 .. m |-> items[at[i]]]
<1>4. /\ m <= n /\ Ascending(at) /\ Range(at) = Fresh(e, to)
      /\ pinEnum' = [e EXCEPT !.position = to, !.cache = @ \cup Range(got)]
      /\ told' = [told EXCEPT !.pins = @ \o got, !.pinsDone = m < n]
      /\ listing' = listing /\ typeEnum' = typeEnum
  BY <1>18
<1>5. n \in Nat /\ n >= 1 /\ m \in Nat /\ Len(items) \in Nat /\ items \in Seq(Pins) /\ told.pins \in Seq(Pins)
  BY <1>1, EnumBounds DEF EnumTypes
<1> HIDE DEF e, items, to, got
<1>6. at \in [1 .. m -> {k \in e.position + 1 .. Len(items) : items[k] \notin Range(told.pins)}]
  BY <1>2, <1>18 DEF Fresh, items
<1>7. Distinct(items) /\ Distinct(told.pins)
  BY <1>1 DEF PinsTold, items
<1>8. /\ told.pins \o got \in Seq(Pins) /\ Distinct(told.pins \o got)
      /\ Range(told.pins \o got) = Range(told.pins) \cup Range(got)
      /\ \A k \in Range(at) : items[k] \in Range(got)
  <2>1. got = [i \in 1 .. m |-> items[at[i]]]
    BY DEF got
  <2>2. AreNew(got, told.pins, items, at, Pins)
    BY <1>2, <1>4, <1>5, <1>6, <1>7, <2>1, GotIs
  <2> QED BY <2>2 DEF AreNew
<1>9. to \in e.position .. e.count /\ to \in Nat /\ (m < n => to = e.count)
  <2>1. CASE m = n
    <3>1. n \in 1 .. m
      BY <1>5, <2>1
    <3>2. at[n] \in e.position + 1 .. Len(items)
      BY <1>6, <3>1
    <3> QED BY <1>2, <1>5, <2>1, <3>2 DEF to
  <2>2. CASE m # n
    BY <1>2, <1>5, <2>2 DEF to
  <2> QED BY <2>1, <2>2
<1>10. ASSUME NEW k \in e.position + 1 .. to PROVE items[k] \in Range(told.pins) \cup Range(got)
  <2>1. CASE items[k] \in Range(told.pins)
    BY <2>1
  <2>2. CASE items[k] \notin Range(told.pins)
    <3>1. k \in Fresh(e, to)
      BY <1>2, <2>2 DEF Fresh, items
    <3> QED BY <1>4, <1>8, <3>1
  <2> QED BY <2>1, <2>2
<1>11. /\ DOMAIN pinEnum' = DOMAIN e /\ pinEnum'.position = to /\ pinEnum'.count = e.count
       /\ pinEnum'.version = e.version /\ pinEnum'.cache = e.cache \cup Range(got)
  BY <1>2, <1>4
<1>12. /\ DOMAIN told' = DOMAIN told /\ told'.pins = told.pins \o got /\ told'.types = told.types
       /\ told'.skipped = told.skipped /\ told'.typesDone = told.typesDone
  BY <1>1, <1>4 DEF EnumTypes
<1>13. told'.pinsDone <=> m < n
  BY <1>1, <1>4, Zenon DEF EnumTypes
<1>14. EnumTypes'
  BY <1>1, <1>2, <1>4, <1>5, <1>8, <1>9, <1>11, <1>12 DEF EnumTypes
<1>15. Versions'
  BY <1>1, <1>2, <1>4, <1>11 DEF Versions, EnumTypes
<1>16. PinsTold'
  <2>1. listing'.items = items /\ Distinct(listing'.items) /\ Distinct(told'.pins)
    BY <1>4, <1>7, <1>8, <1>12 DEF items
  <2>2. pinEnum'.cache = Range(told'.pins) /\ pinEnum'.position <= pinEnum'.count /\ pinEnum'.count = Len(items)
    BY <1>2, <1>8, <1>9, <1>11, <1>12
  <2>3. ASSUME ~told'.skipped, NEW k \in 1 .. pinEnum'.position PROVE items[k] \in pinEnum'.cache
    <3>1. CASE k <= e.position
      <4>1. k \in 1 .. e.position /\ ~told.skipped
        BY <1>2, <1>9, <1>11, <1>12, <2>3, <3>1
      <4> QED BY <1>2, <1>11, <4>1
    <3>2. CASE k > e.position
      <4>1. k \in e.position + 1 .. to
        BY <1>2, <1>9, <1>11, <3>2
      <4> QED BY <1>2, <1>10, <1>11, <4>1
    <3> QED BY <1>2, <1>9, <1>11, <3>1, <3>2
  <2>4. told'.pinsDone => pinEnum'.position = pinEnum'.count
    BY <1>9, <1>11, <1>13
  <2> QED BY <2>1, <2>2, <2>3, <2>4 DEF PinsTold
<1>17. TypesTold'
  BY <1>1, <1>4, <1>12 DEF TypesTold, InSync
<1> QED BY <1>14, <1>15, <1>16, <1>17 DEF EnumInv

\* A sequence without repetition is as long as it has elements.
LEMMA DistinctCount == ASSUME NEW S, NEW q \in Seq(S), Distinct(q) PROVE Cardinality(Range(q)) = Len(q)
<1> DEFINE n == Len(q)
<1>1. n \in Nat /\ q \in [1 .. n -> Range(q)]
  BY DEF Range
<1>2. q \in Bijection(1 .. n, Range(q))
  BY <1>1 DEF Bijection, Injection, Surjection, IsInjective, Distinct, Range
<1>3. ExistsBijection(1 .. n, Range(q))
  BY <1>2 DEF ExistsBijection
<1> QED BY <1>1, <1>3, FS_CountingElements

LEMMA EnumInvSound == ASSUME EnumInv PROVE EnumerationsSound
<1>1. EnumTypes /\ PinsTold /\ TypesTold
  BY DEF EnumInv
<1>2. Cardinality(Range(told.pins)) = Len(told.pins)
  BY <1>1, DistinctCount DEF EnumTypes, PinsTold
<1>3. ASSUME told.pinsDone, InSync(pinEnum), ~told.skipped PROVE Range(listing.items) \subseteq Range(told.pins)
  <2>1. \A k \in 1 .. Len(listing.items) : listing.items[k] \in Range(told.pins)
    BY <1>1, <1>3 DEF PinsTold
  <2>2. DOMAIN listing.items = 1 .. Len(listing.items)
    BY <1>1 DEF EnumTypes
  <2>3. Range(listing.items) = {listing.items[k] : k \in 1 .. Len(listing.items)}
    BY <2>2, Zenon DEF Range
  <2> QED BY <2>1, <2>3, Zenon
<1>4. ASSUME InSync(typeEnum)
      PROVE  IsPrefix(told.types, listing.items) /\ (told.typesDone => told.types = listing.items)
  <2> DEFINE q == told.types
             items == listing.items
  <2>1. q \in Seq(Pins) /\ items \in Seq(Pins) /\ typeEnum.position \in Nat
    BY <1>1 DEF EnumTypes
  <2>2. /\ Len(q) <= Len(items) /\ \A i \in 1 .. Len(q) : q[i] = items[i]
        /\ told.typesDone => Len(q) = Len(items)
    BY <1>1, <1>4, <2>1 DEF TypesTold
  <2> HIDE DEF q, items
  <2>3. SubSeq(q, 1, Len(q)) = SubSeq(items, 1, Len(q))
    BY <2>1, <2>2
  <2>4. told.typesDone => q = items
    BY <2>1, <2>2
  <2> QED BY <2>2, <2>3, <2>4 DEF IsPrefix, q, items
<1> QED BY <1>2, <1>3, <1>4 DEF EnumerationsSound

(* A sample announces a type exactly if it has one, says the same whether  *)
(* its properties are read at once or one by one, and forgets its last use *)
(* (CMediaSample); the enumerator of pins tells each once and, to a user   *)
(* that skips none, all of them, though the filter changes its list        *)
(* meanwhile, and that of types tells the head of the list (CEnumPins,     *)
(* CEnumMediaTypes).                                                       *)
THEOREM SamplesAndEnumerators == SamplesSpec => []SamplesSafe
<1>1. SampleInit => SampleInv
  BY DEF SampleInit, SampleInv
<1>2. SampleInv /\ [SampleNext]_mvars => SampleInv'
  <2>1. ASSUME SampleInv, UNCHANGED mvars PROVE SampleInv'
    BY <2>1 DEF mvars, SampleInv
  <2> QED BY <2>1, SampleStep
<1>3. SampleInv => SampleConsistent
  BY SampleInvConsistent
<1>4. EnumInit => EnumInv
  BY EnumInitially
<1>5. EnumInv /\ [EnumNext]_evars => EnumInv'
  <2> SUFFICES ASSUME EnumInv, [EnumNext]_evars PROVE EnumInv'
    OBVIOUS
  <2>1. CASE ChangeList
    BY <2>1, ChangeListStep
  <2>2. CASE NextPins
    BY <2>2, NextPinsStep
  <2>3. CASE SkipPins
    BY <2>3, SkipPinsStep
  <2>4. CASE ResetPins
    BY <2>4, ResetPinsStep
  <2>5. CASE NextTypes
    BY <2>5, NextTypesStep
  <2>6. CASE ResetTypes
    BY <2>6, ResetTypesStep
  <2>7. CASE UNCHANGED evars
    BY <2>7 DEF evars, EnumInv, EnumTypes, Versions, PinsTold, TypesTold, InSync
  <2> QED BY <2>1, <2>2, <2>3, <2>4, <2>5, <2>6, <2>7 DEF EnumNext
<1>6. EnumInv => EnumerationsSound
  BY EnumInvSound
<1> QED BY <1>1, <1>2, <1>3, <1>4, <1>5, <1>6, PTL DEF SamplesSpec, SampleSpec, EnumSpec, SamplesSafe

=============================================================================
