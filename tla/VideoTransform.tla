--------------------------- MODULE VideoTransform ---------------------------
(***************************************************************************)
(* CVideoTransformFilter (vtrans.cpp) and the sample set-up it inherits    *)
(* from CTransformFilter (transfrm.cpp): which frames are skipped, which   *)
(* are decoded but held back until a key frame, and what the next filter   *)
(* is told of it.  Times are in units of 10000, the milliseconds the skip  *)
(* decision is made in; every frame lasts FrameTime.                       *)
(***************************************************************************)
EXTENDS Integers

CONSTANTS FrameTime,     \* itrFrame / 10000
          LateTimes,     \* bound: lateness a quality message reports
          WaitFrames,    \* 30 in the code
          MaxLate,       \* 30 seconds in the code
          MaxFrames      \* bound: frames received

ASSUME FrameBounds ==
    /\ FrameTime \in Int /\ LateTimes \subseteq Int /\ MaxLate \in Int /\ MaxFrames \in Nat
    /\ WaitFrames \in Nat /\ WaitFrames > 1

VARIABLES vt,            \* the fields of the filter, by their names without prefix
          seen           \* history: frames, what the decoder has been given, and what has been delivered of it

vtvars == <<vt, seen>>

\* A frame: a key frame?  Has it a time?  Does its sample say discontinuity, or bring a new input type?  Does its buffer
\* bring a new output type?  Does decoding take long (m_itrAvgDecode * 4 > itrFrame), and does Transform return S_FALSE?
Frames == [key : BOOLEAN, timed : BOOLEAN, gap : BOOLEAN, newIn : BOOLEAN, newOut : BOOLEAN, slow : BOOLEAN, refused : BOOLEAN]

\* StartStreaming: resets the statistics, but not nWaitForKey.
Restarted(v) == [v EXCEPT !.itrLate = 0, !.nKeyFramePeriod = 0, !.nFramesSinceKeyFrame = 0, !.bSkipping = FALSE,
                          !.bQualityChanged = FALSE, !.bSampleSkipped = FALSE]

\* seen: whole, the decoder has every frame since a key frame; excused, the code lets a frame pass that it cannot know to
\* be whole; mustKey, a skip has begun that must go on to a key frame; dropped, the last frame was not delivered.
VtInit ==
    /\ vt = [itrLate |-> 0, nKeyFramePeriod |-> 0, nFramesSinceKeyFrame |-> 0, bSkipping |-> FALSE, nWaitForKey |-> 0,
             bSampleSkipped |-> FALSE, bQualityChanged |-> FALSE]
    /\ seen = [frames |-> 0, whole |-> FALSE, excused |-> TRUE, mustKey |-> FALSE, dropped |-> FALSE,
               shown |-> TRUE, flagged |-> TRUE]

\* Pause of a stopped filter, or EndFlush: what comes next may start anywhere.
StartStreaming ==
    /\ vt' = Restarted(vt)
    /\ seen' = [seen EXCEPT !.whole = FALSE, !.excused = TRUE, !.mustKey = FALSE, !.dropped = FALSE]

\* Cuts what the last message said to 30 seconds, otherwise takes the new one.
AlterQuality(late) ==
    /\ vt' = [vt EXCEPT !.itrLate = IF @ > MaxLate THEN MaxLate ELSE late]
    /\ UNCHANGED seen

\* Mutant: a skip ends as soon as the lateness has been worked off, not at a key frame.
SeesKeyOrNotLate(v, f) ==
    IF f.key
    THEN [v EXCEPT !.nKeyFramePeriod = IF @ < v.nFramesSinceKeyFrame THEN v.nFramesSinceKeyFrame ELSE @,
                   !.nFramesSinceKeyFrame = 0, !.bSkipping = FALSE]
    ELSE [v EXCEPT !.nKeyFramePeriod = IF v.nFramesSinceKeyFrame > @ /\ @ > 0 THEN v.nFramesSinceKeyFrame ELSE @,
                   !.bSkipping = @ /\ v.itrLate > FrameTime]

\* A key frame ends a skip and records the longest period so far; a long wait for one lengthens the period.
SeesKey(v, f) ==
    IF f.key
    THEN [v EXCEPT !.nKeyFramePeriod = IF @ < v.nFramesSinceKeyFrame THEN v.nFramesSinceKeyFrame ELSE @,
                   !.nFramesSinceKeyFrame = 0, !.bSkipping = FALSE]
    ELSE [v EXCEPT !.nKeyFramePeriod = IF v.nFramesSinceKeyFrame > @ /\ @ > 0 THEN v.nFramesSinceKeyFrame ELSE @]

\* Skip when more than a frame late, later than the time to the next key frame, and when skipping would help at all.
BeginsToSkip(v, f) ==
    /\ f.slow /\ v.itrLate > FrameTime /\ v.nKeyFramePeriod > 0
    /\ v.itrLate > FrameTime * (v.nKeyFramePeriod - v.nFramesSinceKeyFrame - 1)

\* ShouldSkipFrame; it leaves at once for a frame with no time.
Judged(v, f) ==
    LET k == SeesKey(v, f)
        skips == k.bSkipping \/ BeginsToSkip(k, f) IN
    IF ~f.timed THEN v
    ELSE [k EXCEPT !.bSkipping = skips, !.nFramesSinceKeyFrame = @ + 1,
                   !.itrLate = IF skips THEN @ - FrameTime ELSE @, !.bQualityChanged = @ \/ skips]

Skips(v, f) == f.timed /\ v.bSkipping

\* After a new output type or a discontinuity: wait for a key frame, but no more than WaitFrames frames.
Waited(v, f) ==
    LET w == IF f.gap \/ f.newOut THEN WaitFrames ELSE v.nWaitForKey IN
    IF w > 1 /\ ~f.key THEN w - 1 ELSE 0

\* Receive.
ReceiveFrame(f) ==
    LET judged == Judged(IF f.newIn THEN Restarted(vt) ELSE vt, f)
        buffered == [judged EXCEPT !.bSampleSkipped = FALSE]
        wait == Waited(judged, f)
        decoded == [(IF f.newOut THEN Restarted(buffered) ELSE buffered) EXCEPT !.nWaitForKey = wait]
        holds == wait > 0 \/ f.refused
        whole == f.key \/ (seen.whole /\ ~f.gap /\ ~f.newOut)
        excused == ~f.key /\ (seen.excused \/ (judged.nWaitForKey = 1 /\ wait = 0) \/ (seen.mustKey /\ (~f.timed \/ f.newIn)))
    IN
    /\ seen.frames < MaxFrames
    /\ IF Skips(judged, f)
       THEN /\ vt' = [judged EXCEPT !.bSampleSkipped = TRUE]
            /\ seen' = [seen EXCEPT !.frames = @ + 1, !.whole = FALSE, !.mustKey = TRUE, !.dropped = TRUE]
       ELSE /\ vt' = IF holds THEN [decoded EXCEPT !.bSampleSkipped = TRUE, !.bQualityChanged = TRUE] ELSE decoded
            /\ seen' = [frames |-> seen.frames + 1, whole |-> whole, excused |-> excused,
                        mustKey |-> seen.mustKey /\ ~f.key /\ ~f.newIn, dropped |-> holds,
                        shown |-> seen.shown /\ (holds \/ whole \/ excused),
                        flagged |-> seen.flagged /\ (judged.bSampleSkipped = seen.dropped \/ f.newIn \/ seen.frames = 0)]

VtNext ==
    \/ StartStreaming
    \/ \E late \in LateTimes : AlterQuality(late)
    \/ \E f \in Frames : ReceiveFrame(f)

VtSpec == VtInit /\ [][VtNext]_vtvars

-----------------------------------------------------------------------------
(* Properties.                                                             *)

\* What is passed on can be decoded: the decoder has had every frame since a key frame.  The code excuses itself only at
\* the start of streaming, when it has waited WaitFrames frames for a key frame, and when a frame without a time or a new
\* input type ends a skip.
ShownIsWhole == seen.shown

\* The buffer for a frame is asked for with AM_GBF_PREVFRAMESKIPPED exactly when the frame before it was not passed on,
\* unless a new input type has just restarted streaming.
SkipIsFlagged == seen.flagged

\* The wait for a key frame always ends.
WaitBounded == vt.nWaitForKey < WaitFrames

\* CVideoTransformFilter: frames are left out, when downstream is late, so that what remains can be decoded, the buffers
\* know of it, and it ends.
VideoTransformSafe == ShownIsWhole /\ SkipIsFlagged /\ WaitBounded
=============================================================================
