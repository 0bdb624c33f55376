-------------------------- MODULE VideoRenderer --------------------------
(***************************************************************************)
(* CBaseVideoRenderer (renbase.cpp): for each frame it schedules, the       *)
(* renderer tells the supplier how late it is and decides whether to draw   *)
(* it at once, to wait for its time or to drop it, from running averages    *)
(* of the time between frames, of the time spent waiting and of the time    *)
(* spent drawing; and it keeps the statistics of the property page.         *)
(*                                                                         *)
(* Times are stream times in units of a tenth of a millisecond, that is of  *)
(* a thousand of the code's units of 100 ns.                                *)
(***************************************************************************)
EXTENDS Integers

CONSTANTS
  FrameTime,      \* the distance of the frames of the file
  Durations,      \* the durations their time stamps say
  Gaps,           \* how long after the last frame was dealt with the next comes
  DrawTimes,      \* how long it takes to draw a frame
  Proportions,    \* the quality messages Notify may receive
  MaxFrames       \* bound: the frames of one session

ASSUME FramesAreTimed ==
  /\ FrameTime \in Nat /\ MaxFrames \in Nat /\ Durations \subseteq Nat
  /\ Gaps \subseteq Nat /\ DrawTimes \subseteq Nat /\ Proportions \subseteq Nat

VARIABLES
  v,          \* the members of CBaseVideoRenderer
  frame,      \* "none", or what becomes of the one just scheduled: "now",
              \* "due" or "dropped", and "drawing"
  now,        \* the stream time
  file,       \* number of frames received, and the duration of the last
  quality,    \* the last quality message sent upstream
  shown       \* history: when a frame was last drawn

vvars == <<v, frame, now, file, quality, shown>>

Milliseconds(n) == 10 * n
Second  == 10000
Average == 4                  \* AVGPERIOD

Least(a, b) == IF a < b THEN a ELSE b
Abs(a) == IF a < 0 THEN -a ELSE a
\* Division as C does it, towards zero.
Div(a, b) == IF a < 0 THEN -((-a) \div b) ELSE a \div b
Mix(new, avg) == Div(new + avg * (Average - 1), Average)

\* The last draw was 1000 units ago: a tenth of a millisecond, and not the second
\* that the comment beside it says.
ResetStreamingTimes ==
  [lastDraw |-> -1, renderAvg |-> 0, frameAvg |-> -1, duration |-> 0,
   renderLast |-> 0, waitAvg |-> 0, drawn |-> 0, dropped |-> 0,
   totAcc |-> 0, sumSqAcc |-> 0, sumFrame |-> 0, sumSqFrame |-> 0,
   frame |-> 0, late |-> 0, start |-> 0, normal |-> 0, earliness |-> 0,
   throttle |-> 0]

VideoInit ==
  /\ v = ResetStreamingTimes /\ frame = "none" /\ now = 0
  /\ file = [n |-> 0, duration |-> 0]
  /\ quality = [proportion |-> 1000, late |-> 0, type |-> "Famine"]
  /\ shown = 0

\* OnStartStreaming, at the start of a session.
OnStartStreaming ==
  /\ frame = "none" /\ file.n > 0
  /\ v' = ResetStreamingTimes /\ now' = 0
  /\ file' = [n |-> 0, duration |-> 0]
  /\ shown' = 0
  /\ UNCHANGED <<frame, quality>>

-----------------------------------------------------------------------------
\* Notify: a message from the graph slows the renderer down.
Throttle(p) == IF p >= 1000 THEN 0 ELSE Div(-330000 + 388880000 \div (p + 167), 1000)

Notify ==
  \E p \in Proportions :
    /\ v' = [v EXCEPT !.throttle = Throttle(p)]
    /\ UNCHANGED <<frame, now, file, quality, shown>>

\* SendQuality: how fast the supplier should go on, in thousandths.
Proportion(late) ==
  IF v.frameAvg < 0 THEN 1000
  ELSE IF late > 0 THEN IF 1000 - late \div Milliseconds(1) < 500 THEN 500
                        ELSE 1000 - late \div Milliseconds(1)
  ELSE IF v.waitAvg <= Milliseconds(2) \/ late >= -Milliseconds(2) THEN 1000
  ELSE IF v.waitAvg >= v.frameAvg THEN 2000
  ELSE Least(2000, 1000 * (v.frameAvg \div (v.frameAvg + Milliseconds(2) - v.waitAvg)))

SendQuality(late) ==
  [proportion |-> Proportion(late), late |-> late + v.renderAvg \div 2,
   type |-> IF v.frameAvg < 0 \/ v.frameAvg > 2 * v.renderAvg THEN "Famine" ELSE "Flood"]

\* The average frame time starts again when the frame rate of the file changes.
NewRate(duration) ==
  IF Abs(duration - v.duration) > v.duration \div 32
  THEN [v EXCEPT !.frameAvg = duration, !.duration = duration] ELSE v

Earliness(x, late, justDropped) ==
  IF late > 0 THEN 0
  ELSE IF late >= x.earliness \/ justDropped THEN late
  ELSE x.earliness - Div(x.earliness, 8)

\* The four reasons to draw a frame.
Draws(x, late, duration, handled, time) ==
  \/ 3 * x.renderAvg <= x.frameAvg
  \/ IF handled THEN late <= duration * 4 ELSE 2 * late < duration
  \/ x.waitAvg > Milliseconds(8)
  \/ time - x.lastDraw > Second

\* Draw it at once: to catch up, or below the true frame rate and not far ahead.
AtOnce(x, late, duration, justDropped) ==
  /\ \/ justDropped
     \/ x.frameAvg > duration + duration \div 16 /\ late > -duration * 10
  /\ late >= -Milliseconds(900)

PlayAtOnce(x, time, late, between) ==
  [x EXCEPT !.normal = 0, !.waitAvg = Mix(0, x.waitAvg),
            !.frameAvg = Mix(between, x.frameAvg), !.late = late,
            !.frame = between, !.lastDraw = time, !.earliness = Least(@, late)]

PlayInTime(x, time, start, late, duration, between) ==
  LET early == IF x.earliness < -duration THEN -duration ELSE x.earliness
      at == start + early
      y  == [x EXCEPT !.normal = @ + 1, !.frameAvg = duration,
                      !.waitAvg = Mix(IF late < 0 THEN -late ELSE 0, x.waitAvg)]
  IN  IF late < 0
      THEN [y EXCEPT !.late = early, !.frame = at - x.lastDraw, !.lastDraw = at, !.start = at]
      ELSE [y EXCEPT !.late = late, !.frame = between, !.lastDraw = time, !.start = at]

\* Faulty variant: a frame that is dropped counts as drawn.
DropFrameAsDrawn(x, late) ==
  [x EXCEPT !.waitAvg = Mix(IF late < 0 THEN -late ELSE 0, x.waitAvg),
            !.normal = -1, !.dropped = @ + 1, !.lastDraw = @ + Second]

DropFrame(x, late) ==
  [x EXCEPT !.waitAvg = Mix(IF late < 0 THEN -late ELSE 0, x.waitAvg),
            !.normal = -1, !.dropped = @ + 1]

\* ShouldDrawSampleNow, called by ScheduleSample with a frame of the file: its
\* time stamp is moved forward by the 8 ms the monitor takes on average.  The
\* supplier may claim to handle the quality, and then marks the frames that
\* follow one it dropped.
ShouldDrawSampleNow ==
  /\ frame = "none" /\ file.n < MaxFrames
  /\ \E gap \in Gaps, duration \in Durations, handled, discontinuity \in BOOLEAN :
       LET stamp == file.n * FrameTime
           start == IF stamp >= Milliseconds(8) THEN stamp - Milliseconds(8) ELSE stamp
           time  == now + gap
           late  == time - start
           just  == (handled /\ discontinuity) \/ v.normal = -1
           rated == NewRate(duration)
           x == [rated EXCEPT !.earliness = Earliness(rated, late, just)]
           between == Least(time - x.lastDraw, Second)
       IN  /\ discontinuity => handled
           /\ duration = file.duration \/ file.n = 0    \* the files have one rate
           /\ now' = time /\ file' = [n |-> file.n + 1, duration |-> duration]
           /\ quality' = SendQuality(late)
           /\ \/ /\ ~Draws(x, late, duration, handled, time)
                 /\ v' = DropFrame(x, late) /\ frame' = "none"
              \/ /\ Draws(x, late, duration, handled, time)
                 /\ AtOnce(x, late, duration, just)
                 /\ v' = PlayAtOnce(x, time, late, between) /\ frame' = "now"
              \/ /\ Draws(x, late, duration, handled, time)
                 /\ ~AtOnce(x, late, duration, just)
                 /\ v' = PlayInTime(x, time, start, late, duration, between)
                 /\ frame' = IF late < 0 THEN "due" ELSE "now"
           /\ UNCHANGED shown

-----------------------------------------------------------------------------
\* RecordFrameLateness, in milliseconds and at most a second of each.
RecordFrameLateness(x) ==
  LET late  == Div(x.late, Milliseconds(1))
      sync  == IF Abs(late) <= 1000 THEN late
               ELSE IF x.drawn <= 1 THEN 0 ELSE IF late > 0 THEN 1000 ELSE -1000
      ms    == Div(x.frame, Milliseconds(1))
      inter == IF ms > 1000 \/ ms < 0 THEN 1000 ELSE ms
      acc   == x.drawn > 1
      int   == x.drawn > 2
  IN  [x EXCEPT !.totAcc = @ + (IF acc THEN sync ELSE 0),
                !.sumSqAcc = @ + (IF acc THEN sync * sync ELSE 0),
                !.sumFrame = @ + (IF int THEN inter ELSE 0),
                !.sumSqFrame = @ + (IF int THEN inter * inter ELSE 0),
                !.drawn = @ + 1]

\* OnRenderStart, when the frame is due, or OnDirectRender when DirectDraw
\* draws it.  The clock signals it no earlier than the time advised for.
OnRenderStart ==
  /\ frame \in {"now", "due"}
  /\ now' = IF frame = "due" /\ v.start > now THEN v.start ELSE now
  /\ v' = RecordFrameLateness(v) /\ frame' = "drawing"
  /\ shown' = now'
  /\ UNCHANGED <<file, quality>>

OnDirectRender ==
  /\ frame \in {"now", "due"}
  /\ now' = (IF frame = "due" /\ v.start > now THEN v.start ELSE now) + v.throttle
  /\ v' = [RecordFrameLateness(v) EXCEPT !.renderAvg = 0, !.renderLast = 5000]
  /\ frame' = "none"
  /\ shown' = now' - v.throttle
  /\ UNCHANGED <<file, quality>>

\* OnRenderEnd: a spike in the time it took is left out of the average.  Then
\* ThrottleWait sleeps.
OnRenderEnd ==
  /\ frame = "drawing" /\ frame' = "none"
  /\ \E took \in DrawTimes :
       /\ now' = now + took + v.throttle
       /\ v' = [v EXCEPT !.renderLast = took,
                         !.renderAvg = IF took < @ * 2 \/ took < 2 * v.renderLast
                                       THEN Mix(took, @) ELSE @]
  /\ UNCHANGED <<file, quality, shown>>

VideoNext ==
  \/ OnStartStreaming \/ Notify \/ ShouldDrawSampleNow
  \/ OnRenderStart \/ OnDirectRender \/ OnRenderEnd

VideoSpec == VideoInit /\ [][VideoNext]_vvars

-----------------------------------------------------------------------------
NewtonRaphson(s, x) == (s * s + x) \div (2 * s)
Powers == {1, 2, 4, 8, 16, 32, 64, 128, 256, 512, 1024, 2048, 4096, 8192, 16384, 32768}
Guess(x) == CHOOSE g \in Powers : (g * g >= x \/ g = 32768) /\ (g = 1 \/ (g \div 2) * (g \div 2) < x)

\* Faulty variant: one iteration less.
isqrtTwice(x) == IF x = 0 THEN 0 ELSE NewtonRaphson(NewtonRaphson(Guess(x), x), x)

\* isqrt: a power of two, one to two times too large, and three iterations of
\* Newton and Raphson.
isqrt(x) ==
  IF x = 0 THEN 0
  ELSE NewtonRaphson(NewtonRaphson(NewtonRaphson(Guess(x), x), x), x)

\* GetStdDev's estimate of the variance; the deviation is its square root.
Variance(n, sumSq, total) == Div(sumSq - (total * total) \div n, n - 1)

-----------------------------------------------------------------------------
\* What GetStdDev is called with: the deviations of the synchronisation and of
\* the time between frames.
Deviations ==
  {<<v.drawn - 1, v.sumSqAcc, v.totAcc>>, <<v.drawn - 2, v.sumSqFrame, v.sumFrame>>}

\* The property page never takes the root of a negative number (the comment of
\* RecordFrameLateness, and the assertion of GetStdDev),
NoRootOfNegative == \A p \in Deviations : p[1] > 1 => Variance(p[1], p[2], p[3]) >= 0

\* z is the whole number below the root of x, or the one above.
IsRoot(z, x) ==
  /\ x < (z + 1) * (z + 1)
  /\ z = 0 \/ (z - 1) * (z - 1) <= x

\* and the root it takes is one of the two whole numbers next to it.  That is less
\* than the comment of isqrt says, "accuracy to the nearest mSec for the range in
\* question": isqrt(3) is 1 and isqrt(7) is 2, where 2 and 3 are nearer.
RootsAreRight ==
  \A p \in Deviations :
    LET x == Variance(p[1], p[2], p[3]) IN p[1] > 1 => IsRoot(isqrt(x), x)

\* The statistics of the property page are those of real deviations.
DeviationsAreReal == NoRootOfNegative /\ RootsAreRight

\* The display never looks hung: a frame is only dropped within a second of the
\* last one really drawn or, before there is one, of the start of the session.
\* "The first frame will definitely be drawn", the comment of ResetStreamingTimes
\* goes on; but the last draw it sets up lies a tenth of a millisecond back.  The
\* first frame is drawn for another reason, and only if its time stamps give it a
\* duration; one that has none and comes late is dropped.
NeverLooksHung ==
  [][v'.dropped > v.dropped =>
       now' - shown <= Second /\ (file.n = 0 => file'.duration = 0)]_vvars
=============================================================================
