SPECIFICATION MCSpec
CONSTANTS
  Callers = {c1, c2}
  MaxDepth = 2
  Types = {t1, t2}
  Dynamic = FALSE
  Times = {1, 2}
  Pins = {p1, p2, p3}
  MaxChanges = 2
  MaxGrab = 2
  PinCount = 2
  PinBuffers = 2
  PullBuffers = 2
  SampleSize = 2
  Align = 2
  Duration = 5
  MaxSeeks = 2
  Positions <- MCPositions
  OutBuffers = 2
  MaxFlushes = 3
  FrameTime = 2
  LateTimes = {0, 5, 9}
  WaitFrames = 3
  MaxLate = 7
  MaxFrames = 7
  Commands = {d1, d2}
  Clocks = {k1}
  CommandTimes = {1, 2}
  MaxTime = 2
  Offset = 1
  Lengths = {2}
  MaxValues = 3
  AmfNumbers = {0, 127, 128, 16382, 16383, 2097150}
  Lists = {l1, l2}
  Nodes = {1, 2, 3, 4}
  Objects = {x, y}
  CacheSize = 1
INVARIANTS DynamicPinSafe PinsSafe SamplesSafe SourceSafe PullSafe TransformsSafe CommandsSafe ValuesSafe
PROPERTIES ListsAreSequences
CHECK_DEADLOCK FALSE
