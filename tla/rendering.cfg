SPECIFICATION RenderingSpec
CHECK_DEADLOCK FALSE
CONSTANTS
  Cookies = {1, 2}
  MaxTime = 7
  MaxAdvises = 2
  AdviseTimes = {3, 5}
  Periods = {3}
  Deltas <- MCDeltas
  StreamTimes = {1, 2, 3, 4}
  FrameTime = 400
  Durations = {0, 400}
  Gaps = {0, 6000}
  DrawTimes = {10, 500}
  Proportions = {600}
  MaxFrames = 5
  Seekers = {1, 2}
  MaxPosition = 1
  MaxSegments = 2
  Wrap = 8
  TimeLimit = 3
  MaxTicks = 26
INVARIANTS
  SleepersAreWoken
  DrawsFreshSamples
  TimesSafe
  StreamControlSafe
  DeviationsAreReal
PROPERTIES
  CompleteOnceAtTheEnd
  NeverLooksHung
