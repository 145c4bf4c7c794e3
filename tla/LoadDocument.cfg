SPECIFICATION FairSpec
CONSTANTS
  t1 = t1
  t2 = t2
  Timers <- MCTimers
  Sizes <- MCSizes
  NoFrame = NoFrame
  OnRenderTimeout = 0
  SendDuration = 1
  NineSeconds = 2
  MaxLoads = 2
  MaxFrames = 3
  Horizon = 2
INVARIANTS
  OnePoller
  BuffersAlive
PROPERTIES
  SendsLastImage
  GivesUpOnLateImage
  PollingEnds
  KeptImageIsSent
\* the commands are over at Horizon
CHECK_DEADLOCK FALSE
