SPECIFICATION LiteFairSpec
CONSTANTS
  Handles = {t1}
  Device = device
  Delays = {0, 1}
  DeviceDelay = 1
  MaxWork = 2
  MaxTurns = 1
INVARIANTS
  FiresAsAsked
  TimersAlive
  WorkInOrder
PROPERTIES
  TimerFires
  WorkRuns
  ExitEndsLite
\* the process ends
CHECK_DEADLOCK FALSE
