SPECIFICATION RichFairSpec
CONSTANTS
  MaxMessages = 2
  Body = 2
  MaxEvents = 1
INVARIANTS
  OneAnswerInOrder
  OnlyTornIsLost
  NoCommandAfterStop
  StopWaits
PROPERTIES
  ServiceSpec
  MessageServed
  ExitEndsApp
\* the process ends
CHECK_DEADLOCK FALSE
