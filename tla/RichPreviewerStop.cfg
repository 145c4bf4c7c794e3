SPECIFICATION RichSpec
CONSTANTS
  MaxMessages = 2
  Body = 1
  MaxEvents = 0
PROPERTY
  StopFinishedMeansStopped
\* the process ends
CHECK_DEADLOCK FALSE
