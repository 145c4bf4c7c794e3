SPECIFICATION Spec
CONSTANTS
  c1 = c1
  c2 = c2
  Clients <- MCOneClient
  NoClient = NoClient
  MaxImages = 1
  HeadSize = 1
  Payload = 2
  Chunk = 2
  ComponentMode = TRUE
  WriteFails = FALSE
INVARIANT
  ResendIsWhole
\* all images are rendered, or no client is left to send them to
CHECK_DEADLOCK FALSE
