SPECIFICATION FairSpec
CONSTANTS
  c1 = c1
  c2 = c2
  Clients <- MCTwoClients
  NoClient = NoClient
  MaxImages = 2
  HeadSize = 1
  Payload = 2
  Chunk = 2
  ComponentMode = FALSE
  WriteFails = TRUE
INVARIANTS
  WholeImages
  AtMostOneBehind
PROPERTIES
  ImagesInOrder
  RenderCompletes
\* all images are rendered, or no client is left to send them to
CHECK_DEADLOCK FALSE
