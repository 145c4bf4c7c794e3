SPECIFICATION DisplayFairSpec
CONSTANTS
  Lengths = {1, 2, 3, 5}
  Asked <- MCAsked
  Operations = {"resolution", "orientation", "fold", "document"}
  StartOriginal <- Original
  StartCompressed <- Compressed
  StartFold = "unfold"
  FoldedSize <- Folded
  MinWidth = 2
  MaxWidth = 5
  MinLoadDocWidth = 1
  MaxLoadDocWidth = 5
  MaxCommands = 3
INVARIANTS
  WindowSettles
PROPERTIES
  WindowFollows
\* no more commands
CHECK_DEADLOCK FALSE
