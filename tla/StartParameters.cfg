SPECIFICATION StartSpec
CONSTANTS
  CommandLines <- MCCommandLines
  Dashed <- MCDashed
  Numerals <- MCNumerals
  Words <- MCWords
  HexTexts <- MCHexTexts
  PipeNames = {"480"}
  SocketNames = {"480"}
  Number <- MCNumber
  TooLong = {"very long text"}
  LongNames = {"long name"}
  Directories = {"app"}
  Files = {"file"}
INVARIANTS
  LastOptionWins
  StartsOnCheckedValues
PROPERTY
  Decides
