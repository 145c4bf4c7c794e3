SPECIFICATION DeviceSpec
CONSTANTS
  IntMax = 1000000
  Decimal <- MCDecimal
  RichLanguages = {"zh-CN", "en-US", "de_DE"}
  SourceTools = {0, 1, 7}
  Settings <- MCSettings
  Configurations <- MCConfigurations
  Requests <- MCRequests
  AppValues = {0, 1}
  MaxRequests = 2
INVARIANTS
  AcceptedIsDone
  UndisturbedReadIsExact
  NewLatitudeNewLongitude
  PositionIsTold
  ColoursAgree
\* no more commands
CHECK_DEADLOCK FALSE
