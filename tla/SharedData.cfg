SPECIFICATION FairSpec
CONSTANTS
  main = main
  js = js
  Threads <- MCThreads
  Main = main
  Types <- MCTypes
  Values <- MCValues
  Default <- MCDefault
  Period <- MCPeriod
  TickModulus = 3
  MaxSets = 3
INVARIANTS
  TypeOK
  NoChangeLost
PROPERTIES
  ChangesToldOnce
  ChangeIsTold
