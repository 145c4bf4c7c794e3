SPECIFICATION FairSpec
CONSTANTS
  p1 = p1
  p2 = p2
  k1 = k1
  k2 = k2
  k3 = k3
  Posters <- MCPosters
  Main = main
  Tasks <- MCTasks
  Delays <- MCDelays
  MaxTime = 2
  NoDue = NoDue
  Idle = Idle
INVARIANTS
  NoTaskLostOrDoubled
PROPERTIES
  SchedulerSpec
  PostedTaskRuns
\* the process really stops: after LeaveLoop nothing is left to do
CHECK_DEADLOCK FALSE
