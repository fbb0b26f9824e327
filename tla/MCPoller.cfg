SPECIFICATION FairSpec
CONSTANTS
  Producers = {p1, p2, p3}
  Loop = loop
  MaxAsyncTasksAtOneTime = 1
  MaxTasks = 4
INVARIANTS
  NoLostWakeup
  PollerInv
PROPERTY TasksRun
CHECK_DEADLOCK FALSE
