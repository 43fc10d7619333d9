SPECIFICATION FairSpec
CONSTANTS
  NumThreads = 2
  MaxTasks = 3
  Kinds = {"infinity"}
  Producers = {p1}
  Waiters = {}
  Destroyers = {}
PROPERTIES AddTaskReturns
CHECK_DEADLOCK FALSE
