SPECIFICATION FairSpec
CONSTANTS
  NumThreads = 2
  MaxTasks = 3
  Kinds = {"default"}
  Producers = {p1, p2}
  Waiters = {w1}
  Destroyers = {}
PROPERTIES EveryTaskEnds AddTaskReturns WaitReturns
CHECK_DEADLOCK FALSE
