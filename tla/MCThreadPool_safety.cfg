SPECIFICATION Spec
CONSTANTS
  NumThreads = 2
  MaxTasks = 3
  Kinds = {"default", "infinity", "null"}
  Producers = {p1, p2}
  Waiters = {w1}
  Destroyers = {w1}
INVARIANTS TypeOK CountersExact NoLostWakeup NoStaleThreadUse CancelOnlyInfinite
PROPERTIES WaitReturnsQuiescent ImplementsTaskPool
CHECK_DEADLOCK FALSE
