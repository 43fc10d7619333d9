\* The event of a leaked descriptor closes the connection that reuses its slot.
SPECIFICATION Spec
CONSTANTS
  Peers = {p1, p2}
  Capacity = 2
  MaxFd = 6
  BatchSize = 4
PROPERTIES ClosesOnlyHungUp
CHECK_DEADLOCK FALSE
