\* A connection placed in a full table.
SPECIFICATION Spec
CONSTANTS
  Peers = {p1, p2, p3}
  Capacity = 2
  MaxFd = 7
  BatchSize = 4
INVARIANTS RegisteredUnderOwnSlot
CHECK_DEADLOCK FALSE
