\* Three clients that come and go, two slots, two descriptors to begin with.
SPECIFICATION Spec
CONSTANTS
  Peers = {p1, p2, p3}
  Capacity = 2
  MaxFd = 6
  BatchSize = 4
SYMMETRY Symmetry
INVARIANTS TypeOK SlotsMatchDescriptors EventsHitTheirConnection EventsInBounds NoEdgeLost ReadableMeansInput
PROPERTIES ClosesHungUpWhileHealthy
CHECK_DEADLOCK FALSE
