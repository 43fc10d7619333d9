\* A request with a body from the politest client there is.
SPECIFICATION SpecInLoop
CONSTANTS
  Scripts <- BodyPairs
  Manners <- Polite
  MaxRequests = 3
  MaxBefore = 4
INVARIANTS BodyTaken
CHECK_DEADLOCK FALSE
