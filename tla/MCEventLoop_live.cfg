\* Two clients and one slot: acceptance, refusal and reuse go on for ever.
SPECIFICATION FairSpec
CONSTANTS
  Peers = {p1, p2}
  Capacity = 1
  MaxFd = 6
  BatchSize = 4
PROPERTIES RequestsRead HangUpsClosed BacklogServed
CHECK_DEADLOCK FALSE
