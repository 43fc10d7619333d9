\* Every kind of client: pipelining or not, in pieces or not.
SPECIFICATION FairSpecInLoop
CONSTANTS
  Scripts <- AllScripts
  Manners <- AnyManner
  MaxRequests = 3
  MaxBefore = 4
INVARIANTS TypeOK UnreadIsAnnounced ResponsesIntact AnsweredOnce AnswersMatch WellFormedNotRejected
PROPERTIES RunsAsInLoop EveryRequestAnswered
CHECK_DEADLOCK FALSE
