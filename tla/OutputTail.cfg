CONSTANTS
  Streams <- MCStreams
  Cap = 2
  MaxPieces = 5
SPECIFICATION Spec
INVARIANTS
  ExactUnlessRaced
  QuotedInOrder
PROPERTIES
  DeadWorkerIsJudged
CHECK_DEADLOCK FALSE
