CONSTANTS
  r1 = r1
  r2 = r2
  None = None
  Req <- MCReq
  Inputs <- MCInputs
  OverrideSets <- MCOverrideSets
  Types <- MCTypes
  Levels <- MCLevels
  Statuses <- MCStatuses
SPECIFICATION Spec
INVARIANTS
  TypeOK
  DoneImpliesStatus
  CallsCounted
  LastCallIsLatest
  AcceptedAreRecorded
CHECK_DEADLOCK FALSE
PROPERTIES
  ImplementsCompletion
  AbandonedCallsEnd
