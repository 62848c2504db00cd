CONSTANTS
  Scenarios <- MCScenarios
  UserOverrides <- MCUserOverrides
  KeepGoing = FALSE
  WorkerStatuses <- MCWorkerStatuses
  ExitCodes <- MCExitCodes
SPECIFICATION Safety
PROPERTY
  RejectedFindingsFailScenarios
CHECK_DEADLOCK FALSE
