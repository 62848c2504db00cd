CONSTANTS
  Scenarios <- MCScenarios
  UserOverrides <- MCUserOverrides
  KeepGoing = FALSE
  WorkerStatuses <- MCWorkerStatuses
  ExitCodes <- MCExitCodes
SPECIFICATION Spec
INVARIANTS
  OnlyAbandonedWorkersIntrude
  ReturnedReflectsOutcomes
  NoPassOnInventedExitCode
PROPERTIES
  ProbeEnds
CHECK_DEADLOCK FALSE
