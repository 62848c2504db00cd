CONSTANTS
  r1 = r1
  r2 = r2
  None = None
  Req <- MCReq
  Inputs <- MCInputs
  OverrideSets <- MCOverrideSets
  Types <- MCTypes
  Levels <- MCLevels
  Statuses <- MCStatuses
  Expectations <- MCExpectations
  ExitCodes <- MCExitCodes
SPECIFICATION HSpec
INVARIANTS
  InventedExitCodeUnused
  NothingLeftBehind
  VerdictSeesWholeRun
  NoRejectedFindingPasses
PROPERTIES
  RunIsJudged
CHECK_DEADLOCK FALSE
