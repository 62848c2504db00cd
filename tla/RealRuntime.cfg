CONSTANTS
  h1 = h1
  h2 = h2
  None = None
  Harnesses <- MCHarnesses
  Findings <- MCFindings
  ExitCodes <- MCExitCodes
  Expectations <- MCExpectations
  MaxFindings = 1
SPECIFICATION Spec
INVARIANTS
  NothingLeftBehind
  PassIsEarned
PROPERTIES
  RunEnds
CHECK_DEADLOCK FALSE
