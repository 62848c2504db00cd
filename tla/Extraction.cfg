CONSTANTS
  MaxCalls = 3
SPECIFICATION Spec
INVARIANTS
  SdksAgreeOnEmulator
  RefusalIsFailure
  ErrorIsOfLastCall
CHECK_DEADLOCK FALSE
