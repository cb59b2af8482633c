SPECIFICATION Spec
CONSTANTS
  MaxActions = 2
  MaxCalls = 0
INVARIANT StoresAgree
CHECK_DEADLOCK FALSE
