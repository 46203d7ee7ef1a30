SPECIFICATION Spec
CONSTANTS
  Calls <- MCCalls
  ReceiveCounts <- MCErrorCounts
  Strays = {}
  PatchOpcodes = {1, 4}
  MaxCalls = 3
  MaxUnsolicited = 2
CHECK_DEADLOCK FALSE
PROPERTIES
  ReceiveErrorReturns
