SPECIFICATION Spec
CONSTANTS
  Calls <- MCAllShapes
  ReceiveCounts <- MCErrorCounts
  Strays = {"tx_complete"}
  PatchOpcodes = {1, 4}
  MaxCalls = 3
  MaxUnsolicited = 3
CHECK_DEADLOCK FALSE
INVARIANTS
  TypeOK
  RepliesArePaired
  FlagsFollowLink
PROPERTIES
  LeaksOnlyThere
  KeepsPromise
