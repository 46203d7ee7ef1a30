SPECIFICATION Spec
CONSTANTS
  Calls <- MCAllShapes
  ReceiveCounts <- MCCounts
  Strays = {}
  PatchOpcodes = {1, 4}
  MaxCalls = 3
  MaxUnsolicited = 2
INVARIANTS
  NoDanglingTransaction
