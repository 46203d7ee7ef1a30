SPECIFICATION Spec
CONSTANTS
  Calls <- MCCalls
  ReceiveCounts <- MCCounts
  Strays = {"tx_complete"}
  PatchOpcodes = {1, 4}
  MaxCalls = 3
  MaxUnsolicited = 2
INVARIANTS
  NoDanglingTransaction
