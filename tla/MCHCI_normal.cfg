SPECIFICATION Spec
CONSTANTS
  Calls <- MCCalls
  ReceiveCounts <- MCCounts
  Strays = {}
  PatchOpcodes = {1, 4}
  MaxCalls = 3
  MaxUnsolicited = 2
INVARIANTS
  TransactionsClosed
PROPERTIES
  CallReturns
  PollReturns
  KeepsPromiseAndReturns
