SPECIFICATION Spec
CONSTANTS
  FifoDepth = 2
  Texts <- MCTexts
  Values <- MCValues
  Widths <- MCWidths
  CallLimit = 5
  IrqStartsAsserted = FALSE
INVARIANTS TypeOK NothingUnclocked PoweredLast ChipReadyFirst LogIsWhole
PROPERTY Starts
