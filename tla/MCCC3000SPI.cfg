SPECIFICATION Spec
CONSTANTS
  Lengths <- MCLengths
  Chunks <- MCChunks
  FrameLengths <- MCFrameLengths
  MaxAsked <- MCMaxAsked
INVARIANTS
  TypeOK
  FrameIsExact
  WritesAreEven
  NothingDropped
  RemainingIsOwed
PROPERTIES
  HeaderIsSent
