SPECIFICATION Spec
CONSTANTS
  Texts <- MCTexts
  Buffers <- MCBuffers
  Files <- MCFiles
  PatchLengths <- MCPatchLengths
  PieceMaximum = 2
  DumpMaximum = 3
INVARIANTS
  TypeOK
  FramesAreFilled
  FramesAreUnderstood
  PiecesTile
PROPERTIES
  CallsEnd
