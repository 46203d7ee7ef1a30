SPECIFICATION Spec
CONSTANTS
  a = a
  b = b
  Unset = Unset
  K = 2
  Width = 3
  Values <- MCValues
  Buffers <- MCBuffers
  Lengths <- MCLengths
INVARIANT TypeOK
PROPERTY ImplementsFifo
