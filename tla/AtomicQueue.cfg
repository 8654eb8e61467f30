CONSTANTS
  v1 = v1
  v2 = v2
  NoValue = NoValue
  None = None
  N = 3
  Indices = 256
  Values <- MCValues
SPECIFICATION Spec
INVARIANTS
  SizesAreBounds
PROPERTIES
  FifoSpec
