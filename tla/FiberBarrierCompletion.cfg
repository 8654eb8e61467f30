CONSTANTS
  f1 = f1
  f2 = f2
  f3 = f3
  NoToken = NoToken
  Sequences = 4
  Fibers <- MCFibers
  Successor <- MCSuccessor
SPECIFICATION Spec
PROPERTIES
  CompletionBeforePass
