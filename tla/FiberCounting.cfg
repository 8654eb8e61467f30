CONSTANTS
  f1 = f1
  f2 = f2
  f3 = f3
  irq = irq
  Counts = 4
  Desired = 1
  Expected = 3
  Fibers <- MCFibers
  Isrs <- MCIsrs
  Steps <- MCSteps
  Successor <- MCSuccessor
SPECIFICATION Spec
INVARIANTS
  PermitsConserved
PROPERTIES
  NobodyPassesEarly
  AcquireReturns
  LatchReleases
