CONSTANTS
  f1 = f1
  f2 = f2
  f3 = f3
  irq = irq
  NoOwner = NoOwner
  CountMax = 3
  Fibers <- MCFibers
  Isrs <- MCIsrs
  Irqs <- MCIsrs
  Successor <- MCSuccessor
SPECIFICATION Spec
INVARIANTS
  MutualExclusion
  OwnerHolds
  WaitsForOther
PROPERTIES
  LockReturns
