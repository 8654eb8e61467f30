CONSTANTS
  f1 = f1
  f2 = f2
  f3 = f3
  irq = irq
  NoOwner = NoOwner
  SharedOwner = SharedOwner
  Fibers <- MCFibers
  Isrs <- MCIsrs
  ReaderSets <- MCOneReader
  Successor <- MCSuccessor
SPECIFICATION Spec
INVARIANTS
  WriterIsAlone
PROPERTIES
  LockReturns
