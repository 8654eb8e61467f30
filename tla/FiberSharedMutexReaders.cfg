CONSTANTS
  f1 = f1
  f2 = f2
  f3 = f3
  irq = irq
  NoOwner = NoOwner
  SharedOwner = SharedOwner
  Fibers <- MCFibers
  Isrs <- MCIsrs
  ReaderSets <- MCTwoReaders
  Successor <- MCSuccessor
SPECIFICATION Spec
INVARIANTS
  WriterIsAlone
