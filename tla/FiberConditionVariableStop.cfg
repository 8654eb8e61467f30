CONSTANTS
  irq = irq
  f1 = f1
  f2 = f2
  f3 = f3
  Sequences = 4
  Burst = 1
  Fibers <- MCFibers
  Waiters <- MCWaiters
  Producers <- MCProducers
  Isrs = {}
  Successor <- MCSuccessor
SPECIFICATION Spec
PROPERTIES
  StopEndsWait
