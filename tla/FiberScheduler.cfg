CONSTANTS
  t1 = t1
  t2 = t2
  t3 = t3
  NoTask = NoTask
  Wild = Wild
  Tasks <- MCTasks
  Servers <- MCServers
SPECIFICATION Spec
INVARIANTS
  RingInv
  ContextInv
  NoDanglingTask
  WatermarkInv
PROPERTIES
  StacksAreKept
  RoundRobinSpec
  EveryFiberExecutes
  JoinReturns
  DestructorEnds
