CONSTANTS
  t1 = t1
  t2 = t2
  t3 = t3
  NoTask = NoTask
  Wild = Wild
  Tasks <- MCTasks
  Servers <- MCServers
SPECIFICATION Spec
PROPERTIES
  JoinReturnsOnceFinished
