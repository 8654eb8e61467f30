CONSTANTS
  a = a
  c = c
  k = k
  u = u
  Tries = 2
  NoMessage = NoMessage
  Nodes <- MCNodes
  Commands <- MCCommands
  Actions <- MCActions
  Listeners <- MCListeners
  Calls <- MCCalls
  Priority <- MCPriority
  CallsPerNode <- MCCallsPerNode
  MinTxTries = 2
  Counters = 4
  TxBufferSize = 2
  InboxSize = 1
SPECIFICATION Spec
CHECK_DEADLOCK FALSE
INVARIANTS
  PositiveMeansExecuted
