CONSTANTS
  Boards = {b1, b2}
  Components = {server, caller, client}
  Ids = {x, y}
  server = server caller = caller client = client
  b1 = b1 b2 = b2 x = x y = y
  Everyone = Everyone
  BoardOf <- MCBoardOf
  Registered <- MCRegistered
  ActionCalls <- MCCalls
  MaxMessages = 3
  BacklogSize = 1
SPECIFICATION XpccSpec
CHECK_DEADLOCK FALSE
INVARIANTS XpccTypeOK CallbackOnce ExecutionsBounded AckedIsDelivered AnswerEndsWaiting
PROPERTIES SendingEnds
