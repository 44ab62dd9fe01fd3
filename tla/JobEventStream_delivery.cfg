SPECIFICATION FairSpec
CONSTANTS
  MaxEvents = 4
  QueueSize = 3
  RedisOn = TRUE
  FaultKinds = {"publish", "subscribe", "message", "database", "disconnect"}
  MaxFaults = 2
CHECK_DEADLOCK FALSE
INVARIANTS TypeOK PageSeesPrefix TaskEndsWithTerminal
PROPERTIES TerminalDelivered
