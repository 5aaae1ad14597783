CONSTANTS
  WithRelay = TRUE
  QueueSize = 1
  PipeSize = 1
  WireSize = 1
  Initial = 1
  MaxWait = 3
  MaxLines = 2
  MaxFrames = 2
  MaxAttempts = 3
SPECIFICATION Spec
CHECK_DEADLOCK FALSE
INVARIANTS TypeOK EveryRequestAnswered NotificationsKept MessagesInOrder BackoffLaw
