CONSTANTS
  WithRelay = TRUE
  QueueSize = 1
  PipeSize = 1
  WireSize = 1
  Initial = 1
  MaxWait = 3
  MaxLines = 2
  MaxFrames = 2
  MaxAttempts = 1
SPECIFICATION FairSpec
CHECK_DEADLOCK FALSE
PROPERTY EofEnds
