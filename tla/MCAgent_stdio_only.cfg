CONSTANTS
  WithRelay = FALSE
  QueueSize = 1
  PipeSize = 1
  WireSize = 1
  Initial = 1
  MaxWait = 3
  MaxLines = 2
  MaxFrames = 0
  MaxAttempts = 0
SPECIFICATION FairSpec
CHECK_DEADLOCK FALSE
PROPERTY LinesHandled
