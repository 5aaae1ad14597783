CONSTANTS
  m1 = m1
  m2 = m2
  QueueSize = 1
  PipeSize = 1
  WireSize = 1
  Initial = 1
  MaxWait = 3
  LineKinds <- TwoLines
  HubQueue = 1
  Sends <- TwoSends
  Conn = {c1}
  Name = {n1}
SPECIFICATION FairSpec
CHECK_DEADLOCK FALSE
INVARIANT ShownIsAccepted
PROPERTIES EndsUnlessStuck RoomUnlessStuck SendsReturnUnlessStuck
