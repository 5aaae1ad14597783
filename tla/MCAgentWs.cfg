CONSTANTS
  Name = {n1}
  Conn = {c1, c2}
  Message = {m1, m2}
  QueueSize = 1
  WireSize = 1
SPECIFICATION FairSpec
CHECK_DEADLOCK FALSE
INVARIANTS TypeOK NameIsOwned WelcomeFirst RefusedNeverQueued
PROPERTIES ImplementsOutbox SendsReturn NameIsFreed
