CONSTANTS
  u1 = u1
  s1 = s1
  User = {u1, u2, u3}
  Authorised = {u1, u2}
  Session = {s1, s2}
  Channel = {1}
  RequestId = {r1}
  CallId = {c1, c2}
  EventId = {e1}
  MaxDelivery = 1
  PickId = {p1}
  MaxUnbind = 1
  Loaded <- OneThread
  FirstTs = 1
  Ttl = 0
  MaxTime = 0
  Capacity = 2
SPECIFICATION Spec
SYMMETRY Symmetry
CHECK_DEADLOCK FALSE
INVARIANTS TypeOK VerdictIsAnAnswer UnboundStaysUnbound
PROPERTY DropIsExplained
