CONSTANTS
  u1 = u1
  s1 = s1
  User = {u1}
  Authorised = {u1}
  Session = {s1}
  Channel = {1}
  RequestId = {r1}
  CallId = {c1}
  EventId = {e1, e2}
  MaxDelivery = 1
  PickId = {}
  MaxUnbind = 0
  Loaded <- OneThread
  FirstTs = 1
  Ttl = 0
  MaxTime = 0
  Capacity = 2
SPECIFICATION Spec
SYMMETRY Symmetry
CHECK_DEADLOCK FALSE
INVARIANT OneVerdictPerCall
