CONSTANTS
  u1 = u1
  s1 = s1
  User = {u1, u2}
  Authorised = {u1}
  Session = {s1}
  Channel = {1}
  RequestId = {}
  CallId = {}
  EventId = {e1}
  MaxDelivery = 1
  PickId = {p1}
  MaxUnbind = 0
  Loaded <- NoBindings
  FirstTs = 0
  Ttl = 1
  MaxTime = 0
  Capacity = 2
SPECIFICATION Spec
SYMMETRY Symmetry
CHECK_DEADLOCK FALSE
INVARIANT RootIsBound
