CONSTANTS
  u1 = u1
  s1 = s1
  User = {u1}
  Authorised = {u1}
  Session = {s1}
  Channel = {1}
  RequestId = {r1, r2}
  CallId = {c1, c2}
  EventId = {e1}
  MaxDelivery = 2
  PickId = {}
  MaxUnbind = 1
  Loaded <- OneThread
  FirstTs = 1
  Ttl = 0
  MaxTime = 1
  Capacity = 2
SPECIFICATION FairSpec
CHECK_DEADLOCK FALSE
INVARIANTS OncePerEvent VerdictInTime QuestionStaysOpen AnsweredIsGone
PROPERTY RepliesHandled
