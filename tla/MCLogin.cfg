CONSTANTS
  admin = admin
  other = other
  User = {admin, other}
  Admins = {admin}
  Token = {t1}
  Callback = {k1, k2}
  Task = {k1, k2, t1}
  St = {s1, s2}
  Thread <- OneThread
  Loaded <- FirstStart
  LoginTtl = 1
  CookieTtl = 1
  HttpTimeout = 1
  MaxTime = 1
  MaxStops = 1
SPECIFICATION LoginSpec
SYMMETRY Symmetry
CHECK_DEADLOCK FALSE
INVARIANTS LoginTypeOK FileIsWhole MemoryIsSaved LoginsOnce SignedInIsSaved ShownTokensWork OldClockDoesNoHarm
