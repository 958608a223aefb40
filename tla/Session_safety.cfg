CONSTANTS
  Tab = {t1, t2}
  User = {u1, u2}
  Req = {r1}
  Me = Me
  MaxPairs = 3
  LossLimit = 1
  NoUser = NoUser
  NoTab = NoTab
SPECIFICATION Spec
INVARIANTS TypeOK AppliedOnce StoredFollowsLogin WaitersHeld
PROPERTIES ExpiredForCause
SYMMETRY Symmetry
CHECK_DEADLOCK FALSE
