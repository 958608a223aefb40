CONSTANTS
  Poller = {p1, p2}
  w1 = w1
  Workflow = {w1}
  Matches <- MCMatches
  Fetch = 2
  Keep = 2
  RunLimit = 2
  MaxMail = 3
  FailLimit = 1
  OtherLimit = 0
  NoState = NoState
SPECIFICATION Spec
SYMMETRY Pollers
INVARIANTS TypeOK RememberedRan InOrder FewRepeats
CHECK_DEADLOCK FALSE
