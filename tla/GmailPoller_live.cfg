CONSTANTS
  Poller = {p1}
  w1 = w1
  Workflow = {w1, w2}
  Matches <- MCMatches
  Fetch = 2
  Keep = 2
  RunLimit = 4
  MaxMail = 3
  FailLimit = 1
  OtherLimit = 1
  NoState = NoState
SPECIFICATION FairSpec
INVARIANTS AllOrNothing
PROPERTIES Handled
CHECK_DEADLOCK FALSE
