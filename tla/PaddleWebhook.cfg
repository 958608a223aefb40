CONSTANTS
  Handler = {h1, h2}
  Plan = {p1, p2}
  Txn = {t1}
  MaxEvents = 2
  FailLimit = 2
  NoRow = NoRow
SPECIFICATION FairSpec
INVARIANTS TypeOK OneOrder FollowsEvents
PROPERTIES EveryEventProcessed
CHECK_DEADLOCK FALSE
