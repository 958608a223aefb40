CONSTANTS
  Workflow = {f1}
  Run = {r1, r2, r3, r4}
  Worker = {w1, w2}
  Session = {s1}
  MaxRetries = 2
  RunLimit = 3
  BatchLimit = 2
  MaxTime = 2
  CrashLimit = 1
  LostLimit = 1
  NoRun = NoRun
  NoTime = NoTime
SPECIFICATION Spec
SYMMETRY Symmetry
INVARIANTS TypeOK ClaimsExclusive RetriedOnce FailureAccounted ScheduleConsistent ChainWellFormed
PROPERTY ImplementsLifecycle
CHECK_DEADLOCK FALSE
