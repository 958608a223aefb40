CONSTANTS
  Workflow = {f1, f2}
  Run = {r1, r2, r3, r4, r5}
  Worker = {}
  Session = {s1, s2}
  MaxRetries = 2
  RunLimit = 2
  BatchLimit = 1
  MaxTime = 1
  CrashLimit = 1
  LostLimit = 1
  NoRun = NoRun
  NoTime = NoTime
SPECIFICATION Spec
SYMMETRY Symmetry
INVARIANT QuotaOvershootBounded
CHECK_DEADLOCK FALSE
