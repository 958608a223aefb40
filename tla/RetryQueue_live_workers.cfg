CONSTANTS
  Workflow = {f1}
  Run = {r1, r2, r3, r4}
  Worker = {w1, w2}
  Session = {s1}
  MaxRetries = 2
  RunLimit = 5
  BatchLimit = 1
  MaxTime = 2
  CrashLimit = 1
  LostLimit = 1
  NoRun = NoRun
  NoTime = NoTime
SPECIFICATION AmpleSpec
PROPERTY DueIsHandled
CHECK_DEADLOCK FALSE
