CONSTANTS
  Workflow = {f1, f2}
  Worker = {w1, w2}
  Editor = {e1}
  Interval = 2
  MonthLength = 3
  RunLimit = 1
  MaxTime = 3
  CrashLimit = 1
  LostLimit = 1
  OtherLimit = 1
  NoWorkflow = NoWorkflow
  NoTime = NoTime
  NoEdit = NoEdit
SPECIFICATION EngineSpec

PROPERTY DueIsServed
CHECK_DEADLOCK FALSE
