CONSTANTS
  Workflow = {f1}
  Worker = {w1, w2}
  Editor = {e1}
  Interval = 1
  MonthLength = 2
  RunLimit = 1
  MaxTime = 2
  CrashLimit = 0
  LostLimit = 0
  OtherLimit = 0
  NoWorkflow = NoWorkflow
  NoTime = NoTime
  NoEdit = NoEdit
SPECIFICATION Spec
SYMMETRY Symmetry
INVARIANTS TypeOK ExecutionsGuarded RunsSpaced SlotMatchesState
CHECK_DEADLOCK FALSE
