SPECIFICATION FairSpec
CONSTANTS
  t1 = t1
  t2 = t2
  p1 = p1
  a1 = a1
  a2 = a2
  none = none
  Tasks <- TwoTasks
  Unhandled <- SecondTask
  Procs <- OneProc
  Slots <- PairOfSlots
  ProcOf <- SlotProc
  NoTask = none
  MaxDeliver = 2
  MaxTaskRetries = 3
  MaxCrashes = 1
CHECK_DEADLOCK FALSE
INVARIANTS WorkIsDone
PROPERTIES FinalStaysFinal 
