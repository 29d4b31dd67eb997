SPECIFICATION WiredSpec
CONSTANTS
  t1 = t1
  t2 = t2
  p1 = p1
  a1 = a1
  a2 = a2
  none = none
  Tasks <- OneTask
  Unhandled <- NoTasks
  Procs <- OneProc
  Slots <- OneSlot
  ProcOf <- SlotProc
  NoTask = none
  MaxDeliver = 3
  MaxTaskRetries = 3
  MaxCrashes = 1
CHECK_DEADLOCK FALSE
PROPERTIES
  PublishedIsTakenUp
