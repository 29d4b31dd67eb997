CONSTANTS
  c1 = c1
  Controllers = {c1, c2}
  Slots = {s1, s2}
  Limit = 1
  FrozenCount = 1
  HandlerMethod = "full"
  Days = 2
  Plans <- MCPlans
  MaxDeliver = 2
  MaxDay = 1
  MaxTasks = 2
  MaxAttempts = 5
  MaxRows = 5
  MaxFaults = 1
SPECIFICATION Spec
CHECK_DEADLOCK FALSE
 
PROPERTIES LimitKept 
