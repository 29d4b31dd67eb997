SPECIFICATION GuestsSpec
CONSTANTS
  Customers = {c1}
  Amounts = {0, 1, 2}
  Refs = {v1}
  NoRef = None
  Keys <- MCKeys
  NoKey = None
  Instances = {i1, i2}
  NoInstance = None
  VMs = {v1}
  NoVM = None
  Owner <- MCOwner
  Plans <- MCPlans
  NoPrice = None
  MaxHour = 1
  None = None
  Nodes = {n1}
  Node = n1
  Shared = {v1}
  NoDisk = NoDisk
  Templates = {t1, t2}
  Slots = {s1, s2}
  MaxDeliver = 2
  MaxOps = 2
  MaxFaults = 1
  Snaps = {x1, x2}
  Handlers = {h1, h2}
  MaxStoreCalls = 2
  Limit = 1
  MaxMonth = 2
  MaxBytes = 2
  MaxUsageCalls = 3
  MaxPid = 3
  MaxDhcpCalls = 4
  Owners = {o1, o2}
  Byte = 2
CHECK_DEADLOCK FALSE
INVARIANTS ChargedOncePerHour GuestIsSound StorageIsSafe NetworkIsTracked
PROPERTIES LockComesFree 
