CONSTANTS
  VMs = {ceph, local, relayed}
  Nodes = {n1, n2, n3}
  Shared = {ceph}
  Relayed = {relayed}
  NoDisk = NoDisk
  Slots = {s1, s2}
  MaxDeliver = 2
  MaxOps = 2
  MaxFaults = 1
  None = None
SPECIFICATION Spec
CHECK_DEADLOCK FALSE
INVARIANTS RowIsTrue RowHasDisk GuestRunsOnce
PROPERTIES MigratingEnds
