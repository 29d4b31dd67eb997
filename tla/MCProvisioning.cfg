CONSTANTS
  v1 = v1
  v2 = v2
  n1 = n1
  a1 = a1
  a2 = a2
  k1 = k1
  s1 = s1
  None = None
  NoDisk = NoDisk
  VMs = {v1, v2}
  Nodes = {n1}
  Node = n1
  Shared = {v1, v2}
  Addresses <- MCAddresses
  SetPage = 1
  HasCustomer = TRUE
  MaxSubnets = 1
  Calls <- MCCalls
  CreateRequests = {c1, c2}
  DeleteRequests = {d1}
  Workers = {w1, w2}
  MaxDeliver = 2
  MaxFaults = 1
SPECIFICATION Spec
CHECK_DEADLOCK FALSE
INVARIANTS RetryGetsSameVM NoSharedAddress 
 
