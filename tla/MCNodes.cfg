\* The breaker is NewFailoverCircuitBreaker's: 2, 1, 5.  The list of survivors is
\* complete, so that what lies behind it is reached.
SPECIFICATION NodesSpec
CONSTANTS
  Callers = {c1, c2, c3}
  FailureThreshold = 2
  SuccessThreshold = 1
  MaxRetries = 5
  MaxRecords = 7
  Controllers = {k1, k2}
  NoNode = NoNode
  HealthNodes = {n1}
  Admins = {a1}
  Threshold = 2
  NoRow = NoRow
  MaxLapses = 1
  Nodes = {1, 2}
  VMs = {11}
  NoVM = NoVM
  Ipmi = {1}
  NodePage = 2
  VMPage = 2
  MaxFaults = 1
\* With no more faults to come the monitors have nothing to do.
CHECK_DEADLOCK FALSE
INVARIANTS TripsAtThreshold RefusesOnlyOpen FailoverIsSafe
PROPERTIES FailedIsKept 
