\* The code's page of survivors; one node goes down for good.
CONSTANTS
  Controllers = {c1}
  Nodes = {1, 2}
  NoNode = NoNode
  VMs = {11, 12}
  NoVM = NoVM
  Home <- HomeOnOne
  Ceph = {11, 12}
  Ipmi = {1}
  Capacity <- RoomForAll
  NodePage = 0
  VMPage = 2
  MaxFaults = 1
SPECIFICATION FairSpec
PROPERTY VMsLeaveDeadNode
\* With no more faults to come the monitors have nothing to do.
CHECK_DEADLOCK FALSE
