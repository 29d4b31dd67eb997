----------------------------- MODULE MCFailover -----------------------------
(* Instances of Failover for TLC: nodes 1 and 2, VMs 11 and 12.            *)
EXTENDS Failover

HomeOnOne == [v \in VMs |-> 1]
RoomForAll == [n \in Nodes |-> Cardinality(VMs)]

=============================================================================
