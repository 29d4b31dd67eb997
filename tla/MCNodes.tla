------------------------------ MODULE MCNodes -------------------------------
(***************************************************************************)
(* Small instances of what watches the nodes and fails them over: the      *)
(* breaker, the nodes rows, and the failover itself.  A behaviour is one of*)
(* the part chosen at first.                                               *)
(***************************************************************************)
EXTENDS CircuitBreaker

CONSTANTS Controllers, NoNode, HealthNodes, Admins, Threshold, NoRow, MaxLapses,
          Nodes, VMs, NoVM, Ipmi, NodePage, VMPage, MaxFaults

VARIABLES part,
          node, reach, snap, degrade, due, verified, request, lapses,
          status, bad, alloc, vm, machine, domain, running, locks, blocked, failover, faults,
          slipped, overlapped

Health == INSTANCE NodeHealth WITH Nodes <- HealthNodes
Over   == INSTANCE Failover WITH Home <- [v \in VMs |-> 1], Ceph <- VMs,
                                 Capacity <- [n \in Nodes |-> 2]

ASSUME Over!FailoverAssumption

healthVars == <<node, reach, snap, degrade, due, verified, request, lapses>>
overVars == <<status, bad, alloc, vm, machine, domain, running, locks, blocked, failover, faults,
              slipped, overlapped>>
nodesVars == <<part, vars, healthVars, overVars>>

NodesInit == /\ part \in {"breaker", "health", "failover"}
             /\ Init /\ Health!Init /\ Over!Init

NodesNext ==
  /\ UNCHANGED part
  /\ \/ part = "breaker" /\ Next /\ UNCHANGED <<healthVars, overVars>>
     \/ part = "health" /\ Health!Next /\ UNCHANGED <<vars, overVars>>
     \/ part = "failover" /\ Over!Next /\ UNCHANGED <<vars, healthVars>>

NodesSpec ==
  /\ NodesInit /\ [][NodesNext]_nodesVars
  /\ WF_vars(CoolDown) /\ Over!Fairness

-----------------------------------------------------------------------------
(* The properties are stated and explained in the parts' modules.  Those   *)
(* of the breaker are TripsAtThreshold and RefusesOnlyOpen.                *)

(* NodeHealth: a failed node is not revived by the checkers.               *)
FailedIsKept == Health!FailedIsKept

(* Failover: no guest executes on two nodes that reach its disk, and       *)
(* undisturbed failovers keep the nodes' books; the types hold, those of   *)
(* the breaker and of the nodes rows too.                                  *)
FailoverIsSafe ==
  TypeOK /\ Health!TypeOK /\ Over!TypeOK /\ Over!DiskMountedOnce /\ Over!BooksBalance


=============================================================================
