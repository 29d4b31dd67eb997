------------------------------ MODULE Failover ------------------------------
(***************************************************************************)
(* The failover of a node (FailoverService.ApproveFailover), started by    *)
(* the monitors of the controllers: power the node off over IPMI, put it   *)
(* on Ceph's blocklist, remove the RBD locks of its VMs, list its VMs and  *)
(* the surviving nodes, and move the VMs one by one.  The monitors of      *)
(* several controllers may fail over the same node at once, any command or *)
(* statement may fail, and a controller may die anywhere.  How a node      *)
(* comes to be declared failed is in module NodeHealth.                    *)
(*                                                                         *)
(* Every VM takes one unit of a node's capacity.  The failover_requests    *)
(* row, which nothing but a listing reads, is left out.                    *)
(***************************************************************************)
EXTENDS Integers, FiniteSets

CONSTANTS Controllers,
          Nodes, NoNode,
          VMs, NoVM,
          Home,       \* the node a VM was created on
          Ceph,       \* VMs whose disk is on Ceph
          Ipmi,       \* nodes with IPMI credentials
          Capacity,   \* total_vcpu and total_memory_mb of a node, in VMs
          NodePage,   \* PerPage of findSurvivingNodes' filter; 0 in the code
          VMPage,     \* PerPage of getVMsOnNode's filter; 100 in the code
          MaxFaults   \* bound: machines that hang or lose power

FailoverAssumption ==
  /\ Nodes \subseteq Nat /\ VMs \subseteq Nat  \* ids: lists are ordered by them
  /\ Home \in [VMs -> Nodes] /\ Ceph \subseteq VMs /\ Ipmi \subseteq Nodes
  /\ Capacity \in [Nodes -> Nat]
  /\ NodePage \in Nat /\ VMPage \in Nat /\ MaxFaults \in Nat
  /\ NoNode \notin Nodes /\ NoVM \notin VMs

VARIABLES status,    \* nodes.status
          bad,       \* nodes whose consecutive_heartbeat_misses reach the threshold
          alloc,     \* nodes.allocated_*, in VMs
          vm,        \* the vms row: node_id and status
          machine,   \* the hardware: "up", "hung" (guests run on) or "off"
          domain,    \* nodes whose libvirt has the VM's domain defined
          running,   \* nodes on which the guest is executing
          locks,     \* nodes holding an RBD lock of the VM's image
          blocked,   \* the OSD blocklist
          failover,  \* the ApproveFailover a controller is in
          faults,    \* machine faults so far
          slipped,   \* history: a statement failed or a controller died
          overlapped   \* history: a failover began while another one was under way

dbVars == <<status, bad, alloc, vm>>
machineVars == <<machine, domain, running, locks, blocked, faults>>
historyVars == <<slipped, overlapped>>
vars == <<dbVars, machineVars, failover, historyVars>>

Idle == [pc |-> "idle", node |-> NoNode, todo |-> {}, free |-> [n \in Nodes |-> -1],
         vm |-> NoVM, to |-> NoNode]

At(c, pc) == failover[c].pc = pc
Goto(c, pc) == failover' = [failover EXCEPT ![c].pc = pc]
Stop(c) == failover' = [failover EXCEPT ![c] = Idle]
OnNode(n) == {v \in VMs : vm[v].node = n}

(* Repository lists: ORDER BY id DESC, cut to the page.                    *)
Page(rows, size) == {x \in rows : Cardinality({y \in rows : y > x}) < size}

(* An error that is logged, or returned, at this statement.                *)
Slip == slipped' = TRUE /\ UNCHANGED overlapped

-----------------------------------------------------------------------------

Init ==
  /\ status = [n \in Nodes |-> "online"]
  /\ bad = {}
  /\ alloc = [n \in Nodes |-> Cardinality({v \in VMs : Home[v] = n})]
  /\ vm = [v \in VMs |-> [node |-> Home[v], status |-> "running"]]
  /\ machine = [n \in Nodes |-> "up"]
  /\ domain = [v \in VMs |-> {Home[v]}]
  /\ running = domain
  /\ locks = domain
  /\ blocked = {}
  /\ failover = [c \in Controllers |-> Idle]
  /\ faults = 0
  /\ slipped = FALSE /\ overlapped = FALSE

(* A node stops answering with its guests still running, or goes dark.     *)
Hang(n) ==
  /\ machine[n] = "up" /\ faults < MaxFaults
  /\ machine' = [machine EXCEPT ![n] = "hung"] /\ faults' = faults + 1
  /\ UNCHANGED <<dbVars, domain, running, locks, blocked, failover, historyVars>>

PowerOff(n) ==
  /\ machine' = [machine EXCEPT ![n] = "off"]
  /\ running' = [v \in VMs |-> running[v] \ {n}]

PowerFails(n) ==
  /\ machine[n] # "off" /\ faults < MaxFaults
  /\ PowerOff(n) /\ faults' = faults + 1
  /\ UNCHANGED <<dbVars, domain, locks, blocked, failover, historyVars>>

ComesUp(n) ==
  /\ machine[n] # "up"
  /\ machine' = [machine EXCEPT ![n] = "up"]
  /\ UNCHANGED <<dbVars, domain, running, locks, blocked, faults, failover, historyVars>>

(* The outcomes of NodeHealth: the misses of a silent node reach the       *)
(* threshold, a heartbeat resets them, and a failed node is brought back.  *)
CountedOut(n) ==
  /\ machine[n] # "up" /\ n \notin bad /\ status[n] # "failed"
  /\ bad' = bad \cup {n}
  /\ status' = [status EXCEPT ![n] = "degraded"] \/ UNCHANGED status
  /\ UNCHANGED <<alloc, vm, machineVars, failover, historyVars>>

HeardAgain(n) ==
  /\ machine[n] = "up" /\ n \in bad
  /\ bad' = bad \ {n}
  /\ UNCHANGED <<status, alloc, vm, machineVars, failover, historyVars>>

BroughtBack(n) ==
  /\ status[n] = "failed"
  /\ status' = [status EXCEPT ![n] = "online"]
  /\ UNCHANGED <<bad, alloc, vm, machineVars, failover, historyVars>>

-----------------------------------------------------------------------------

(* The monitor picks a node from its list.                                 *)
AutoFailover(c, n) ==
  /\ At(c, "idle")
  /\ status[n] # "failed" /\ n \in bad
  /\ failover' = [failover EXCEPT ![c] = [Idle EXCEPT !.pc = "verify", !.node = n]]
  /\ overlapped' = (overlapped \/ \E d \in Controllers : ~At(d, "idle"))
  /\ UNCHANGED <<dbVars, machineVars, slipped>>

(* verifyFailedNode: reads the row again and marks the node failed.        *)
VerifyFailedNode(c) ==
  /\ At(c, "verify")
  /\ IF failover[c].node \in bad
       THEN /\ status' = [status EXCEPT ![failover[c].node] = "failed"]
            /\ Goto(c, "stonith")
       ELSE Stop(c) /\ UNCHANGED status
  /\ UNCHANGED <<bad, alloc, vm, machineVars, historyVars>>

VerifyFails(c) ==
  /\ At(c, "verify")
  /\ Stop(c) \/ (failover[c].node \in bad /\ Goto(c, "stonith"))
  /\ Slip
  /\ UNCHANGED <<dbVars, machineVars>>

(* executeSTONITH: the output of "power status" is logged and not looked   *)
(* at, and a failure, like a node without IPMI, does not end the failover. *)
ExecuteSTONITH(c) ==
  /\ At(c, "stonith")
  /\ \/ failover[c].node \in Ipmi /\ PowerOff(failover[c].node)
     \/ UNCHANGED <<machine, running>>
  /\ Goto(c, "blocklist")
  /\ UNCHANGED <<dbVars, domain, locks, blocked, faults, historyVars>>


(* blocklistNodeInCeph, whose failure does not end the failover either.    *)
BlocklistNode(c) ==
  /\ At(c, "blocklist")
  /\ blocked' = blocked \cup {failover[c].node} \/ UNCHANGED blocked
  /\ Goto(c, "locks")
  /\ UNCHANGED <<dbVars, machine, domain, running, locks, faults, historyVars>>

(* releaseRBDLocks lists the node's VMs, then removes every lock it finds  *)
(* on the image of each Ceph VM, whoever holds it.                         *)
ListLocks(c) ==
  /\ At(c, "locks")
  /\ failover' = [failover EXCEPT ![c].pc = "release",
                                  ![c].todo = Page(OnNode(failover[c].node), VMPage) \cap Ceph]
  /\ UNCHANGED <<dbVars, machineVars, historyVars>>

ReleaseLock(c, v) ==
  /\ At(c, "release") /\ v \in failover[c].todo
  /\ locks' = [locks EXCEPT ![v] = {}] \/ UNCHANGED locks
  /\ failover' = [failover EXCEPT ![c].todo = @ \ {v}]
  /\ UNCHANGED <<dbVars, machine, domain, running, blocked, faults, historyVars>>

(* getVMsOnNode; nothing to do if there are none.                          *)
ListVMs(c) ==
  LET todo == Page(OnNode(failover[c].node), VMPage)
  IN  /\ At(c, "release") /\ failover[c].todo = {}
      /\ failover' = [failover EXCEPT ![c] = IF todo = {} THEN Idle
                        ELSE [@ EXCEPT !.pc = "survivors", !.todo = todo]]
      /\ UNCHANGED <<dbVars, machineVars, historyVars>>

(* findSurvivingNodes: the first NodePage of the online nodes, with the    *)
(* room they have at this moment.  An empty list ends the failover.        *)
ListSurvivors(c) ==
  LET surviving == Page({n \in Nodes : status[n] = "online"}, NodePage) \ {failover[c].node}
  IN  /\ At(c, "survivors")
      /\ failover' = [failover EXCEPT ![c] = IF surviving = {} THEN Idle
           ELSE [@ EXCEPT !.pc = "migrate",
                   !.free = [n \in Nodes |-> IF n \in surviving THEN Capacity[n] - alloc[n]
                                                              ELSE -1]]]
      /\ UNCHANGED <<dbVars, machineVars, historyVars>>

(* getVMsOnNode or findSurvivingNodes fails: the failover ends, unless it  *)
(* was for the locks.                                                      *)
ListFails(c) ==
  /\ \/ At(c, "locks") /\ Goto(c, "release")
     \/ At(c, "release") /\ failover[c].todo = {} /\ Stop(c)
     \/ At(c, "survivors") /\ Stop(c)
  /\ Slip
  /\ UNCHANGED <<dbVars, machineVars>>

(* selectBestNode: the node with most room left, by the list made above.   *)
Best(c, n) ==
  /\ failover[c].free[n] >= 1
  /\ \A m \in Nodes : failover[c].free[m] <= failover[c].free[n]

(* A VM with a local disk, or that fits nowhere, is reported and left.     *)
LeaveVM(c, v) ==
  /\ At(c, "migrate") /\ v \in failover[c].todo
  /\ v \notin Ceph \/ (\A n \in Nodes : failover[c].free[n] < 1)
  /\ failover' = [failover EXCEPT ![c].todo = @ \ {v}]
  /\ UNCHANGED <<dbVars, machineVars, historyVars>>

(* UpdateNodeAssignment.                                                   *)
AssignVM(c, v, n) ==
  /\ At(c, "migrate") /\ v \in failover[c].todo /\ v \in Ceph
  /\ Best(c, n)
  /\ vm' = [vm EXCEPT ![v].node = n]
  /\ failover' = [failover EXCEPT ![c].pc = "provisioning", ![c].vm = v, ![c].to = n,
                                  ![c].todo = @ \ {v}]
  /\ UNCHANGED <<status, bad, alloc, machineVars, historyVars>>

(* Mutant: starting a VM also defines its domain, as the documents have it.*)
StartDefines(n, v) ==
  /\ machine[n] = "up"
  /\ locks[v] \subseteq {n}
  /\ running' = [running EXCEPT ![v] = @ \cup {n}]
  /\ domain' = [domain EXCEPT ![v] = @ \cup {n}]
  /\ locks' = [locks EXCEPT ![v] = {n}]

(* Manager.StartVM on the node: the domain must be defined there, and the  *)
(* image's exclusive lock be free.                                         *)
StartVM(n, v) ==
  /\ machine[n] = "up" /\ n \in domain[v]
  /\ locks[v] \subseteq {n}
  /\ running' = [running EXCEPT ![v] = @ \cup {n}]
  /\ locks' = [locks EXCEPT ![v] = {n}]
  /\ UNCHANGED domain

(* A failed start, or one whose answer is lost, is only logged.            *)
StartMoved(c) ==
  /\ At(c, "start")
  /\ \/ /\ StartVM(failover[c].to, failover[c].vm)
        /\ Goto(c, "running") \/ Goto(c, "increment")
     \/ Goto(c, "increment") /\ UNCHANGED <<running, locks, domain>>
  /\ UNCHANGED <<dbVars, machine, blocked, faults, historyVars>>

(* What follows a statement of migrateVM whose failure is only logged.     *)
After == [provisioning |-> "start", running |-> "increment",
          increment |-> "decrement", decrement |-> "migrate"]

(* UpdateStatus(provisioning) before the start, (running) after it.        *)
UpdateStatus(c) ==
  /\ failover[c].pc \in {"provisioning", "running"}
  /\ vm' = [vm EXCEPT ![failover[c].vm].status = failover[c].pc]
  /\ Goto(c, After[failover[c].pc])
  /\ UNCHANGED <<status, bad, alloc, machineVars, historyVars>>

Increment(c) ==
  /\ At(c, "increment")
  /\ alloc' = [alloc EXCEPT ![failover[c].to] = @ + 1]
  /\ Goto(c, "decrement")
  /\ UNCHANGED <<status, bad, vm, machineVars, historyVars>>

DecrementTo(c, left) ==
  /\ At(c, "decrement")
  /\ alloc' = [alloc EXCEPT ![failover[c].node] = left]
  /\ Goto(c, "migrate")
  /\ UNCHANGED <<status, bad, vm, machineVars, historyVars>>

(* Mutant: the failed node keeps the resources of the VMs it lost.         *)
DecrementForgotten(c) == DecrementTo(c, alloc[failover[c].node])

(* Mutant: no GREATEST(0, ...).                                            *)
DecrementUnclamped(c) == DecrementTo(c, alloc[failover[c].node] - 1)

(* DecrementAllocatedResources clamps at zero.                             *)
Decrement(c) ==
  DecrementTo(c, IF alloc[failover[c].node] > 0 THEN alloc[failover[c].node] - 1 ELSE 0)

(* A failing assignment leaves the VM; any later failure is passed over.   *)
MigrateFails(c) ==
  /\ \/ \E v \in failover[c].todo :
          At(c, "migrate") /\ failover' = [failover EXCEPT ![c].todo = @ \ {v}]
     \/ failover[c].pc \in DOMAIN After /\ Goto(c, After[failover[c].pc])
  /\ Slip
  /\ UNCHANGED <<dbVars, machineVars>>

Finish(c) ==
  /\ At(c, "migrate") /\ failover[c].todo = {}
  /\ Stop(c)
  /\ UNCHANGED <<dbVars, machineVars, historyVars>>

(* The controller dies; nothing resumes its failover.                      *)
Crash(c) ==
  /\ ~At(c, "idle")
  /\ Stop(c) /\ Slip
  /\ UNCHANGED <<dbVars, machineVars>>

-----------------------------------------------------------------------------

Environment(n) ==
  \/ Hang(n) \/ PowerFails(n) \/ ComesUp(n)
  \/ CountedOut(n) \/ HeardAgain(n) \/ BroughtBack(n)

ApproveFailover(c) ==
  \/ VerifyFailedNode(c) \/ VerifyFails(c) \/ ExecuteSTONITH(c) \/ BlocklistNode(c)
  \/ ListLocks(c) \/ (\E v \in VMs : ReleaseLock(c, v))
  \/ ListVMs(c) \/ ListSurvivors(c) \/ ListFails(c)
  \/ \E v \in VMs : LeaveVM(c, v) \/ \E n \in Nodes : AssignVM(c, v, n)
  \/ StartMoved(c) \/ UpdateStatus(c) \/ Increment(c) \/ Decrement(c)
  \/ MigrateFails(c) \/ Finish(c)

Next ==
  \/ \E n \in Nodes : Environment(n)
  \/ \E c \in Controllers :
       ApproveFailover(c) \/ Crash(c) \/ \E n \in Nodes : AutoFailover(c, n)

Spec == Init /\ [][Next]_vars

(* The monitor's ticker fires and a failover it started goes on.           *)
Fairness ==
  /\ \A n \in Nodes : WF_vars(CountedOut(n))
  /\ \A c \in Controllers : WF_vars(ApproveFailover(c))
                            /\ WF_vars(\E n \in Nodes : AutoFailover(c, n))

FairSpec == Spec /\ Fairness

-----------------------------------------------------------------------------

(* The rows, the machines, the locks and the failovers have their types;   *)
(* in particular no node is charged with less than nothing.                *)
TypeOK ==
  /\ status \in [Nodes -> {"online", "degraded", "failed"}] /\ bad \subseteq Nodes
  /\ alloc \in [Nodes -> Nat]
  /\ vm \in [VMs -> [node: Nodes, status: {"running", "provisioning"}]]
  /\ machine \in [Nodes -> {"up", "hung", "off"}] /\ blocked \subseteq Nodes
  /\ \A v \in VMs : running[v] \subseteq domain[v] /\ domain[v] \subseteq Nodes
                    /\ locks[v] \subseteq Nodes
  /\ failover \in [Controllers ->
       [pc: {"idle", "verify", "stonith", "blocklist", "locks", "release", "survivors",
             "migrate", "provisioning", "start", "running", "increment", "decrement"},
        node: Nodes \cup {NoNode}, todo: SUBSET VMs, free: [Nodes -> Int],
        vm: VMs \cup {NoVM}, to: Nodes \cup {NoNode}]]
  /\ faults \in 0..MaxFaults /\ slipped \in BOOLEAN /\ overlapped \in BOOLEAN

(* "A VM's disk must NEVER be mounted by two nodes simultaneously"         *)
(* (architecture.md, 14): no failover makes a guest execute on two nodes   *)
(* that can both reach Ceph, although neither the power-off nor the        *)
(* blocklist has to work and the locks are removed all the same.           *)
DiskMountedOnce == \A v \in VMs : Cardinality(running[v] \ blocked) <= 1

(* Failovers that come one after the other, with no statement failing,     *)
(* keep the nodes' books: at rest every node is charged with exactly the   *)
(* VMs assigned to it, so later placements work with the truth             *)
(* (IncrementAllocatedResources and DecrementAllocatedResources around     *)
(* UpdateNodeAssignment).                                                  *)
BooksBalance ==
  ~slipped /\ ~overlapped /\ (\A c \in Controllers : At(c, "idle"))
    => \A n \in Nodes : alloc[n] = Cardinality(OnNode(n))

(* "Controller redistributes VMs to surviving nodes" (architecture.md, 14):*)
(* if a node goes down for good and another one stays up with room for     *)
(* everything, a VM on Ceph does not stay on the dead node.                *)
VMsLeaveDeadNode ==
  \A n \in Nodes, v \in Ceph :
    <>[](machine[n] = "off" /\ ~slipped) => <>[](vm[v].node # n)

=============================================================================
