------------------------------ MODULE NodeAgent ------------------------------
(***************************************************************************)
(* The node agents: the libvirt domain of a VM on each node, and its disk, *)
(* which is on the node (qcow, lvm) or in a pool that all nodes reach      *)
(* (ceph).  Each operator is a call that succeeds.  A call may also fail   *)
(* or its answer be lost; the modules that make the calls say so.          *)
(***************************************************************************)
EXTENDS VMRows

CONSTANTS Nodes,
          Shared,      \* the VMs whose disk is in a pool
          NoDisk

VARIABLES domain,      \* domain[n][v]: absent, shutoff or running
          disk         \* disk[p][v]: what the disk holds, NoDisk when there is none

agentVars == <<domain, disk>>

Place(n, v) == IF v \in Shared THEN "pool" ELSE n

Places == {Place(n, v) : n \in Nodes, v \in VMs}

DiskOf(n, v) == disk[Place(n, v)][v]

Define(n, v, state) == domain' = [domain EXCEPT ![n][v] = state]

(* storageBackend.Delete: a disk that is absent is no error.               *)
DeleteDisk(n, v) ==
  /\ disk' = [disk EXCEPT ![Place(n, v)][v] = NoDisk]
  /\ UNCHANGED domain

(* CloneForVM and CloneFromTemplate refuse when there is a disk.           *)
MayClone(n, v) == DiskOf(n, v) = NoDisk

(* The manager's CreateVM defines the domain and starts it, or redefines   *)
(* one that exists; starting fails when it already runs.                   *)
MayStartNew(n, v) == domain[n][v] # "running"

(* The agent's CreateVM.  A domain that cannot be started is undefined     *)
(* again and the new disk is deleted.                                      *)
CreateVM(n, v, image) ==
  /\ MayClone(n, v) /\ MayStartNew(n, v)
  /\ disk' = [disk EXCEPT ![Place(n, v)][v] = image]
  /\ Define(n, v, "running")

(* StartVM needs the domain, and its disk; it is idempotent.               *)
MayStart(n, v) ==
  \/ domain[n][v] = "running"
  \/ domain[n][v] = "shutoff" /\ DiskOf(n, v) # NoDisk

StartVM(n, v) ==
  /\ MayStart(n, v)
  /\ Define(n, v, "running") /\ UNCHANGED disk

(* StopVM and ForceStopVM.                                                 *)
StopVM(n, v) ==
  /\ domain[n][v] # "absent"
  /\ Define(n, v, "shutoff") /\ UNCHANGED disk

(* UndefineVM destroys a running domain; an absent one is no error.        *)
UndefineVM(n, v) == Define(n, v, "absent") /\ UNCHANGED disk

(* DeleteVM removes the domain and then the disk.                          *)
DeleteVM(n, v) ==
  /\ Define(n, v, "absent")
  /\ disk' = [disk EXCEPT ![Place(n, v)][v] = NoDisk]

AgentInit ==
  /\ domain = [n \in Nodes |-> [v \in VMs |-> "absent"]]
  /\ disk = [p \in Places |-> [v \in VMs |-> NoDisk]]

=============================================================================
