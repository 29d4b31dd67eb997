------------------------------ MODULE MCGuests ------------------------------
(***************************************************************************)
(* Small instances of what is done to a guest and charged for it:          *)
(* VMOperations and HourlyBilling in the controller; Storage, Bandwidth,   *)
(* Dhcp and NodeSubnets in the node agent.  Two controllers bill one VM for*)
(* two hours; its plan has two price lists, of which one is free for a     *)
(* stopped VM.  The parts share no state in the model: a behaviour is one  *)
(* of the part chosen at first.                                            *)
(***************************************************************************)
EXTENDS HourlyBilling

CONSTANTS None,
          Nodes, Node, Shared, NoDisk, Templates, Slots, MaxDeliver, MaxOps, MaxFaults,
          Snaps, Handlers, MaxStoreCalls,
          Limit, MaxMonth, MaxBytes, MaxUsageCalls,
          MaxPid, MaxDhcpCalls,
          Owners, Byte

MCKeys == VMs \X Hours
MCOwner == [v \in VMs |-> CHOOSE c \in Customers : TRUE]
MCPlans == {[hourly |-> 2, hourlyStopped |-> NoPrice], [hourly |-> 1, hourlyStopped |-> 0]}

ASSUME OwnerAssumption /\ KeysAssumption /\ PlansAssumption

VARIABLES part,
          vms, domain, disk, op, snaps, begun, faults, hist,
          backend, strict, base, sealed, image, old, snap, libvirt, seed, file, job,
          storeCalls, storeFaults, kept, made, spoiled,
          month, row, qdisc, usage, usageCalls, usageFaults, sent, astray,
          alive, owner, pidFile, status, tracked, monitors, mu, dhcp, dhcpCalls, dhcpFaults, orphaned,
          subnetAlloc, subnetFile, prefix, subnetFaults, lost

Ops == INSTANCE VMOperations
Store == INSTANCE Storage WITH
           Templates <- {CHOOSE t \in Templates : TRUE}, MaxCalls <- MaxStoreCalls,
           disk <- image, domain <- libvirt, calls <- storeCalls, faults <- storeFaults
Usage == INSTANCE Bandwidth WITH
           Callers <- Handlers, MaxCalls <- MaxUsageCalls,
           call <- usage, calls <- usageCalls, faults <- usageFaults
Lease == INSTANCE Dhcp WITH
           Callers <- Handlers, MaxCalls <- MaxDhcpCalls,
           call <- dhcp, calls <- dhcpCalls, faults <- dhcpFaults
Subnet == INSTANCE NodeSubnets WITH
           VMs <- Owners, NoVM <- None, file <- subnetFile, faults <- subnetFaults

opsVars == <<vms, domain, disk, op, snaps, begun, faults, hist>>
storeVars == <<backend, strict, base, sealed, image, old, snap, libvirt, seed, file, job,
               storeCalls, storeFaults, kept, made, spoiled>>
usageVars == <<month, row, qdisc, usage, usageCalls, usageFaults, sent, astray>>
leaseVars == <<alive, owner, pidFile, status, tracked, monitors, mu, dhcp, dhcpCalls, dhcpFaults, orphaned>>
subnetVars == <<subnetAlloc, subnetFile, prefix, subnetFaults, lost>>
agentVars == <<storeVars, usageVars, leaseVars, subnetVars>>
guestsVars == <<part, vars, opsVars, agentVars>>

GuestsInit ==
  /\ part \in {"billing", "operations", "storage", "bandwidth", "dhcp", "subnets"}
  /\ Init /\ Ops!Init /\ Store!Init /\ Usage!Init /\ Lease!Init /\ Subnet!Init
  /\ part # "operations" => vms = [v \in VMs |-> [status |-> "running", template |-> Ops!First]]
  /\ part # "storage" => backend = "ceph" /\ made = {}

GuestsNext ==
  /\ UNCHANGED part
  /\ \/ part = "billing" /\ Next /\ UNCHANGED <<opsVars, agentVars>>
     \/ part = "operations" /\ Ops!Next /\ UNCHANGED <<vars, agentVars>>
     \/ /\ UNCHANGED <<vars, opsVars>>
        /\ \/ part = "storage" /\ Store!Next /\ UNCHANGED <<usageVars, leaseVars, subnetVars>>
           \/ part = "bandwidth" /\ Usage!Next /\ UNCHANGED <<storeVars, leaseVars, subnetVars>>
           \/ part = "dhcp" /\ Lease!Next /\ UNCHANGED <<storeVars, usageVars, subnetVars>>
           \/ part = "subnets" /\ Subnet!Next /\ UNCHANGED <<storeVars, usageVars, leaseVars>>

(* The parts' fairness; naming the part spares TLC the other parts' states.*)
GuestsSpec ==
  /\ GuestsInit /\ [][GuestsNext]_guestsVars
  /\ \A i \in Instances : WF_vars(part = "billing" /\ CycleStep(i))
  /\ \A s \in Slots : WF_opsVars(part = "operations" /\ Ops!Step(s))

-----------------------------------------------------------------------------
(* The properties are stated and explained in the parts' modules.  Those   *)
(* of HourlyBilling are ChargedOncePerHour and LockComesFree.              *)

(* VMOperations: row, guest and disk agree, a deleted VM stays gone, a VM  *)
(* is handed back once, and the types hold.                                *)
GuestIsSound ==
  /\ Ops!TypeOK /\ Ops!RowMatchesGuest /\ Ops!DiskKept /\ Ops!DeletedStaysGone /\ Ops!HandedBackOnce


(* Storage: no revert, restore or failure loses a disk, a template that    *)
(* is found is complete, and a failed creation leaves nothing behind.      *)
StorageIsSafe ==
  Store!TypeOK /\ Store!NothingLost /\ Store!CachedIsComplete /\ Store!FailedCreateLeavesNothing

(* Bandwidth, Dhcp and NodeSubnets: traffic is counted once and a throttle *)
(* is on record, a VM has one DHCP server, which can be stopped, and one   *)
(* subnet, which a restart of the agent keeps.                             *)
NetworkIsTracked ==
  /\ Usage!TypeOK /\ Usage!CountsAddUp /\ Usage!ThrottleIsRecorded
  /\ Lease!TypeOK /\ Lease!OneServerPerVM /\ Lease!ServerCanBeStopped
  /\ Subnet!TypeOK /\ Subnet!OneSubnetPerVM /\ Subnet!RestartKeepsSubnets

=============================================================================
