----------------------------- MODULE NodeSubnets ----------------------------
(***************************************************************************)
(* The agent's IPv6Manager: a map from the subnets of the node's prefix to *)
(* VMs, kept in memory under a mutex and in one status file per VM, from   *)
(* which it is rebuilt when the agent starts.  The mutex makes every       *)
(* method one step; a file may fail to be written or removed, which is     *)
(* only logged.  Nothing in the agent calls the manager yet.               *)
(***************************************************************************)
EXTENDS Naturals, FiniteSets

CONSTANTS VMs, NoVM,
          Byte,        \* values of a byte: 256
          MaxFaults    \* bound on failing files

Bytes == 0..(Byte - 1)
Indexes == 0..(Byte * Byte - 1)
NoFile == <<>>

VARIABLES subnetAlloc,  \* subnetAlloc[i]: the VM of a subnet, or NoVM
          file,         \* file[v]: bytes 6 and 7 of the subnet in the status file
          prefix,       \* whether the node's prefix is set
          faults,
          lost          \* history: a file was not written or removed

vars == <<subnetAlloc, file, prefix, faults, lost>>

Held(v) == {i \in Indexes : subnetAlloc[i] = v}
Free == {i \in Indexes : subnetAlloc[i] = NoVM}

(* Bytes 6 and 7 of the prefix are the index.                              *)
BuildSubnetFromIndex(i) == <<i \div Byte, i % Byte>>
ExtractSubnetIndex(subnet) == subnet[1] * Byte + subnet[2]

SetNodePrefix == prefix' = TRUE /\ UNCHANGED <<subnetAlloc, file, faults, lost>>

(* saveStatus, and the removal of the file; a failed write may spoil it.   *)
SaveStatus(v, content) ==
  \/ file' = [file EXCEPT ![v] = content] /\ UNCHANGED <<faults, lost>>
  \/ /\ faults < MaxFaults /\ faults' = faults + 1 /\ lost' = TRUE
     /\ file' \in {file, [file EXCEPT ![v] = NoFile]}

Take(v, i) ==
  /\ subnetAlloc' = [subnetAlloc EXCEPT ![i] = v]
  /\ SaveStatus(v, BuildSubnetFromIndex(i))
  /\ UNCHANGED prefix

FirstFree(i) == i \in Free /\ \A j \in Free : i <= j

(* Mutant: a VM that asks again gets another subnet.                       *)
AllocateAgain(v, i) == prefix /\ i \in Free /\ Take(v, i)

(* A requested index, or the first that is free; a VM that has one keeps   *)
(* it.                                                                     *)
AllocateVMSubnet(v, i) == Held(v) = {} /\ prefix /\ i \in Free /\ Take(v, i)

ReleaseVMSubnet(v) ==
  /\ Held(v) # {}
  /\ \E i \in Held(v) : subnetAlloc' = [subnetAlloc EXCEPT ![i] = NoVM]
  /\ SaveStatus(v, NoFile)
  /\ UNCHANGED prefix

(* The subnet that the file of a VM names, if there is one.                *)
IndexOf(v) == IF file[v] = NoFile THEN {} ELSE {ExtractSubnetIndex(file[v])}

(* The agent starts again; of two files with one index the last read wins. *)
LoadExistingAllocations ==
  /\ prefix' = FALSE
  /\ subnetAlloc' \in {a \in [Indexes -> VMs \cup {NoVM}] :
       \A i \in Indexes : LET on == {v \in VMs : IndexOf(v) = {i}}
                          IN  a[i] \in IF on = {} THEN {NoVM} ELSE on}
  /\ UNCHANGED <<file, faults, lost>>

Init ==
  /\ subnetAlloc = [i \in Indexes |-> NoVM] /\ file = [v \in VMs |-> NoFile]
  /\ prefix = FALSE /\ faults = 0 /\ lost = FALSE

Next ==
  \/ SetNodePrefix \/ LoadExistingAllocations
  \/ \E v \in VMs : ReleaseVMSubnet(v) \/ \E i \in Indexes : AllocateVMSubnet(v, i)
  \/ \E v \in VMs, i \in Indexes : FirstFree(i) /\ AllocateVMSubnet(v, i)

Spec == Init /\ [][Next]_vars

TypeOK ==
  /\ subnetAlloc \in [Indexes -> VMs \cup {NoVM}] /\ file \in [VMs -> {NoFile} \cup (Bytes \X Bytes)]
  /\ prefix \in BOOLEAN /\ faults \in 0..MaxFaults

(* A VM never holds two subnets, so that releasing it frees all it has     *)
(* (AllocateVMSubnet, ReleaseVMSubnet).                                    *)
OneSubnetPerVM == \A v \in VMs : Cardinality(Held(v)) <= 1

(* The files agree with the memory, so that a restart of the agent neither *)
(* forgets a subnet nor gives one to two VMs, unless a file could not be   *)
(* written or removed (Initialize).                                        *)
RestartKeepsSubnets == lost \/ \A v \in VMs : Held(v) = IndexOf(v)

=============================================================================
