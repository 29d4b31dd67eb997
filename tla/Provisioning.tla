---------------------------- MODULE Provisioning ----------------------------
(***************************************************************************)
(* Creation and deletion of VMs, with their addresses.  A request inserts  *)
(* the row and a task; a worker executes the task against IPAM and the     *)
(* node agent and undoes its steps when one fails.  A task whose delivery  *)
(* is not acknowledged is delivered again, from the start, up to           *)
(* MaxDeliver times (TaskQueue has the queue itself).                      *)
(***************************************************************************)
EXTENDS NodeAgent, Sequences, FiniteSetsExt

CONSTANTS Node,          \* the node that selectNodeForVM picks
          Addresses,     \* ip_addresses of the location's IPv4 sets, in their order
          MaxSubnets,    \* /64 subnets of the node's prefix: 65536
          SetPage,       \* page size with which the location's sets are listed: 0
          HasCustomer,   \* the task's payload names the customer: FALSE
          Calls,         \* what requests ask for: idempotency key, external service
          CreateRequests, DeleteRequests,   \* bound: each is made once
          Workers,
          None,
          MaxDeliver,
          MaxFaults      \* bound: calls that fail, workers and requests that die

ASSUME ProvisioningAssumption ==
  /\ Node \in Nodes /\ HasCustomer \in BOOLEAN /\ SetPage \in Nat
  /\ MaxSubnets \in Nat \ {0} /\ MaxDeliver \in Nat \ {0} /\ MaxFaults \in Nat

VARIABLES address,       \* address[a]: status and owner
          subnets,       \* vm_ipv6_subnets: index and owner
          prefixLock,    \* "leaked": a transaction that holds it is never ended
          config,        \* the addresses that a guest was given
          task,          \* task[k][v]: none, queued or acked
          delivered,     \* deliveries of the task
          request,       \* the locals of an API request
          answer,        \* answers to creation requests, with a VM
          job,           \* the locals of a worker
          faults

ipamVars == <<address, subnets, prefixLock>>
queueVars == <<task, delivered>>
apiVars == <<request, answer>>
vars == <<vms, domain, disk, ipamVars, config, queueVars, apiVars, job, faults>>

Kinds == {"create", "delete"}
NoVM == [status |-> "none", key |-> None, service |-> None]
Requests == CreateRequests \cup DeleteRequests
NoRequest == [pc |-> "idle", call |-> [key |-> None, service |-> None], vm |-> None, status |-> "none"]
NoJob == [pc |-> "idle", kind |-> "create", vm |-> None, ip |-> None, subnet |-> None,
          undo |-> <<>>, wasDeleted |-> FALSE]
NoAddresses == [ip |-> None, subnet |-> None]

Init ==
  /\ vms = [v \in VMs |-> NoVM]
  /\ AgentInit
  /\ address = [a \in Range(Addresses) |-> [status |-> "available", vm |-> None]]
  /\ subnets = {} /\ prefixLock = None
  /\ config = [v \in VMs |-> NoAddresses]
  /\ task = [k \in Kinds |-> [v \in VMs |-> "none"]]
  /\ delivered = [k \in Kinds |-> [v \in VMs |-> 0]]
  /\ request = [r \in Requests |-> NoRequest] /\ answer = {}
  /\ job = [w \in Workers |-> NoJob]
  /\ faults = 0

Fault == faults < MaxFaults /\ faults' = faults + 1
NoFault == UNCHANGED faults

-----------------------------------------------------------------------------
(* CreateVM.                                                               *)

Goto(r, pc) == request' = [request EXCEPT ![r].pc = pc]

Return(r) == request' = [request EXCEPT ![r] = [NoRequest EXCEPT !.pc = "done"]]

(* A VM is returned.                                                       *)
Answer(r, c, v) ==
  /\ Return(r)
  /\ answer' = answer \cup {[key |-> c.key, vm |-> v]}

Refuse(r) == Return(r) /\ UNCHANGED answer

(* GetByIDempotencyKey: the VMs named by a create task with the key.       *)
WithKey(key) == {v \in VMs : key # None /\ task["create"][v] # "none" /\ vms[v].key = key}

(* GetByExternalServiceID.                                                 *)
WithService(s) == {v \in VMs : s # None /\ Visible(v) /\ vms[v].service = s}

(* A call arrives, and resolveCreateIdempotency returns the VM of an       *)
(* earlier task with the key; when it is deleted, a call for a service     *)
(* goes on.                                                                *)
ResolveCreateIdempotency(r, c) ==
  LET GoOn == request' = [request EXCEPT ![r].pc = "service", ![r].call = c] /\ UNCHANGED answer
  IN  /\ request[r] = NoRequest
      /\ \/ WithKey(c.key) = {} /\ GoOn
         \/ \E v \in WithKey(c.key) :
              IF ~Visible(v)
                THEN IF c.service # None THEN GoOn ELSE Refuse(r)
                ELSE IF c.service # None /\ vms[v].service # c.service THEN Refuse(r) ELSE Answer(r, c, v)
      /\ UNCHANGED <<vms, domain, disk, ipamVars, config, queueVars, job, faults>>

(* The external service already has a VM, or the plan, the template, the   *)
(* node or a pre-action webhook refuses the request, or it goes on.        *)
CheckCreate(r) ==
  /\ request[r].pc = "service"
  /\ \/ WithService(request[r].call.service) = {} /\ Goto(r, "insert") /\ UNCHANGED answer
     \/ Refuse(r)
  /\ UNCHANGED <<vms, domain, disk, ipamVars, config, queueVars, job, faults>>

(* persistVMRecord gives the row a fresh id; an active row for the service *)
(* violates a unique index.                                                *)
PersistVMRecord(r) ==
  LET v == CHOOSE x \in VMs : vms[x] = NoVM
      s == request[r].call.service
  IN  /\ request[r].pc = "insert"
      /\ \E x \in VMs : vms[x] = NoVM
      /\ IF WithService(s) # {}
           THEN Refuse(r) /\ UNCHANGED vms
           ELSE /\ vms' = [vms EXCEPT ![v] = [status |-> "provisioning", key |-> None, service |-> s]]
                /\ request' = [request EXCEPT ![r].pc = "publish", ![r].vm = v]
                /\ UNCHANGED answer
      /\ UNCHANGED <<domain, disk, ipamVars, config, queueVars, job, faults>>

(* PublishTaskWithIdempotencyKey: the key is unique among the tasks.       *)
InsertTask(k, v) == task' = [task EXCEPT ![k][v] = "queued"]

(* Mutant: a spent idempotency key does not keep the task out.             *)
PublishAnyway(r) ==
  LET v == request[r].vm
      c == request[r].call
  IN  /\ request[r].pc = "publish"
      /\ InsertTask("create", v)
      /\ vms' = [vms EXCEPT ![v].key = c.key]
      /\ Answer(r, c, v) /\ NoFault
      /\ UNCHANGED <<domain, disk, ipamVars, config, delivered, job>>

(* publishVMCreateTask: the VM is returned, or the row is deleted again;   *)
(* the task may have been inserted although an error is reported.          *)
PublishVMCreateTask(r) ==
  LET v == request[r].vm
      c == request[r].call
  IN  /\ request[r].pc = "publish"
      /\ \/ /\ WithKey(c.key) = {}
            /\ InsertTask("create", v)
            /\ vms' = [vms EXCEPT ![v].key = c.key]
            /\ Answer(r, c, v) /\ NoFault
         \/ /\ IF WithKey(c.key) # {} THEN NoFault ELSE Fault
            /\ SoftDelete(v)
            /\ Refuse(r) /\ UNCHANGED task
         \/ /\ WithKey(c.key) = {} /\ Fault
            /\ InsertTask("create", v)
            /\ vms' = [vms EXCEPT ![v].key = c.key, ![v].status = "deleted"]
            /\ Refuse(r)
      /\ UNCHANGED <<domain, disk, ipamVars, config, delivered, job>>

-----------------------------------------------------------------------------
(* DeleteVM.                                                               *)

(* getVMForDelete: a VM that is not deleted nor being deleted.             *)
GetVMForDelete(r, v) ==
  /\ request[r] = NoRequest
  /\ Visible(v) /\ vms[v].status # "deleting"
  /\ request' = [request EXCEPT ![r] = [NoRequest EXCEPT !.pc = "mark", !.vm = v,
                                          !.status = vms[v].status]]
  /\ UNCHANGED <<vms, domain, disk, ipamVars, config, queueVars, answer, job, faults>>

(* The status read becomes deleting, unless the row changed meanwhile.     *)
MarkDeleting(r) ==
  LET v == request[r].vm
  IN  /\ request[r].pc = "mark"
      /\ TransitionStatus(v, request[r].status, "deleting")
      /\ IF MayTransition(v, request[r].status, "deleting")
           THEN Goto(r, "delete") /\ UNCHANGED answer
           ELSE Refuse(r)
      /\ UNCHANGED <<domain, disk, ipamVars, config, queueVars, job, faults>>

(* The task is published, or the status that was read is restored, with    *)
(* the task possibly inserted.  A second task for a VM that has one is not *)
(* told apart from it.                                                     *)
PublishVMDeleteTask(r) ==
  LET v == request[r].vm
  IN  /\ request[r].pc = "delete"
      /\ Refuse(r)
      /\ \/ InsertTask("delete", v) /\ NoFault /\ UNCHANGED vms
         \/ Fault /\ UpdateStatus(v, request[r].status)
            /\ (UNCHANGED task \/ InsertTask("delete", v))
      /\ UNCHANGED <<domain, disk, ipamVars, config, delivered, job>>

(* A request ends without an answer: the process dies, a statement fails.  *)
DropRequest(r) ==
  /\ request[r].pc \notin {"idle", "done"}
  /\ Fault
  /\ Refuse(r)
  /\ UNCHANGED <<vms, domain, disk, ipamVars, config, queueVars, job>>

-----------------------------------------------------------------------------
(* IPAM.                                                                   *)

Available(i) == address[Addresses[i]].status = "available"

(* The first available address of the sets, in their order, if there is    *)
(* one.  A page of 0 lists no set.  The customer is a UUID: the statement  *)
(* fails when the payload does not name one.                               *)
AllocateIPv4 ==
  {Addresses[i] : i \in {i \in DOMAIN Addresses :
                           /\ SetPage > 0 /\ HasCustomer
                           /\ Available(i) /\ \A j \in 1 .. i - 1 : ~Available(j)}}

Assign(a, v) == IF a = None THEN UNCHANGED address
                ELSE address' = [address EXCEPT ![a] = [status |-> "assigned", vm |-> v]]

AddressesOf(v) == {a \in Range(Addresses) : address[a] = [status |-> "assigned", vm |-> v]}

(* Mutant: a released address is available at once.                        *)
ReleaseToPool(S) ==
  address' = [a \in DOMAIN address |->
                IF a \in S THEN [status |-> "available", vm |-> None] ELSE address[a]]

(* ReleaseIPv4 for each: the address cools down.  Nothing in the code ends *)
(* the cooldown.                                                           *)
ReleaseIPv4(S) ==
  address' = [a \in DOMAIN address |->
                IF a \in S THEN [status |-> "cooldown", vm |-> None] ELSE address[a]]

(* MAX(subnet_index) + 1, or 0.                                            *)
NextIndex == IF subnets = {} THEN 0 ELSE Max({s.index : s \in subnets}) + 1

(* CreateVMIPv6SubnetWithIndexCheck, under a lock on the prefix row.       *)
CreateVMIPv6Subnet(v) == subnets' = subnets \cup {[index |-> NextIndex, vm |-> v]}

(* Mutant: one subnet too many.                                            *)
ExhaustedLate == NextIndex > MaxSubnets

Exhausted == NextIndex >= MaxSubnets

(* ReleaseIPsByVM: the IPv4 addresses, then the subnets, whose failure is  *)
(* only logged.  ok says whether it returns without an error.              *)
ReleaseIPsByVM(v, ok) ==
  \/ /\ ok /\ NoFault
     /\ ReleaseIPv4(AddressesOf(v))
     /\ subnets' = {s \in subnets : s.vm # v}
  \/ /\ ok /\ Fault
     /\ ReleaseIPv4(AddressesOf(v)) /\ UNCHANGED subnets
  \/ /\ ~ok /\ Fault
     /\ \/ UNCHANGED <<address, subnets>>
        \/ /\ \E S \in SUBSET AddressesOf(v) : ReleaseIPv4(S)
           /\ subnets' = {s \in subnets : s.vm # v}

-----------------------------------------------------------------------------
(* The workers.                                                            *)

Step(w, pc) == job' = [job EXCEPT ![w].pc = pc]

(* The handler returns nil: the message is acknowledged, unless the        *)
(* acknowledgement is lost.                                                *)
Finish(w) ==
  /\ job' = [job EXCEPT ![w] = NoJob]
  /\ \/ task' = [task EXCEPT ![job[w].kind][job[w].vm] = "acked"] /\ NoFault
     \/ UNCHANGED task /\ Fault

Fail(w) == job' = [job EXCEPT ![w] = NoJob] /\ UNCHANGED task

(* A message is delivered, to any idle worker, when no delivery of it is   *)
(* being worked on: the handler's deadline is the time after which it is   *)
(* delivered again.                                                        *)
Deliver(w, k, v) ==
  /\ job[w] = NoJob /\ w = CHOOSE x \in Workers : job[x] = NoJob
  /\ task[k][v] = "queued" /\ delivered[k][v] < MaxDeliver
  /\ \A x \in Workers : job[x] = NoJob \/ job[x].kind # k \/ job[x].vm # v
  /\ delivered' = [delivered EXCEPT ![k][v] = @ + 1]
  /\ job' = [job EXCEPT ![w] = [NoJob EXCEPT !.pc = IF k = "create" THEN "prepare" ELSE "load",
                                   !.kind = k, !.vm = v]]
  /\ UNCHANGED <<vms, domain, disk, ipamVars, config, task, apiVars, faults>>

(* The process dies, or the handler's deadline passes: the clean-up would  *)
(* use the same context, so that it fails as well.  A dead process also    *)
(* ends its transactions.                                                  *)
Interrupt(w) ==
  /\ job[w] # NoJob
  /\ Fault
  /\ Fail(w)
  /\ prefixLock' \in {prefixLock, None}
  /\ UNCHANGED <<vms, domain, disk, address, subnets, config, delivered, apiVars>>

(* handleVMCreate reads the node, the template and the VM; an error leaves *)
(* the row as it is.                                                       *)
PrepareCreate(w) ==
  /\ job[w].pc = "prepare"
  /\ \/ Visible(job[w].vm) /\ Step(w, "ipv4") /\ NoFault /\ UNCHANGED task
     \/ ~Visible(job[w].vm) /\ Fail(w) /\ NoFault
     \/ Visible(job[w].vm) /\ Fail(w) /\ Fault
  /\ UNCHANGED <<vms, domain, disk, ipamVars, config, delivered, apiVars>>

(* Without an address the guest is left to DHCP.                           *)
AllocateAddress(w) ==
  /\ job[w].pc = "ipv4"
  /\ \E a \in AllocateIPv4 \cup {None} :
       /\ IF a \in AllocateIPv4 \/ AllocateIPv4 = {} THEN NoFault ELSE Fault
       /\ Assign(a, job[w].vm)
       /\ job' = [job EXCEPT ![w].pc = "ipv6", ![w].ip = a]
  /\ UNCHANGED <<vms, domain, disk, subnets, prefixLock, config, queueVars, apiVars>>

(* Likewise a subnet.  When the prefix is exhausted the function returns   *)
(* with err still nil, and its deferred Rollback is skipped.               *)
AllocateSubnet(w) ==
  /\ job[w].pc = "ipv6"
  /\ prefixLock = None
  /\ \/ ~Exhausted /\ CreateVMIPv6Subnet(job[w].vm) /\ NoFault /\ UNCHANGED prefixLock
     \/ Exhausted /\ prefixLock' = "leaked" /\ NoFault /\ UNCHANGED subnets
     \/ Fault /\ UNCHANGED <<subnets, prefixLock>>
  /\ job' = [job EXCEPT ![w].pc = "agent", ![w].undo = <<"release-ips">>,
                         ![w].subnet = IF subnets' = subnets THEN None ELSE NextIndex]
  /\ UNCHANGED <<vms, domain, disk, address, config, queueVars, apiVars>>

(* The prefix row stays locked: the statement waits until the deadline.    *)
AwaitPrefix(w) ==
  /\ job[w].pc = "ipv6"
  /\ prefixLock # None
  /\ Fail(w)
  /\ UNCHANGED <<vms, domain, disk, ipamVars, config, delivered, apiVars, faults>>

(* The agent creates the guest, refuses because of an earlier delivery's   *)
(* disk, fails, or its answer is lost.                                     *)
MaterializeVM(w) ==
  LET v == job[w].vm
      given == [config EXCEPT ![v] = [ip |-> job[w].ip, subnet |-> job[w].subnet]]
  IN  /\ job[w].pc = "agent"
      /\ \/ /\ CreateVM(Node, v, "template") /\ config' = given /\ NoFault
            /\ job' = [job EXCEPT ![w].pc = "running", ![w].undo = Append(job[w].undo, "delete-vm")]
         \/ /\ ~(MayClone(Node, v) /\ MayStartNew(Node, v))
            /\ Step(w, "undo") /\ NoFault /\ UNCHANGED <<agentVars, config>>
         \/ /\ Step(w, "undo") /\ Fault
            /\ \/ UNCHANGED <<agentVars, config>>
               \/ CreateVM(Node, v, "template") /\ config' = given
      /\ UNCHANGED <<vms, ipamVars, queueVars, apiVars>>


(* provisioning becomes running, or everything is undone.                  *)
SetRunning(w) ==
  LET v == job[w].vm
  IN  /\ job[w].pc = "running"
      /\ \/ NoFault /\ TransitionStatus(v, "provisioning", "running")
            /\ Step(w, IF MayTransition(v, "provisioning", "running") THEN "mac" ELSE "undo")
         \/ Fault /\ UNCHANGED vms /\ Step(w, "undo")
      /\ UNCHANGED <<domain, disk, ipamVars, config, queueVars, apiVars>>

(* UpdateMACAddress: a failure undoes everything, with the row running.    *)
UpdateMACAddress(w) ==
  /\ job[w].pc = "mac"
  /\ \/ Visible(job[w].vm) /\ Finish(w)
     \/ ~Visible(job[w].vm) /\ NoFault /\ Step(w, "undo") /\ UNCHANGED task
     \/ Visible(job[w].vm) /\ Fault /\ Step(w, "undo") /\ UNCHANGED task
  /\ UNCHANGED <<vms, domain, disk, ipamVars, config, delivered, apiVars>>

(* Mutant: the steps are undone in the order in which they were taken.     *)
RollbackForward(w) ==
  LET v == job[w].vm
      stack == job[w].undo
      popped == [job EXCEPT ![w].undo = Tail(stack)]
  IN  /\ job[w].pc = "undo"
      /\ \/ stack # <<>> /\ Head(stack) = "delete-vm" /\ job' = popped
            /\ \/ DeleteVM(Node, v) /\ NoFault
               \/ Fault /\ UNCHANGED agentVars
            /\ UNCHANGED <<vms, ipamVars, task>>
         \/ stack # <<>> /\ Head(stack) = "release-ips" /\ job' = popped
            /\ \E ok \in BOOLEAN : ReleaseIPsByVM(v, ok)
            /\ UNCHANGED <<vms, agentVars, prefixLock, task>>
         \/ stack = <<>> /\ NoFault
            /\ TransitionStatus(v, "provisioning", "error") /\ Fail(w)
            /\ UNCHANGED <<agentVars, ipamVars>>
      /\ UNCHANGED <<config, delivered, apiVars>>

(* Mutant: the row is not marked.                                          *)
RollbackSilently(w) ==
  LET v == job[w].vm
      stack == job[w].undo
      popped == [job EXCEPT ![w].undo = SubSeq(stack, 1, Len(stack) - 1)]
  IN  /\ job[w].pc = "undo"
      /\ \/ stack # <<>> /\ stack[Len(stack)] = "delete-vm" /\ job' = popped
            /\ DeleteVM(Node, v) /\ NoFault
            /\ UNCHANGED <<vms, ipamVars, task>>
         \/ stack # <<>> /\ stack[Len(stack)] = "release-ips" /\ job' = popped
            /\ ReleaseIPsByVM(v, TRUE)
            /\ UNCHANGED <<vms, agentVars, prefixLock, task>>
         \/ stack = <<>> /\ NoFault /\ Fail(w) /\ UNCHANGED <<vms, agentVars, ipamVars>>
      /\ UNCHANGED <<config, delivered, apiVars>>

(* rollbackWithErrorStatus: the last step first; a step that fails is      *)
(* logged and the others follow.  Then provisioning becomes error.         *)
RollbackWithErrorStatus(w) ==
  LET v == job[w].vm
      stack == job[w].undo
      popped == [job EXCEPT ![w].undo = SubSeq(stack, 1, Len(stack) - 1)]
  IN  /\ job[w].pc = "undo"
      /\ \/ stack # <<>> /\ stack[Len(stack)] = "delete-vm" /\ job' = popped
            /\ \/ DeleteVM(Node, v) /\ NoFault
               \/ Fault /\ UNCHANGED agentVars
            /\ UNCHANGED <<vms, ipamVars, task>>
         \/ stack # <<>> /\ stack[Len(stack)] = "release-ips" /\ job' = popped
            /\ \E ok \in BOOLEAN : ReleaseIPsByVM(v, ok)
            /\ UNCHANGED <<vms, agentVars, prefixLock, task>>
         \/ stack = <<>> /\ NoFault
            /\ TransitionStatus(v, "provisioning", "error") /\ Fail(w)
            /\ UNCHANGED <<agentVars, ipamVars>>
      /\ UNCHANGED <<config, delivered, apiVars>>

(* handleVMDelete reads the row, deleted or not.                           *)
LoadVM(w) ==
  /\ job[w].pc = "load"
  /\ \/ /\ NoFault /\ UNCHANGED task
        /\ job' = [job EXCEPT ![w].pc = "node", ![w].wasDeleted = ~Visible(job[w].vm)]
     \/ Fault /\ Fail(w)
  /\ UNCHANGED <<vms, domain, disk, ipamVars, config, delivered, apiVars>>


(* cleanupNode: a running VM is stopped first, then domain and disk are    *)
(* deleted.  The call may fail at each of them, or its answer be lost.     *)
CleanupNode(w) ==
  LET v == job[w].vm
  IN  /\ job[w].pc = "node"
      /\ \/ DeleteVM(Node, v) /\ Step(w, "ips") /\ NoFault /\ UNCHANGED task
         \/ /\ Fail(w) /\ Fault
            /\ \/ UNCHANGED agentVars
               \/ vms[v].status = "running" /\ StopVM(Node, v)
               \/ UndefineVM(Node, v)
               \/ DeleteVM(Node, v)
      /\ UNCHANGED <<vms, ipamVars, config, delivered, apiVars>>

ReleaseIPs(w) ==
  /\ job[w].pc = "ips"
  /\ \/ ReleaseIPsByVM(job[w].vm, TRUE) /\ Step(w, "soft") /\ UNCHANGED task
     \/ ReleaseIPsByVM(job[w].vm, FALSE) /\ Fail(w)
  /\ UNCHANGED <<vms, agentVars, prefixLock, config, delivered, apiVars>>

SoftDeleteVM(w) ==
  /\ job[w].pc = "soft"
  /\ \/ /\ NoFault /\ Step(w, "complete") /\ UNCHANGED task
        /\ IF job[w].wasDeleted THEN UNCHANGED vms ELSE SoftDelete(job[w].vm)
     \/ ~job[w].wasDeleted /\ Fault /\ Fail(w) /\ (UNCHANGED vms \/ SoftDelete(job[w].vm))
  /\ UNCHANGED <<agentVars, ipamVars, config, delivered, apiVars>>

(* complete: here a failing SetCompleted is an error of the handler.       *)
Complete(w) ==
  /\ job[w].pc = "complete"
  /\ Finish(w)
  /\ UNCHANGED <<vms, agentVars, ipamVars, config, delivered, apiVars>>

-----------------------------------------------------------------------------

HandleVMCreate(w) ==
  \/ PrepareCreate(w) \/ AllocateAddress(w) \/ AllocateSubnet(w) \/ AwaitPrefix(w)
  \/ MaterializeVM(w) \/ SetRunning(w) \/ UpdateMACAddress(w) \/ RollbackWithErrorStatus(w)

HandleVMDelete(w) ==
  LoadVM(w) \/ CleanupNode(w) \/ ReleaseIPs(w) \/ SoftDeleteVM(w) \/ Complete(w)

CreateRequest(r) ==
  \/ \E c \in Calls : ResolveCreateIdempotency(r, c)
  \/ CheckCreate(r) \/ PersistVMRecord(r) \/ PublishVMCreateTask(r)

DeleteRequest(r) == (\E v \in VMs : GetVMForDelete(r, v)) \/ MarkDeleting(r) \/ PublishVMDeleteTask(r)

Next ==
  \/ \E r \in CreateRequests : CreateRequest(r)
  \/ \E r \in DeleteRequests : DeleteRequest(r)
  \/ \E r \in Requests : DropRequest(r)
  \/ \E w \in Workers : \/ HandleVMCreate(w) \/ HandleVMDelete(w) \/ Interrupt(w)
                        \/ \E k \in Kinds, v \in VMs : Deliver(w, k, v)

(* A queued task is delivered, and a handler goes on.                      *)
Fairness ==
  /\ \A w \in Workers : WF_vars(HandleVMCreate(w) \/ HandleVMDelete(w))
  /\ WF_vars(\E w \in Workers, k \in Kinds, v \in VMs : Deliver(w, k, v))

Spec == Init /\ [][Next]_vars /\ Fairness

-----------------------------------------------------------------------------

(* Rows, tasks, addresses and the locals of requests and workers have      *)
(* their types, and a subnet's index is below the size of the prefix.      *)
TypeOK ==
  /\ vms \in [VMs -> [status : Statuses \cup {"none"}, key : {c.key : c \in Calls} \cup {None},
                       service : {c.service : c \in Calls} \cup {None}]]
  /\ \A v \in VMs : domain[Node][v] \in {"absent", "shutoff", "running"}
  /\ address \in [Range(Addresses) -> [status : {"available", "assigned", "cooldown"}, vm : VMs \cup {None}]]
  /\ subnets \subseteq [index : 0 .. MaxSubnets - 1, vm : VMs]
  /\ prefixLock \in {None, "leaked"}
  /\ task \in [Kinds -> [VMs -> {"none", "queued", "acked"}]]
  /\ \A r \in Requests : request[r].vm \in VMs \cup {None}
  /\ \A w \in Workers : job[w].vm \in VMs \cup {None} /\ Len(job[w].undo) <= 2

(* Two calls of CreateVM with one idempotency key that both return a VM    *)
(* return the same VM, however they overlap and whatever fails.            *)
RetryGetsSameVM == \A a, b \in answer : a.key = b.key /\ a.key # None => a.vm = b.vm

Guest(v) == domain[Node][v] = "running"

(* Two running guests were never given the same IPv4 address, even when    *)
(* one of them is left over from a creation that was undone: a released    *)
(* address goes into cooldown, not back to the pool.                       *)
NoSharedAddress ==
  \A v, w \in VMs : v # w /\ Guest(v) /\ Guest(w) /\ config[v].ip = config[w].ip => config[v].ip = None

(* Nor the same IPv6 subnet, which is handed out again at once, when the   *)
(* rows of both say running, their creations were delivered once and no    *)
(* second call failed: the compensation stack deletes a guest before it    *)
(* releases its subnet.                                                    *)
NoSharedSubnet ==
  \A v, w \in VMs :
    /\ faults <= 1
    /\ v # w /\ Guest(v) /\ Guest(w) /\ config[v].subnet = config[w].subnet
    /\ \A x \in {v, w} : vms[x].status = "running" /\ delivered["create"][x] = 1
    => config[v].subnet = None

Idle(v) == \A w \in Workers : job[w].vm # v

(* A deleted VM with no handler at work on it has no domain, disk or IPv4  *)
(* address, even when its deletion raced with a repeated creation.  More   *)
(* than one failure, or the leaked lock, may leave something behind.       *)
DeletedHoldsNothing ==
  \A v \in VMs :
    vms[v].status = "deleted" /\ Idle(v) /\ faults <= 1 /\ prefixLock = None
      => domain[Node][v] = "absent" /\ DiskOf(Node, v) = NoDisk /\ AddressesOf(v) = {}

(* A VM whose creation is queued leaves provisioning, for running or       *)
(* error, when fewer calls fail than deliveries are made; except when an   *)
(* exhausted prefix has left its row locked.                               *)
ProvisioningEnds ==
  \A v \in VMs :
    vms[v].status = "provisioning" /\ task["create"][v] = "queued" /\ delivered["create"][v] = 0
      ~> vms[v].status # "provisioning" \/ prefixLock # None

(* A VM whose deletion is queued is deleted: the handler can be repeated   *)
(* after a failure anywhere in it.                                         *)
DeletingEnds ==
  \A v \in VMs : vms[v].status = "deleting" /\ task["delete"][v] = "queued" ~> vms[v].status = "deleted"

=============================================================================
