------------------------------ MODULE Migration ------------------------------
(***************************************************************************)
(* Migration of a VM: the request marks the row and publishes a task, the  *)
(* handler moves the guest in the way that the storage calls for, writes   *)
(* the new node and the status, and removes the old disk.  Requests, tasks *)
(* that are delivered again, the cancellation and power operations on the  *)
(* same VM run beside each other.                                          *)
(***************************************************************************)
EXTENDS NodeAgent, Naturals, Sequences

CONSTANTS Relayed,      \* VMs whose transferred disk reaches the target
          Slots,        \* operations under way at the same time
          MaxDeliver,   \* 3 in the code
          MaxOps,       \* bound on the operations begun
          MaxFaults,    \* bound on failed calls and statements
          None

ASSUME MigrationAssumption ==
  Nodes # {} /\ NoDisk # "data" /\ MaxDeliver \in Nat \ {0}

VARIABLES online,    \* the nodes that are online
          op,        \* op[s]: the operation of a slot
          job,       \* job[v]: the move of v under way in libvirt, and for which slot
          begun,     \* operations begun so far
          faults,    \* faults met so far
          hist       \* history: what has happened, for the properties only

vars == <<vms, domain, disk, online, op, job, begun, faults, hist>>

(* src, dst: the nodes.  pre: the status that the request found.  from:    *)
(* the status the next conditional write expects.  n: deliveries.          *)
Idle == [kind |-> "idle", vm |-> None, src |-> None, dst |-> None, pre |-> None, live |-> FALSE,
         todo |-> <<>>, from |-> None, n |-> 0]

Active(s) == op[s].kind # "idle"

At(s, step) == op[s].todo # <<>> /\ Head(op[s].todo) = step

Goto(s, todo, from) == op' = [op EXCEPT ![s].todo = todo, ![s].from = from]

Advance(s) == Goto(s, Tail(op[s].todo), op[s].from)

FailForGood(s) == op' = [op EXCEPT ![s] = Idle]

(* processMessage: an error makes the stream deliver the message again, up *)
(* to MaxDeliver times.  A call just returns.                              *)
Fail(s) ==
  op' = IF op[s].kind = "vm.migrate" /\ op[s].n < MaxDeliver
        THEN [op EXCEPT ![s].todo = <<"Load">>, ![s].from = None, ![s].n = @ + 1]
        ELSE [op EXCEPT ![s] = Idle]

Fault == faults < MaxFaults /\ faults' = faults + 1

Flag(name) == hist' = [hist EXCEPT ![name] = TRUE]

(***************************************************************************)
(* The order of the steps of the handler.                                  *)
(***************************************************************************)
ExecuteLiveSharedStorageMigration == <<"Migrate">>

(* What follows the transfer is never reached; see TransferSnapshot.       *)
ExecuteLiveDiskCopyMigration == 
  <<"Snapshot", "TransferSnapshot", "Stop", "Undefine", "Prepare", "Start">>

CopyWhileDefined(st, pre) ==
  (IF st = "running" THEN <<"Stop">> ELSE <<>>)
  \o <<"Transfer", "Prepare", "Undefine">> \o (IF pre = "running" THEN <<"Start">> ELSE <<>>)

(* st is the status that the handler read, which normally is migrating, so *)
(* that a running guest is not stopped; pre is that before the request.    *)
ExecuteColdDiskCopyMigration(st, pre) ==
  (IF st = "running" THEN <<"Stop">> ELSE <<>>)
  \o <<"Transfer", "Undefine", "Prepare">> \o (IF pre = "running" THEN <<"Start">> ELSE <<>>)

(* determineMigrationStrategy and the dispatch on it.                      *)
ExecuteMigrationStrategy(v, st, live, pre) ==
  IF v \in Shared THEN ExecuteLiveSharedStorageMigration
  ELSE IF live /\ st = "running" THEN ExecuteLiveDiskCopyMigration
  ELSE ExecuteColdDiskCopyMigration(st, pre)

(* Mutants: the disk goes before the row is moved; the row is not moved.   *)
CleanupFirst == <<"Cleanup", "Assign", "Final">>
FinalizeUnassigned == <<"Final", "Cleanup">>

FinalizeMigration == <<"Assign", "Final", "Cleanup">>

MigrationFinalStatus(pre) == IF pre \in {"stopped", "suspended"} THEN pre ELSE "running"

(***************************************************************************)
(* Beginning.                                                              *)
(***************************************************************************)
Meddling == {"start", "stop", "cancel"}

Moving(s, v) == op[s].vm = v /\ op[s].kind \in {"migrate", "vm.migrate"}

(* A migration to or from a node that another one of v comes from or goes  *)
(* to.                                                                     *)
Crosses(v, src, dst) ==
  \E o \in Slots : Moving(o, v) /\ (op[o].dst = src \/ op[o].src = dst)

(* A migration of v while another one takes it elsewhere, or has left its  *)
(* domain on a node that the row does not name.                            *)
Parts(v, src, dst) ==
  \/ \E o \in Slots : Moving(o, v) /\ op[o].dst # dst
  \/ \E n \in Nodes \ {src} : domain[n][v] # "absent"

(* Any free slot: the first, as they are all alike.                        *)
Begin(s, new) ==
  /\ ~Active(s) /\ begun < MaxOps
  /\ s = CHOOSE o \in Slots : ~Active(o)
  /\ begun' = begun + 1
  /\ op' = [op EXCEPT ![s] = new]
  /\ hist' = [hist EXCEPT
       !.meddled = @ \/ \E o \in Slots : Active(o) /\ {new.kind, op[o].kind} \cap Meddling # {},
       !.crossed = @ \/ (new.kind = "migrate" /\ Crosses(new.vm, new.src, new.dst)),
       !.parted  = @ \/ (new.kind = "migrate" /\ Parts(new.vm, new.src, new.dst))]
  /\ UNCHANGED <<vms, agentVars, online, job, faults>>

ValidateVMStatusForMigration(st, live) ==
  st = "running" \/ (st \in {"stopped", "suspended"} /\ ~live)

(* MigrateVM validates the VM and the target.  Capacity is not modelled:   *)
(* it is one more reason to refuse, and no migration changes it.           *)
MigrateVM(s, v, dst, live) ==
  LET vm == vms[v] IN
  /\ Visible(v) /\ ValidateVMStatusForMigration(vm.status, live)
  /\ dst # vm.node /\ dst \in online
  /\ Begin(s, [Idle EXCEPT !.kind = "migrate", !.vm = v, !.src = vm.node, !.dst = dst,
                           !.pre = vm.status, !.live = live, !.todo = <<"Mark", "Publish">>])

CancelMigration(s, v) ==
  /\ vms[v].status = "migrating"
  /\ Begin(s, [Idle EXCEPT !.kind = "cancel", !.vm = v, !.src = vms[v].node,
                           !.todo = <<"Abort", "Restore">>])

(* StartVM and StopVM of the VM service.                                   *)
Power(s, v, k) ==
  LET st == vms[v].status IN
  /\ IF k = "start" THEN st \in {"stopped", "suspended"} ELSE st = "running"
  /\ Begin(s, [Idle EXCEPT !.kind = k, !.vm = v, !.src = vms[v].node, !.dst = vms[v].node,
                           !.todo = IF k = "start" THEN <<"Start", "running">> ELSE <<"Stop", "stopped">>,
                           !.from = st])

(***************************************************************************)
(* The request.                                                            *)
(***************************************************************************)
(* The status is written whatever it has become since it was read.         *)
Mark(s) ==
  /\ At(s, "Mark")
  /\ \/ /\ UpdateStatus(op[s].vm, "migrating")
        /\ IF Visible(op[s].vm) THEN Advance(s) ELSE Fail(s)
        /\ UNCHANGED <<faults, hist>>
     \/ Fault /\ Flag("slipped") /\ Fail(s) /\ UNCHANGED vms
  /\ UNCHANGED <<agentVars, online, job>>

(* A failing publisher puts the status back, again unconditionally.        *)
Publish(s) ==
  /\ At(s, "Publish")
  /\ \/ /\ op' = [op EXCEPT ![s].kind = "vm.migrate", ![s].todo = <<"Load">>, ![s].n = 1]
        /\ UNCHANGED <<vms, faults>>
     \/ Fault /\ Fail(s) /\ UpdateStatus(op[s].vm, op[s].pre)
  /\ UNCHANGED <<agentVars, online, job, hist>>

(***************************************************************************)
(* The handler.                                                            *)
(***************************************************************************)
MayLoad(s) ==
  Visible(op[s].vm) /\ vms[op[s].vm].node = op[s].src /\ op[s].dst \in online

(* prepareMigrationContext.  The check for a VM that is already on the     *)
(* target comes after the one that it is on the source, and is never       *)
(* reached.  Errors here leave the status as it is.                        *)
Load(s) ==
  LET v == op[s].vm   st == vms[v].status
      steps == ExecuteMigrationStrategy(v, st, op[s].live, op[s].pre) \o FinalizeMigration IN
  /\ At(s, "Load")
  /\ IF ~MayLoad(s) THEN Fail(s) /\ UNCHANGED vms
     ELSE IF st = "migrating" THEN Goto(s, steps, None) /\ UNCHANGED vms
     ELSE /\ TransitionStatus(v, op[s].pre, "migrating")
          /\ IF MayTransition(v, op[s].pre, "migrating") THEN Goto(s, steps, None) ELSE Fail(s)
  /\ UNCHANGED <<agentVars, online, job, faults, hist>>

(* An error of a strategy is followed by handleMigrationFailure.           *)
Broken(s) == IF op[s].kind = "vm.migrate" THEN Goto(s, <<"Error">>, None) ELSE Fail(s)

HandleMigrationFailure(s) ==
  /\ At(s, "Error")
  /\ \/ TransitionStatus(op[s].vm, "migrating", "error") /\ UNCHANGED <<faults, hist>>
     \/ Fault /\ Flag("slipped") /\ UNCHANGED vms
  /\ Fail(s)
  /\ UNCHANGED <<agentVars, online, job>>

(* Each call of an agent may be answered, may fail, or may take effect and *)
(* its answer be lost.  otherwise is what an error leads to.               *)
AgentCall(s, may, effect, otherwise) ==
  /\ \/ /\ may /\ effect
        /\ \/ Advance(s) /\ UNCHANGED faults
           \/ Fault /\ otherwise
     \/ ~may /\ otherwise /\ UNCHANGED <<agentVars, faults>>
     \/ Fault /\ otherwise /\ UNCHANGED agentVars
  /\ UNCHANGED <<vms, online, job>>

(* The agent's MigrateVM blocks until libvirt has moved the guest.         *)
Migrate(s) ==
  LET v == op[s].vm IN
  /\ At(s, "Migrate")
  /\ \/ /\ domain[op[s].src][v] = "running" /\ job[v] = None
        /\ job' = [job EXCEPT ![v] = [by |-> s, src |-> op[s].src, dst |-> op[s].dst]]
        /\ Goto(s, <<"Await">> \o Tail(op[s].todo), None)
        /\ UNCHANGED faults
     \/ /\ domain[op[s].src][v] # "running" \/ job[v] # None
        /\ Broken(s) /\ UNCHANGED <<job, faults>>
     \/ Fault /\ Broken(s) /\ UNCHANGED job
  /\ UNCHANGED <<vms, agentVars, online, hist>>

Answer(s, ok) ==
  IF ~At(s, "Await") THEN UNCHANGED op ELSE IF ok THEN Advance(s) ELSE Broken(s)

(* libvirt: the guest runs on the target and is undefined on the source,   *)
(* which does not depend on a controller still waiting for the answer.     *)
JobDone(v) ==
  LET j == job[v] IN
  /\ j # None /\ domain[j.src][v] = "running"
  /\ domain' = [domain EXCEPT ![j.src][v] = "absent", ![j.dst][v] = "running"]
  /\ job' = [job EXCEPT ![v] = None]
  /\ \/ Answer(j.by, TRUE) /\ UNCHANGED faults
     \/ Fault /\ Answer(j.by, FALSE)
  /\ UNCHANGED <<vms, disk, online, begun, hist>>

JobFails(v) ==
  LET j == job[v] IN
  /\ j # None
  /\ \/ domain[j.src][v] # "running" /\ UNCHANGED faults
     \/ Fault
  /\ job' = [job EXCEPT ![v] = None]
  /\ Answer(j.by, FALSE)
  /\ UNCHANGED <<vms, agentVars, online, begun, hist>>

(* stopVMGracefully, and the StopVM of the VM service.                     *)
Stop(s) ==
  LET v == op[s].vm IN
  /\ At(s, "Stop")
  /\ AgentCall(s, domain[op[s].src][v] # "absent", StopVM(op[s].src, v), Broken(s))
  /\ UNCHANGED hist

Snapshot(s) ==
  /\ At(s, "Snapshot")
  /\ AgentCall(s, DiskOf(op[s].src, op[s].vm) # NoDisk, UNCHANGED agentVars, Broken(s))
  /\ UNCHANGED hist

(* The agent has given the snapshot a name of its own, and finds none of   *)
(* the name that the transfer asks for.                                    *)
TransferSnapshot(s) ==
  /\ At(s, "TransferSnapshot") /\ Broken(s)
  /\ UNCHANGED <<vms, agentVars, online, job, faults, hist>>

(* ReceiveDisk: what the target would store.                               *)
ReceiveDisk(n, v, image) ==
  disk' = [disk EXCEPT ![Place(n, v)][v] = image] /\ UNCHANGED domain

(* The controller reads the stream to its end and passes nothing on.       *)
Transfer(s) ==
  LET v == op[s].vm IN
  /\ At(s, "Transfer")
  /\ AgentCall(s, DiskOf(op[s].src, v) # NoDisk,
               IF v \in Relayed THEN ReceiveDisk(op[s].dst, v, DiskOf(op[s].src, v))
                                ELSE UNCHANGED agentVars,
               Broken(s))
  /\ UNCHANGED hist

(* A domain that cannot be undefined is only logged.                       *)
Undefine(s) ==
  /\ At(s, "Undefine")
  /\ AgentCall(s, TRUE, UndefineVM(op[s].src, op[s].vm), Advance(s))
  /\ hist' = [hist EXCEPT !.left = @ \/ faults' # faults]

(* PrepareMigratedVM defines the domain and starts it.                     *)
Prepare(s) ==
  LET v == op[s].vm   n == op[s].dst IN
  /\ At(s, "Prepare")
  /\ AgentCall(s, DiskOf(n, v) # NoDisk /\ MayStartNew(n, v),
               Define(n, v, "running") /\ UNCHANGED disk, Broken(s))
  /\ UNCHANGED hist

Start(s) ==
  /\ At(s, "Start")
  /\ AgentCall(s, MayStart(op[s].dst, op[s].vm), StartVM(op[s].dst, op[s].vm), Broken(s))
  /\ UNCHANGED hist

(* UpdateNodeAssignment.  An error leaves the VM migrating.                *)
Assign(s) ==
  LET v == op[s].vm IN
  /\ At(s, "Assign")
  /\ \/ /\ Visible(v) /\ vms' = [vms EXCEPT ![v].node = op[s].dst] /\ Advance(s)
        /\ UNCHANGED <<faults, hist>>
     \/ ~Visible(v) /\ Fail(s) /\ UNCHANGED <<vms, faults, hist>>
     \/ Fault /\ Flag("slipped") /\ Fail(s) /\ UNCHANGED vms
  /\ UNCHANGED <<agentVars, online, job>>

(* A status that is no longer migrating ends the task with an error; a     *)
(* refused statement does not.                                             *)
Final(s) ==
  LET v == op[s].vm   st == MigrationFinalStatus(op[s].pre) IN
  /\ At(s, "Final")
  /\ \/ /\ TransitionStatus(v, "migrating", st)
        /\ IF MayTransition(v, "migrating", st) THEN Advance(s) ELSE Fail(s)
        /\ UNCHANGED <<faults, hist>>
     \/ Fault /\ Flag("slipped") /\ Advance(s) /\ UNCHANGED vms
  /\ UNCHANGED <<agentVars, online, job>>

(* The pool's disk stays.  An error is only logged.                        *)
CleanupSourceDiskAfterCommit(s) ==
  /\ At(s, "Cleanup")
  /\ AgentCall(s, TRUE,
               IF op[s].vm \in Shared THEN UNCHANGED agentVars ELSE DeleteDisk(op[s].src, op[s].vm),
               Advance(s))
  /\ UNCHANGED hist

(***************************************************************************)
(* The cancellation, and the end of a power operation.                     *)
(***************************************************************************)
(* AbortMigration on the node of the row; an error is only logged.         *)
Abort(s) ==
  LET v == op[s].vm   j == job[v] IN
  /\ At(s, "Abort")
  /\ \/ /\ j # None /\ j.src = op[s].src
        /\ job' = [job EXCEPT ![v] = None]
        /\ op' = IF At(j.by, "Await")
                 THEN [op EXCEPT ![s].todo = Tail(@), ![j.by].todo = <<"Error">>, ![j.by].from = None]
                 ELSE [op EXCEPT ![s].todo = Tail(@)]
     \/ Advance(s) /\ UNCHANGED job
  /\ UNCHANGED <<vms, agentVars, online, faults, hist>>

(* The status that a vm.migrate task of the VM recorded, or running.       *)
Restore(s) ==
  LET v == op[s].vm
      tasks == {t \in Slots : op[t].kind = "vm.migrate" /\ op[t].vm = v} IN
  /\ At(s, "Restore")
  /\ \E st \in IF tasks = {} THEN {"running"} ELSE {op[t].pre : t \in tasks} : UpdateStatus(v, st)
  /\ Advance(s)
  /\ UNCHANGED <<agentVars, online, job, faults, hist>>

Settle(s, to) ==
  LET v == op[s].vm IN
  /\ At(s, to)
  /\ TransitionStatus(v, op[s].from, to)
  /\ Advance(s)
  /\ UNCHANGED <<agentVars, online, job, faults, hist>>

Finish(s) ==
  /\ Active(s) /\ op[s].todo = <<>>
  /\ op' = [op EXCEPT ![s] = Idle]
  /\ UNCHANGED <<vms, agentVars, online, job, faults, hist>>

(***************************************************************************)
(* Faults.                                                                 *)
(***************************************************************************)
(* The controller dies, or the acknowledgement of a message is lost.       *)
Interrupt(s) ==
  /\ Active(s) /\ Fault /\ Fail(s)
  /\ hist' = [hist EXCEPT !.stranded = @ \/ op[s].n = MaxDeliver \/ At(s, "Final")]
  /\ UNCHANGED <<vms, agentVars, online, job, begun>>

GoOffline(n) ==
  /\ n \in online /\ Fault
  /\ online' = online \ {n}
  /\ UNCHANGED <<vms, agentVars, op, job, begun, hist>>

Step(s) ==
  /\ \/ Mark(s) \/ Publish(s) \/ Load(s) \/ HandleMigrationFailure(s) \/ Migrate(s) \/ Stop(s)
     \/ Snapshot(s) \/ TransferSnapshot(s) \/ Transfer(s) \/ Undefine(s) \/ Prepare(s) \/ Start(s)
     \/ Assign(s) \/ Final(s) \/ CleanupSourceDiskAfterCommit(s) \/ Abort(s) \/ Restore(s)
     \/ Settle(s, "running") \/ Settle(s, "stopped") \/ Finish(s)
  /\ UNCHANGED begun

JobEnds(v) == JobDone(v) \/ JobFails(v)

Next ==
  \/ \E s \in Slots, v \in VMs :
       \/ \E dst \in Nodes, live \in BOOLEAN : MigrateVM(s, v, dst, live)
       \/ CancelMigration(s, v)
       \/ \E k \in {"start", "stop"} : Power(s, v, k)
  \/ \E s \in Slots : Step(s) \/ Interrupt(s)
  \/ \E v \in VMs : JobEnds(v)
  \/ \E n \in Nodes : GoOffline(n)

Home == CHOOSE n \in Nodes : TRUE

(* One VM exists, running or stopped on its node.                          *)
Init ==
  /\ \E v \in VMs, st \in {"running", "stopped"} :
       /\ vms = [u \in VMs |-> [status |-> IF u = v THEN st ELSE "none", node |-> Home]]
       /\ domain = [n \in Nodes |-> [u \in VMs |->
            IF n # Home \/ u # v THEN "absent" ELSE IF st = "running" THEN "running" ELSE "shutoff"]]
       /\ disk = [p \in Places |-> [u \in VMs |-> IF u = v /\ p = Place(Home, v) THEN "data" ELSE NoDisk]]
  /\ online = Nodes
  /\ op = [s \in Slots |-> Idle] /\ job = [v \in VMs |-> None]
  /\ begun = 0 /\ faults = 0
  /\ hist = [meddled |-> FALSE, crossed |-> FALSE, parted |-> FALSE, slipped |-> FALSE,
             left |-> FALSE, stranded |-> FALSE]

Spec ==
  /\ Init /\ [][Next]_vars
  /\ \A s \in Slots : WF_vars(Step(s))
  /\ \A v \in VMs : WF_vars(JobEnds(v))

TypeOK ==
  /\ vms \in [VMs -> [status : Statuses \cup {"none"}, node : Nodes]]
  /\ domain \in [Nodes -> [VMs -> {"absent", "shutoff", "running"}]]
  /\ disk \in [Places -> [VMs -> {"data", NoDisk}]]
  /\ online \subseteq Nodes
  /\ \A s \in Slots : /\ op[s].vm \in VMs \cup {None}
                      /\ op[s].n \in 0..MaxDeliver
                      /\ op[s].pre \in Statuses \cup {None}
  /\ job \in [VMs -> [by : Slots, src : Nodes, dst : Nodes] \cup {None}]
  /\ begun \in 0..MaxOps /\ faults \in 0..MaxFaults

(***************************************************************************)
(* Properties.                                                             *)
(***************************************************************************)
(* The node that the row names holds the disk, whatever fails and however  *)
(* often the task is delivered: the old disk goes after the new node is    *)
(* written.  Excepted is a migration that is requested before an earlier   *)
(* one from its target, or to its source, is over: the last step of that   *)
(* deletes the disk in the very place.                                     *)
RowHasDisk ==
  ~hist.crossed => \A v \in VMs : Visible(v) => DiskOf(vms[v].node, v) # NoDisk

(* No guest runs twice, also when a task is delivered again while the move *)
(* it started goes on, or two tasks move one VM.  A guest on a local disk  *)
(* may do so when a source domain could not be undefined, which is logged  *)
(* and passed over; and when its migration is requested while another one  *)
(* takes it elsewhere or has left it on a node that its row does not name. *)
GuestRunsOnce ==
  \A v \in VMs : v \in Shared \/ (~hist.left /\ ~hist.parted) =>
    \A m, n \in Nodes : domain[m][v] = "running" /\ domain[n][v] = "running" => m = n

Quiet(v) == \A s \in Slots : op[s].vm # v

(* A VM that its row calls running is found running on the node that the   *)
(* row names, when all requests and tasks are over, also when two requests *)
(* found it fit to be migrated.  Power operations and CancelMigration that *)
(* come between are excepted: the first write a status for another node,   *)
(* the latter restores one while the task goes on.                         *)
RunningIsThere ==
  faults = 0 /\ ~hist.meddled =>
    \A v \in VMs : Quiet(v) /\ vms[v].status = "running" => domain[vms[v].node][v] = "running"

(* A VM whose handler has begun to move it does not stay migrating: the    *)
(* move ends, fails, or is taken up by the next delivery.  Excepted are a  *)
(* write that the database refuses; a death of the last delivery, or of    *)
(* one between the writes of finalizeMigration, after which no delivery    *)
(* gets past the check of the source node; and a target gone offline,      *)
(* which that check refuses without touching the status.                   *)
MigratingEnds ==
  \A v \in VMs, s \in Slots :
    vms[v].status = "migrating" /\ op[s].vm = v /\ (At(s, "Migrate") \/ At(s, "Transfer"))
      /\ op[s].n < MaxDeliver
    ~> vms[v].status # "migrating" \/ hist.slipped \/ hist.stranded \/ online # Nodes

=============================================================================
