----------------------------- MODULE VMOperations -----------------------------
(***************************************************************************)
(* What is done to a VM that exists: power operations, suspension, resize, *)
(* reinstall, revert to a snapshot, restore of a backup, deletion.  Each   *)
(* reads the row, calls the node agent and writes the status in steps that *)
(* nothing serialises.  Some are API calls, the others are tasks whose     *)
(* message is delivered again when the handler fails.                      *)
(***************************************************************************)
EXTENDS NodeAgent, Naturals, Sequences

CONSTANTS Node,
          Templates,
          Slots,        \* operations under way at the same time
          MaxDeliver,   \* 3 in the code
          MaxOps,       \* bound on the operations begun
          MaxFaults,    \* bound on failed calls and statements
          None

VARIABLES op,        \* op[s]: the operation of a slot
          snaps,     \* snaps[v]: the disk has its snapshots
          begun,     \* operations begun so far
          faults,    \* faults met so far
          hist       \* history: what has happened, for the properties only

vars == <<vms, domain, disk, op, snaps, begun, faults, hist>>

Calls == {"start", "stop", "restart", "suspend", "unsuspend", "resizeCPU", "restoreBackup", "delete"}

TaskTypes == {"vm.resize", "vm.reinstall", "snapshot.revert", "backup.restore", "vm.delete"}

(* todo: the steps that remain.  from: the status the next conditional     *)
(* write expects.  n: deliveries.  back: the reinstall has written all its *)
(* results; again: and then wiped the VM.                                  *)
Idle == [kind |-> "idle", vm |-> None, template |-> None, todo |-> <<>>, from |-> None,
         n |-> 0, back |-> FALSE, again |-> FALSE]

Active(s) == op[s].kind # "idle"

At(s, step) == op[s].todo # <<>> /\ Head(op[s].todo) = step

Flag(name) == hist' = [hist EXCEPT ![name] = TRUE]

(***************************************************************************)
(* The order of the steps.  A status among them is a conditional write of  *)
(* that status; the other steps are the actions below.                     *)
(***************************************************************************)
Off(st) == IF st = "running" THEN <<"Stop", "stopped">> ELSE <<>>

OnSilently(st) == IF st = "running" THEN <<"Start">> ELSE <<>>

On(st) == IF st = "running" THEN <<"Start", "running">> ELSE <<>>

StartVMSteps == <<"Start", "running">>

StopVMSteps == <<"Stop", "stopped">>

RestartVMSteps == StopVMSteps \o StartVMSteps

(* A running VM is stopped by StopVM, which reads the row itself.          *)
SuspendVMSteps(st) ==
  (IF st = "running" THEN <<"Check">> \o StopVMSteps ELSE <<>>) \o <<"suspended">>

UnsuspendVMSteps == <<"stopped">>

(* ResizeVMWithPlan without a larger disk.                                 *)
ResizeCPUSteps == <<"Resize", "Record">>

(* RestoreBackup, the API call, for ceph.  It writes no VM status.         *)
RestoreBackupSteps == <<"Revert">>

HandleVMResizeSteps(st) == Off(st) \o <<"Resize", "Record">> \o On(st)

HandleSnapshotRevertSteps(st) == Off(st) \o <<"Revert">> \o On(st)

(* On ceph.  The status is not written when the guest is stopped, and the  *)
(* guest is started whatever it was.                                       *)
HandleBackupRestoreSteps(st) ==
  (IF st = "running" THEN <<"Stop">> ELSE <<>>) \o <<"Erase", "Revert", "Start", "running">>

ReinstallUnmarked(st) == <<"Reimage", "running", "Template">>

HandleVMReinstallSteps(st) ==
  (IF st = "reinstalling" THEN <<>> ELSE <<"reinstalling">>) \o <<"Reimage", "running", "Template">>

DeleteRowFirst == <<"Delete", "Remove">>

HandleVMDeleteSteps == <<"Remove", "Delete">>

TaskSteps(k, st) ==
  CASE k = "vm.resize"       -> HandleVMResizeSteps(st)
    [] k = "vm.reinstall"    -> HandleVMReinstallSteps(st)
    [] k = "snapshot.revert" -> HandleSnapshotRevertSteps(st)
    [] k = "backup.restore"  -> HandleBackupRestoreSteps(st)
    [] k = "vm.delete"       -> HandleVMDeleteSteps

CallSteps(k, st) ==
  CASE k = "start"         -> StartVMSteps
    [] k = "stop"          -> StopVMSteps
    [] k = "restart"       -> RestartVMSteps
    [] k = "suspend"       -> SuspendVMSteps(st)
    [] k = "unsuspend"     -> UnsuspendVMSteps
    [] k = "resizeCPU"     -> ResizeCPUSteps
    [] k = "restoreBackup" -> RestoreBackupSteps
    [] k = "delete"        -> <<"deleting">>

(* The statuses from which a call proceeds; elsewhere it changes nothing.  *)
Admits(k, st) ==
  CASE k = "start"               -> st \in {"stopped", "suspended"}
    [] k \in {"stop", "restart"} -> st = "running"
    [] k = "suspend"             -> st # "suspended"
    [] k = "unsuspend"           -> st = "suspended"
    [] k = "delete"              -> st # "deleting"
    [] OTHER                     -> TRUE

(***************************************************************************)
(* Outcomes of a step.                                                     *)
(***************************************************************************)
Goto(s, todo, from) == op' = [op EXCEPT ![s].todo = todo, ![s].from = from]

Advance(s) == Goto(s, Tail(op[s].todo), op[s].from)

FailOnceMore(s) ==
  op' = IF op[s].kind \in TaskTypes /\ op[s].n <= MaxDeliver
        THEN [op EXCEPT ![s].todo = <<"Load">>, ![s].from = None, ![s].n = @ + 1]
        ELSE [op EXCEPT ![s] = Idle]

FailForGood(s) == op' = [op EXCEPT ![s] = Idle]

(* processMessage: an error makes the stream deliver the message again, up *)
(* to MaxDeliver times.  A call just returns.                              *)
Fail(s) ==
  op' = IF op[s].kind \in TaskTypes /\ op[s].n < MaxDeliver
        THEN [op EXCEPT ![s].todo = <<"Load">>, ![s].from = None, ![s].n = @ + 1]
        ELSE [op EXCEPT ![s] = Idle]

Fault == faults < MaxFaults /\ faults' = faults + 1

(* SuspendVM goes on when StopVM fails, and expects the status it read.    *)
SuspendAnyway(s) == Goto(s, <<"suspended">>, "running")

(* What an error of the node agent leads to: resize ends without starting  *)
(* the guest, and restore does not mind a disk that it cannot delete.      *)
AgentError(s) ==
  LET k == op[s].kind IN
  CASE k = "suspend"                            -> SuspendAnyway(s)
    [] k = "vm.resize" /\ At(s, "Start")        -> Goto(s, <<>>, None)
    [] k = "backup.restore" /\ At(s, "Erase")   -> Advance(s)
    [] OTHER                                    -> Fail(s)

(* What a write that found another status, or a forbidden pair, leads to.  *)
Conflict(s) ==
  LET k == op[s].kind IN
  CASE k = "suspend" /\ At(s, "stopped")                -> SuspendAnyway(s)
    [] k \in {"snapshot.revert", "backup.restore"}      -> Goto(s, Tail(op[s].todo), Head(op[s].todo))
    [] OTHER                                            -> Fail(s)

(* What a write that the database refused leads to: most are only logged.  *)
StatementError(s) ==
  IF op[s].kind \in {"unsuspend", "delete"} \/ At(s, "suspended") THEN Fail(s)
  ELSE Goto(s, Tail(op[s].todo), Head(op[s].todo))

(***************************************************************************)
(* Beginning.                                                              *)
(***************************************************************************)
Others(s) == \E o \in Slots \ {s} : Active(o)

(* hist.odd: an operation that leaves the guest in another state than the  *)
(* row says even when nothing interferes.  The agent's ResizeVM always     *)
(* starts the guest, RestoreBackup leaves it stopped, and the restore task *)
(* rolls back a disk that it has deleted.                                  *)
Odd(k, st) ==
  \/ k \in {"resizeCPU", "vm.resize"} /\ st # "running"
  \/ k = "restoreBackup" /\ st = "running"
  \/ k = "backup.restore"

(* Any free slot: the first, as they are all alike.                        *)
Begin(s, new, st) ==
  /\ ~Active(s) /\ begun < MaxOps
  /\ s = CHOOSE o \in Slots : ~Active(o)
  /\ begun' = begun + 1
  /\ op' = [op EXCEPT ![s] = new]
  /\ hist' = [hist EXCEPT !.overlap = @ \/ Others(s),
                          !.odd     = @ \/ Odd(new.kind, st),
                          !.erased  = @ \/ new.kind = "backup.restore",
                          !.doubled = @ \/ /\ new.kind = "vm.reinstall"
                                           /\ \E o \in Slots : op[o].kind = "vm.reinstall"]
  /\ UNCHANGED <<vms, agentVars, snaps, faults>>

(* An API call reads the row and checks the status.                        *)
Call(s, v, k) ==
  LET st == vms[v].status IN
  /\ Visible(v) /\ Admits(k, st)
  /\ Begin(s, [Idle EXCEPT !.kind = k, !.vm = v, !.todo = CallSteps(k, st), !.from = st], st)

(* ResizeVMWithPlan with a larger disk, RevertSnapshotAsync, ReinstallVM,  *)
(* and a backup.restore task: whatever the status is.                      *)
PublishTask(s, v, k, t) ==
  /\ Visible(v)
  /\ Begin(s, [Idle EXCEPT !.kind = k, !.vm = v, !.template = t, !.todo = <<"Load">>, !.n = 1],
           vms[v].status)

LoadAnew(s) ==
  LET v == op[s].vm   k == op[s].kind   st == vms[v].status IN
  /\ At(s, "Load")
  /\ IF k # "vm.delete" /\ ~Visible(v) THEN Fail(s)
     ELSE Goto(s, TaskSteps(k, st), IF k = "backup.restore" THEN "stopped" ELSE st)
  /\ UNCHANGED <<vms, agentVars, snaps, faults, hist>>

(* A handler reads the row.  checkReinstallIdempotency: a running VM with  *)
(* the template is taken for reinstalled.                                  *)
Load(s) ==
  LET v == op[s].vm   k == op[s].kind   st == vms[v].status IN
  /\ At(s, "Load")
  /\ IF k # "vm.delete" /\ ~Visible(v) THEN Fail(s)
     ELSE IF k = "vm.reinstall" /\ st = "running" /\ vms[v].template = op[s].template
     THEN Goto(s, <<>>, None)
     ELSE Goto(s, TaskSteps(k, st),
               IF k = "backup.restore" THEN "stopped" ELSE st)
  /\ UNCHANGED <<vms, agentVars, snaps, faults, hist>>

(***************************************************************************)
(* Calls of the node agent.  Each may be answered, may fail, or may take   *)
(* effect and its answer be lost.                                          *)
(***************************************************************************)
AgentCall(s, may, effect) ==
  /\ \/ /\ may /\ effect
        /\ \/ Advance(s) /\ UNCHANGED faults
           \/ Fault /\ AgentError(s)
     \/ /\ ~may /\ AgentError(s)
        /\ UNCHANGED <<agentVars, snaps, faults>>
     \/ /\ Fault /\ AgentError(s)
        /\ UNCHANGED <<agentVars, snaps>>
  /\ UNCHANGED <<vms, hist>>

Defined(v) == domain[Node][v] # "absent"

Start(s) ==
  LET v == op[s].vm IN
  At(s, "Start") /\ AgentCall(s, MayStart(Node, v), StartVM(Node, v) /\ UNCHANGED snaps)

(* StopVM, ForceStopVM, and stopVMGracefully, which tries both.            *)
Stop(s) ==
  LET v == op[s].vm IN
  At(s, "Stop") /\ AgentCall(s, Defined(v), StopVM(Node, v) /\ UNCHANGED snaps)

(* The agent's ResizeVM stops the guest and starts it in every case.       *)
ResizeVM(n, v) == Define(n, v, IF DiskOf(n, v) = NoDisk THEN "shutoff" ELSE "running") /\ UNCHANGED disk

Resize(s) ==
  LET v == op[s].vm IN
  At(s, "Resize") /\ AgentCall(s, Defined(v) /\ DiskOf(Node, v) # NoDisk,
                               ResizeVM(Node, v) /\ UNCHANGED snaps)

(* RevertSnapshot, which both RestoreSnapshot and CloneFromBackup call:    *)
(* it stops the guest and rolls the disk back.                             *)
Revert(s) ==
  LET v == op[s].vm IN
  At(s, "Revert") /\ AgentCall(s, Defined(v) /\ snaps[v] /\ DiskOf(Node, v) # NoDisk,
                               StopVM(Node, v) /\ UNCHANGED snaps)

(* DeleteDisk removes the snapshots and then the image; an image that a    *)
(* guest has open stays.                                                   *)
Erase(s) ==
  LET v == op[s].vm IN
  /\ At(s, "Erase")
  /\ AgentCall(s, TRUE,
       /\ IF domain[Node][v] = "running" THEN UNCHANGED agentVars ELSE DeleteDisk(Node, v)
       /\ snaps' = [snaps EXCEPT ![v] = FALSE])

(* The agent's ReinstallVM: stop, delete the disk with its snapshots,      *)
(* clone the template, and define and start the domain anew.  It may fail  *)
(* after any of these.                                                     *)
ReinstallVM(v, t) ==
  /\ Define(Node, v, "running")
  /\ disk' = [disk EXCEPT ![Place(Node, v)][v] = t]
  /\ snaps' = [snaps EXCEPT ![v] = FALSE]

ReinstallHalfway(v, t) ==
  LET stopped == IF Defined(v) THEN "shutoff" ELSE "absent" IN
  \E d \in {stopped, "absent"}, image \in {NoDisk, t} :
    /\ d = "absent" => image = t \/ ~Defined(v)
    /\ Define(Node, v, d)
    /\ disk' = [disk EXCEPT ![Place(Node, v)][v] = image]
    /\ snaps' = [snaps EXCEPT ![v] = FALSE]

Reimage(s) ==
  LET v == op[s].vm   t == op[s].template IN
  /\ At(s, "Reimage")
  /\ \/ /\ ReinstallVM(v, t)
        /\ \/ op' = [op EXCEPT ![s].todo = Tail(@), ![s].from = "reinstalling",
                               ![s].again = @ \/ op[s].back] /\ UNCHANGED faults
           \/ Fault /\ Fail(s)
     \/ Fault /\ Fail(s) /\ ReinstallHalfway(v, t)
     \/ Fault /\ Fail(s) /\ UNCHANGED <<agentVars, snaps>>
  /\ UNCHANGED <<vms, hist>>

Remove(s) ==
  LET v == op[s].vm IN
  At(s, "Remove") /\ AgentCall(s, TRUE, DeleteVM(Node, v) /\ snaps' = [snaps EXCEPT ![v] = FALSE])

(***************************************************************************)
(* Statements.                                                             *)
(***************************************************************************)
(* StopVM within SuspendVM reads the row again and insists on running.     *)
Check(s) ==
  /\ At(s, "Check")
  /\ IF vms[op[s].vm].status = "running" THEN Advance(s) ELSE SuspendAnyway(s)
  /\ UNCHANGED <<vms, agentVars, snaps, faults, hist>>

(* TransitionStatus to the status that heads todo.  A marked VM is handed  *)
(* to a vm.delete task.                                                    *)
Transition(s, to) ==
  LET v == op[s].vm   from == op[s].from IN
  /\ At(s, to)
  /\ TransitionStatus(v, from, to)
  /\ IF ~MayTransition(v, from, to) THEN Conflict(s)
     ELSE IF op[s].kind = "delete"
     THEN op' = [op EXCEPT ![s].kind = "vm.delete", ![s].todo = <<"Load">>, ![s].n = 1]
     ELSE Goto(s, Tail(op[s].todo), to)
  /\ UNCHANGED <<agentVars, snaps, faults, hist>>

TransitionFails(s, to) ==
  /\ At(s, to)
  /\ Fault /\ Flag("slipped") /\ StatementError(s)
  /\ UNCHANGED vms \/ TransitionStatus(op[s].vm, op[s].from, to)
  /\ UNCHANGED <<agentVars, snaps>>

(* UpdateResources: an error ends the operation.                           *)
Record(s) ==
  /\ At(s, "Record")
  /\ \/ Visible(op[s].vm) /\ Advance(s) /\ UNCHANGED <<faults, hist>>
     \/ ~Visible(op[s].vm) /\ Fail(s) /\ UNCHANGED <<faults, hist>>
     \/ Fault /\ Flag("slipped") /\ Fail(s)
  /\ UNCHANGED <<vms, agentVars, snaps>>

(* UpdateTemplateID: an error is only logged.                              *)
Template(s) ==
  LET v == op[s].vm IN
  /\ At(s, "Template")
  /\ op' = [op EXCEPT ![s].todo = Tail(@), ![s].back = TRUE]
  /\ \/ /\ IF Visible(v) THEN vms' = [vms EXCEPT ![v].template = op[s].template] ELSE UNCHANGED vms
        /\ UNCHANGED <<faults, hist>>
     \/ Fault /\ Flag("slipped") /\ UNCHANGED vms
  /\ UNCHANGED <<agentVars, snaps>>

(* SoftDelete, which a repeated task leaves out.                           *)
Delete(s) ==
  /\ At(s, "Delete")
  /\ \/ SoftDelete(op[s].vm) /\ Advance(s) /\ UNCHANGED <<faults, hist>>
     \/ Fault /\ Flag("slipped") /\ Fail(s) /\ UNCHANGED vms
  /\ UNCHANGED <<agentVars, snaps>>

(* The call answers, or the message is acknowledged.                       *)
Finish(s) ==
  /\ Active(s) /\ op[s].todo = <<>>
  /\ op' = [op EXCEPT ![s] = Idle]
  /\ UNCHANGED <<vms, agentVars, snaps, faults, hist>>

(* The controller dies, or the acknowledgement of a message is lost.       *)
Interrupt(s) ==
  /\ Active(s) /\ Fault /\ Fail(s)
  /\ UNCHANGED <<vms, agentVars, snaps, begun, hist>>

Step(s) ==
  /\ \/ Load(s) \/ Start(s) \/ Stop(s) \/ Resize(s) \/ Revert(s) \/ Erase(s) \/ Reimage(s) \/ Remove(s)
     \/ Check(s) \/ (\E to \in Statuses : Transition(s, to) \/ TransitionFails(s, to))
     \/ Record(s) \/ Template(s) \/ Delete(s) \/ Finish(s)
  /\ UNCHANGED begun

Next ==
  \E s \in Slots :
    \/ \E v \in VMs, k \in Calls : Call(s, v, k)
    \/ \E v \in VMs, t \in Templates : PublishTask(s, v, "vm.reinstall", t)
    \/ \E v \in VMs, k \in {"vm.resize", "snapshot.revert", "backup.restore"} : PublishTask(s, v, k, None)
    \/ Step(s)
    \/ Interrupt(s)

(* The template that the VMs were made from.                               *)
First == CHOOSE t \in Templates : TRUE

(* VMs that vm.create has handed over, some of them stopped or suspended   *)
(* since.                                                                  *)
Init ==
  /\ vms \in [VMs -> [status : {"running", "stopped", "suspended"}, template : {First}]]
  /\ domain = [n \in Nodes |->
                 [v \in VMs |-> IF vms[v].status = "running" THEN "running" ELSE "shutoff"]]
  /\ disk = [p \in Places |-> [v \in VMs |-> First]]
  /\ op = [s \in Slots |-> Idle]
  /\ snaps = [v \in VMs |-> TRUE]
  /\ begun = 0 /\ faults = 0
  /\ hist = [overlap |-> FALSE, odd |-> FALSE, erased |-> FALSE, doubled |-> FALSE, slipped |-> FALSE]

Spec == Init /\ [][Next]_vars /\ \A s \in Slots : WF_vars(Step(s))

TypeOK ==
  /\ vms \in [VMs -> [status : Statuses, template : Templates]]
  /\ domain \in [Nodes -> [VMs -> {"absent", "shutoff", "running"}]]
  /\ disk \in [Places -> [VMs -> Templates \cup {NoDisk}]]
  /\ \A s \in Slots : /\ op[s].kind \in Calls \cup TaskTypes \cup {"idle"}
                      /\ op[s].n \in 0..MaxDeliver
                      /\ op[s].from \in Statuses \cup {None}
  /\ snaps \in [VMs -> BOOLEAN]
  /\ begun \in 0..MaxOps /\ faults \in 0..MaxFaults

(***************************************************************************)
(* Properties.                                                             *)
(***************************************************************************)
Quiet(v) == \A s \in Slots : op[s].vm # v

(* Operations that neither overlap nor meet a fault leave the guest in the *)
(* state that the row reports: stop, restart, suspend, reinstall, resize   *)
(* of a running VM and revert put the status back with the guest.          *)
RowMatchesGuest ==
  ~hist.overlap /\ faults = 0 /\ ~hist.odd =>
    \A v \in VMs : Quiet(v) => (vms[v].status = "running" <=> domain[Node][v] = "running")

(* However operations overlap and agents fail, a VM that has lost its disk *)
(* says so in its status: it is being reinstalled or deleted, and a        *)
(* reinstall that is given up halfway leaves it so.                        *)
DiskKept ==
  ~hist.erased /\ ~hist.slipped /\ ~hist.doubled =>
    \A v \in VMs : DiskOf(Node, v) = NoDisk => vms[v].status \in {"reinstalling", "deleting", "deleted"}

(* No operation that was under way when a VM was deleted brings its guest  *)
(* or its disk back: each needs the domain, or the status that it read.    *)
(* Two reinstalls of one VM are excepted: the second finds the status of   *)
(* the first and makes no conditional write before it clones.              *)
DeletedStaysGone ==
  ~hist.slipped /\ ~hist.doubled =>
    \A v \in VMs : vms[v].status = "deleted" => domain[Node][v] = "absent" /\ DiskOf(Node, v) = NoDisk

(* A reinstall whose message is delivered again does not wipe a VM that it *)
(* finished with.  Between the write of the status and that of the         *)
(* template it does: the check for a repetition looks at both.             *)
HandedBackOnce == ~hist.overlap /\ ~hist.slipped => \A s \in Slots : ~op[s].again


=============================================================================
