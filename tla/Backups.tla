------------------------------- MODULE Backups -------------------------------
(***************************************************************************)
(* Backups of one VM: the monthly and the administrators' schedules in     *)
(* several controllers publish backup.create tasks, a handler freezes the  *)
(* guest, takes the copy and records it, customers create and delete       *)
(* backups by hand.  Restoring is modelled in VMOperations.                *)
(***************************************************************************)
EXTENDS Naturals, FiniteSets, Sequences

CONSTANTS Controllers,
          Slots,          \* handlers and requests under way at the same time
          Limit,          \* backup_limit of the plan
          FrozenCount,    \* what the client returns after a freeze: 0 in the code
          HandlerMethod,  \* backups.method as the handler inserts it: "" in the code
          Days,           \* days of a month
          Plans,          \* initial states: [backend, up, requests, tasks, today, day, run]
          MaxDeliver, MaxDay, MaxTasks, MaxAttempts, MaxRows, MaxFaults

VARIABLES backend,   \* storage_backend of the VM: "ceph", "qcow" or "lvm"
          today,
          backupDay, \* the day of the month on which the VM's backup is due
          nextRun,   \* next_run_at of an administrators' schedule
          tick, adm, \* tick[c], adm[c]: where the two schedulers of c are
          done,      \* some controller has run a tick today
          queue,     \* published tasks, by source
          issued,    \* tasks published so far, of the MaxTasks a behaviour may have
          requests,  \* requests the customer may still make
          op,        \* op[s]: the handler or request of a slot
          rows,      \* the table backups
          rowLock,   \* who holds vms FOR UPDATE
          storage,   \* snapshots, as <<attempt, part>>
          frozen,    \* the guest's file systems are frozen
          faults,
          hist       \* history: for the properties only

sched == <<today, nextRun, tick, adm, done, queue>>
work == <<op, rows, rowLock, storage, frozen>>
vm == <<backend, backupDay, requests>>
vars == <<vm, sched, issued, work, faults, hist>>

Ids == 1..MaxRows
NoRow == [status |-> "none", src |-> "none", month |-> 0, snap |-> 0]
Idle == [kind |-> "idle", src |-> "none", todo |-> <<>>, n |-> 0, froze |-> FALSE, att |-> 0, row |-> 0]

Month == today \div Days
Live == {i \in Ids : rows[i].status # "none"}
At(s, step) == op[s].todo # <<>> /\ Head(op[s].todo) = step
Goto(s, todo) == op' = [op EXCEPT ![s].todo = todo]
Advance(s) == Goto(s, Tail(op[s].todo))
Fault == faults < MaxFaults /\ faults' = faults + 1
(* Slots are interchangeable: work goes to one of the free ones.           *)
Free(s) == op[s] = Idle /\ s = CHOOSE t \in Slots : op[t] = Idle


HasBackupInMonth == \E i \in Live : rows[i].status = "completed" /\ rows[i].month = Month

(* runSchedulerTick of the monthly schedule, up to the answer of           *)
(* HasBackupInMonth; an error of either query ends the tick for this VM.   *)
MonthlyTick(c) ==
  /\ tick[c] = "idle"
  /\ \/ /\ tick' = [tick EXCEPT ![c] = IF today % Days = backupDay /\ ~HasBackupInMonth THEN "monthly" ELSE "idle"]
        /\ done' = TRUE
        /\ UNCHANGED faults
     \/ Fault /\ UNCHANGED <<tick, done>>
  /\ UNCHANGED <<vm, today, nextRun, adm, queue, issued, work, hist>>

(* PublishTask.  Past the bound MaxTasks the task is dropped, and          *)
(* hist.capped says so.                                                    *)
Enqueue(src) ==
  IF issued < MaxTasks
  THEN queue' = [queue EXCEPT ![src] = @ + 1] /\ issued' = issued + 1 /\ UNCHANGED hist
  ELSE hist' = [hist EXCEPT !.capped = TRUE] /\ UNCHANGED <<queue, issued>>

(* scheduleBackupForVM.                                                    *)
ScheduleBackupForVM(c) ==
  /\ tick[c] = "monthly"
  /\ tick' = [tick EXCEPT ![c] = "idle"]
  /\ \/ Enqueue("customer_schedule") /\ UNCHANGED faults
     \/ Fault /\ UNCHANGED <<queue, issued, hist>>
  /\ UNCHANGED <<vm, today, nextRun, adm, done, work>>

(* ListDueSchedules, then executeSchedule: the task, and the next run in a *)
(* write of its own, counted from the start of the tick.                   *)
ListDueSchedules(c) ==
  /\ adm[c].at = "idle" /\ nextRun <= today
  /\ \/ adm' = [adm EXCEPT ![c] = [at |-> "due", now |-> today]] /\ UNCHANGED faults
     \/ Fault /\ UNCHANGED adm
  /\ UNCHANGED <<vm, today, nextRun, tick, done, queue, issued, work, hist>>

ExecuteSchedule(c) ==
  /\ adm[c].at = "due"
  /\ adm' = [adm EXCEPT ![c].at = "published"]
  /\ \/ Enqueue("admin_schedule") /\ UNCHANGED faults
     \/ Fault /\ UNCHANGED <<queue, issued, hist>>
  /\ UNCHANGED <<vm, today, nextRun, tick, done, work>>

NeverAdvances(c) ==
  /\ adm[c].at = "published"
  /\ adm' = [adm EXCEPT ![c] = [at |-> "idle", now |-> 0]]
  /\ UNCHANGED <<vm, today, nextRun, tick, done, queue, issued, work, faults, hist>>

UpdateNextRunAt(c) ==
  /\ adm[c].at = "published"
  /\ adm' = [adm EXCEPT ![c] = [at |-> "idle", now |-> 0]]
  /\ \/ nextRun' = adm[c].now + 1 /\ UNCHANGED faults
     \/ Fault /\ UNCHANGED nextRun
  /\ UNCHANGED <<vm, today, tick, done, queue, issued, work, hist>>

(* A day has 24 ticks of the monthly schedule: one of them is answered.    *)
NewDay ==
  /\ today < MaxDay /\ done
  /\ today' = today + 1 /\ done' = FALSE
  /\ UNCHANGED <<vm, nextRun, tick, adm, queue, issued, work, faults, hist>>

(***************************************************************************)
(* The handler of backup.create.  A step that fails ends it: what defer    *)
(* and the error path undo, the thaw, and the error for processMessage.    *)
(***************************************************************************)
Handler(src, n) == [Idle EXCEPT !.kind = "backup.create", !.src = src, !.n = n, !.todo = <<"Load">>]
Again(s) == Handler(op[s].src, op[s].n + 1)

Deliver(s, src) ==
  /\ Free(s) /\ queue[src] > 0
  /\ queue' = [queue EXCEPT ![src] = @ - 1]
  /\ op' = [op EXCEPT ![s] = Handler(src, 1)]
  /\ UNCHANGED <<vm, today, nextRun, tick, adm, done, issued, rows, rowLock, storage, frozen, faults, hist>>

(* The three handlers: their calls, and the calls whose failure makes them *)
(* remove the snapshot again.                                              *)
HandleCephBackupCreate == [calls |-> <<"Snapshot", "Protect", "Clone">>, undone |-> {"Clone"}]
HandleQCOWBackupCreate == [calls |-> <<"Snapshot", "Copy">>, undone |-> {"Copy", "Record"}]
HandleLVMBackupCreate == [calls |-> <<"Snapshot", "Copy">>, undone |-> {"Copy", "Record"}]

HandleBackupCreate ==
  CASE backend = "ceph" -> HandleCephBackupCreate
    [] backend = "qcow" -> HandleQCOWBackupCreate
    [] backend = "lvm"  -> HandleLVMBackupCreate

Undo(step) == IF step \in HandleBackupCreate.undone THEN <<"Unsnap">> ELSE <<>>

ForgetThaw(step) == Undo(step) \o <<"Error">>

(* What follows when a step fails: the thaw is deferred.                   *)
OnError(step) == Undo(step) \o <<"Thaw", "Error">>

Load(s) ==
  /\ At(s, "Load")
  /\ \/ Goto(s, <<"Freeze">> \o HandleBackupCreate.calls \o <<"Record", "Thaw", "Done">>) /\ UNCHANGED faults
     \/ Fault /\ Goto(s, <<"Error">>)
  /\ UNCHANGED <<vm, sched, issued, rows, rowLock, storage, frozen, hist>>

(* GuestFreezeFilesystems: refused without a guest agent and by a guest    *)
(* that is frozen already.  The client always returns FrozenCount.  The    *)
(* answer may be lost or come after the timeout.                           *)
GuestFreezeFilesystems(s) ==
  /\ At(s, "Freeze")
  /\ \/ /\ ~frozen /\ frozen' = TRUE
        /\ op' = [op EXCEPT ![s].todo = Tail(@), ![s].froze = FrozenCount > 0]
        /\ UNCHANGED <<faults, hist>>
     \/ /\ ~frozen /\ frozen' = TRUE
        /\ Fault /\ Advance(s) /\ hist' = [hist EXCEPT !.lost = TRUE]
     \/ Advance(s) /\ UNCHANGED <<frozen, faults, hist>>
  /\ UNCHANGED <<vm, sched, issued, rows, rowLock, storage>>

ThawAlways(s) ==
  /\ At(s, "Thaw")
  /\ op' = [op EXCEPT ![s].todo = Tail(@), ![s].froze = FALSE]
  /\ frozen' = FALSE
  /\ UNCHANGED <<vm, sched, issued, rows, rowLock, storage, faults, hist>>

(* The deferred GuestThawFilesystems, on every way out of the handler.     *)
GuestThawFilesystems(s) ==
  /\ At(s, "Thaw")
  /\ op' = [op EXCEPT ![s].todo = Tail(@), ![s].froze = FALSE]
  /\ \/ op[s].froze /\ frozen' = FALSE /\ UNCHANGED <<faults, hist>>
     \/ op[s].froze /\ Fault /\ hist' = [hist EXCEPT !.lost = TRUE] /\ UNCHANGED frozen
     \/ ~op[s].froze /\ UNCHANGED <<frozen, faults, hist>>
  /\ UNCHANGED <<vm, sched, issued, rows, rowLock, storage>>

(***************************************************************************)
(* Storage.  Protecting and cloning a snapshot, and copying it to a file,  *)
(* are all calls that take another snapshot: under a name of its own on    *)
(* ceph, under the same name on qcow.                                      *)
(***************************************************************************)
Attempts == 1..MaxAttempts
Used == {x[1] : x \in storage} \cup {rows[i].snap : i \in Live} \cup {op[s].att : s \in Slots} \cup hist.erased
Fresh == CHOOSE a \in Attempts : a \notin Used

Part(step) == CASE step = "Snapshot" -> 1 [] step \in {"Protect", "Copy"} -> 2 [] step = "Clone" -> 3

(* The agent's CreateDiskSnapshot knows ceph and qcow only.                *)
Refused(s, step) == step = "Snapshot" /\ backend = "lvm" /\ op[s].kind = "backup.create"

ErrorSteps(s, step) ==
  IF op[s].kind = "backup.create" THEN OnError(step)
  ELSE (IF backend = "qcow" /\ step = "Copy" THEN <<"Unsnap">> ELSE <<>>) \o <<"failed">>

Store(s, step) ==
  LET a == IF step = "Snapshot" THEN Fresh ELSE op[s].att
      made == storage' = storage \cup {<<a, Part(step)>>}
      next(todo) == op' = [op EXCEPT ![s].todo = todo, ![s].att = a] IN
  /\ At(s, step)
  /\ \/ ~Refused(s, step) /\ made /\ next(Tail(op[s].todo)) /\ UNCHANGED faults
     \/ ~Refused(s, step) /\ made /\ Fault /\ next(ErrorSteps(s, step))
     \/ Refused(s, step) /\ Goto(s, ErrorSteps(s, step)) /\ UNCHANGED <<storage, faults>>
     \/ Fault /\ Goto(s, ErrorSteps(s, step)) /\ UNCHANGED storage
  /\ UNCHANGED <<vm, sched, issued, rows, rowLock, frozen, hist>>


(* One snapshot of that name; on ceph, the one that was cloned.            *)
OneOf(a) ==
  IF \E x \in storage : x[1] = a
  THEN {CHOOSE x \in storage : x[1] = a /\ \A y \in storage : y[1] = a => x[2] <= y[2]}
  ELSE {}

(* UnprotectSnapshot and DeleteQCOWSnapshot on the error path: an error is *)
(* logged.                                                                 *)
Unsnap(s) ==
  /\ At(s, "Unsnap") /\ Advance(s)
  /\ \/ storage' = storage \ OneOf(op[s].att) /\ UNCHANGED faults
     \/ Fault /\ UNCHANGED storage
  /\ UNCHANGED <<vm, sched, issued, rows, rowLock, frozen, hist>>

(***************************************************************************)
(* The table.  backups.vm_id references vms: an insert waits for whoever   *)
(* holds the VM's row.                                                     *)
(***************************************************************************)
NewId == CHOOSE i \in Ids : i \notin Live \cup {op[s].row : s \in Slots}

Room == Cardinality(Live) + Cardinality(Slots) < MaxRows

InsertRow(status, src, snap) ==
  rows' = [rows EXCEPT ![NewId] = [status |-> status, src |-> src, month |-> Month, snap |-> snap]]

(* CreateBackup in the handler: the check constraint on method, and an     *)
(* answer that may be lost after the insert.                               *)
Record(s) ==
  LET ok == HandlerMethod \in {"full", "snapshot"} /\ Room IN
  /\ At(s, "Record") /\ rowLock = "free"
  /\ \/ ok /\ InsertRow("completed", op[s].src, op[s].att) /\ Advance(s) /\ UNCHANGED faults
     \/ ok /\ InsertRow("completed", op[s].src, op[s].att) /\ Fault /\ Goto(s, OnError("Record"))
     \/ ~ok /\ Goto(s, OnError("Record")) /\ UNCHANGED <<rows, faults>>
     \/ Fault /\ Goto(s, OnError("Record")) /\ UNCHANGED rows
  /\ UNCHANGED <<vm, sched, issued, rowLock, storage, frozen, hist>>

AlwaysAgain(s) ==
  /\ \/ At(s, "Done") /\ op' = [op EXCEPT ![s] = Idle]
     \/ At(s, "Error") /\ op' = [op EXCEPT ![s] = Again(s)]
  /\ UNCHANGED <<vm, sched, issued, rows, rowLock, storage, frozen, faults, hist>>

(* processMessage: acknowledged, or delivered again up to MaxDeliver times.*)
Finish(s) ==
  /\ \/ At(s, "Done") /\ op' = [op EXCEPT ![s] = Idle]
     \/ /\ At(s, "Error")
        /\ op' = [op EXCEPT ![s] = IF @.n < MaxDeliver THEN Again(s) ELSE Idle]
  /\ UNCHANGED <<vm, sched, issued, rows, rowLock, storage, frozen, faults, hist>>

(***************************************************************************)
(* Requests of the customer.                                               *)
(***************************************************************************)
Request(s, new) ==
  /\ Free(s) /\ requests > 0
  /\ requests' = requests - 1
  /\ op' = [op EXCEPT ![s] = new]
  /\ UNCHANGED <<backend, backupDay, sched, issued, rows, rowLock, storage, frozen>>

CreateCephBackup == <<"Snapshot", "Clone", "completed">>
CreateQCOWBackup == <<"Snapshot", "Copy", "completed">>

(* CreateBackupWithLimitCheck.                                             *)
CreateBackup(s) ==
  /\ Request(s, [Idle EXCEPT !.kind = "create", !.src = "manual",
                    !.todo = <<"Lock", "Count", "Insert">> \o
                             (IF backend = "qcow" THEN CreateQCOWBackup ELSE CreateCephBackup)])
  /\ UNCHANGED <<faults, hist>>

LockNothing(s) ==
  /\ At(s, "Lock") /\ Advance(s)
  /\ UNCHANGED <<vm, sched, issued, rows, rowLock, storage, frozen, faults, hist>>

LockRow(s) ==
  /\ At(s, "Lock") /\ rowLock = "free"
  /\ rowLock' = s /\ Advance(s)
  /\ UNCHANGED <<vm, sched, issued, rows, storage, frozen, faults, hist>>

KeepLock(s) == op' = [op EXCEPT ![s] = Idle] /\ UNCHANGED rowLock

(* Every error of the transaction, the limit included, rolls it back.      *)
GiveUp(s) == rowLock' = "free" /\ op' = [op EXCEPT ![s] = Idle]

CountBackups(s) ==
  /\ At(s, "Count")
  /\ \/ Cardinality(Live) < Limit /\ Advance(s) /\ UNCHANGED <<rowLock, faults>>
     \/ Cardinality(Live) >= Limit /\ GiveUp(s) /\ UNCHANGED faults
     \/ Fault /\ GiveUp(s)
  /\ UNCHANGED <<vm, sched, issued, rows, storage, frozen, hist>>

InsertBackup(s) ==
  /\ At(s, "Insert")
  /\ \/ /\ Room /\ InsertRow("creating", "manual", 0)
        /\ rowLock' = "free"
        /\ op' = [op EXCEPT ![s].todo = Tail(@), ![s].row = NewId]
        /\ UNCHANGED faults
     \/ Room /\ InsertRow("creating", "manual", 0) /\ Fault /\ GiveUp(s)
     \/ Fault /\ GiveUp(s) /\ UNCHANGED rows
  /\ UNCHANGED <<vm, sched, issued, storage, frozen, hist>>

(* UpdateBackupStatus: the names of the snapshot and the file stay in the  *)
(* Go value.  An error is logged.                                          *)
UpdateBackupStatus(s, status) ==
  LET i == op[s].row IN
  /\ At(s, status)
  /\ op' = [op EXCEPT ![s] = Idle]
  /\ \/ rows' = (IF i \in Live THEN [rows EXCEPT ![i].status = status] ELSE rows) /\ UNCHANGED faults
     \/ Fault /\ UNCHANGED rows
  /\ UNCHANGED <<vm, sched, issued, rowLock, storage, frozen, hist>>

(* DeleteBackup reads the row; hist.erased: the snapshots it sets out to   *)
(* remove.  A qcow backup has a file path, which the client asks DeleteVM  *)
(* to remove without naming a VM: always an error.  If the VM cannot be    *)
(* read the storage is left alone.                                         *)
DeleteBackup(s, i) ==
  LET start(todo) == Request(s, [Idle EXCEPT !.kind = "delete", !.row = i, !.att = rows[i].snap, !.todo = todo]) IN
  /\ i \in Live
  /\ \/ rows[i].snap # 0 /\ start(<<"Unstore", "Erase">>) /\ UNCHANGED faults
     \/ rows[i].snap = 0 /\ start(<<"Erase">>) /\ UNCHANGED faults
     \/ rows[i].snap # 0 /\ start(<<"Erase">>) /\ Fault
  /\ hist' = [hist EXCEPT !.erased = @ \cup {rows[i].snap}]

Unstore(s) ==
  LET found == backend = "ceph" /\ <<op[s].att, 1>> \in storage
      gone == storage' = storage \ {<<op[s].att, 1>>}
      stop == op' = [op EXCEPT ![s] = Idle] IN
  /\ At(s, "Unstore")
  /\ \/ found /\ gone /\ Advance(s) /\ UNCHANGED faults
     \/ found /\ gone /\ Fault /\ stop
     \/ ~found /\ stop /\ UNCHANGED <<storage, faults>>
     \/ Fault /\ stop /\ UNCHANGED storage
  /\ UNCHANGED <<vm, sched, issued, rows, rowLock, frozen, hist>>

Erase(s) ==
  /\ At(s, "Erase")
  /\ op' = [op EXCEPT ![s] = Idle]
  /\ \/ rows' = [rows EXCEPT ![op[s].row] = NoRow] /\ UNCHANGED faults
     \/ Fault /\ UNCHANGED rows
  /\ UNCHANGED <<vm, sched, issued, rowLock, storage, frozen, hist>>

(* The process of a slot dies: no defer runs, its transaction is rolled    *)
(* back, and a task is delivered again.                                    *)
Crash(s) ==
  LET again == op[s].kind = "backup.create" /\ op[s].n < MaxDeliver IN
  /\ op[s] # Idle /\ Fault
  /\ op' = [op EXCEPT ![s] = IF again THEN Again(s) ELSE Idle]
  /\ rowLock' = IF rowLock = s THEN "free" ELSE rowLock
  /\ hist' = [hist EXCEPT !.lost = @ \/ op[s].froze]
  /\ UNCHANGED <<vm, sched, issued, rows, storage, frozen>>

Step(s) ==
  \/ Load(s) \/ GuestFreezeFilesystems(s) \/ Record(s) \/ GuestThawFilesystems(s) \/ Finish(s)
  \/ \E p \in {"Snapshot", "Protect", "Copy", "Clone"} : Store(s, p)
  \/ Unsnap(s) \/ LockRow(s) \/ CountBackups(s) \/ InsertBackup(s)
  \/ \E st \in {"completed", "failed"} : UpdateBackupStatus(s, st)
  \/ Unstore(s) \/ Erase(s)

SchedulerTick(c) == MonthlyTick(c) \/ ScheduleBackupForVM(c)
AdminTick(c) == ListDueSchedules(c) \/ ExecuteSchedule(c) \/ UpdateNextRunAt(c)

Sources == {"customer_schedule", "admin_schedule"}
Delivery == \E s \in Slots, src \in Sources : Deliver(s, src)

Next ==
  \/ \E c \in Controllers : SchedulerTick(c) \/ AdminTick(c)
  \/ NewDay \/ Delivery
  \/ \E s \in Slots : Step(s) \/ CreateBackup(s) \/ Crash(s) \/ \E i \in Ids : DeleteBackup(s, i)

Init ==
  /\ \E p \in Plans : /\ backend = p.backend /\ requests = p.requests /\ issued = MaxTasks - p.tasks
                     /\ today = p.today /\ backupDay = p.day /\ nextRun = p.run
                     /\ tick = [c \in Controllers |-> IF c \in p.up THEN "idle" ELSE "down"]
 
  /\ adm = [c \in Controllers |-> [at |-> tick[c], now |-> 0]] /\ done = FALSE
  /\ queue = [src \in Sources |-> 0]
  /\ op = [s \in Slots |-> Idle]
  /\ rows = [i \in Ids |-> NoRow] /\ rowLock = "free" /\ storage = {} /\ frozen = FALSE
  /\ faults = 0 /\ hist = [lost |-> FALSE, capped |-> FALSE, erased |-> {}]

(* Some handler, some delivery and some controller's ticker goes on; a     *)
(* particular controller may stop for good.                                *)
Fairness ==
  /\ WF_vars(Delivery \/ \E s \in Slots : Step(s))
  /\ WF_vars(\E c \in Controllers : SchedulerTick(c))
  /\ WF_vars(\E c \in Controllers : AdminTick(c))

Spec == Init /\ [][Next]_vars /\ Fairness

TypeOK ==
  /\ backend \in {"ceph", "qcow", "lvm"} /\ today \in 0..MaxDay /\ nextRun \in 0..(MaxDay + 2)
  /\ tick \in [Controllers -> {"down", "idle", "monthly"}]
  /\ adm \in [Controllers -> [at : {"down", "idle", "due", "published"}, now : 0..MaxDay]]
  /\ done \in BOOLEAN /\ queue \in [Sources -> 0..MaxTasks] /\ issued \in 0..MaxTasks
  /\ \A s \in Slots : op[s].n \in 0..MaxDeliver /\ op[s].att \in {0} \cup Attempts /\ op[s].row \in {0} \cup Ids
  /\ \A i \in Ids : rows[i].status \in {"none", "creating", "completed", "failed"}
  /\ rowLock \in Slots \cup {"free"} /\ storage \subseteq Attempts \X (1..3)
  /\ frozen \in BOOLEAN /\ faults \in 0..MaxFaults

(* The guest is frozen only while a handler that is going to thaw it is    *)
(* under way (unless the answer to a freeze was lost, a thaw failed or the *)
(* process died), and it is frozen for all of that time: the deferred thaw *)
(* of a second handler, which found the guest frozen, leaves it so.        *)
FrozenHasOwner ==
  /\ frozen /\ ~hist.lost => \E s \in Slots : op[s].froze
  /\ \A s \in Slots : op[s].froze => frozen

(* A completed backup that names a snapshot has it in storage, unless its  *)
(* deletion has begun: no error path of a handler removes the snapshot of  *)
(* a row that was inserted, even when the answer to the insert is lost.    *)
CompletedHasSnapshot ==
  \A i \in Live : rows[i].status = "completed" /\ rows[i].snap \notin {0} \cup hist.erased
                => \E x \in storage : x[1] = rows[i].snap

(* A backup made by hand never takes the VM past the limit of its plan,    *)
(* whatever other requests and handlers insert between the count and the   *)
(* insert: CreateBackupWithLimitCheck holds the VM's row.                  *)
LimitKept ==
  [][\A i \in Ids : rows[i] = NoRow /\ rows'[i].src = "manual" => Cardinality(Live') <= Limit]_vars

(* A frozen guest is thawed, unless a fault intervened (as above): the     *)
(* insert of the handler's row waits for a request that counts backups,    *)
(* and every way out of that request ends its transaction.                 *)
GuestThaws == []<>(~frozen \/ hist.lost)

(* On the VM's day of the month a backup exists or gets made: later ticks  *)
(* and deliveries make up for a fault (fewer than MaxDeliver of them), and *)
(* neither schedule keeps the other from being served.  An LVM disk cannot *)
(* be backed up by a task.                                                 *)
DayServed ==
  \A d \in 0..MaxDay :
    (today = d /\ d % Days = backupDay /\ backend # "lvm") ~>
    (hist.capped \/ \E i \in Live : rows[i].status = "completed" /\ rows[i].month >= d \div Days)

(* A schedule of an administrator that is due gets its next run, also when *)
(* the write of it fails once and when controllers execute it twice.       *)
DueIsRun == []<>(nextRun > today)
=============================================================================
