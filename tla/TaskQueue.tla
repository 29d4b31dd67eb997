----------------------------- MODULE TaskQueue ------------------------------
(***************************************************************************)
(* The asynchronous task system: rows of the tasks table, their messages   *)
(* in the JetStream stream TASKS, the worker pools of the controller       *)
(* processes that execute them, and the scanner that recovers rows left    *)
(* running.                                                                *)
(*                                                                         *)
(* JetStream delivers a message again when AckWait passes without an       *)
(* acknowledgement, also while the first delivery is still being handled,  *)
(* and up to MaxDeliver times in all.  A pool is an errgroup: the first    *)
(* processMessage to return an error cancels the context of every handler  *)
(* of the process and unsubscribes the process from the stream.            *)
(***************************************************************************)
EXTENDS Naturals

CONSTANTS Tasks,
          Unhandled,      \* tasks of a type no handler is registered for
          Procs,          \* controller processes
          Slots,          \* goroutines of the pools, each running one message
          ProcOf,         \* the process a slot belongs to
          NoTask,
          MaxDeliver,     \* MaxDeliver of the consumer
          MaxTaskRetries, \* maxTaskRetries of the stuck-task scanner
          MaxCrashes      \* bound: crashes of processes in a behaviour

ASSUME TaskQueueAssumption ==
  /\ Unhandled \subseteq Tasks /\ NoTask \notin Tasks
  /\ ProcOf \in [Slots -> Procs]
  /\ MaxDeliver \in Nat \ {0} /\ MaxTaskRetries \in Nat /\ MaxCrashes \in Nat

VARIABLES row,       \* the tasks row: status, retry_count, and whether started_at
                     \* is older than the stuck threshold
          msg,       \* the message in the stream, with its number of deliveries
          slot,      \* the processMessage a slot is in
          alive,     \* egCtx of the process is not cancelled
          scan,      \* tasks FindStuckTasks returned to the scanner of a process
          crashes,   \* crashes so far
          succeeded  \* history: tasks whose handler has returned without an error

queueVars == <<row, msg, slot, alive>>
vars == <<row, msg, slot, alive, scan, crashes, succeeded>>

Statuses == {"none", "pending", "running", "completed", "failed"}
IdleSlot == [pc |-> "idle", task |-> NoTask]

-----------------------------------------------------------------------------

Init ==
  /\ row = [t \in Tasks |-> [status |-> "none", retries |-> 0, old |-> FALSE]]
  /\ msg = [t \in Tasks |-> [state |-> "none", n |-> 0]]
  /\ slot = [s \in Slots |-> IdleSlot]
  /\ alive = [p \in Procs |-> TRUE]
  /\ scan = [p \in Procs |-> {}]
  /\ crashes = 0
  /\ succeeded = {}

(* DefaultTaskPublisher.PublishTask, the publisher that is wired in.       *)
CreateTask(t) ==
  /\ row[t].status = "none"
  /\ row' = [row EXCEPT ![t].status = "pending"]
  /\ UNCHANGED <<msg, slot, alive, scan, crashes, succeeded>>

(* Worker.PublishTask, which nothing calls for a row created above.        *)
PublishTask(t) ==
  /\ row[t].status = "pending"
  /\ msg[t].state = "none"
  /\ msg' = [msg EXCEPT ![t].state = "ready"]
  /\ UNCHANGED <<row, slot, alive, scan, crashes, succeeded>>

(* Mutant: the consumer has no MaxDeliver.                                 *)
DeliverUnlimited(t, s) ==
  /\ msg[t].state = "ready"
  /\ slot[s].pc = "idle" /\ alive[ProcOf[s]]
  /\ msg' = [msg EXCEPT ![t] = [state |-> "outstanding", n |-> @.n + 1]]
  /\ slot' = [slot EXCEPT ![s] = [pc |-> "begin", task |-> t]]
  /\ UNCHANGED <<row, alive, scan, crashes, succeeded>>

(* JetStream hands the message to a process that is subscribed.            *)
Deliver(t, s) ==
  /\ msg[t].state = "ready" /\ msg[t].n < MaxDeliver
  /\ slot[s].pc = "idle" /\ alive[ProcOf[s]]
  /\ msg' = [msg EXCEPT ![t] = [state |-> "outstanding", n |-> @.n + 1]]
  /\ slot' = [slot EXCEPT ![s] = [pc |-> "begin", task |-> t]]
  /\ UNCHANGED <<row, alive, scan, crashes, succeeded>>

AckWaitExpires(t) ==
  /\ msg[t].state = "outstanding"
  /\ msg' = [msg EXCEPT ![t].state = "ready"]
  /\ UNCHANGED <<row, slot, alive, scan, crashes, succeeded>>

-----------------------------------------------------------------------------

(* updateTaskStatus: an UPDATE by id, whatever the row's status is now.    *)
SetStatus(t, st) ==
  row' = [row EXCEPT ![t].status = st, ![t].old = IF st = "running" THEN FALSE ELSE @]

(* The UPDATE runs under handlerCtx, so it fails once the group's context  *)
(* is cancelled; the database may make it fail at any time.                *)
TrySetStatus(s, st) ==
  \/ alive[ProcOf[s]] /\ SetStatus(slot[s].task, st)
  \/ UNCHANGED row

Goto(s, pc) == slot' = [slot EXCEPT ![s].pc = pc]

(* msg.NakWithDelay, then `return err' to the errgroup.                    *)
NakAndFail(s) ==
  /\ msg' = [msg EXCEPT ![slot[s].task].state = IF @ = "acked" THEN @ ELSE "ready"]
  /\ slot' = [slot EXCEPT ![s] = IdleSlot]
  /\ alive' = [alive EXCEPT ![ProcOf[s]] = FALSE]

(* updateTaskStatus(running) succeeds.                                     *)
Begin(s) ==
  /\ slot[s].pc = "begin"
  /\ alive[ProcOf[s]]
  /\ SetStatus(slot[s].task, "running")
  /\ Goto(s, IF slot[s].task \in Unhandled THEN "unhandled" ELSE "handle")
  /\ UNCHANGED <<msg, alive, scan, crashes, succeeded>>

(* It fails, or only its answer is lost.                                   *)
BeginFails(s) ==
  /\ slot[s].pc = "begin"
  /\ TrySetStatus(s, "running")
  /\ NakAndFail(s)
  /\ UNCHANGED <<scan, crashes, succeeded>>

NoHandler(s) ==
  /\ slot[s].pc = "unhandled"
  /\ TrySetStatus(s, "failed")
  /\ Goto(s, "ack")
  /\ UNCHANGED <<msg, alive, scan, crashes, succeeded>>

(* Mutant: a failed task is acknowledged like any other.                   *)
HandlerFailsThenAcks(s) ==
  /\ slot[s].pc = "handle"
  /\ TrySetStatus(s, "failed")
  /\ Goto(s, "ack")
  /\ UNCHANGED <<msg, alive, scan, crashes, succeeded>>

(* Mutant: the error of the handler is dropped.                            *)
HandlerErrorDropped(s) ==
  /\ slot[s].pc = "handle"
  /\ Goto(s, "complete")
  /\ UNCHANGED <<row, msg, alive, scan, crashes, succeeded>>

(* The handler returns nil; most of them have called SetCompleted by then. *)
HandlerSucceeds(s) ==
  /\ slot[s].pc = "handle"
  /\ TrySetStatus(s, "completed")
  /\ Goto(s, "complete")
  /\ succeeded' = succeeded \cup {slot[s].task}
  /\ UNCHANGED <<msg, alive, scan, crashes>>

HandlerFails(s) ==
  /\ slot[s].pc = "handle"
  /\ TrySetStatus(s, "failed")
  /\ Goto(s, "nak")
  /\ UNCHANGED <<msg, alive, scan, crashes, succeeded>>

Complete(s) ==
  /\ slot[s].pc = "complete"
  /\ TrySetStatus(s, "completed")
  /\ Goto(s, "ack")
  /\ UNCHANGED <<msg, alive, scan, crashes, succeeded>>

(* An acknowledgement of any delivery removes the message; it may be lost. *)
Ack(s) ==
  /\ slot[s].pc = "ack"
  /\ \/ msg' = [msg EXCEPT ![slot[s].task].state = "acked"]
     \/ UNCHANGED msg
  /\ slot' = [slot EXCEPT ![s] = IdleSlot]
  /\ UNCHANGED <<row, alive, scan, crashes, succeeded>>

Nak(s) ==
  /\ slot[s].pc = "nak"
  /\ NakAndFail(s)
  /\ UNCHANGED <<row, scan, crashes, succeeded>>

ProcessMessage(s) ==
  \/ Begin(s) \/ BeginFails(s) \/ NoHandler(s) \/ HandlerSucceeds(s)
  \/ HandlerFails(s) \/ Complete(s) \/ Ack(s) \/ Nak(s)

(* A process dies with everything in its memory and is started again.      *)
Crash(p) ==
  /\ crashes < MaxCrashes
  /\ crashes' = crashes + 1
  /\ slot' = [s \in Slots |-> IF ProcOf[s] = p THEN IdleSlot ELSE slot[s]]
  /\ alive' = [alive EXCEPT ![p] = TRUE]
  /\ scan' = [scan EXCEPT ![p] = {}]
  /\ UNCHANGED <<row, msg, succeeded>>

-----------------------------------------------------------------------------

(* started_at falls behind the 30 minutes of the scanner's threshold.      *)
GrowsOld(t) ==
  /\ row[t].status = "running" /\ ~row[t].old
  /\ row' = [row EXCEPT ![t].old = TRUE]
  /\ UNCHANGED <<msg, slot, alive, scan, crashes, succeeded>>

(* Mutant: the scanner forgets to ask for running tasks.                   *)
FindOldTasks(p) ==
  LET stuck == {t \in Tasks : row[t].status # "none" /\ row[t].old}
  IN  /\ scan[p] = {}
      /\ stuck # {}
      /\ scan' = [scan EXCEPT ![p] = stuck]
      /\ UNCHANGED <<row, msg, slot, alive, crashes, succeeded>>

(* The scanner's context is not the pool's: it runs on when that is gone.  *)
FindStuckTasks(p) ==
  LET stuck == {t \in Tasks : row[t].status = "running" /\ row[t].old}
  IN  /\ scan[p] = {}
      /\ stuck # {}
      /\ scan' = [scan EXCEPT ![p] = stuck]
      /\ UNCHANGED <<row, msg, slot, alive, crashes, succeeded>>


(* SetFailed or ResetTask, by id; an error only ends this task's turn.     *)
RecoverStuckTask(p, t) ==
  /\ t \in scan[p]
  /\ scan' = [scan EXCEPT ![p] = @ \ {t}]
  /\ row' = [row EXCEPT ![t] =
               IF @.retries >= MaxTaskRetries
                 THEN [@ EXCEPT !.status = "failed", !.retries = row[t].retries + 1]
                 ELSE [@ EXCEPT !.status = "pending", !.old = FALSE]]
  /\ UNCHANGED <<msg, slot, alive, crashes, succeeded>>

RecoverFails(p, t) ==
  /\ t \in scan[p]
  /\ scan' = [scan EXCEPT ![p] = @ \ {t}]
  /\ UNCHANGED <<row, msg, slot, alive, crashes, succeeded>>

-----------------------------------------------------------------------------

(* The system as wired: no step publishes to the stream.                   *)
NextAsWired ==
  \/ \E t \in Tasks : CreateTask(t) \/ AckWaitExpires(t) \/ GrowsOld(t)
  \/ \E t \in Tasks, s \in Slots : Deliver(t, s)
  \/ \E s \in Slots : ProcessMessage(s)
  \/ \E p \in Procs : Crash(p) \/ FindStuckTasks(p)
  \/ \E p \in Procs, t \in Tasks : RecoverStuckTask(p, t) \/ RecoverFails(p, t)

(* The system with its tasks published by Worker.PublishTask.              *)
Next == NextAsWired \/ \E t \in Tasks : PublishTask(t)

(* JetStream delivers what it can deliver, a pool runs the messages it was *)
(* given (handlers have a deadline), time passes, the scanner's ticker     *)
(* fires and the database does not refuse the same UPDATE for ever.        *)
Fairness ==
  /\ \A t \in Tasks : WF_vars(AckWaitExpires(t)) /\ WF_vars(GrowsOld(t))
                      /\ WF_vars(\E s \in Slots : Deliver(t, s))
  /\ \A s \in Slots : WF_vars(ProcessMessage(s))
  /\ \A p \in Procs : WF_vars(FindStuckTasks(p))
  /\ \A p \in Procs, t \in Tasks : SF_vars(RecoverStuckTask(p, t))

Spec == Init /\ [][Next]_vars
FairSpec == Spec /\ Fairness
WiredSpec == Init /\ [][NextAsWired]_vars /\ Fairness

-----------------------------------------------------------------------------

TypeOK ==
  /\ row \in [Tasks -> [status: Statuses, retries: Nat, old: BOOLEAN]]
  /\ msg \in [Tasks -> [state: {"none", "ready", "outstanding", "acked"},
                        n: 0..MaxDeliver]]
  /\ slot \in [Slots -> [pc: {"idle", "begin", "unhandled", "handle", "complete",
                              "ack", "nak"},
                         task: Tasks \cup {NoTask}]]
  /\ \A s \in Slots : slot[s].pc = "idle" <=> slot[s].task = NoTask
  /\ alive \in [Procs -> BOOLEAN]
  /\ scan \in [Procs -> SUBSET Tasks]
  /\ crashes \in 0..MaxCrashes
  /\ succeeded \subseteq Tasks

Executing(t) == \E s \in Slots : slot[s].task = t
Scanned(t) == \E p \in Procs : t \in scan[p]

(* A message is given up only when its work is done: an acknowledged task  *)
(* has been executed with success at least once, unless it has no handler, *)
(* whatever crashed, timed out or was delivered twice on the way.          *)
AckedIsDone == \A t \in Tasks \ Unhandled : msg[t].state = "acked" => t \in succeeded

(* The row agrees: "completed" is never written for a task whose handler   *)
(* has not succeeded, not even by a second delivery or by the scanner.     *)
CompletedIsDone == \A t \in Tasks : row[t].status = "completed" => t \in succeeded

(* Nothing is acknowledged and no row says completed before the handler    *)
(* has succeeded: the two together, and the types.                         *)
WorkIsDone == TypeOK /\ AckedIsDone /\ CompletedIsDone

Settled(t) ==
  /\ row[t].status \in {"completed", "failed"}
  /\ msg[t].state = "acked"
  /\ ~Executing(t) /\ ~Scanned(t)

(* Once a task has ended, its message is acknowledged, and no delivery and *)
(* no scanner is at work on it, its row is final and nothing takes it up   *)
(* again (ResetTask overwrites any status: only the status test of         *)
(* FindStuckTasks keeps the scanner away).                                 *)
FinalStaysFinal ==
  [][\A t \in Tasks : Settled(t) => Settled(t)' /\ row'[t] = row[t]]_vars


-----------------------------------------------------------------------------

(* "API Handler -> publish -> NATS JetStream -> subscribe -> Task Worker   *)
(* Pool -> execute" (architecture.md, 13): a task that an API handler      *)
(* published is eventually taken up.                                       *)
PublishedIsTakenUp ==
  \A t \in Tasks : []<>(row[t].status # "pending")

=============================================================================
