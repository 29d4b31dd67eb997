--------------------------- MODULE TaskQueueProofs --------------------------
(***************************************************************************)
(* What the task queue never does, for any number of tasks, processes and  *)
(* worker goroutines, deliveries, retries and crashes.                     *)
(***************************************************************************)
EXTENDS TaskQueue, TLAPS

(* What a goroutine has got to with its message.  It acknowledges only     *)
(* after the handler's success, which it remembers in nothing but the      *)
(* place where it is.                                                      *)
SlotIsSound(s) ==
  /\ slot[s].pc = "unhandled" => slot[s].task \in Unhandled
  /\ slot[s].pc = "complete" => slot[s].task \in succeeded
  /\ slot[s].pc = "ack" => slot[s].task \in succeeded \cup Unhandled

IndInv == WorkIsDone /\ \A s \in Slots : SlotIsSound(s)

-----------------------------------------------------------------------------
LEMMA InitInv == Init => IndInv
<1> SUFFICES ASSUME Init PROVE IndInv  BY Zenon
<1>1. TypeOK  BY TaskQueueAssumption DEF Init, TypeOK, Statuses, IdleSlot
<1> QED
  BY Zenon, <1>1 DEF Init, IndInv, WorkIsDone, AckedIsDone, CompletedIsDone, SlotIsSound, IdleSlot

(* What a status update does to the table, whether it gets there or not.   *)
Rows == [status: Statuses, retries: Nat, old: BOOLEAN]

LEMMA UpdateWrites ==
  ASSUME TypeOK, NEW s \in Slots, slot[s].task \in Tasks,
         NEW st \in Statuses, TrySetStatus(s, st)
  PROVE  /\ row' \in [Tasks -> Rows]
         /\ \A t \in Tasks \ {slot[s].task} : row'[t] = row[t]
         /\ row'[slot[s].task].status \in {st, row[slot[s].task].status}
<1>1. row \in [Tasks -> Rows]  BY Zenon DEF TypeOK, Rows
<1>2. CASE UNCHANGED row  BY Zenon, <1>1, <1>2
<1>3. CASE SetStatus(slot[s].task, st)
  <2>1. PICK t \in Tasks : t = slot[s].task  BY Zenon
  <2>2. PICK b \in BOOLEAN : b = (IF st = "running" THEN FALSE ELSE row[t].old)
    BY Zenon, <1>1, <2>1 DEF Rows
  <2>3. PICK r \in Rows : r = [row[t] EXCEPT !.status = st, !.old = b]
    BY Zenon, <1>1, <2>1 DEF Rows
  <2>4. r.status = st  BY Zenon, <1>1, <2>3 DEF Rows
  <2>5. row' = [row EXCEPT ![t] = r]
    BY Zenon, <1>1, <1>3, <2>1, <2>2, <2>3 DEF SetStatus
  <2> QED  BY Zenon, <1>1, <2>1, <2>4, <2>5
<1> QED  BY Zenon, <1>2, <1>3 DEF TrySetStatus

(* The steps of a goroutine that leave the stream alone.                   *)
LEMMA SlotMoves ==
  ASSUME IndInv, NEW s \in Slots, slot[s].pc # "idle",
         NEW pc \in {"unhandled", "handle", "complete", "ack", "nak"},
         Goto(s, pc), UNCHANGED <<msg, alive, scan, crashes>>,
         succeeded \subseteq succeeded', succeeded' \subseteq Tasks,
         pc = "unhandled" => slot[s].task \in Unhandled,
         pc = "complete" => slot[s].task \in succeeded',
         pc = "ack" => slot[s].task \in succeeded' \cup Unhandled,
         NEW st \in Statuses, TrySetStatus(s, st),
         st = "completed" => slot[s].task \in succeeded'
  PROVE  IndInv'
<1> USE DEF IndInv, WorkIsDone
<1>1. slot[s].task \in Tasks  BY Zenon DEF TypeOK
<1>2. slot'[s] = [slot[s] EXCEPT !.pc = pc] /\ \A r \in Slots \ {s} : slot'[r] = slot[r]
  BY Zenon DEF Goto, TypeOK
<1>3. row' \in [Tasks -> Rows]  BY Zenon, <1>1, UpdateWrites
<1>4. TypeOK'  BY <1>1, <1>3 DEF TypeOK, Goto, Rows
<1>5. AckedIsDone'  BY Zenon DEF AckedIsDone
<1>6. CompletedIsDone'  BY Zenon, <1>1, UpdateWrites DEF CompletedIsDone
<1>7. ASSUME NEW r \in Slots PROVE SlotIsSound(r)'
  BY SMTT(30), <1>2 DEF SlotIsSound, TypeOK
<1> QED  BY Zenon, <1>4, <1>5, <1>6, <1>7

(* A message is given back, and the pool of the process with it.           *)
LEMMA NakInv ==
  ASSUME IndInv, NEW s \in Slots, slot[s].pc # "idle", NakAndFail(s),
         UNCHANGED <<scan, crashes, succeeded>>,
         NEW st \in Statuses \ {"completed"}, TrySetStatus(s, st)
  PROVE  IndInv'
<1> USE DEF IndInv, WorkIsDone
<1>1. slot[s].task \in Tasks /\ ProcOf[s] \in Procs  BY Zenon, TaskQueueAssumption DEF TypeOK
<1>2. row' \in [Tasks -> Rows]  BY Zenon, <1>1, UpdateWrites
<1>3. msg' \in [Tasks -> [state: {"none", "ready", "outstanding", "acked"}, n: 0..MaxDeliver]]
  BY SMTT(30), <1>1 DEF NakAndFail, TypeOK
<1>4. slot'[s] = IdleSlot /\ \A r \in Slots \ {s} : slot'[r] = slot[r]
  BY Zenon DEF NakAndFail, TypeOK
<1>5. TypeOK'  BY Zenon, <1>1, <1>2, <1>3, <1>4 DEF TypeOK, NakAndFail, IdleSlot, Rows
<1>6. AckedIsDone'  BY <1>1 DEF AckedIsDone, NakAndFail, TypeOK
<1>7. CompletedIsDone'  BY Zenon, <1>1, UpdateWrites DEF CompletedIsDone
<1>8. ASSUME NEW r \in Slots PROVE SlotIsSound(r)'
  BY <1>4 DEF SlotIsSound, IdleSlot
<1> QED  BY Zenon, <1>5, <1>6, <1>7, <1>8

(* A step that touches neither the stream nor the goroutines, and writes   *)
(* no row as completed.                                                    *)
LEMMA RowMoves ==
  ASSUME IndInv, UNCHANGED <<msg, slot, alive, crashes, succeeded>>,
         row' \in [Tasks -> Rows],
         scan' \in [Procs -> SUBSET Tasks],
         \A t \in Tasks : row'[t].status = "completed" => row[t].status = "completed"
  PROVE  IndInv'
BY Zenon DEF IndInv, WorkIsDone, TypeOK, AckedIsDone, CompletedIsDone, SlotIsSound, Rows

(* The next-state relation preserves the inductive invariant.              *)
LEMMA NextInv == IndInv /\ [Next]_vars => IndInv'
<1> SUFFICES ASSUME IndInv, [Next]_vars PROVE IndInv'  BY Zenon
<1> USE DEF IndInv, WorkIsDone
<1>1. ASSUME NEW t \in Tasks, CreateTask(t) PROVE IndInv'
  BY <1>1, RowMoves DEF CreateTask, TypeOK, Statuses, Rows
<1>2. ASSUME NEW t \in Tasks, GrowsOld(t) PROVE IndInv'
  <2>1. row \in [Tasks -> Rows]  BY Zenon DEF TypeOK, Rows
  <2>2. PICK r \in Rows : r = [row[t] EXCEPT !.old = TRUE]  BY Zenon, <2>1 DEF Rows
  <2>3. r.status = row[t].status  BY Zenon, <2>1, <2>2 DEF Rows
  <2>4. row' = [row EXCEPT ![t] = r]  BY Zenon, <1>2, <2>1, <2>2 DEF GrowsOld
  <2> QED  BY ZenonT(60), <1>2, <2>1, <2>3, <2>4, RowMoves DEF GrowsOld, TypeOK
<1>3. ASSUME NEW t \in Tasks, PublishTask(t) \/ AckWaitExpires(t) PROVE IndInv'
  <2>1. /\ msg' = [msg EXCEPT ![t].state = "ready"] /\ msg[t].state # "acked"
        /\ UNCHANGED <<row, slot, alive, scan, crashes, succeeded>>
    BY Zenon, <1>3 DEF PublishTask, AckWaitExpires
  <2>2. TypeOK'  BY Zenon, <2>1 DEF TypeOK
  <2> QED  BY Zenon, <2>1, <2>2 DEF TypeOK, AckedIsDone, CompletedIsDone, SlotIsSound
<1>4. ASSUME NEW t \in Tasks, NEW s \in Slots, Deliver(t, s) PROVE IndInv'
  <2> USE <1>4 DEF Deliver
  <2>1. slot'[s] = [pc |-> "begin", task |-> t] /\ \A r \in Slots \ {s} : slot'[r] = slot[r]
    BY Zenon DEF TypeOK
  <2>2. msg' \in [Tasks -> [state: {"none", "ready", "outstanding", "acked"}, n: 0..MaxDeliver]]
    <3>1. msg[t].n + 1 \in 0..MaxDeliver  BY TaskQueueAssumption DEF TypeOK
    <3> QED  BY Zenon, <3>1 DEF TypeOK
  <2>3. TypeOK'  BY <2>1, <2>2, TaskQueueAssumption DEF TypeOK
  <2>4. AckedIsDone'  BY Zenon DEF AckedIsDone, TypeOK
  <2> QED  BY <2>1, <2>3, <2>4 DEF CompletedIsDone, SlotIsSound
<1>5. ASSUME NEW s \in Slots, Begin(s) PROVE IndInv'
  <2>1. PICK pc \in {"unhandled", "handle"} :
          Goto(s, pc) /\ (pc = "unhandled" => slot[s].task \in Unhandled)
    BY Zenon, <1>5 DEF Begin
  <2>2. "running" \in Statuses /\ TrySetStatus(s, "running")
    BY Zenon, <1>5 DEF Begin, TrySetStatus, Statuses
  <2> QED  BY Zenon, <1>5, <2>1, <2>2, SlotMoves DEF Begin, TypeOK
<1>6. ASSUME NEW s \in Slots, BeginFails(s) PROVE IndInv'
  BY Zenon, <1>6, NakInv DEF BeginFails, Statuses
<1>7. ASSUME NEW s \in Slots, NoHandler(s) PROVE IndInv'
  BY Zenon, <1>7, SlotMoves DEF NoHandler, Statuses, SlotIsSound, TypeOK
<1>8. ASSUME NEW s \in Slots, HandlerSucceeds(s) PROVE IndInv'
  <2>1. slot[s].task \in Tasks  BY Zenon, <1>8 DEF HandlerSucceeds, TypeOK
  <2>2. succeeded \subseteq succeeded' /\ succeeded' \subseteq Tasks /\ slot[s].task \in succeeded'
    BY Zenon, <1>8, <2>1 DEF HandlerSucceeds, TypeOK
  <2> QED  BY Zenon, <1>8, <2>2, SlotMoves DEF HandlerSucceeds, Statuses
<1>9. ASSUME NEW s \in Slots, HandlerFails(s) PROVE IndInv'
  BY Zenon, <1>9, SlotMoves DEF HandlerFails, Statuses, TypeOK
<1>10. ASSUME NEW s \in Slots, Complete(s) PROVE IndInv'
  BY Zenon, <1>10, SlotMoves DEF Complete, Statuses, SlotIsSound, TypeOK
<1>11. ASSUME NEW s \in Slots, Ack(s) PROVE IndInv'
  <2>1. slot[s].task \in Tasks /\ slot[s].task \in succeeded \cup Unhandled
    BY Zenon, <1>11 DEF Ack, TypeOK, SlotIsSound
  <2>2. slot'[s] = IdleSlot /\ \A r \in Slots \ {s} : slot'[r] = slot[r]
    BY Zenon, <1>11 DEF Ack, TypeOK
  <2>3. TypeOK'  BY SMTT(30), <1>11, <2>1, <2>2 DEF Ack, TypeOK, IdleSlot
  <2>4. AckedIsDone'  BY Zenon, <1>11, <2>1 DEF Ack, AckedIsDone, TypeOK
  <2>5. CompletedIsDone'  BY Zenon, <1>11 DEF Ack, CompletedIsDone
  <2>6. ASSUME NEW r \in Slots PROVE SlotIsSound(r)'
    BY <1>11, <2>2 DEF Ack, SlotIsSound, IdleSlot
  <2> QED  BY Zenon, <2>3, <2>4, <2>5, <2>6
<1>12. ASSUME NEW s \in Slots, Nak(s) PROVE IndInv'
  BY <1>12, NakInv DEF Nak, TrySetStatus, Statuses
<1>13. ASSUME NEW p \in Procs, Crash(p) PROVE IndInv'
  <2> USE <1>13 DEF Crash
  <2>1. \A s \in Slots : slot'[s] = IdleSlot \/ slot'[s] = slot[s]  BY Zenon
  <2>2. TypeOK'  BY <2>1, TaskQueueAssumption DEF TypeOK, IdleSlot
  <2> QED  BY Zenon, <2>1, <2>2 DEF AckedIsDone, CompletedIsDone, SlotIsSound, IdleSlot
<1>14. ASSUME NEW p \in Procs, FindStuckTasks(p) PROVE IndInv'
  BY Zenon, <1>14, RowMoves DEF FindStuckTasks, TypeOK, Rows
<1>15. ASSUME NEW p \in Procs, NEW t \in Tasks, RecoverStuckTask(p, t) PROVE IndInv'
  <2>1. row \in [Tasks -> Rows]  BY Zenon DEF TypeOK, Rows
  <2>2. PICK r \in Rows : r.status # "completed" /\ row' = [row EXCEPT ![t] = r]
    <3>1. PICK n \in Nat : n = row[t].retries + 1  BY <2>1 DEF Rows
    <3>2. PICK f : f = [row[t] EXCEPT !.status = "failed", !.retries = n]  BY Zenon
    <3>3. f \in Rows /\ f.status = "failed"  BY Zenon, <2>1, <3>2 DEF Rows, Statuses
    <3>4. PICK q : q = [row[t] EXCEPT !.status = "pending", !.old = FALSE]  BY Zenon
    <3>5. q \in Rows /\ q.status = "pending"  BY Zenon, <2>1, <3>4 DEF Rows, Statuses
    <3>6. CASE row[t].retries >= MaxTaskRetries
      <4>1. row' = [row EXCEPT ![t] = f]  BY Zenon, <1>15, <2>1, <3>1, <3>2, <3>6 DEF RecoverStuckTask, Rows
      <4> QED  BY Zenon, <3>3, <4>1
    <3>7. CASE ~(row[t].retries >= MaxTaskRetries)
      <4>1. row' = [row EXCEPT ![t] = q]  BY Zenon, <1>15, <3>4, <3>7 DEF RecoverStuckTask
      <4> QED  BY Zenon, <3>5, <4>1
    <3> QED  BY Zenon, <3>6, <3>7
  <2> QED  BY <1>15, <2>1, <2>2, RowMoves DEF RecoverStuckTask, TypeOK
<1>16. ASSUME NEW p \in Procs, NEW t \in Tasks, RecoverFails(p, t) PROVE IndInv'
  BY Zenon, <1>16, RowMoves DEF RecoverFails, TypeOK, Rows
<1>17. CASE UNCHANGED vars
  BY Zenon, <1>17 DEF vars, TypeOK, AckedIsDone, CompletedIsDone, SlotIsSound
<1> QED
  BY Zenon, <1>1, <1>2, <1>3, <1>4, <1>5, <1>6, <1>7, <1>8, <1>9, <1>10, <1>11, <1>12, <1>13,
     <1>14, <1>15, <1>16, <1>17 DEF Next, NextAsWired, ProcessMessage

-----------------------------------------------------------------------------

LEMMA Invariance == Spec => []IndInv
BY InitInv, NextInv, PTL DEF Spec

(* No message is acknowledged and no row says completed before the task's  *)
(* handler has succeeded, whatever crashes, is cancelled, times out or is  *)
(* delivered twice (processMessage).                                       *)
THEOREM NothingIsGivenUp == Spec => []WorkIsDone
BY Invariance, PTL DEF IndInv

(* A task that has ended, with its message acknowledged and nobody at work *)
(* on it, is never taken up again and its row is never written again.      *)
THEOREM EndedForGood == Spec => FinalStaysFinal
<1>1. TypeOK /\ [Next]_vars
        => [\A t \in Tasks : Settled(t) => Settled(t)' /\ row'[t] = row[t]]_vars
  <2> SUFFICES ASSUME TypeOK, Next, NEW t \in Tasks, Settled(t)
               PROVE  Settled(t)' /\ row'[t] = row[t]
    BY Zenon
  <2> USE DEF Settled, Executing, Scanned
  <2>1. ASSUME NEW u \in Tasks,
               CreateTask(u) \/ GrowsOld(u) \/ PublishTask(u) \/ AckWaitExpires(u)
        PROVE  Settled(t)' /\ row'[t] = row[t]
    BY Zenon, <2>1 DEF CreateTask, GrowsOld, PublishTask, AckWaitExpires, TypeOK
  <2>2. ASSUME NEW u \in Tasks, NEW s \in Slots, Deliver(u, s)
        PROVE  Settled(t)' /\ row'[t] = row[t]
    BY Zenon, <2>2 DEF Deliver, TypeOK
  <2>3. ASSUME NEW s \in Slots, ProcessMessage(s)
        PROVE  Settled(t)' /\ row'[t] = row[t]
    <3>1. slot[s].task # t /\ (slot[s].pc # "idle" => slot[s].task \in Tasks)  BY Zenon DEF TypeOK
    <3>2. slot[s].task \in Tasks /\ (UNCHANGED row \/ \E st \in Statuses : TrySetStatus(s, st))
      BY Zenon, <2>3, <3>1 DEF ProcessMessage, Begin, BeginFails, NoHandler, HandlerSucceeds,
           HandlerFails, Complete, Ack, Nak, TrySetStatus, Statuses
    <3>3. row'[t] = row[t]  BY Zenon, <3>1, <3>2, UpdateWrites
    <3>4. msg'[t] = msg[t] /\ scan' = scan
      BY Zenon, <2>3, <3>1, <3>2 DEF ProcessMessage, Begin, BeginFails, NoHandler, HandlerSucceeds,
           HandlerFails, Complete, Ack, Nak, NakAndFail, TypeOK
    <3>5. \/ slot' = [slot EXCEPT ![s] = IdleSlot]
          \/ \E pc : slot' = [slot EXCEPT ![s].pc = pc]
      BY Zenon, <2>3 DEF ProcessMessage, Begin, BeginFails, NoHandler, HandlerSucceeds,
           HandlerFails, Complete, Ack, Nak, NakAndFail, Goto
    <3>6. \A r \in Slots : slot'[r].task # t
      <4>1. CASE slot' = [slot EXCEPT ![s] = IdleSlot]
        BY Zenon, <4>1, TaskQueueAssumption DEF IdleSlot, TypeOK
      <4>2. ASSUME NEW pc, slot' = [slot EXCEPT ![s].pc = pc] PROVE \A r \in Slots : slot'[r].task # t
        BY Zenon, <4>2 DEF TypeOK
      <4> QED  BY Zenon, <3>5, <4>1, <4>2
    <3> QED  BY Zenon, <3>3, <3>4, <3>6
  <2>4. ASSUME NEW p \in Procs, Crash(p) \/ FindStuckTasks(p)
        PROVE  Settled(t)' /\ row'[t] = row[t]
    <3>1. row' = row /\ msg' = msg  BY Zenon, <2>4 DEF Crash, FindStuckTasks
    <3>2. \A r \in Slots : slot'[r].task # t
      BY <2>4, TaskQueueAssumption DEF Crash, FindStuckTasks, IdleSlot
    <3>3. \A q \in Procs : t \notin scan'[q]
      BY <2>4 DEF Crash, FindStuckTasks, TypeOK
    <3> QED  BY Zenon, <3>1, <3>2, <3>3
  <2>5. ASSUME NEW p \in Procs, NEW u \in Tasks, RecoverStuckTask(p, u) \/ RecoverFails(p, u)
        PROVE  Settled(t)' /\ row'[t] = row[t]
    BY ZenonT(60), <2>5 DEF RecoverStuckTask, RecoverFails, TypeOK
  <2> QED  BY Zenon, <2>1, <2>2, <2>3, <2>4, <2>5 DEF Next, NextAsWired
<1> QED  BY <1>1, Invariance, PTL DEF IndInv, WorkIsDone, Spec, FinalStaysFinal

=============================================================================
