---------------------------- MODULE HourlyBilling ---------------------------
(***************************************************************************)
(* The hourly billing scheduler, run by every controller instance of an HA *)
(* deployment against the credit ledger.  A cycle holds a session-level    *)
(* advisory lock, which PostgreSQL drops together with the connection that *)
(* took it, without the cycle noticing.  Between any two statements of a   *)
(* cycle the hour may pass and the instance may die and start again.  VMs  *)
(* change their status and administrators the prices at any time, so that  *)
(* each reading of vms.status and of the plans row finds any of the values.*)
(***************************************************************************)
EXTENDS AtomicLedger, FiniteSets

CONSTANTS Instances,   \* controller processes
          NoInstance,  \* the advisory lock is free
          VMs, NoVM,
          Owner,       \* the customer of a VM, one with native billing
          Plans,       \* prices the VMs' plan may take over time
          NoPrice,     \* a price column that is NULL
          MaxHour      \* bound: the clock stops at this hour

Hours == 0..MaxHour
Billable == {"running", "stopped"}
Statuses == Billable \cup {"other"}   \* "other": provisioning, deleted, ...

OwnerAssumption == Owner \in [VMs -> Customers]
KeysAssumption == VMs \X Hours \subseteq Keys /\ VMs \subseteq Refs
PlansAssumption ==
  /\ Plans # {}
  /\ LET Price == {a \in Amounts : a >= 0} \cup {NoPrice}
     IN  Plans \subseteq [hourly: Price, hourlyStopped: Price]

VARIABLES hour,        \* time.Now() truncated to the hour
          advisory,    \* whose connection holds billingSchedulerLockID
          checkpoints, \* billing_vm_checkpoints, by (vm, hour)
          cycle        \* the running RunBillingCycle of an instance

vars == <<balance, ledger, hour, advisory, checkpoints, cycle>>

(* EffectiveHourlyRate.                                                    *)
Rate(p, st) ==
  CASE p.hourly = NoPrice -> 0
    [] p.hourly # NoPrice /\ st = "stopped" /\ p.hourlyStopped # NoPrice -> p.hourlyStopped
    [] OTHER -> p.hourly

(* Mutant: the key alone decides.                                          *)
SameDebitAnyAmount(e, amount, v) == e.type = "debit" /\ e.ref = v

(* billingTxMatches, for a debit of the scheduler.                         *)
SameDebit(e, amount, v) == e.type = "debit" /\ e.amount = amount /\ e.ref = v

(* Mutant: the scheduler passes no idempotency key.                        *)
NoHourKey(v, h) == NoKey

(* The key "hourly:<vm>:<hour>".                                           *)
HourKey(v, h) == <<v, h>>

(* list[v] is the status v was listed with, "other" once v has been dealt  *)
(* with or if it was not listed; vm, amount and tx are chargeVM's locals.  *)
Idle == [pc |-> "idle", hour |-> 0, list |-> [v \in VMs |-> "other"],
         vm |-> NoVM, amount |-> 0, tx |-> 0]

(* chargeVM returns for v, with or without an error: on to the next VM.    *)
Leave(i, v) ==
  cycle' = [cycle EXCEPT ![i] = [Idle EXCEPT !.pc = "loop", !.hour = cycle[i].hour,
                                   !.list = [cycle[i].list EXCEPT ![v] = "other"]]]

HasCheckpoint(v, h) == \E k \in checkpoints : k.vm = v /\ k.hour = h

-----------------------------------------------------------------------------

Init ==
  /\ LedgerInit
  /\ hour = 0
  /\ advisory = NoInstance
  /\ checkpoints = {}
  /\ cycle = [i \in Instances |-> Idle]

(* The ticker fires and TryAdvisoryLock succeeds; if it does not, this tick*)
(* of the instance passes without effect.                                  *)
StartCycle(i) ==
  /\ cycle[i].pc = "idle"
  /\ advisory = NoInstance
  /\ advisory' = i
  /\ cycle' = [cycle EXCEPT ![i] = [Idle EXCEPT !.pc = "list", !.hour = hour]]
  /\ UNCHANGED <<ledgerVars, hour, checkpoints>>

(* Mutant: the lock is not released.                                       *)
EndCycleLocked(i) ==
  /\ cycle' = [cycle EXCEPT ![i] = Idle]
  /\ UNCHANGED <<ledgerVars, hour, advisory, checkpoints>>

(* The deferred ReleaseAdvisoryLock; a crash closes the connection instead.*)
EndCycle(i) ==
  /\ cycle' = [cycle EXCEPT ![i] = Idle]
  /\ advisory' = IF advisory = i THEN NoInstance ELSE advisory
  /\ UNCHANGED <<ledgerVars, hour, checkpoints>>

ListBillableVMs(i) ==
  /\ cycle[i].pc = "list"
  /\ \E status \in [VMs -> Statuses] :
       cycle' = [cycle EXCEPT ![i].pc = "loop", ![i].list = status]
  /\ UNCHANGED <<ledgerVars, hour, advisory, checkpoints>>

ListFails(i) == cycle[i].pc = "list" /\ EndCycle(i)

ListDone(i) ==
  /\ cycle[i].pc = "loop"
  /\ \A v \in VMs : cycle[i].list[v] \notin Billable
  /\ EndCycle(i)

(* Mutant: a free VM is charged like any other.                            *)
GetPlanFreeToo(i) ==
  /\ cycle[i].pc = "price"
  /\ \E plan \in Plans :
       cycle' = [cycle EXCEPT ![i].pc = "debit",
                              ![i].amount = Rate(plan, cycle[i].list[cycle[i].vm])]
  /\ UNCHANGED <<ledgerVars, hour, advisory, checkpoints>>

(* ExistsForHour, for any VM of the list: the list is in the order of the  *)
(* VMs' random ids.                                                        *)
CheckCheckpoint(i, v) ==
  /\ cycle[i].pc = "loop"
  /\ cycle[i].list[v] \in Billable
  /\ IF HasCheckpoint(v, cycle[i].hour)
       THEN Leave(i, v)
       ELSE cycle' = [cycle EXCEPT ![i].pc = "price", ![i].vm = v]
  /\ UNCHANGED <<ledgerVars, hour, advisory, checkpoints>>

GetPlan(i) ==
  LET v == cycle[i].vm
  IN  /\ cycle[i].pc = "price"
      /\ \E plan \in Plans :
           LET amount == Rate(plan, cycle[i].list[v])
           IN  IF amount = 0
                 THEN Leave(i, v)
                 ELSE cycle' = [cycle EXCEPT ![i].pc = "debit", ![i].amount = amount]
      /\ UNCHANGED <<ledgerVars, hour, advisory, checkpoints>>

(* DebitAccount of the ledger service: it posts and answers, or posts and  *)
(* the answer is lost, or finds the key spent by the same request or by    *)
(* another one.                                                            *)
Debit(i) ==
  LET v == cycle[i].vm
      c == Owner[v]
      key == HourKey(v, cycle[i].hour)
      Answer(tx) == cycle' = [cycle EXCEPT ![i].pc = "record", ![i].tx = tx]
  IN  /\ cycle[i].pc = "debit"
      /\ \/ /\ Post(c, "debit", cycle[i].amount, v, key)
            /\ Answer(Len(ledger[c]) + 1) \/ Leave(i, v)
         \/ \E n \in DOMAIN ledger[c] :
              /\ ledger[c][n].key = key
              /\ IF SameDebit(ledger[c][n], cycle[i].amount, v)
                   THEN Answer(n) ELSE Leave(i, v)
              /\ UNCHANGED ledgerVars
      /\ UNCHANGED <<hour, advisory, checkpoints>>

(* INSERT ... ON CONFLICT (vm_id, charge_hour) DO NOTHING.                 *)
RecordCheckpoint(i) ==
  LET v == cycle[i].vm
      h == cycle[i].hour
      row == [vm |-> v, hour |-> h, amount |-> cycle[i].amount, tx |-> cycle[i].tx]
  IN  /\ cycle[i].pc = "record"
      /\ checkpoints' = checkpoints \cup (IF HasCheckpoint(v, h) THEN {} ELSE {row})
      /\ Leave(i, v)
      /\ UNCHANGED <<ledgerVars, hour, advisory>>

(* A statement fails: chargeVM returns the error and the loop continues.   *)
ChargeFails(i, v) ==
  /\ \/ cycle[i].pc = "loop" /\ cycle[i].list[v] \in Billable
     \/ cycle[i].pc \in {"price", "debit", "record"} /\ cycle[i].vm = v
  /\ Leave(i, v)
  /\ UNCHANGED <<ledgerVars, hour, advisory, checkpoints>>

(* The process dies, losing its cycle, and is started again.               *)
Crash(i) == cycle[i].pc # "idle" /\ EndCycle(i)

(* PostgreSQL closes the connection that holds the lock; the cycle goes on.*)
LoseConnection(i) ==
  /\ advisory = i
  /\ advisory' = NoInstance
  /\ UNCHANGED <<ledgerVars, hour, checkpoints, cycle>>

HourPasses ==
  /\ hour < MaxHour
  /\ hour' = hour + 1
  /\ UNCHANGED <<ledgerVars, advisory, checkpoints, cycle>>

CycleStep(i) ==
  \/ ListBillableVMs(i) \/ ListFails(i) \/ ListDone(i)
  \/ \E v \in VMs : CheckCheckpoint(i, v) \/ ChargeFails(i, v)
  \/ GetPlan(i) \/ Debit(i) \/ RecordCheckpoint(i)

Next ==
  \/ \E i \in Instances : StartCycle(i) \/ CycleStep(i) \/ Crash(i) \/ LoseConnection(i)
  \/ HourPasses

Spec == Init /\ [][Next]_vars

(* A running cycle keeps executing statements: each has a deadline.        *)
Fairness == \A i \in Instances : WF_vars(CycleStep(i))
FairSpec == Spec /\ Fairness

-----------------------------------------------------------------------------

TypeOK ==
  /\ LedgerTypeOK
  /\ hour \in Hours
  /\ advisory \in Instances \cup {NoInstance}
  /\ checkpoints \subseteq [vm: VMs, hour: Hours, amount: PosAmounts, tx: Nat \ {0}]
  /\ cycle \in [Instances ->
                  [pc: {"idle", "list", "loop", "price", "debit", "record"},
                   hour: Hours, list: [VMs -> Statuses], vm: VMs \cup {NoVM},
                   amount: PosAmounts \cup {0}, tx: Nat]]

Charges(v) == {n \in DOMAIN ledger[Owner[v]] : ledger[Owner[v]][n].ref = v}

(* A VM is never charged for more hours than have begun, whichever         *)
(* instances run cycles at once, however often they fail between the debit *)
(* and the checkpoint and start over (chargeVM's check, the idempotency    *)
(* key and the checkpoint's primary key together).                         *)
OneChargePerHour == \A v \in VMs : Cardinality(Charges(v)) <= hour + 1

(* A checkpoint is the record of a charge that was made: its transaction   *)
(* is a debit of the VM's owner for this VM and this hour, of the same     *)
(* amount, even when the debit was made by an earlier, interrupted cycle   *)
(* at the prices of that time (RecordCheckpoint after DebitAccount).       *)
CheckpointsAreCharged ==
  \A k \in checkpoints :
    /\ k.tx \in Charges(k.vm)
    /\ LET e == ledger[Owner[k.vm]][k.tx]
       IN  e.type = "debit" /\ e.amount = k.amount /\ e.key = HourKey(k.vm, k.hour)

(* The scheduler bills correctly: the three together.                      *)
ChargedOncePerHour == TypeOK /\ OneChargePerHour /\ CheckpointsAreCharged

(* A cycle ends and gives the advisory lock back, whatever fails in it:    *)
(* a VM that cannot be charged does not hold up the next hour (the         *)
(* continue of RunBillingCycle's loop, and its deferred release).          *)
LockComesFree == \A i \in Instances : []<>(advisory # i)

=============================================================================
