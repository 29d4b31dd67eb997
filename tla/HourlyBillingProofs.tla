------------------------- MODULE HourlyBillingProofs ------------------------
(***************************************************************************)
(* The hourly scheduler charges a VM at most once for an hour and records  *)
(* only charges that were made, for any number of controller instances,    *)
(* VMs, customers, price lists and hours.                                  *)
(***************************************************************************)
EXTENDS HourlyBilling, AtomicLedgerProofs, FiniteSetTheorems

(* Row n of the ledger of v's owner is the charge of v for hour h.         *)
IsCharge(n, v, h, amount) ==
  /\ n \in DOMAIN ledger[Owner[v]]
  /\ SameDebit(ledger[Owner[v]][n], amount, v)
  /\ ledger[Owner[v]][n].key = HourKey(v, h)

(* What a cycle carries from one statement to the next stays true: its     *)
(* hour has begun, and the transaction it is about to record is the charge.*)
CycleIsSound(i) ==
  LET k == cycle[i]
  IN  /\ k.hour <= hour
      /\ k.pc \in {"price", "debit", "record"} => k.vm \in VMs
      /\ k.pc \in {"debit", "record"} => k.amount \in PosAmounts
      /\ k.pc = "record" => IsCharge(k.tx, k.vm, k.hour, k.amount)

(* Every row of the ledger is a charge for an hour that has begun; the     *)
(* key, which says for which, is unique: hence one charge per hour.        *)
RowsAreCharges ==
  \A c \in Customers : \A n \in DOMAIN ledger[c] :
    \E v \in VMs, h \in 0..hour : /\ ledger[c][n].ref = v
                                  /\ ledger[c][n].key = HourKey(v, h)

CheckpointsAreCharges ==
  \A k \in checkpoints : IsCharge(k.tx, k.vm, k.hour, k.amount)

IndInv ==
  /\ TypeOK
  /\ BalanceMatchesLedger /\ IdempotencyKeyUnique
  /\ \A i \in Instances : CycleIsSound(i)
  /\ RowsAreCharges
  /\ CheckpointsAreCharges

Cycles == [pc: {"idle", "list", "loop", "price", "debit", "record"},
           hour: Hours, list: [VMs -> Statuses], vm: VMs \cup {NoVM},
           amount: PosAmounts \cup {0}, tx: Nat]

HourlyAssumptions ==
  OwnerAssumption /\ KeysAssumption /\ PlansAssumption /\ MaxHour \in Nat

-----------------------------------------------------------------------------
(* The rate of a plan is a positive amount unless it is zero.              *)
LEMMA RateIsAmount ==
  ASSUME PlansAssumption, NEW plan \in Plans, NEW st, Rate(plan, st) # 0
  PROVE  Rate(plan, st) \in PosAmounts
<1> DEFINE Price == {a \in Amounts : a >= 0} \cup {NoPrice}
<1>1. plan \in [hourly: Price, hourlyStopped: Price]  BY Zenon DEF PlansAssumption
<1>2. plan.hourly \in Price /\ plan.hourlyStopped \in Price  BY Zenon, <1>1
<1>3. plan.hourly # NoPrice  BY Zenon DEF Rate
<1> QED  BY SMTT(30), <1>2, <1>3, AmountsAssumption DEF Rate, PosAmounts

(* Charges stay charges while the ledger is left alone or appended to, and *)
(* the hours that have begun have begun.                                   *)
LEMMA ChargesStay ==
  ASSUME OwnerAssumption, NEW v \in VMs, NEW n, NEW h, NEW amount,
         IsCharge(n, v, h, amount),
         \A c \in Customers : \A m \in DOMAIN ledger[c] :
           m \in DOMAIN ledger'[c] /\ ledger'[c][m] = ledger[c][m]
  PROVE  IsCharge(n, v, h, amount)'
BY Zenon DEF IsCharge, OwnerAssumption, HourKey, SameDebit

LEMMA IdleIsCycle == HourlyAssumptions => Idle \in Cycles
BY DEF Idle, Cycles, Hours, Statuses, HourlyAssumptions

LEMMA InitInv == HourlyAssumptions /\ Init => IndInv
<1> SUFFICES ASSUME HourlyAssumptions, Init PROVE IndInv  BY Zenon
<1> USE DEF Init
<1>1. \A i \in Instances : cycle[i] = Idle  BY Zenon
<1>2. Idle \in Cycles  BY Zenon, IdleIsCycle
<1>3. LedgerTypeOK /\ BalanceMatchesLedger /\ IdempotencyKeyUnique
  <2> USE DEF LedgerInit
  <2>1. ASSUME NEW c \in Customers
        PROVE  DOMAIN ledger[c] = {} /\ balance[c] = After(c, Len(ledger[c]))
    BY DEF After
  <2> QED  BY <2>1 DEF LedgerTypeOK, BalanceMatchesLedger, IdempotencyKeyUnique
<1>4. TypeOK  BY <1>2, <1>3 DEF TypeOK, Cycles, HourlyAssumptions, Hours
<1>5. \A i \in Instances : CycleIsSound(i)  BY <1>1 DEF CycleIsSound, Idle
<1>6. RowsAreCharges
  <2>1. ASSUME NEW c \in Customers PROVE DOMAIN ledger[c] = {}  BY DEF LedgerInit
  <2> QED  BY Zenon, <2>1 DEF RowsAreCharges
<1>7. CheckpointsAreCharges  BY Zenon DEF CheckpointsAreCharges
<1> QED  BY Zenon, <1>3, <1>4, <1>5, <1>6, <1>7 DEF IndInv

(* A step that only moves one cycle on, to locals k that are sound.        *)
LEMMA OnlyCycleMoves ==
  ASSUME HourlyAssumptions, IndInv, NEW i \in Instances, NEW k \in Cycles,
         cycle' = [cycle EXCEPT ![i] = k], advisory' \in Instances \cup {NoInstance},
         UNCHANGED <<ledgerVars, hour, checkpoints>>,
         k.hour <= hour,
         k.pc \in {"price", "debit", "record"} => k.vm \in VMs,
         k.pc \in {"debit", "record"} => k.amount \in PosAmounts,
         k.pc = "record" => IsCharge(k.tx, k.vm, k.hour, k.amount)
  PROVE  IndInv'
<1> USE DEF IndInv
<1>1. BalanceMatchesLedger' /\ IdempotencyKeyUnique'  BY Zenon, LedgerUnchanged
<1>2. TypeOK'  BY Zenon DEF TypeOK, LedgerTypeOK, ledgerVars, Cycles
<1>3. ASSUME NEW j \in Instances PROVE CycleIsSound(j)'
  <2>1. cycle'[j] = IF j = i THEN k ELSE cycle[j]  BY Zenon DEF TypeOK
  <2> QED  BY Zenon, <2>1 DEF CycleIsSound, IsCharge, ledgerVars
<1>4. RowsAreCharges'  BY Zenon DEF RowsAreCharges, ledgerVars
<1>5. CheckpointsAreCharges'  BY Zenon DEF CheckpointsAreCharges, IsCharge, ledgerVars
<1> QED  BY Zenon, <1>1, <1>2, <1>3, <1>4, <1>5

(* The locals after chargeVM has returned.                                 *)
LEMMA LeaveMoves ==
  ASSUME HourlyAssumptions, IndInv, NEW i \in Instances, NEW v \in VMs, Leave(i, v)
  PROVE  \E k \in Cycles : /\ cycle' = [cycle EXCEPT ![i] = k]
                           /\ k.pc = "loop" /\ k.hour = cycle[i].hour
<1> DEFINE k == [Idle EXCEPT !.pc = "loop", !.hour = cycle[i].hour,
                             !.list = [cycle[i].list EXCEPT ![v] = "other"]]
<1>1. cycle[i] \in Cycles  BY Zenon DEF IndInv, TypeOK, Cycles
<1>2. cycle[i].list \in [VMs -> Statuses] /\ cycle[i].hour \in Hours  BY Zenon, <1>1 DEF Cycles
<1>3. [cycle[i].list EXCEPT ![v] = "other"] \in [VMs -> Statuses]  BY Zenon, <1>2 DEF Statuses
<1>4. k \in Cycles  BY Zenon, <1>2, <1>3, IdleIsCycle DEF Cycles
<1>5. k.pc = "loop" /\ k.hour = cycle[i].hour  BY Zenon DEF Idle
<1> QED  BY Zenon, <1>4, <1>5 DEF Leave

LEMMA LeaveInv ==
  ASSUME HourlyAssumptions, IndInv, NEW i \in Instances, NEW v \in VMs, Leave(i, v),
         UNCHANGED <<ledgerVars, hour, advisory, checkpoints>>
  PROVE  IndInv'
<1>1. cycle[i].hour <= hour  BY Zenon DEF IndInv, CycleIsSound
<1>2. advisory' \in Instances \cup {NoInstance}  BY Zenon DEF IndInv, TypeOK
<1> QED  BY Zenon, <1>1, <1>2, LeaveMoves, OnlyCycleMoves

LEMMA EndCycleInv ==
  ASSUME HourlyAssumptions, IndInv, NEW i \in Instances, EndCycle(i)
  PROVE  IndInv'
<1>1. Idle \in Cycles /\ Idle.hour = 0 /\ Idle.pc = "idle"
  BY Zenon, IdleIsCycle DEF Idle
<1>2. advisory' \in Instances \cup {NoInstance} /\ 0 <= hour
  BY DEF IndInv, TypeOK, EndCycle, Hours
<1> QED  BY Zenon, <1>1, <1>2, OnlyCycleMoves DEF EndCycle

(* A step of the clock or of the advisory lock.                            *)
LEMMA OnlyTimePasses ==
  ASSUME HourlyAssumptions, IndInv, UNCHANGED <<ledgerVars, checkpoints, cycle>>,
         advisory' \in Instances \cup {NoInstance}, hour' \in Hours, hour' >= hour
  PROVE  IndInv'
<1> USE DEF IndInv
<1>1. BalanceMatchesLedger' /\ IdempotencyKeyUnique'  BY Zenon, LedgerUnchanged
<1>2. TypeOK'  BY Zenon DEF TypeOK, LedgerTypeOK, ledgerVars
<1>3. hour \in Int /\ hour' \in Int  BY DEF TypeOK, Hours
<1>4. ASSUME NEW j \in Instances PROVE CycleIsSound(j)'
  <2>1. cycle[j].hour \in Int  BY SMTT(30) DEF TypeOK, Hours
  <2>2. cycle'[j].hour <= hour'  BY SMTT(30), <1>3, <2>1 DEF CycleIsSound
  <2> QED  BY Zenon, <2>2 DEF CycleIsSound, IsCharge, ledgerVars
<1>5. 0..hour \subseteq 0..hour'  BY <1>3
<1>6. RowsAreCharges'  BY Zenon, <1>5 DEF RowsAreCharges, ledgerVars
<1>7. CheckpointsAreCharges'  BY Zenon DEF CheckpointsAreCharges, IsCharge, ledgerVars
<1> QED  BY Zenon, <1>1, <1>2, <1>4, <1>6, <1>7

(* A charge is posted: the ledger has one row more, of a key that was free.*)
LEMMA PostCharges ==
  ASSUME HourlyAssumptions, IndInv, NEW i \in Instances, NEW v \in VMs,
         NEW h \in Hours, h <= hour, NEW amount \in PosAmounts,
         Post(Owner[v], "debit", amount, v, HourKey(v, h)),
         UNCHANGED <<hour, advisory, checkpoints>>, NEW k \in Cycles,
         cycle' = [cycle EXCEPT ![i] = k],
         k.hour = h, k.pc \in {"loop", "record"},
         k.pc = "record" => /\ k.vm = v /\ k.amount = amount
                            /\ k.tx = Len(ledger[Owner[v]]) + 1
  PROVE  IndInv'
<1> DEFINE c == Owner[v]
<1> USE DEF IndInv
<1>1. c \in Customers /\ HourKey(v, h) \in Keys /\ v \in Refs
  BY Zenon DEF HourlyAssumptions, OwnerAssumption, KeysAssumption, HourKey
<1>2. LedgerTypeOK' /\ BalanceMatchesLedger' /\ IdempotencyKeyUnique'
  BY Zenon, <1>1, PostKeepsLedger DEF TypeOK, TxTypes
<1>3. TypeOK'  BY Zenon, <1>2 DEF TypeOK, Cycles
<1>4. PICK n \in Nat : n = Len(ledger[c]) + 1
  BY SMTT(30), <1>1, PostAppends DEF TypeOK, TxTypes
<1>5. /\ \A d \in Customers :
           /\ DOMAIN ledger'[d] = DOMAIN ledger[d] \cup (IF d = c THEN {n} ELSE {})
           /\ \A m \in DOMAIN ledger[d] : ledger'[d][m] = ledger[d][m]
      /\ LET e == ledger'[c][n]
         IN  e.type = "debit" /\ e.amount = amount /\ e.ref = v /\ e.key = HourKey(v, h)
  BY SMTT(30), <1>1, <1>4, PostAppends DEF TypeOK, TxTypes
<1>6. IsCharge(n, v, h, amount)'
  BY Zenon, <1>1, <1>5 DEF IsCharge, SameDebit, HourKey
<1>7. ASSUME NEW j \in Instances PROVE CycleIsSound(j)'
  <2>1. CASE j = i
    <3>1. cycle'[j] = k  BY Zenon, <2>1 DEF TypeOK
    <3> QED  BY Zenon, <3>1, <1>4, <1>6 DEF CycleIsSound, IsCharge, HourKey
  <2>2. CASE j # i
    <3>1. PICK q \in Cycles : q = cycle[j]  BY Zenon DEF TypeOK, Cycles
    <3>2. cycle'[j] = q /\ CycleIsSound(j)  BY Zenon, <2>2, <3>1 DEF TypeOK
    <3>3. q.pc = "record" => IsCharge(q.tx, q.vm, q.hour, q.amount)'
      BY SMTT(30), <1>5, <3>1, <3>2, ChargesStay DEF CycleIsSound, HourlyAssumptions
    <3> QED  BY Zenon, <3>1, <3>2, <3>3 DEF CycleIsSound, IsCharge, HourKey
  <2> QED  BY Zenon, <2>1, <2>2
<1>8. RowsAreCharges'
  <2>1. h \in 0..hour  BY DEF TypeOK, Hours, HourlyAssumptions
  <2> SUFFICES ASSUME NEW d \in Customers, NEW m \in DOMAIN ledger'[d]
               PROVE  \E u \in VMs, g \in 0..hour : /\ ledger'[d][m].ref = u
                                                   /\ ledger'[d][m].key = <<u, g>>
    BY Zenon DEF RowsAreCharges, HourKey
  <2>2. CASE m \in DOMAIN ledger[d]  BY SMTT(30), <1>5, <2>2 DEF RowsAreCharges, HourKey
  <2>3. CASE m \notin DOMAIN ledger[d]
    <3>1. d = c /\ m = n  BY SMTT(30), <1>5, <2>3
    <3> QED  BY Zenon, <1>5, <2>1, <3>1 DEF HourKey
  <2> QED  BY Zenon, <2>2, <2>3
<1>9. CheckpointsAreCharges'
  <2> SUFFICES ASSUME NEW r \in checkpoints
               PROVE  IsCharge(r.tx, r.vm, r.hour, r.amount)'
    BY Zenon DEF CheckpointsAreCharges
  <2>1. r.vm \in VMs  BY Zenon DEF TypeOK
  <2> QED  BY SMTT(30), <2>1, <1>5, ChargesStay DEF CheckpointsAreCharges, HourlyAssumptions
<1> QED  BY Zenon, <1>2, <1>3, <1>7, <1>8, <1>9

(* The next-state relation preserves the inductive invariant.              *)
LEMMA NextInv == HourlyAssumptions /\ IndInv /\ [Next]_vars => IndInv'
<1> SUFFICES ASSUME HourlyAssumptions, IndInv, [Next]_vars PROVE IndInv'  BY Zenon
<1> USE DEF IndInv
<1>a. ASSUME NEW i \in Instances
      PROVE  /\ cycle[i] \in Cycles /\ CycleIsSound(i)
             /\ advisory \in Instances \cup {NoInstance} /\ hour \in Hours
  BY Zenon DEF TypeOK, Cycles
<1>1. ASSUME NEW i \in Instances, StartCycle(i) PROVE IndInv'
  <2>1. PICK k : k = [Idle EXCEPT !.pc = "list", !.hour = hour]  BY Zenon
  <2>2. k \in Cycles  BY Zenon, <1>a, <2>1, IdleIsCycle DEF Cycles
  <2>3. k.pc = "list" /\ k.hour = hour  BY Zenon, <2>1 DEF Idle
  <2>4. k.hour <= hour  BY SMTT(30), <1>a, <2>3 DEF Hours
  <2> QED  BY Zenon, <1>1, <1>a, <2>1, <2>2, <2>3, <2>4, OnlyCycleMoves DEF StartCycle
<1>2. ASSUME NEW i \in Instances, ListBillableVMs(i) PROVE IndInv'
  <2>1. PICK status \in [VMs -> Statuses] :
          cycle' = [cycle EXCEPT ![i].pc = "loop", ![i].list = status]
    BY Zenon, <1>2 DEF ListBillableVMs
  <2>2. PICK k : k = [cycle[i] EXCEPT !.pc = "loop", !.list = status]  BY Zenon
  <2>3. k \in Cycles /\ k.pc = "loop" /\ k.hour = cycle[i].hour
    BY Zenon, <1>a, <2>2 DEF Cycles
  <2>4. cycle' = [cycle EXCEPT ![i] = k]  BY Zenon, <2>1, <2>2 DEF TypeOK
  <2> QED  BY Zenon, <1>2, <1>a, <2>3, <2>4, OnlyCycleMoves DEF ListBillableVMs, CycleIsSound
<1>3. ASSUME NEW i \in Instances, ListFails(i) \/ ListDone(i) \/ Crash(i) PROVE IndInv'
  BY Zenon, <1>3, EndCycleInv DEF ListFails, ListDone, Crash
<1>4. ASSUME NEW i \in Instances, NEW v \in VMs, CheckCheckpoint(i, v) PROVE IndInv'
  <2>1. CASE Leave(i, v)  BY Zenon, <1>4, <2>1, LeaveInv DEF CheckCheckpoint
  <2>2. CASE cycle' = [cycle EXCEPT ![i].pc = "price", ![i].vm = v]
    <3>1. PICK k : k = [cycle[i] EXCEPT !.pc = "price", !.vm = v]  BY Zenon
    <3>2. k \in Cycles /\ k.pc = "price" /\ k.hour = cycle[i].hour /\ k.vm = v
      BY Zenon, <1>a, <3>1 DEF Cycles
    <3>3. cycle' = [cycle EXCEPT ![i] = k]  BY Zenon, <2>2, <3>1 DEF TypeOK
    <3> QED  BY Zenon, <1>4, <1>a, <3>2, <3>3, OnlyCycleMoves DEF CheckCheckpoint, CycleIsSound
  <2> QED  BY Zenon, <1>4, <2>1, <2>2 DEF CheckCheckpoint
<1>5. ASSUME NEW i \in Instances, NEW v \in VMs, ChargeFails(i, v) PROVE IndInv'
  BY Zenon, <1>5, LeaveInv DEF ChargeFails
<1>6. ASSUME NEW i \in Instances, GetPlan(i) PROVE IndInv'
  <2>1. PICK v \in VMs : v = cycle[i].vm  BY Zenon, <1>6, <1>a DEF GetPlan, CycleIsSound
  <2>2. CASE Leave(i, v)  BY Zenon, <1>6, <2>2, LeaveInv DEF GetPlan
  <2>3. CASE ~Leave(i, v)
    <3>1. PICK amount \in PosAmounts :
            cycle' = [cycle EXCEPT ![i].pc = "debit", ![i].amount = amount]
      BY Zenon, <1>6, <2>1, <2>3, RateIsAmount DEF GetPlan, HourlyAssumptions
    <3>2. PICK k : k = [cycle[i] EXCEPT !.pc = "debit", !.amount = amount]  BY Zenon
    <3>3. /\ k \in Cycles /\ k.pc = "debit" /\ k.hour = cycle[i].hour
          /\ k.vm = v /\ k.amount = amount
      BY Zenon, <1>a, <2>1, <3>2 DEF Cycles
    <3>4. cycle' = [cycle EXCEPT ![i] = k]  BY Zenon, <3>1, <3>2 DEF TypeOK
    <3> QED  BY Zenon, <1>6, <1>a, <3>3, <3>4, OnlyCycleMoves DEF GetPlan, CycleIsSound
  <2> QED  BY Zenon, <2>2, <2>3
<1>7. ASSUME NEW i \in Instances, Debit(i) PROVE IndInv'
  <2> DEFINE Answer(tx) == cycle' = [cycle EXCEPT ![i].pc = "record", ![i].tx = tx]
  <2>1. PICK v \in VMs, h \in Hours, amount \in PosAmounts :
          /\ v = cycle[i].vm /\ h = cycle[i].hour /\ amount = cycle[i].amount /\ h <= hour
    BY Zenon, <1>7, <1>a DEF Debit, CycleIsSound, Cycles
  <2>2. ASSUME NEW tx \in Nat, Answer(tx)
        PROVE  \E k \in Cycles :
                 /\ cycle' = [cycle EXCEPT ![i] = k]
                 /\ k.pc = "record" /\ k.hour = h /\ k.vm = v
                 /\ k.amount = amount /\ k.tx = tx
    <3>1. PICK k : k = [cycle[i] EXCEPT !.pc = "record", !.tx = tx]  BY Zenon
    <3>2. /\ k \in Cycles /\ k.pc = "record" /\ k.hour = h /\ k.vm = v
          /\ k.amount = amount /\ k.tx = tx
      BY Zenon, <1>a, <2>1, <3>1 DEF Cycles
    <3>3. cycle' = [cycle EXCEPT ![i] = k]  BY Zenon, <2>2, <3>1 DEF TypeOK
    <3> QED  BY Zenon, <3>2, <3>3
  <2> HIDE DEF Answer
  <2>3. CASE /\ Post(Owner[v], "debit", amount, v, HourKey(v, h))
             /\ Answer(Len(ledger[Owner[v]]) + 1) \/ Leave(i, v)
    <3>1. Len(ledger[Owner[v]]) + 1 \in Nat
      BY DEF TypeOK, LedgerTypeOK, HourlyAssumptions, OwnerAssumption
    <3>2. CASE Answer(Len(ledger[Owner[v]]) + 1)
      <4>1. PICK k \in Cycles :
              /\ cycle' = [cycle EXCEPT ![i] = k]
              /\ k.pc = "record" /\ k.hour = h /\ k.vm = v
              /\ k.amount = amount /\ k.tx = Len(ledger[Owner[v]]) + 1
        BY Zenon, <2>2, <3>1, <3>2
      <4>2. UNCHANGED <<hour, advisory, checkpoints>>  BY Zenon, <1>7 DEF Debit
      <4> QED  BY Zenon, <2>1, <2>3, <4>1, <4>2, PostCharges
    <3>3. CASE Leave(i, v)
      <4>1. PICK k \in Cycles :
              cycle' = [cycle EXCEPT ![i] = k] /\ k.pc = "loop" /\ k.hour = h
        BY Zenon, <2>1, <3>3, LeaveMoves
      <4>2. UNCHANGED <<hour, advisory, checkpoints>>  BY Zenon, <1>7 DEF Debit
      <4> QED  BY Zenon, <2>1, <2>3, <4>1, <4>2, PostCharges
    <3> QED  BY Zenon, <2>3, <3>2, <3>3
  <2>4. ASSUME NEW n \in DOMAIN ledger[Owner[v]],
               ledger[Owner[v]][n].key = HourKey(v, h),
               SameDebit(ledger[Owner[v]][n], amount, v), Answer(n), UNCHANGED ledgerVars
        PROVE  IndInv'
    <3>1. n \in Nat  BY DEF TypeOK, LedgerTypeOK, HourlyAssumptions, OwnerAssumption
    <3>2. IsCharge(n, v, h, amount)  BY Zenon, <2>4 DEF IsCharge
    <3>3. PICK k \in Cycles : /\ cycle' = [cycle EXCEPT ![i] = k]
                              /\ k.pc = "record" /\ k.hour = h /\ k.vm = v
                              /\ k.amount = amount /\ k.tx = n
      BY Zenon, <2>2, <2>4, <3>1
    <3> QED  BY Zenon, <1>7, <1>a, <2>1, <2>4, <3>2, <3>3, OnlyCycleMoves DEF Debit
  <2>5. CASE Leave(i, v) /\ UNCHANGED ledgerVars
    BY Zenon, <1>7, <2>5, LeaveInv DEF Debit
  <2> QED  BY Zenon, <1>7, <2>1, <2>3, <2>4, <2>5 DEF Debit, Answer
<1>8. ASSUME NEW i \in Instances, RecordCheckpoint(i) PROVE IndInv'
  <2>1. PICK v \in VMs, k \in Cycles :
          /\ v = cycle[i].vm /\ k.pc = "loop" /\ k.hour = cycle[i].hour
          /\ cycle' = [cycle EXCEPT ![i] = k]
    BY Zenon, <1>8, <1>a, LeaveMoves DEF RecordCheckpoint, CycleIsSound
  <2>2. PICK row : row = [vm |-> v, hour |-> cycle[i].hour, amount |-> cycle[i].amount,
                          tx |-> cycle[i].tx]
    BY Zenon
  <2>3. /\ row \in [vm: VMs, hour: Hours, amount: PosAmounts, tx: Nat \ {0}]
        /\ IsCharge(row.tx, row.vm, row.hour, row.amount)
    <3>1. IsCharge(cycle[i].tx, v, cycle[i].hour, cycle[i].amount) /\ cycle[i].amount \in PosAmounts
      BY Zenon, <1>8, <1>a, <2>1 DEF RecordCheckpoint, CycleIsSound
    <3>2. 0 \notin DOMAIN ledger[Owner[v]]
      BY DEF TypeOK, LedgerTypeOK, HourlyAssumptions, OwnerAssumption
    <3>3. cycle[i].tx \in Nat \ {0}  BY Zenon, <1>a, <3>1, <3>2 DEF IsCharge, Cycles
    <3> QED  BY Zenon, <1>a, <2>1, <2>2, <3>1, <3>3 DEF Cycles
  <2>4. checkpoints' \subseteq checkpoints \cup {row}  BY Zenon, <1>8, <2>1, <2>2 DEF RecordCheckpoint
  <2>5. UNCHANGED <<ledgerVars, hour, advisory>>  BY Zenon, <1>8 DEF RecordCheckpoint
  <2>6. TypeOK'  BY Zenon, <2>1, <2>3, <2>4, <2>5 DEF TypeOK, LedgerTypeOK, ledgerVars, Cycles
  <2>7. BalanceMatchesLedger' /\ IdempotencyKeyUnique'  BY Zenon, <2>5, LedgerUnchanged
  <2>8. ASSUME NEW j \in Instances PROVE CycleIsSound(j)'
    <3>1. cycle'[j] = IF j = i THEN k ELSE cycle[j]  BY Zenon, <2>1 DEF TypeOK
    <3> QED  BY Zenon, <1>a, <2>1, <2>5, <3>1 DEF CycleIsSound, IsCharge, ledgerVars
  <2>9. RowsAreCharges'  BY Zenon, <2>5 DEF RowsAreCharges, ledgerVars
  <2>10. CheckpointsAreCharges'
    BY Zenon, <2>3, <2>4, <2>5 DEF CheckpointsAreCharges, IsCharge, ledgerVars
  <2> QED  BY Zenon, <2>6, <2>7, <2>8, <2>9, <2>10
<1>9. ASSUME NEW i \in Instances, LoseConnection(i) PROVE IndInv'
  <2>1. hour' = hour /\ hour \in Int  BY <1>9, <1>a DEF LoseConnection, Hours
  <2> QED  BY <1>9, <1>a, <2>1, OnlyTimePasses DEF LoseConnection
<1>10. CASE HourPasses
  <2>1. hour' \in Hours /\ hour' >= hour /\ advisory' \in Instances \cup {NoInstance}
    BY <1>10 DEF HourPasses, TypeOK, Hours, HourlyAssumptions
  <2> QED  BY Zenon, <1>10, <2>1, OnlyTimePasses DEF HourPasses
<1>11. CASE UNCHANGED vars
  <2>1. hour' \in Hours /\ hour' >= hour /\ advisory' \in Instances \cup {NoInstance}
    BY SMTT(30), <1>11 DEF vars, TypeOK, Hours
  <2> QED  BY Zenon, <1>11, <2>1, OnlyTimePasses DEF vars, ledgerVars
<1> QED
  BY Zenon, <1>1, <1>2, <1>3, <1>4, <1>5, <1>6, <1>7, <1>8, <1>9, <1>10, <1>11 DEF Next, CycleStep

(* A VM has at most one row of the ledger for each hour that has begun: it *)
(* is told by the key of the row, which no other row has.                  *)
LEMMA ChargesAreCounted == HourlyAssumptions /\ IndInv => OneChargePerHour
<1> SUFFICES ASSUME HourlyAssumptions, IndInv, NEW v \in VMs
             PROVE  Cardinality(Charges(v)) <= hour + 1
  BY Zenon DEF OneChargePerHour
<1> DEFINE c == Owner[v]
           HourOf == [n \in Charges(v) |-> ledger[c][n].key[2]]
<1>1. c \in Customers  BY Zenon DEF HourlyAssumptions, OwnerAssumption
<1>2. ASSUME NEW n \in Charges(v)
      PROVE  \E h \in 0..hour : ledger[c][n].key = <<v, h>>
  BY ZenonT(60), <1>1, <1>2 DEF IndInv, RowsAreCharges, Charges, HourKey
<1>3. HourOf \in [Charges(v) -> 0..hour]  BY <1>2
<1>4. ASSUME NEW m \in Charges(v), NEW n \in Charges(v), HourOf[m] = HourOf[n]
      PROVE  m = n
  <2>1. PICK g \in 0..hour, h \in 0..hour :
          ledger[c][m].key = <<v, g>> /\ ledger[c][n].key = <<v, h>>
    BY Zenon, <1>2
  <2>2. g = h  BY SMTT(30), <1>4, <2>1
  <2>3. <<v, g>> \in Keys
    BY DEF IndInv, TypeOK, Hours, HourlyAssumptions, KeysAssumption
  <2>4. m \in DOMAIN ledger[c] /\ n \in DOMAIN ledger[c]  BY Zenon DEF Charges
  <2> QED  BY Zenon, <1>1, <2>1, <2>2, <2>3, <2>4, NoKeyAssumption DEF IndInv, IdempotencyKeyUnique
<1>5. HourOf \in Injection(Charges(v), 0..hour)
  BY Zenon, <1>3, <1>4 DEF Injection, IsInjective
<1>6. hour \in Nat  BY DEF IndInv, TypeOK, Hours
<1>7. IsFiniteSet(0..hour) /\ Cardinality(0..hour) = hour + 1
  BY <1>6, FS_Interval
<1> QED  BY <1>5, <1>7, FS_Injection

-----------------------------------------------------------------------------

(* The inductive invariant always holds.                                   *)
LEMMA Invariance == ASSUME HourlyAssumptions PROVE Spec => []IndInv
<1>1. Init => IndInv  BY Zenon, InitInv
<1>2. IndInv /\ [Next]_vars => IndInv'  BY Zenon, NextInv
<1> QED  BY <1>1, <1>2, PTL DEF Spec

(* No VM is charged twice for an hour, and no checkpoint is written for a  *)
(* charge that was not made: whichever instances bill at the same time,    *)
(* wherever a cycle dies between the debit and the checkpoint, and however *)
(* often the advisory lock is lost.                                        *)
THEOREM ChargedOnce ==
  ASSUME HourlyAssumptions PROVE Spec => []ChargedOncePerHour
<1>1. IndInv => ChargedOncePerHour
  <2> SUFFICES ASSUME IndInv PROVE ChargedOncePerHour  BY Zenon
  <2>1. CheckpointsAreCharged
    <3> SUFFICES ASSUME NEW k \in checkpoints
                 PROVE  /\ k.tx \in Charges(k.vm)
                        /\ LET e == ledger[Owner[k.vm]][k.tx]
                           IN  /\ e.type = "debit" /\ e.amount = k.amount
                               /\ e.key = HourKey(k.vm, k.hour)
      BY Zenon DEF CheckpointsAreCharged
    <3> QED  BY Zenon DEF IndInv, CheckpointsAreCharges, IsCharge, SameDebit, Charges
  <2> QED  BY Zenon, <2>1, ChargesAreCounted DEF IndInv, ChargedOncePerHour
<1> QED  BY <1>1, Invariance, PTL

(* The scheduler uses the ledger as it is meant to be used: each charge is *)
(* one Post, and everything else leaves the ledger alone.                  *)
THEOREM SchedulerPosts == ASSUME HourlyAssumptions PROVE Spec => LedgerSpec
<1>1. Init => LedgerInit  BY Zenon DEF Init
<1>2. IndInv /\ [Next]_vars => [LedgerNext]_ledgerVars
  <2> SUFFICES ASSUME IndInv, [Next]_vars, ~UNCHANGED ledgerVars PROVE LedgerNext  BY Zenon
  <2>1. PICK i \in Instances : Debit(i)
    BY Zenon DEF Next, CycleStep, vars, ledgerVars, StartCycle, ListBillableVMs, ListFails, ListDone,
           CheckCheckpoint, ChargeFails, GetPlan, RecordCheckpoint, EndCycle, Crash,
           LoseConnection, HourPasses
  <2>2. PICK v \in VMs, h \in Hours, amount \in PosAmounts :
          Post(Owner[v], "debit", amount, v, HourKey(v, h))
    <3>1. cycle[i].vm \in VMs /\ cycle[i].hour \in Hours /\ cycle[i].amount \in PosAmounts
      BY Zenon, <2>1 DEF Debit, IndInv, CycleIsSound, TypeOK
    <3> QED  BY Zenon, <2>1, <3>1 DEF Debit
  <2> QED
    BY Zenon, <2>2 DEF LedgerNext, TxTypes, HourlyAssumptions, OwnerAssumption, KeysAssumption, HourKey
<1> QED  BY <1>1, <1>2, Invariance, PTL DEF Spec, LedgerSpec

=============================================================================
