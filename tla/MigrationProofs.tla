-------------------------- MODULE MigrationProofs ---------------------------
(***************************************************************************)
(* The disk is where the row says and no guest runs twice, for any number  *)
(* of nodes, VMs, operations, deliveries and failures.                     *)
(***************************************************************************)
EXTENDS Migration, TLAPS

InSeq(q, x) == \E i \in 1..Len(q) : q[i] = x

Precedes(q, x, y) == \A i, j \in 1..Len(q) : q[i] = x /\ q[j] = y => i < j

(* The step x is still to come.                                            *)
Has(k, x) == InSeq(k.todo, x)

Mover(k) == k.kind \in {"migrate", "vm.migrate"}

StepNames ==
  {"Mark", "Publish", "Load", "Error", "Migrate", "Await", "Snapshot", "TransferSnapshot", "Stop",
   "Transfer", "Undefine", "Prepare", "Start", "Assign", "Final", "Cleanup", "Abort", "Restore",
   "running", "stopped"}

OpRecords ==
  [kind: {"idle", "migrate", "vm.migrate", "cancel", "start", "stop"},
   vm: VMs \cup {None}, src: Nodes \cup {None}, dst: Nodes \cup {None},
   pre: Statuses \cup {None}, live: BOOLEAN, todo: Seq(StepNames),
   from: Statuses \cup {None}, n: 0..MaxDeliver]

HandlerSteps == {"Migrate", "Transfer", "Undefine", "Prepare", "Assign", "Cleanup"}

InOrder(q) ==
  /\ Precedes(q, "Undefine", "Prepare")
  /\ Precedes(q, "Prepare", "Assign")
  /\ Precedes(q, "Assign", "Cleanup")

(* What an operation is made of, whatever happens around it.               *)
OpIsSound(k) ==
  /\ k.kind # "idle" => k.vm \in VMs /\ k.src \in Nodes
  /\ k.todo # <<>> => k.kind # "idle"
  /\ Mover(k) => k.dst \in Nodes /\ k.src # k.dst /\ k.pre \in Statuses
  /\ k.kind # "vm.migrate" => \A x \in HandlerSteps : ~Has(k, x)
  /\ Has(k, "Publish") => k.kind = "migrate"
  /\ Has(k, "Load") => k.kind = "vm.migrate"
  /\ Has(k, "Start") => k.dst \in Nodes
  /\ k.vm \in Shared => ~Has(k, "Prepare")
  /\ k.vm \notin Shared => ~Has(k, "Migrate")
  /\ InOrder(k.todo)

(* A local guest is defined on the target after it is undefined on the     *)
(* source.                                                                 *)
Undefined(k) ==
  ~hist.left /\ ~hist.parted /\ k.vm \notin Shared /\ Has(k, "Prepare") /\ ~Has(k, "Undefine")
    => domain[k.src][k.vm] = "absent"

(* The node is written when the target has the disk.                       *)
Received(k) ==
  ~hist.crossed /\ k.vm \notin Shared /\ Has(k, "Assign") /\ ~Has(k, "Prepare")
    => DiskOf(k.dst, k.vm) # NoDisk

(* The old disk is deleted when the row names another node.                *)
Moved(k) ==
  ~hist.crossed /\ Has(k, "Cleanup") /\ ~Has(k, "Assign") => vms[k.vm].node # k.src

Settled(k) == Undefined(k) /\ Received(k) /\ Moved(k)

(* Migrations of one VM that did not cross or part.                        *)
Agree(k, o) ==
  Mover(k) /\ Mover(o) /\ k.vm = o.vm =>
    /\ ~hist.crossed => k.dst # o.src
    /\ ~hist.parted /\ k.vm \notin Shared => k.src = o.src /\ k.dst = o.dst

(* The row and the domain of a local VM are at either end of its move.     *)
Between(k) ==
  Mover(k) /\ k.vm \notin Shared /\ ~hist.parted =>
    /\ vms[k.vm].node \in {k.src, k.dst}
    /\ \A n \in Nodes : domain[n][k.vm] # "absent" => n \in {k.src, k.dst}

DefinedOnce(v) ==
  v \in Shared \/ (~hist.left /\ ~hist.parted) =>
    \A m, n \in Nodes : domain[m][v] # "absent" /\ domain[n][v] # "absent" => m = n

HasDisk(v) ==
  Visible(v) /\ (v \in Shared \/ ~hist.crossed) => DiskOf(vms[v].node, v) # NoDisk

Rows == [VMs -> [status : Statuses \cup {"none"}, node : Nodes]]
Domains == [Nodes -> [VMs -> {"absent", "shutoff", "running"}]]
Disks == [Places -> [VMs -> {"data", NoDisk}]]
Jobs == [VMs -> [by : Slots, src : Nodes, dst : Nodes] \cup {None}]
Histories == [meddled: BOOLEAN, crossed: BOOLEAN, parted: BOOLEAN, slipped: BOOLEAN,
              left: BOOLEAN, stranded: BOOLEAN]

IndInv ==
  /\ vms \in Rows /\ domain \in Domains /\ disk \in Disks /\ job \in Jobs /\ hist \in Histories
  /\ faults \in Nat /\ op \in [Slots -> OpRecords]
  /\ \A s \in Slots : OpIsSound(op[s]) /\ Settled(op[s]) /\ Between(op[s])
  /\ \A s, t \in Slots : Agree(op[s], op[t])
  /\ \A v \in VMs : job[v] # None => v \in Shared /\ job[v].src # job[v].dst
  /\ \A v \in VMs : DefinedOnce(v) /\ HasDisk(v)

-----------------------------------------------------------------------------
LEMMA TailHas ==
  ASSUME NEW q \in Seq(StepNames), q # <<>>, NEW x
  PROVE  /\ Tail(q) \in Seq(StepNames)
         /\ InSeq(Tail(q), x) => InSeq(q, x)
         /\ InSeq(q, x) => x = Head(q) \/ InSeq(Tail(q), x)
<1>1. /\ Tail(q) \in Seq(StepNames) /\ Len(q) \in Nat /\ Len(q) > 0 /\ Len(Tail(q)) = Len(q) - 1
      /\ \A i \in 1..Len(Tail(q)) : Tail(q)[i] = q[i + 1]
  OBVIOUS
<1>2. ASSUME InSeq(Tail(q), x) PROVE InSeq(q, x)
  <2>1. PICK i \in 1..Len(Tail(q)) : Tail(q)[i] = x  BY Zenon, <1>2 DEF InSeq
  <2>2. i + 1 \in 1..Len(q) /\ q[i + 1] = x  BY <1>1, <2>1
  <2> QED  BY Zenon, <2>2 DEF InSeq
<1>3. ASSUME InSeq(q, x), x # Head(q) PROVE InSeq(Tail(q), x)
  <2>1. PICK i \in 1..Len(q) : q[i] = x  BY Zenon, <1>3 DEF InSeq
  <2>2. i # 1  BY <1>3, <2>1
  <2>3. i - 1 \in 1..Len(Tail(q)) /\ Tail(q)[i - 1] = x  BY <1>1, <2>1, <2>2
  <2> QED  BY Zenon, <2>3 DEF InSeq
<1> QED  BY Zenon, <1>1, <1>2, <1>3

LEMMA ConcatHas ==
  ASSUME NEW p \in Seq(StepNames), NEW q \in Seq(StepNames), NEW x
  PROVE  p \o q \in Seq(StepNames) /\ (InSeq(p \o q, x) <=> InSeq(p, x) \/ InSeq(q, x))
<1>1. /\ p \o q \in Seq(StepNames) /\ Len(p \o q) = Len(p) + Len(q)
      /\ \A i \in 1..Len(p) + Len(q) : (p \o q)[i] = IF i <= Len(p) THEN p[i] ELSE q[i - Len(p)]
  OBVIOUS
<1>2. Len(p) \in Nat /\ Len(q) \in Nat  OBVIOUS
<1>3. ASSUME InSeq(p \o q, x) PROVE InSeq(p, x) \/ InSeq(q, x)
  <2>1. PICK i \in 1..Len(p) + Len(q) : (p \o q)[i] = x  BY Zenon, <1>1, <1>3 DEF InSeq
  <2>2. CASE i <= Len(p)  BY <1>1, <1>2, <2>1, <2>2 DEF InSeq
  <2>3. CASE i > Len(p)
    <3>1. i - Len(p) \in 1..Len(q) /\ q[i - Len(p)] = x  BY <1>1, <1>2, <2>1, <2>3
    <3> QED  BY Zenon, <3>1 DEF InSeq
  <2> QED  BY <1>2, <2>2, <2>3
<1>4. ASSUME InSeq(p, x) PROVE InSeq(p \o q, x)
  <2>1. PICK i \in 1..Len(p) : p[i] = x  BY Zenon, <1>4 DEF InSeq
  <2>2. i \in 1..Len(p) + Len(q) /\ (p \o q)[i] = x  BY <1>1, <1>2, <2>1
  <2> QED  BY Zenon, <1>1, <2>2 DEF InSeq
<1>5. ASSUME InSeq(q, x) PROVE InSeq(p \o q, x)
  <2>1. PICK i \in 1..Len(q) : q[i] = x  BY Zenon, <1>5 DEF InSeq
  <2>2. i + Len(p) \in 1..Len(p) + Len(q) /\ (p \o q)[i + Len(p)] = x  BY <1>1, <1>2, <2>1
  <2> QED  BY Zenon, <1>1, <2>2 DEF InSeq
<1> QED  BY Zenon, <1>1, <1>3, <1>4, <1>5

LEMMA TailOrder ==
  ASSUME NEW q \in Seq(StepNames), q # <<>>, NEW x, NEW y, Precedes(q, x, y)
  PROVE  Precedes(Tail(q), x, y) /\ (Head(q) = y => ~InSeq(q, x))
<1>1. /\ Len(q) \in Nat /\ Len(q) > 0 /\ Len(Tail(q)) = Len(q) - 1
      /\ \A i \in 1..Len(Tail(q)) : Tail(q)[i] = q[i + 1]
  OBVIOUS
<1>2. ASSUME NEW i \in 1..Len(Tail(q)), NEW j \in 1..Len(Tail(q)), Tail(q)[i] = x, Tail(q)[j] = y
      PROVE  i < j
  <2>1. i + 1 \in 1..Len(q) /\ j + 1 \in 1..Len(q) /\ q[i + 1] = x /\ q[j + 1] = y  BY <1>1, <1>2
  <2> QED  BY <2>1 DEF Precedes
<1>3. ASSUME Head(q) = y PROVE ~InSeq(q, x)
  <2>1. 1 \in 1..Len(q) /\ q[1] = y  BY <1>1, <1>3
  <2> QED  BY <1>1, <2>1 DEF Precedes, InSeq
<1> QED  BY Zenon, <1>2, <1>3 DEF Precedes

LEMMA ConcatOrder ==
  ASSUME NEW p \in Seq(StepNames), NEW q \in Seq(StepNames), NEW x, NEW y,
         Precedes(p, x, y), Precedes(q, x, y), ~InSeq(p, y) \/ ~InSeq(q, x)
  PROVE  Precedes(p \o q, x, y)
<1>1. /\ Len(p \o q) = Len(p) + Len(q) /\ Len(p) \in Nat /\ Len(q) \in Nat
      /\ \A i \in 1..Len(p) + Len(q) : (p \o q)[i] = IF i <= Len(p) THEN p[i] ELSE q[i - Len(p)]
  OBVIOUS
<1>2. SUFFICES ASSUME NEW i \in 1..Len(p) + Len(q), NEW j \in 1..Len(p) + Len(q),
                      (p \o q)[i] = x, (p \o q)[j] = y
               PROVE  i < j
  BY Zenon, <1>1 DEF Precedes
<1>3. CASE i <= Len(p) /\ j <= Len(p)
  <2>1. i \in 1..Len(p) /\ j \in 1..Len(p) /\ p[i] = x /\ p[j] = y  BY <1>1, <1>2, <1>3
  <2> QED  BY Zenon, <2>1 DEF Precedes
<1>4. CASE i > Len(p) /\ j > Len(p)
  <2>1. i - Len(p) \in 1..Len(q) /\ j - Len(p) \in 1..Len(q) /\ q[i - Len(p)] = x /\ q[j - Len(p)] = y
    BY <1>1, <1>2, <1>4
  <2>2. i - Len(p) < j - Len(p)  BY Zenon, <2>1 DEF Precedes
  <2> QED  BY <1>1, <2>2
<1>5. CASE i > Len(p) /\ j <= Len(p)
  <2>1. i - Len(p) \in 1..Len(q) /\ q[i - Len(p)] = x  BY <1>1, <1>2, <1>5
  <2>2. j \in 1..Len(p) /\ p[j] = y  BY <1>1, <1>2, <1>5
  <2> QED  BY Zenon, <2>1, <2>2 DEF InSeq
<1>6. CASE i <= Len(p) /\ j > Len(p)  BY <1>1, <1>6
<1> QED  BY <1>1, <1>3, <1>4, <1>5, <1>6

LEMMA FinalizeHas ==
  /\ FinalizeMigration \in Seq(StepNames) /\ InOrder(FinalizeMigration)
  /\ InSeq(FinalizeMigration, "Assign")
  /\ \A x \in {"Migrate", "Undefine", "Prepare", "Publish", "Load"} : ~InSeq(FinalizeMigration, x)
<1>1. PICK q : q = FinalizeMigration  BY Zenon
<1>2. q \in Seq(StepNames)  BY <1>1 DEF FinalizeMigration, StepNames
<1>3. Len(q) = 3 /\ q[1] = "Assign" /\ q[2] = "Final" /\ q[3] = "Cleanup"  BY Zenon, <1>1 DEF FinalizeMigration
<1>4. InOrder(q)  BY <1>3 DEF InOrder, Precedes
<1>5. InSeq(q, "Assign") /\ \A x : InSeq(q, x) => x \in {"Assign", "Final", "Cleanup"}  BY <1>3 DEF InSeq
<1> QED  BY Zenon, <1>1, <1>2, <1>4, <1>5

(* The steps that Load lays out.                                           *)
LEMMA StrategyHas ==
  ASSUME NEW v, NEW st, NEW live, NEW pre, NEW q, q = ExecuteMigrationStrategy(v, st, live, pre)
  PROVE  /\ q \in Seq(StepNames) /\ InOrder(q)
         /\ ~InSeq(q, "Assign") /\ ~InSeq(q, "Cleanup") /\ ~InSeq(q, "Publish")
         /\ v \in Shared => ~InSeq(q, "Prepare")
         /\ v \notin Shared => ~InSeq(q, "Migrate") /\ InSeq(q, "Undefine") /\ InSeq(q, "Prepare")
<1>1. CASE v \in Shared
  <2>1. q = <<"Migrate">>  BY Zenon, <1>1 DEF ExecuteMigrationStrategy, ExecuteLiveSharedStorageMigration
  <2>2. q \in Seq(StepNames)  BY <2>1 DEF StepNames
  <2>3. Len(q) = 1 /\ q[1] = "Migrate"  BY <2>1
  <2>4. InOrder(q)  BY <2>3 DEF InOrder, Precedes
  <2>5. \A x : InSeq(q, x) => x = "Migrate"  BY <2>3 DEF InSeq
  <2> QED  BY Zenon, <1>1, <2>2, <2>4, <2>5
<1>2. CASE v \notin Shared /\ live /\ st = "running"
  <2>1. q = <<"Snapshot", "TransferSnapshot", "Stop", "Undefine", "Prepare", "Start">>
    BY Zenon, <1>2 DEF ExecuteMigrationStrategy, ExecuteLiveDiskCopyMigration
  <2>2. q \in Seq(StepNames)  BY <2>1 DEF StepNames
  <2>3. /\ Len(q) = 6 /\ q[1] = "Snapshot" /\ q[2] = "TransferSnapshot" /\ q[3] = "Stop"
        /\ q[4] = "Undefine" /\ q[5] = "Prepare" /\ q[6] = "Start"
    BY <2>1
  <2>4. /\ InSeq(q, "Undefine") /\ InSeq(q, "Prepare")
        /\ \A x : InSeq(q, x) => x \in {"Snapshot", "TransferSnapshot", "Stop", "Undefine", "Prepare", "Start"}
    BY <2>3 DEF InSeq
  <2>5. InOrder(q)  BY <2>3 DEF InOrder, Precedes
  <2>6. v \notin Shared  BY Zenon, <1>2
  <2>7. ~InSeq(q, "Assign") /\ ~InSeq(q, "Cleanup") /\ ~InSeq(q, "Migrate") /\ ~InSeq(q, "Publish")  BY <2>4
  <2> QED  BY Zenon, <2>2, <2>4, <2>5, <2>6, <2>7
<1>3. CASE v \notin Shared /\ ~(live /\ st = "running")
  <2>1. PICK a : a = IF st = "running" THEN <<"Stop">> ELSE <<>>  BY Zenon
  <2>2. PICK b : b = <<"Transfer", "Undefine", "Prepare">>  BY Zenon
  <2>3. PICK c : c = IF pre = "running" THEN <<"Start">> ELSE <<>>  BY Zenon
  <2>4. q = a \o b \o c  BY Zenon, <1>3, <2>1, <2>2, <2>3 DEF ExecuteMigrationStrategy, ExecuteColdDiskCopyMigration
  <2>5. a \in Seq(StepNames) /\ InOrder(a) /\ \A x : InSeq(a, x) => x = "Stop"
    <3>0. a = <<>> \/ a = <<"Stop">>  BY Zenon, <2>1
    <3>1. a \in Seq(StepNames)
      <4>1. <<>> \in Seq(StepNames)  OBVIOUS
      <4>2. <<"Stop">> \in Seq(StepNames)  BY DEF StepNames
      <4> QED  BY Zenon, <3>0, <4>1, <4>2
    <3>2. Len(a) = 0 \/ (Len(a) = 1 /\ a[1] = "Stop")  BY Zenon, <2>1
    <3>3. InOrder(a)  BY <3>2 DEF InOrder, Precedes
    <3> QED  BY <3>1, <3>2, <3>3 DEF InSeq
  <2>6. /\ b \in Seq(StepNames) /\ InOrder(b) /\ InSeq(b, "Undefine") /\ InSeq(b, "Prepare")
        /\ \A x : InSeq(b, x) => x \in {"Transfer", "Undefine", "Prepare"}
    <3>1. b \in Seq(StepNames)  BY <2>2 DEF StepNames
    <3>2. Len(b) = 3 /\ b[1] = "Transfer" /\ b[2] = "Undefine" /\ b[3] = "Prepare"  BY Zenon, <2>2
    <3>3. InOrder(b)  BY <3>2 DEF InOrder, Precedes
    <3> QED  BY <3>1, <3>2, <3>3 DEF InSeq
  <2>7. c \in Seq(StepNames) /\ InOrder(c) /\ \A x : InSeq(c, x) => x = "Start"
    <3>0. c = <<>> \/ c = <<"Start">>  BY Zenon, <2>3
    <3>1. c \in Seq(StepNames)
      <4>1. <<>> \in Seq(StepNames)  OBVIOUS
      <4>2. <<"Start">> \in Seq(StepNames)  BY DEF StepNames
      <4> QED  BY Zenon, <3>0, <4>1, <4>2
    <3>2. Len(c) = 0 \/ (Len(c) = 1 /\ c[1] = "Start")  BY Zenon, <2>3
    <3>3. InOrder(c)  BY <3>2 DEF InOrder, Precedes
    <3> QED  BY <3>1, <3>2, <3>3 DEF InSeq
  <2>8. PICK d : d = a \o b  BY Zenon
  <2>9. /\ d \in Seq(StepNames) /\ InSeq(d, "Undefine") /\ InSeq(d, "Prepare")
        /\ \A x : InSeq(d, x) => x \in {"Stop", "Transfer", "Undefine", "Prepare"}
    BY Zenon, <2>5, <2>6, <2>8, ConcatHas
  <2>10. InOrder(d)  BY Zenon, <2>5, <2>6, <2>8, ConcatOrder DEF InOrder
  <2>11. q = d \o c  BY Zenon, <2>4, <2>8
  <2>12. q \in Seq(StepNames) /\ \A x : InSeq(q, x) <=> InSeq(d, x) \/ InSeq(c, x)
    BY <2>7, <2>9, <2>11, ConcatHas
  <2>13. /\ InSeq(q, "Undefine") /\ InSeq(q, "Prepare")
         /\ ~InSeq(q, "Assign") /\ ~InSeq(q, "Cleanup") /\ ~InSeq(q, "Migrate") /\ ~InSeq(q, "Publish")
    <3>1. \A x \in {"Assign", "Cleanup", "Migrate", "Publish"} : ~InSeq(d, x)  BY Zenon, <2>9
    <3>2. \A x \in {"Assign", "Cleanup", "Migrate", "Publish"} : ~InSeq(c, x)  BY Zenon, <2>7
    <3> QED  BY Zenon, <2>9, <2>12, <3>1, <3>2
  <2>14. InOrder(q)  BY Zenon, <2>7, <2>11, <2>9, <2>10, ConcatOrder DEF InOrder
  <2> QED  BY Zenon, <1>3, <2>12, <2>13, <2>14
<1> QED  BY Zenon, <1>1, <1>2, <1>3

LEMMA LoadHas ==
  ASSUME NEW v, NEW st, NEW live, NEW pre, NEW q,
         q = ExecuteMigrationStrategy(v, st, live, pre) \o FinalizeMigration
  PROVE  /\ q \in Seq(StepNames) /\ InOrder(q) /\ InSeq(q, "Assign") /\ ~InSeq(q, "Publish")
         /\ v \in Shared => ~InSeq(q, "Prepare")
         /\ v \notin Shared => ~InSeq(q, "Migrate") /\ InSeq(q, "Undefine") /\ InSeq(q, "Prepare")
<1>1. PICK p : p = ExecuteMigrationStrategy(v, st, live, pre)  BY Zenon
<1> QED  BY <1>1, StrategyHas, FinalizeHas, ConcatHas, ConcatOrder DEF InOrder

-----------------------------------------------------------------------------
(* What the steps leave alone.                                             *)
Ages ==
  /\ faults' \in Nat /\ hist' \in Histories
  /\ hist.left => hist'.left
  /\ hist.parted => hist'.parted
  /\ hist.crossed => hist'.crossed

RowsStay ==
  vms' \in Rows /\ \A v \in VMs : vms'[v].node = vms[v].node /\ (Visible(v)' => Visible(v))

DomainsStay ==
  /\ domain' \in Domains
  /\ \A n \in Nodes, v \in VMs : domain'[n][v] # "absent" => domain[n][v] # "absent"

DisksStay ==
  /\ disk' \in Disks
  /\ \A p \in Places, v \in VMs : disk[p][v] # NoDisk => disk'[p][v] # NoDisk

JobsStay ==
  job' \in Jobs /\ \A v \in VMs : job'[v] # None => v \in Shared /\ job'[v].src # job'[v].dst

Goes(k, o) == Mover(k) => Mover(o) /\ k.vm = o.vm /\ k.src = o.src /\ k.dst = o.dst

OpsGo ==
  op' \in [Slots -> OpRecords] /\ \A s \in Slots : OpIsSound(op'[s]) /\ Goes(op'[s], op[s])

SameMarks(k, o) ==
  /\ k.vm = o.vm /\ k.src = o.src /\ k.dst = o.dst
  /\ \A x \in {"Undefine", "Prepare", "Assign", "Cleanup"} : Has(k, x) <=> Has(o, x)

Calm(k) ==
  /\ ~hist'.left /\ ~hist'.parted /\ k.vm \notin Shared /\ Has(k, "Prepare")
     /\ domain[k.src][k.vm] = "absent" => domain'[k.src][k.vm] = "absent"
  /\ ~hist'.crossed /\ k.vm \notin Shared /\ Has(k, "Assign")
     /\ DiskOf(k.dst, k.vm) # NoDisk => disk'[Place(k.dst, k.vm)][k.vm] # NoDisk
  /\ ~hist'.crossed /\ Has(k, "Cleanup") /\ vms[k.vm].node # k.src => vms'[k.vm].node # k.src

StaysBetween(k) ==
  Mover(k) /\ k.vm \notin Shared /\ ~hist'.parted =>
    /\ vms'[k.vm].node \in {k.src, k.dst}
    /\ \A n \in Nodes : domain'[n][k.vm] # "absent" => n \in {k.src, k.dst}

LEMMA CalmSettles ==
  ASSUME Ages, NEW k, Settled(k), Calm(k)  PROVE Settled(k)'
BY Zenon DEF Ages, Settled, Undefined, Received, Moved, Calm, Has, DiskOf, Place

LEMMA MarksSettle ==
  ASSUME NEW k, NEW o, Settled(o)', SameMarks(k, o)  PROVE Settled(k)'
BY Zenon DEF Settled, Undefined, Received, Moved, SameMarks, Has

LEMMA Keeps ==
  ASSUME IndInv, Ages, vms' \in Rows, domain' \in Domains, disk' \in Disks, JobsStay, OpsGo,
         \A s \in Slots : Settled(op[s])' \/ (SameMarks(op'[s], op[s]) /\ Calm(op[s])),
         \A s \in Slots : StaysBetween(op[s]),
         \A v \in VMs : DefinedOnce(v)' /\ HasDisk(v)'
  PROVE  IndInv'
<1>1. ASSUME NEW s \in Slots PROVE Settled(op[s])'
  <2>1. CASE SameMarks(op'[s], op[s]) /\ Calm(op[s])
    <3>1. PICK o : o = op[s]  BY Zenon
    <3>2. Settled(o)'  BY Zenon, <2>1, <3>1, CalmSettles DEF IndInv
    <3>3. PICK k : k = op'[s]  BY Zenon
    <3>4. Settled(k)'  BY Zenon, <2>1, <3>1, <3>2, <3>3, MarksSettle
    <3> QED  BY Zenon, <3>3, <3>4 DEF Settled, Undefined, Received, Moved, Has, DiskOf
  <2> QED  BY Zenon, <2>1
<1>2. ASSUME NEW s \in Slots PROVE Between(op[s])'
  <2>1. Goes(op'[s], op[s]) /\ StaysBetween(op[s])  BY Zenon DEF OpsGo
  <2> QED  BY Zenon, <2>1 DEF Goes, StaysBetween, Between
<1>3. ASSUME NEW s \in Slots, NEW t \in Slots PROVE Agree(op[s], op[t])'
  <2>1. Goes(op'[s], op[s]) /\ Goes(op'[t], op[t]) /\ Agree(op[s], op[t])  BY Zenon DEF OpsGo, IndInv
  <2> QED  BY Zenon, <2>1 DEF Goes, Agree, Ages
<1>4. \A s \in Slots : OpIsSound(op[s])'  BY Zenon DEF OpsGo, OpIsSound, Has, Mover, InOrder, Precedes, InSeq
<1> QED  BY Zenon, <1>1, <1>2, <1>3, <1>4 DEF IndInv, Ages, OpsGo, JobsStay

(* A step that moves nothing.                                              *)
LEMMA QuietKeeps ==
  ASSUME IndInv, Ages, RowsStay, DomainsStay, DisksStay, JobsStay, OpsGo,
         \A s \in Slots : Settled(op[s])' \/ SameMarks(op'[s], op[s])
  PROVE  IndInv'
<1>1. ASSUME NEW s \in Slots PROVE Calm(op[s]) /\ StaysBetween(op[s])
  <2>1. PICK k : k = op[s]  BY Zenon
  <2>2. OpIsSound(k) /\ Between(k)  BY Zenon, <2>1 DEF IndInv
  <2>3. StaysBetween(k)
    BY Zenon, <2>2 DEF StaysBetween, Between, OpIsSound, Mover, RowsStay, DomainsStay, Ages
  <2>4. Has(k, "Prepare") \/ Has(k, "Assign") \/ Has(k, "Cleanup") =>
          k.vm \in VMs /\ k.src \in Nodes /\ k.dst \in Nodes
    BY Zenon, <2>2 DEF OpIsSound, HandlerSteps, Mover
  <2>5. \A n \in Nodes, v \in VMs : Place(n, v) \in Places  BY DEF Places
  <2>6. domain \in Domains  BY Zenon DEF IndInv
  <2>7. Calm(k)
    BY Zenon, <2>4, <2>5, <2>6 DEF Calm, RowsStay, DomainsStay, DisksStay, DiskOf, Domains
  <2> QED  BY Zenon, <2>1, <2>3, <2>7
<1>2. ASSUME NEW v \in VMs PROVE DefinedOnce(v)'
  BY Zenon DEF IndInv, DefinedOnce, DomainsStay, Ages
<1>3. ASSUME NEW v \in VMs PROVE HasDisk(v)'
  <2>1. vms[v].node \in Nodes  BY Zenon DEF IndInv, Rows
  <2>2. Place(vms[v].node, v) \in Places  BY <2>1 DEF Places
  <2>3. Place(vms[v].node, v)' = Place(vms[v].node, v)  BY Zenon DEF RowsStay, Place
  <2>4. HasDisk(v)  BY Zenon DEF IndInv
  <2> QED  BY Zenon, <2>2, <2>3, <2>4 DEF HasDisk, RowsStay, DisksStay, DiskOf, Ages
<1>4. \A s \in Slots : Settled(op[s])' \/ (SameMarks(op'[s], op[s]) /\ Calm(op[s]))  BY Zenon, <1>1
<1>5. vms' \in Rows /\ domain' \in Domains /\ disk' \in Disks  BY Zenon DEF RowsStay, DomainsStay, DisksStay
<1> QED  BY Zenon, <1>1, <1>2, <1>3, <1>4, <1>5, Keeps

-----------------------------------------------------------------------------
(* How a step changes the operation of its slot.                           *)
OthersStay(s) == op' \in [Slots -> OpRecords] /\ \A t \in Slots \ {s} : op'[t] = op[t]

Continues(s) == OthersStay(s) /\ OpIsSound(op'[s]) /\ Goes(op'[s], op[s])

Drops(s) == Continues(s) /\ \A x \in HandlerSteps : ~Has(op'[s], x)

Takes(s) ==
  /\ Continues(s)
  /\ op'[s].vm = op[s].vm /\ op'[s].src = op[s].src /\ op'[s].dst = op[s].dst
  /\ \A x : Has(op'[s], x) => Has(op[s], x)
  /\ \A x : Has(op[s], x) => Has(op'[s], x) \/ At(s, x)

LEMMA ContinuesGo ==
  ASSUME IndInv, NEW s \in Slots, Continues(s)
  PROVE  OpsGo /\ \A t \in Slots \ {s} : SameMarks(op'[t], op[t])
BY Zenon DEF Continues, OthersStay, OpsGo, IndInv, Goes, SameMarks

LEMMA DropsSettle ==
  ASSUME NEW s \in Slots, Drops(s)  PROVE Settled(op[s])'
<1>1. ~Has(op'[s], "Prepare") /\ ~Has(op'[s], "Assign") /\ ~Has(op'[s], "Cleanup")
  BY Zenon DEF Drops, HandlerSteps
<1> QED  BY Zenon, <1>1 DEF Settled, Undefined, Received, Moved, Has, InSeq

LEMMA TakesKeeps ==
  ASSUME NEW s \in Slots, Takes(s), ~\E x \in {"Undefine", "Prepare", "Assign", "Cleanup"} : At(s, x)
  PROVE  SameMarks(op'[s], op[s])
BY Zenon DEF Takes, SameMarks

LEMMA IdleIsSound ==
  Idle \in OpRecords /\ OpIsSound(Idle) /\ \A x : ~Has(Idle, x)
<1>1. Idle.todo = <<>> /\ \A x : ~Has(Idle, x)  BY DEF Idle, Has, InSeq
<1>2. InOrder(<<>>)  BY DEF InOrder, Precedes
<1>3. <<>> \in Seq(StepNames)  OBVIOUS
<1>4. Idle \in OpRecords  BY <1>3, MigrationAssumption DEF Idle, OpRecords
<1>5. OpIsSound(Idle)  BY Zenon, <1>1, <1>2 DEF OpIsSound, Idle, Mover
<1> QED  BY Zenon, <1>1, <1>4, <1>5

LEMMA IdleDrops ==
  ASSUME IndInv, NEW s \in Slots, op' = [op EXCEPT ![s] = Idle]  PROVE Drops(s)
<1>1. op'[s] = Idle /\ OthersStay(s)  BY Zenon, IdleIsSound DEF IndInv, OthersStay
<1>2. Goes(Idle, op[s])  BY Zenon DEF Goes, Mover, Idle
<1> QED  BY Zenon, <1>1, <1>2, IdleIsSound DEF Drops, Continues

(* A slot given other steps.                                               *)
LEMMA NewSteps ==
  ASSUME IndInv, NEW s \in Slots, NEW k \in OpRecords, op' = [op EXCEPT ![s] = k],
         k.kind = op[s].kind, k.vm = op[s].vm, k.src = op[s].src, k.dst = op[s].dst, k.pre = op[s].pre,
         InOrder(k.todo), k.todo # <<>> => k.kind # "idle",
         Has(k, "Publish") => k.kind = "migrate", Has(k, "Load") => k.kind = "vm.migrate",
         k.kind # "vm.migrate" => \A x \in HandlerSteps : ~Has(k, x),
         Has(k, "Start") => k.dst \in Nodes,
         k.vm \in Shared => ~Has(k, "Prepare"),
         k.vm \notin Shared => ~Has(k, "Migrate")
  PROVE  Continues(s) /\ op'[s] = k
<1>1. op \in [Slots -> OpRecords] /\ OpIsSound(op[s])  BY Zenon DEF IndInv
<1>2. op'[s] = k /\ OthersStay(s)  BY Zenon, <1>1 DEF OthersStay
<1>3. OpIsSound(k)  BY Zenon, <1>1 DEF OpIsSound, Mover
<1>4. Goes(k, op[s])  BY Zenon DEF Goes, Mover
<1> QED  BY Zenon, <1>2, <1>3, <1>4 DEF Continues

LEMMA GotoIs ==
  ASSUME IndInv, NEW s \in Slots, NEW q \in Seq(StepNames), NEW f \in Statuses \cup {None}, Goto(s, q, f)
  PROVE  \E k \in OpRecords :
           /\ op' = [op EXCEPT ![s] = k] /\ k.todo = q
           /\ k.kind = op[s].kind /\ k.vm = op[s].vm /\ k.src = op[s].src /\ k.dst = op[s].dst
           /\ k.pre = op[s].pre
<1>1. op \in [Slots -> OpRecords]  BY Zenon DEF IndInv
<1>2. PICK k : k = [op[s] EXCEPT !.todo = q, !.from = f]  BY Zenon
<1>3. /\ k \in OpRecords /\ k.todo = q /\ k.kind = op[s].kind /\ k.vm = op[s].vm /\ k.src = op[s].src
      /\ k.dst = op[s].dst /\ k.pre = op[s].pre
  BY Zenon, <1>1, <1>2 DEF OpRecords
<1>4. op' = [op EXCEPT ![s] = k]  BY Zenon, <1>1, <1>2 DEF Goto
<1> QED  BY Zenon, <1>3, <1>4

LEMMA AdvanceTakes ==
  ASSUME IndInv, NEW s \in Slots, op[s].todo # <<>>, Advance(s)
  PROVE  Takes(s)
<1>1. op[s] \in OpRecords /\ OpIsSound(op[s])  BY Zenon DEF IndInv
<1>2. PICK q : q = op[s].todo  BY Zenon
<1>3. q \in Seq(StepNames) /\ q # <<>> /\ op[s].from \in Statuses \cup {None}  BY Zenon, <1>1, <1>2 DEF OpRecords
<1>4. PICK r : r = Tail(q)  BY Zenon
<1>5. /\ r \in Seq(StepNames)
      /\ \A x : (InSeq(r, x) => InSeq(q, x)) /\ (InSeq(q, x) => x = Head(q) \/ InSeq(r, x))
  BY Zenon, <1>3, <1>4, TailHas
<1>6. InOrder(r)  BY Zenon, <1>1, <1>2, <1>3, <1>4, TailOrder DEF OpIsSound, InOrder
<1>7. Goto(s, r, op[s].from)  BY Zenon, <1>2, <1>4 DEF Advance
<1>8. PICK k \in OpRecords :
           /\ op' = [op EXCEPT ![s] = k] /\ k.todo = r
           /\ k.kind = op[s].kind /\ k.vm = op[s].vm /\ k.src = op[s].src /\ k.dst = op[s].dst
           /\ k.pre = op[s].pre
  BY Zenon, <1>3, <1>5, <1>7, GotoIs
<1>9. \A x : (Has(k, x) => Has(op[s], x)) /\ (Has(op[s], x) => Has(k, x) \/ At(s, x))
  BY Zenon, <1>2, <1>3, <1>5, <1>8 DEF Has, At
<1>10. /\ k.kind # "vm.migrate" => \A x \in HandlerSteps : ~Has(k, x)
       /\ Has(k, "Publish") => k.kind = "migrate"
       /\ Has(k, "Load") => k.kind = "vm.migrate"
       /\ k.todo # <<>> => k.kind # "idle"
       /\ Has(k, "Start") => k.dst \in Nodes
       /\ k.vm \in Shared => ~Has(k, "Prepare")
       /\ k.vm \notin Shared => ~Has(k, "Migrate")
  BY Zenon, <1>1, <1>8, <1>9 DEF OpIsSound
<1>11. Continues(s) /\ op'[s] = k  BY Zenon, <1>6, <1>8, <1>10, NewSteps
<1> QED  BY Zenon, <1>8, <1>9, <1>11 DEF Takes

(* Steps that belong to no move.                                           *)
LEMMA Reduced ==
  ASSUME NEW q, q \in {<<"Load">>, <<"Error">>}
  PROVE  /\ q \in Seq(StepNames) /\ InOrder(q)
         /\ \A x : InSeq(q, x) => x \notin HandlerSteps \cup {"Start", "Publish"}
<1>1. Len(q) = 1 /\ q[1] \in {"Load", "Error"}  OBVIOUS
<1>2. <<"Load">> \in Seq(StepNames) /\ <<"Error">> \in Seq(StepNames)  BY DEF StepNames
<1>3. InOrder(q)  BY <1>1 DEF InOrder, Precedes
<1>4. \A x : InSeq(q, x) => x \in {"Load", "Error"}  BY <1>1 DEF InSeq
<1> QED  BY Zenon, <1>2, <1>3, <1>4 DEF HandlerSteps

LEMMA ReducedDrops ==
  ASSUME IndInv, NEW s \in Slots, NEW k \in OpRecords, op' = [op EXCEPT ![s] = k],
         k.kind = op[s].kind, k.vm = op[s].vm, k.src = op[s].src, k.dst = op[s].dst, k.pre = op[s].pre,
         k.todo \in {<<"Load">>, <<"Error">>}, k.kind = "vm.migrate"
  PROVE  Drops(s)
<1>1. InOrder(k.todo) /\ \A x : Has(k, x) => x \notin HandlerSteps \cup {"Start", "Publish"}
  BY Zenon, Reduced DEF Has
<1>2. ~Has(k, "Prepare") /\ ~Has(k, "Migrate") /\ ~Has(k, "Start") /\ ~Has(k, "Publish")
  BY Zenon, <1>1 DEF HandlerSteps
<1>3. Continues(s) /\ op'[s] = k  BY Zenon, <1>1, <1>2, NewSteps
<1> QED  BY Zenon, <1>1, <1>3 DEF Drops

LEMMA FailDrops ==
  ASSUME IndInv, NEW s \in Slots, Fail(s)  PROVE Drops(s)
<1>1. CASE op[s].kind = "vm.migrate" /\ op[s].n < MaxDeliver
  <2>1. op \in [Slots -> OpRecords]  BY Zenon DEF IndInv
  <2>2. PICK k : k = [op[s] EXCEPT !.todo = <<"Load">>, !.from = None, !.n = op[s].n + 1]  BY Zenon
  <2>3. op[s].n + 1 \in 0..MaxDeliver  BY <1>1, <2>1, MigrationAssumption DEF OpRecords
  <2>4. <<"Load">> \in Seq(StepNames)  BY Zenon, Reduced
  <2>5. /\ k \in OpRecords /\ k.todo = <<"Load">> /\ k.kind = op[s].kind /\ k.vm = op[s].vm
        /\ k.src = op[s].src /\ k.dst = op[s].dst /\ k.pre = op[s].pre
    BY ZenonT(60), <2>1, <2>2, <2>3, <2>4 DEF OpRecords
  <2>6. op' = [op EXCEPT ![s] = k]  BY Zenon, <1>1, <2>1, <2>2 DEF Fail
  <2> QED  BY Zenon, <1>1, <2>5, <2>6, ReducedDrops
<1>2. CASE ~(op[s].kind = "vm.migrate" /\ op[s].n < MaxDeliver)
  BY Zenon, <1>2, IdleDrops DEF Fail
<1> QED  BY Zenon, <1>1, <1>2

LEMMA BrokenDrops ==
  ASSUME IndInv, NEW s \in Slots, Broken(s)  PROVE Drops(s)
<1>1. CASE op[s].kind = "vm.migrate"
  <2>1. Goto(s, <<"Error">>, None)  BY Zenon, <1>1 DEF Broken
  <2>2. <<"Error">> \in Seq(StepNames)  BY Zenon, Reduced
  <2>3. PICK k \in OpRecords :
           /\ op' = [op EXCEPT ![s] = k] /\ k.todo = <<"Error">>
           /\ k.kind = op[s].kind /\ k.vm = op[s].vm /\ k.src = op[s].src /\ k.dst = op[s].dst
           /\ k.pre = op[s].pre
    BY Zenon, <2>1, <2>2, GotoIs
  <2> QED  BY Zenon, <1>1, <2>3, ReducedDrops
<1>2. CASE op[s].kind # "vm.migrate"  BY Zenon, <1>2, FailDrops DEF Broken
<1> QED  BY Zenon, <1>1, <1>2

-----------------------------------------------------------------------------
(* What the statements and the calls change.                               *)
LEMMA StatusRows ==
  ASSUME IndInv, NEW v \in VMs, NEW st \in Statuses,
         UpdateStatus(v, st) \/ \E from : TransitionStatus(v, from, st)
  PROVE  RowsStay
<1>1. vms \in Rows  BY Zenon DEF IndInv
<1>2. CASE UNCHANGED vms  BY Zenon, <1>1, <1>2 DEF RowsStay, Visible
<1>3. CASE Visible(v) /\ vms' = [vms EXCEPT ![v].status = st]
  <2>1. vms' \in Rows  BY Zenon, <1>1, <1>3 DEF Rows
  <2>2. \A u \in VMs : vms'[u].node = vms[u].node /\ (u # v => vms'[u] = vms[u])  BY Zenon, <1>1, <1>3 DEF Rows
  <2> QED  BY Zenon, <1>3, <2>1, <2>2 DEF RowsStay, Visible
<1> QED  BY Zenon, <1>2, <1>3 DEF UpdateStatus, TransitionStatus, MayTransition

LEMMA RowsUnchanged == ASSUME IndInv, UNCHANGED vms PROVE RowsStay
BY Zenon DEF IndInv, RowsStay, Visible

LEMMA AgentsUnchanged == ASSUME IndInv, UNCHANGED agentVars PROVE DomainsStay /\ DisksStay
BY Zenon DEF IndInv, DomainsStay, DisksStay, agentVars

LEMMA JobsUnchanged == ASSUME IndInv, UNCHANGED job PROVE JobsStay
BY Zenon DEF IndInv, JobsStay

LEMMA FaultCounts == ASSUME IndInv, Fault \/ UNCHANGED faults PROVE faults' \in Nat
BY DEF IndInv, Fault

LEMMA HistUnchanged == ASSUME IndInv, UNCHANGED hist, faults' \in Nat PROVE Ages
BY Zenon DEF IndInv, Ages

LEMMA FlagAges == ASSUME IndInv, Flag("slipped"), faults' \in Nat PROVE Ages
<1>1. hist \in Histories  BY Zenon DEF IndInv
<1> QED  BY Zenon, <1>1 DEF Ages, Flag, Histories

(* Who takes a step.                                                       *)
LEMMA AtIs ==
  ASSUME IndInv, NEW s \in Slots, NEW x, At(s, x)
  PROVE  /\ op[s].todo # <<>> /\ Has(op[s], x) /\ \A y : At(s, y) => y = x
         /\ op[s].vm \in VMs /\ op[s].src \in Nodes
<1>1. op[s].todo \in Seq(StepNames) /\ op[s].todo # <<>> /\ Head(op[s].todo) = x /\ OpIsSound(op[s])
  BY Zenon DEF IndInv, OpRecords, At
<1>2. 1 \in 1..Len(op[s].todo) /\ op[s].todo[1] = x  BY <1>1
<1> QED  BY Zenon, <1>1, <1>2 DEF Has, InSeq, At, OpIsSound

LEMMA QuietStep ==
  ASSUME IndInv, NEW s \in Slots, NEW x, At(s, x), Takes(s) \/ Drops(s),
         x \notin {"Undefine", "Prepare", "Assign", "Cleanup"},
         Ages, RowsStay, DomainsStay, DisksStay, JobsStay
  PROVE  IndInv'
<1>1. Continues(s)  BY Zenon DEF Takes, Drops
<1>2. \A y : At(s, y) => y = x  BY Zenon, AtIs
<1>3. Settled(op[s])' \/ SameMarks(op'[s], op[s])  BY Zenon, <1>2, DropsSettle, TakesKeeps
<1>4. OpsGo /\ \A t \in Slots \ {s} : SameMarks(op'[t], op[t])  BY Zenon, <1>1, ContinuesGo
<1>5. \A t \in Slots : Settled(op[t])' \/ SameMarks(op'[t], op[t])
  <2> TAKE t \in Slots
  <2>1. CASE t = s  BY Zenon, <1>3, <2>1
  <2>2. CASE t # s  BY Zenon, <1>4, <2>2
  <2> QED  BY Zenon, <2>1, <2>2
<1> QED  BY Zenon, <1>4, <1>5, QuietKeeps

-----------------------------------------------------------------------------
(* The steps that move nothing.                                            *)
LEMMA MarkInv == ASSUME IndInv, NEW s \in Slots, Mark(s) PROVE IndInv'
<1>1. At(s, "Mark") /\ op[s].todo # <<>> /\ op[s].vm \in VMs  BY Zenon, AtIs DEF Mark
<1>2. Advance(s) \/ Fail(s)  BY Zenon DEF Mark
<1>3. Takes(s) \/ Drops(s)  BY Zenon, <1>1, <1>2, AdvanceTakes, FailDrops
<1>4. faults' \in Nat  BY Zenon, FaultCounts DEF Mark
<1>5. Ages  BY Zenon, <1>4, HistUnchanged, FlagAges DEF Mark
<1>6. "migrating" \in Statuses  BY Zenon DEF Statuses
<1>7. RowsStay  BY Zenon, <1>1, <1>6, StatusRows, RowsUnchanged DEF Mark
<1>8. DomainsStay /\ DisksStay /\ JobsStay  BY Zenon, AgentsUnchanged, JobsUnchanged DEF Mark
<1> QED  BY Zenon, <1>1, <1>3, <1>5, <1>7, <1>8, QuietStep

LEMMA PublishInv == ASSUME IndInv, NEW s \in Slots, Publish(s) PROVE IndInv'
<1>1. At(s, "Publish") /\ Has(op[s], "Publish") /\ op[s].vm \in VMs  BY Zenon, AtIs DEF Publish
<1>2. op \in [Slots -> OpRecords] /\ OpIsSound(op[s])  BY Zenon DEF IndInv
<1>3. op[s].kind = "migrate" /\ op[s].pre \in Statuses  BY Zenon, <1>1, <1>2 DEF OpIsSound, Mover
<1>4. Drops(s)
  <2>1. CASE op' = [op EXCEPT ![s].kind = "vm.migrate", ![s].todo = <<"Load">>, ![s].n = 1]
    <3>1. PICK k : k = [op[s] EXCEPT !.kind = "vm.migrate", !.todo = <<"Load">>, !.n = 1]  BY Zenon
    <3>2. <<"Load">> \in Seq(StepNames) /\ InOrder(<<"Load">>)  BY Zenon, Reduced
    <3>0. 1 \in 0..MaxDeliver  BY MigrationAssumption
    <3>3. /\ k \in OpRecords /\ k.todo = <<"Load">> /\ k.kind = "vm.migrate" /\ k.vm = op[s].vm
          /\ k.src = op[s].src /\ k.dst = op[s].dst /\ k.pre = op[s].pre
      BY ZenonT(60), <1>2, <3>0, <3>1, <3>2 DEF OpRecords
    <3>4. op' = [op EXCEPT ![s] = k]  BY Zenon, <1>2, <2>1, <3>1
    <3>5. op'[s] = k /\ OthersStay(s)  BY Zenon, <1>2, <3>3, <3>4 DEF OthersStay
    <3>6. \A x : Has(k, x) => x \notin HandlerSteps \cup {"Start", "Publish"}  BY Zenon, <3>3, Reduced DEF Has
    <3>7. ~Has(k, "Prepare") /\ ~Has(k, "Migrate") /\ ~Has(k, "Start") /\ ~Has(k, "Publish")
      BY Zenon, <3>6 DEF HandlerSteps
    <3>8. OpIsSound(k)  BY Zenon, <1>2, <1>3, <3>2, <3>3, <3>7 DEF OpIsSound, Mover
    <3>9. Goes(k, op[s])  BY Zenon, <1>3, <3>3 DEF Goes, Mover
    <3> QED  BY Zenon, <3>5, <3>6, <3>8, <3>9 DEF Drops, Continues
  <2> QED  BY Zenon, <2>1, FailDrops DEF Publish
<1>5. faults' \in Nat  BY Zenon, FaultCounts DEF Publish
<1>6. Ages  BY Zenon, <1>5, HistUnchanged DEF Publish
<1>7. RowsStay  BY Zenon, <1>1, <1>3, StatusRows, RowsUnchanged DEF Publish
<1>8. DomainsStay /\ DisksStay /\ JobsStay  BY Zenon, AgentsUnchanged, JobsUnchanged DEF Publish
<1> QED  BY Zenon, <1>1, <1>4, <1>6, <1>7, <1>8, QuietStep

LEMMA HandleMigrationFailureInv ==
  ASSUME IndInv, NEW s \in Slots, HandleMigrationFailure(s) PROVE IndInv'
<1>1. At(s, "Error") /\ op[s].vm \in VMs  BY Zenon, AtIs DEF HandleMigrationFailure
<1>2. Drops(s)  BY Zenon, FailDrops DEF HandleMigrationFailure
<1>3. faults' \in Nat  BY Zenon, FaultCounts DEF HandleMigrationFailure
<1>4. Ages  BY Zenon, <1>3, HistUnchanged, FlagAges DEF HandleMigrationFailure
<1>5. "error" \in Statuses  BY Zenon DEF Statuses
<1>6. RowsStay  BY Zenon, <1>1, <1>5, StatusRows, RowsUnchanged DEF HandleMigrationFailure
<1>7. DomainsStay /\ DisksStay /\ JobsStay  BY Zenon, AgentsUnchanged, JobsUnchanged DEF HandleMigrationFailure
<1> QED  BY Zenon, <1>1, <1>2, <1>4, <1>6, <1>7, QuietStep

LEMMA FinalInv == ASSUME IndInv, NEW s \in Slots, Final(s) PROVE IndInv'
<1>1. At(s, "Final") /\ op[s].todo # <<>> /\ op[s].vm \in VMs  BY Zenon, AtIs DEF Final
<1>2. Advance(s) \/ Fail(s)  BY Zenon DEF Final
<1>3. Takes(s) \/ Drops(s)  BY Zenon, <1>1, <1>2, AdvanceTakes, FailDrops
<1>4. faults' \in Nat  BY Zenon, FaultCounts DEF Final
<1>5. Ages  BY Zenon, <1>4, HistUnchanged, FlagAges DEF Final
<1>6. MigrationFinalStatus(op[s].pre) \in Statuses  BY Zenon DEF Statuses, MigrationFinalStatus
<1>7. RowsStay  BY Zenon, <1>1, <1>6, StatusRows, RowsUnchanged DEF Final
<1>8. DomainsStay /\ DisksStay /\ JobsStay  BY Zenon, AgentsUnchanged, JobsUnchanged DEF Final
<1> QED  BY Zenon, <1>1, <1>3, <1>5, <1>7, <1>8, QuietStep

LEMMA RestoreInv == ASSUME IndInv, NEW s \in Slots, Restore(s) PROVE IndInv'
<1>1. At(s, "Restore") /\ op[s].todo # <<>> /\ op[s].vm \in VMs  BY Zenon, AtIs DEF Restore
<1>2. Takes(s)  BY Zenon, <1>1, AdvanceTakes DEF Restore
<1>3. faults' \in Nat  BY Zenon, FaultCounts DEF Restore
<1>4. Ages  BY Zenon, <1>3, HistUnchanged DEF Restore
<1>5. \A t \in Slots : op[t].kind = "vm.migrate" => op[t].pre \in Statuses  BY Zenon DEF IndInv, OpIsSound, Mover
<1>6. \E st \in Statuses : UpdateStatus(op[s].vm, st)  BY Zenon, <1>5 DEF Restore, Statuses
<1>7. RowsStay  BY Zenon, <1>1, <1>6, StatusRows
<1>8. DomainsStay /\ DisksStay /\ JobsStay  BY Zenon, AgentsUnchanged, JobsUnchanged DEF Restore
<1> QED  BY Zenon, <1>1, <1>2, <1>4, <1>7, <1>8, QuietStep

LEMMA SettleInv ==
  ASSUME IndInv, NEW s \in Slots, NEW to \in {"running", "stopped"}, Settle(s, to) PROVE IndInv'
<1>1. At(s, to) /\ op[s].todo # <<>> /\ op[s].vm \in VMs  BY Zenon, AtIs DEF Settle
<1>2. Takes(s)  BY Zenon, <1>1, AdvanceTakes DEF Settle
<1>3. faults' \in Nat  BY Zenon, FaultCounts DEF Settle
<1>4. Ages  BY Zenon, <1>3, HistUnchanged DEF Settle
<1>5. to \in Statuses  BY Zenon DEF Statuses
<1>6. RowsStay  BY Zenon, <1>1, <1>5, StatusRows DEF Settle
<1>7. DomainsStay /\ DisksStay /\ JobsStay  BY Zenon, AgentsUnchanged, JobsUnchanged DEF Settle
<1> QED  BY Zenon, <1>1, <1>2, <1>4, <1>6, <1>7, QuietStep

(* A step that gives up its slot or begins it anew.                        *)
LEMMA DropsInv ==
  ASSUME IndInv, NEW s \in Slots, Drops(s), Ages, UNCHANGED <<vms, agentVars, job>>  PROVE IndInv'
<1>1. RowsStay /\ DomainsStay /\ DisksStay /\ JobsStay  BY Zenon, RowsUnchanged, AgentsUnchanged, JobsUnchanged
<1>2. OpsGo /\ \A t \in Slots \ {s} : SameMarks(op'[t], op[t])  BY Zenon, ContinuesGo DEF Drops
<1>3. Settled(op[s])'  BY Zenon, DropsSettle
<1>4. \A t \in Slots : Settled(op[t])' \/ SameMarks(op'[t], op[t])
  <2> TAKE t \in Slots
  <2>1. CASE t = s  BY Zenon, <1>3, <2>1
  <2>2. CASE t # s  BY Zenon, <1>2, <2>2
  <2> QED  BY Zenon, <2>1, <2>2
<1> QED  BY Zenon, <1>1, <1>2, <1>4, QuietKeeps

LEMMA FinishInv == ASSUME IndInv, NEW s \in Slots, Finish(s) PROVE IndInv'
<1>1. Drops(s)  BY Zenon, IdleDrops DEF Finish
<1>2. Ages  BY Zenon, HistUnchanged, FaultCounts DEF Finish
<1> QED  BY Zenon, <1>1, <1>2, DropsInv DEF Finish

LEMMA InterruptInv == ASSUME IndInv, NEW s \in Slots, Interrupt(s) PROVE IndInv'
<1>1. Drops(s)  BY Zenon, FailDrops DEF Interrupt
<1>2. hist \in Histories /\ faults' \in Nat  BY Zenon, FaultCounts DEF IndInv, Interrupt
<1>3. Ages  BY Zenon, <1>2 DEF Interrupt, Ages, Histories, At
<1> QED  BY Zenon, <1>1, <1>3, DropsInv DEF Interrupt

LEMMA TransferSnapshotInv == ASSUME IndInv, NEW s \in Slots, TransferSnapshot(s) PROVE IndInv'
<1>1. Drops(s)  BY Zenon, BrokenDrops DEF TransferSnapshot
<1>2. Ages  BY Zenon, HistUnchanged, FaultCounts DEF TransferSnapshot
<1> QED  BY Zenon, <1>1, <1>2, DropsInv DEF TransferSnapshot

LEMMA DefineDomains ==
  ASSUME IndInv, NEW n \in Nodes, NEW v \in VMs, NEW d \in {"absent", "shutoff", "running"}, Define(n, v, d)
  PROVE  /\ domain' \in Domains /\ domain'[n][v] = d
         /\ \A m \in Nodes, u \in VMs : m # n \/ u # v => domain'[m][u] = domain[m][u]
<1>1. domain \in Domains  BY Zenon DEF IndInv
<1> QED  BY Zenon, <1>1 DEF Domains, Define

LEMMA DefineStays ==
  ASSUME IndInv, NEW n \in Nodes, NEW v \in VMs, NEW d \in {"absent", "shutoff", "running"}, Define(n, v, d),
         d = "absent" \/ domain[n][v] # "absent"
  PROVE  DomainsStay
<1>1. /\ domain' \in Domains /\ domain'[n][v] = d
      /\ \A m \in Nodes, u \in VMs : m # n \/ u # v => domain'[m][u] = domain[m][u]
  BY DefineDomains
<1> QED  BY Zenon, <1>1 DEF DomainsStay

(* A call of an agent that leaves the domains and the disks where they are.*)
LEMMA QuietCall ==
  ASSUME IndInv, NEW s \in Slots, NEW x, At(s, x), x \notin {"Undefine", "Prepare", "Assign", "Cleanup"},
         Advance(s) \/ Broken(s), Fault \/ UNCHANGED faults, UNCHANGED <<vms, job, hist>>,
         DomainsStay, DisksStay
  PROVE  IndInv'
<1>1. op[s].todo # <<>>  BY Zenon, AtIs
<1>2. Takes(s) \/ Drops(s)  BY Zenon, <1>1, AdvanceTakes, BrokenDrops
<1>3. Ages /\ RowsStay /\ JobsStay  BY Zenon, FaultCounts, HistUnchanged, RowsUnchanged, JobsUnchanged
<1> QED  BY Zenon, <1>2, <1>3, QuietStep

LEMMA StopInv == ASSUME IndInv, NEW s \in Slots, Stop(s) PROVE IndInv'
<1>1. At(s, "Stop") /\ op[s].vm \in VMs /\ op[s].src \in Nodes  BY Zenon, AtIs DEF Stop
<1>2. (Advance(s) \/ Broken(s)) /\ (Fault \/ UNCHANGED faults) /\ UNCHANGED <<vms, job, hist>>
  BY Zenon DEF Stop, AgentCall
<1>3. UNCHANGED agentVars \/ StopVM(op[s].src, op[s].vm)  BY Zenon DEF Stop, AgentCall
<1>4. CASE UNCHANGED agentVars  BY Zenon, <1>1, <1>2, <1>4, AgentsUnchanged, QuietCall
<1>5. CASE StopVM(op[s].src, op[s].vm)
  <2>1. DomainsStay  BY Zenon, <1>1, <1>5, DefineStays DEF StopVM
  <2>2. DisksStay  BY Zenon, <1>5 DEF StopVM, DisksStay, IndInv
  <2> QED  BY Zenon, <1>1, <1>2, <2>1, <2>2, QuietCall
<1> QED  BY Zenon, <1>3, <1>4, <1>5

LEMMA StartInv == ASSUME IndInv, NEW s \in Slots, Start(s) PROVE IndInv'
<1>1. At(s, "Start") /\ Has(op[s], "Start") /\ op[s].vm \in VMs  BY Zenon, AtIs DEF Start
<1>2. op[s].dst \in Nodes  BY Zenon, <1>1 DEF IndInv, OpIsSound
<1>3. (Advance(s) \/ Broken(s)) /\ (Fault \/ UNCHANGED faults) /\ UNCHANGED <<vms, job, hist>>
  BY Zenon DEF Start, AgentCall
<1>4. UNCHANGED agentVars \/ StartVM(op[s].dst, op[s].vm)  BY Zenon DEF Start, AgentCall
<1>5. CASE UNCHANGED agentVars  BY Zenon, <1>1, <1>3, <1>5, AgentsUnchanged, QuietCall
<1>6. CASE StartVM(op[s].dst, op[s].vm)
  <2>1. domain[op[s].dst][op[s].vm] # "absent"  BY Zenon, <1>6 DEF StartVM, MayStart
  <2>2. DomainsStay  BY Zenon, <1>1, <1>2, <1>6, <2>1, DefineStays DEF StartVM
  <2>3. DisksStay  BY Zenon, <1>6 DEF StartVM, DisksStay, IndInv
  <2> QED  BY Zenon, <1>1, <1>3, <2>2, <2>3, QuietCall
<1> QED  BY Zenon, <1>4, <1>5, <1>6

LEMMA SnapshotInv == ASSUME IndInv, NEW s \in Slots, Snapshot(s) PROVE IndInv'
<1>1. At(s, "Snapshot")  BY Zenon DEF Snapshot
<1>2. (Advance(s) \/ Broken(s)) /\ (Fault \/ UNCHANGED faults) /\ UNCHANGED <<vms, agentVars, job, hist>>
  BY Zenon DEF Snapshot, AgentCall
<1> QED  BY Zenon, <1>1, <1>2, AgentsUnchanged, QuietCall

LEMMA TransferInv == ASSUME IndInv, NEW s \in Slots, Transfer(s) PROVE IndInv'
<1>1. At(s, "Transfer") /\ Has(op[s], "Transfer") /\ op[s].vm \in VMs /\ op[s].src \in Nodes
  BY Zenon, AtIs DEF Transfer
<1>2. op[s].dst \in Nodes  BY Zenon, <1>1 DEF IndInv, OpIsSound, HandlerSteps, Mover
<1>3. (Advance(s) \/ Broken(s)) /\ (Fault \/ UNCHANGED faults) /\ UNCHANGED <<vms, job, hist>>
  BY Zenon DEF Transfer, AgentCall
<1>4. PICK v : v = op[s].vm  BY Zenon
<1>5. \/ UNCHANGED agentVars
      \/ DiskOf(op[s].src, v) # NoDisk /\ ReceiveDisk(op[s].dst, v, DiskOf(op[s].src, v))
  BY Zenon, <1>4 DEF Transfer, AgentCall
<1>6. CASE UNCHANGED agentVars  BY Zenon, <1>1, <1>3, <1>6, AgentsUnchanged, QuietCall
<1>7. CASE DiskOf(op[s].src, v) # NoDisk /\ ReceiveDisk(op[s].dst, v, DiskOf(op[s].src, v))
  <2>1. Place(op[s].src, v) \in Places  BY <1>1, <1>4 DEF Places
  <2>2. DiskOf(op[s].src, v) = "data"  BY Zenon, <1>1, <1>4, <1>7, <2>1 DEF DiskOf, IndInv, Disks
  <2>3. disk \in Disks /\ disk' = [disk EXCEPT ![Place(op[s].dst, v)][v] = "data"]
    BY Zenon, <1>7, <2>2 DEF ReceiveDisk, IndInv
  <2>4. DisksStay  BY Zenon, <2>3, MigrationAssumption DEF DisksStay, Disks
  <2>5. DomainsStay  BY Zenon, <1>7 DEF ReceiveDisk, DomainsStay, IndInv
  <2> QED  BY Zenon, <1>1, <1>3, <2>4, <2>5, QuietCall
<1> QED  BY Zenon, <1>5, <1>6, <1>7

LEMMA MigrateInv == ASSUME IndInv, NEW s \in Slots, Migrate(s) PROVE IndInv'
<1>1. At(s, "Migrate") /\ Has(op[s], "Migrate") /\ op[s].todo # <<>> /\ op[s].vm \in VMs /\ op[s].src \in Nodes
  BY Zenon, AtIs DEF Migrate
<1>2. op[s] \in OpRecords /\ OpIsSound(op[s])  BY Zenon DEF IndInv
<1>3. /\ op[s].kind = "vm.migrate" /\ op[s].vm \in Shared /\ op[s].dst \in Nodes /\ op[s].src # op[s].dst
  BY Zenon, <1>1, <1>2 DEF OpIsSound, HandlerSteps, Mover
<1>4. CASE Broken(s) /\ UNCHANGED job
  <2>1. Drops(s)  BY Zenon, <1>4, BrokenDrops
  <2>2. Ages  BY Zenon, HistUnchanged, FaultCounts DEF Migrate
  <2> QED  BY Zenon, <1>4, <2>1, <2>2, DropsInv DEF Migrate
<1>5. CASE /\ job' = [job EXCEPT ![op[s].vm] = [by |-> s, src |-> op[s].src, dst |-> op[s].dst]]
           /\ Goto(s, <<"Await">> \o Tail(op[s].todo), None) /\ UNCHANGED faults
  <2>1. PICK q : q = op[s].todo  BY Zenon
  <2>2. q \in Seq(StepNames) /\ q # <<>> /\ Head(q) = "Migrate" /\ InOrder(q)
    BY Zenon, <1>1, <1>2, <2>1 DEF OpRecords, At, OpIsSound
  <2>3. PICK w : w = <<"Await">>  BY Zenon
  <2>4. w \in Seq(StepNames)  BY <2>3 DEF StepNames
  <2>5. Len(w) = 1 /\ w[1] = "Await"  BY Zenon, <2>3
  <2>6. InOrder(w) /\ \A x : InSeq(w, x) => x = "Await"  BY <2>5 DEF InOrder, Precedes, InSeq
  <2>7. PICK r : r = Tail(q)  BY Zenon
  <2>8. /\ r \in Seq(StepNames)
        /\ \A x : (InSeq(r, x) => InSeq(q, x)) /\ (InSeq(q, x) => x = "Migrate" \/ InSeq(r, x))
    BY Zenon, <2>2, <2>7, TailHas
  <2>9. InOrder(r)  BY Zenon, <2>2, <2>7, TailOrder DEF InOrder
  <2>10. PICK z : z = w \o r  BY Zenon
  <2>11. z \in Seq(StepNames) /\ \A x : InSeq(z, x) <=> InSeq(w, x) \/ InSeq(r, x)
    BY Zenon, <2>4, <2>8, <2>10, ConcatHas
  <2>12. InOrder(z)  BY Zenon, <2>4, <2>6, <2>8, <2>9, <2>10, ConcatOrder DEF InOrder
  <2>13. PICK k \in OpRecords :
           /\ op' = [op EXCEPT ![s] = k] /\ k.todo = z
           /\ k.kind = op[s].kind /\ k.vm = op[s].vm /\ k.src = op[s].src /\ k.dst = op[s].dst
           /\ k.pre = op[s].pre
    BY Zenon, <1>5, <2>1, <2>3, <2>7, <2>10, <2>11, GotoIs
  <2>14. \A x : /\ Has(k, x) => x = "Await" \/ Has(op[s], x)
                /\ Has(op[s], x) => x = "Migrate" \/ Has(k, x)
    BY Zenon, <2>1, <2>6, <2>8, <2>11, <2>13 DEF Has
  <2>15. /\ Has(k, "Publish") => k.kind = "migrate"
         /\ ~Has(k, "Prepare") /\ InOrder(k.todo)
         /\ k.kind = "vm.migrate" /\ k.kind # "idle" /\ k.vm \in Shared /\ k.dst \in Nodes
    BY Zenon, <1>2, <1>3, <2>12, <2>13, <2>14 DEF OpIsSound
  <2>16. Continues(s) /\ op'[s] = k  BY Zenon, <2>13, <2>15, NewSteps
  <2>17. SameMarks(op'[s], op[s])  BY Zenon, <2>13, <2>14, <2>16 DEF SameMarks
  <2>18. OpsGo /\ \A t \in Slots \ {s} : SameMarks(op'[t], op[t])  BY Zenon, <2>16, ContinuesGo
  <2>19. \A t \in Slots : SameMarks(op'[t], op[t])  BY Zenon, <2>17, <2>18
  <2>20. JobsStay  BY Zenon, <1>1, <1>3, <1>5 DEF JobsStay, IndInv, Jobs
  <2>21. Ages /\ RowsStay /\ DomainsStay /\ DisksStay
    BY Zenon, <1>5, HistUnchanged, FaultCounts, RowsUnchanged, AgentsUnchanged DEF Migrate
  <2> QED  BY Zenon, <2>18, <2>19, <2>20, <2>21, QuietKeeps
<1> QED  BY Zenon, <1>4, <1>5 DEF Migrate

(* The first step of the handler: all of the move is still to come.        *)
LEMMA LoadInv == ASSUME IndInv, NEW s \in Slots, Load(s) PROVE IndInv'
<1>1. At(s, "Load") /\ Has(op[s], "Load") /\ op[s].vm \in VMs  BY Zenon, AtIs DEF Load
<1>2. op[s] \in OpRecords /\ OpIsSound(op[s])  BY Zenon DEF IndInv
<1>3. op[s].kind = "vm.migrate" /\ op[s].dst \in Nodes  BY Zenon, <1>1, <1>2 DEF OpIsSound, Mover
<1>4. PICK q : q = ExecuteMigrationStrategy(op[s].vm, vms[op[s].vm].status, op[s].live, op[s].pre)
                     \o FinalizeMigration
  BY Zenon
<1>5. /\ q \in Seq(StepNames) /\ InOrder(q) /\ InSeq(q, "Assign") /\ ~InSeq(q, "Publish")
      /\ op[s].vm \in Shared => ~InSeq(q, "Prepare")
      /\ op[s].vm \notin Shared => ~InSeq(q, "Migrate") /\ InSeq(q, "Undefine") /\ InSeq(q, "Prepare")
  BY Zenon, <1>4, LoadHas
<1>6. Ages  BY Zenon, HistUnchanged, FaultCounts DEF Load
<1>7. "migrating" \in Statuses  BY Zenon DEF Statuses
<1>8. RowsStay  BY Zenon, <1>1, <1>7, StatusRows, RowsUnchanged DEF Load
<1>9. DomainsStay /\ DisksStay /\ JobsStay  BY Zenon, AgentsUnchanged, JobsUnchanged DEF Load
<1>10. CASE Fail(s)  BY Zenon, <1>1, <1>6, <1>8, <1>9, <1>10, FailDrops, QuietStep
<1>11. CASE Goto(s, q, None)
  <2>1. PICK k \in OpRecords :
           /\ op' = [op EXCEPT ![s] = k] /\ k.todo = q
           /\ k.kind = op[s].kind /\ k.vm = op[s].vm /\ k.src = op[s].src /\ k.dst = op[s].dst
           /\ k.pre = op[s].pre
    BY Zenon, <1>5, <1>11, GotoIs
  <2>2. /\ InOrder(k.todo) /\ Has(k, "Assign") /\ k.kind = "vm.migrate" /\ k.kind # "idle" /\ k.dst \in Nodes
        /\ k.vm \in Shared => ~Has(k, "Prepare")
        /\ k.vm \notin Shared => ~Has(k, "Migrate") /\ Has(k, "Undefine") /\ Has(k, "Prepare")
    BY Zenon, <1>3, <1>5, <2>1 DEF Has
  <2>3. ~Has(k, "Publish")  BY Zenon, <1>5, <2>1 DEF Has
  <2>4. Continues(s) /\ op'[s] = k  BY Zenon, <2>1, <2>2, <2>3, NewSteps
  <2>5. Settled(k)'  BY Zenon, <2>2 DEF Settled, Undefined, Received, Moved
  <2>6. Settled(op[s])'  BY Zenon, <2>4, <2>5 DEF Settled, Undefined, Received, Moved, Has, DiskOf
  <2>7. OpsGo /\ \A t \in Slots \ {s} : SameMarks(op'[t], op[t])  BY Zenon, <2>4, ContinuesGo
  <2>8. \A t \in Slots : Settled(op[t])' \/ SameMarks(op'[t], op[t])
    <3> TAKE t \in Slots
    <3>1. CASE t = s  BY Zenon, <2>6, <3>1
    <3>2. CASE t # s  BY Zenon, <2>7, <3>2
    <3> QED  BY Zenon, <3>1, <3>2
  <2> QED  BY Zenon, <1>6, <1>8, <1>9, <2>7, <2>8, QuietKeeps
<1> QED  BY Zenon, <1>4, <1>10, <1>11 DEF Load

-----------------------------------------------------------------------------
(* The steps that move something.                                          *)
LEMMA MarksApart ==
  ASSUME IndInv, NEW s \in Slots, NEW x \in {"Undefine", "Prepare", "Assign", "Cleanup"}, At(s, x)
  PROVE  /\ op[s].todo # <<>> /\ Has(op[s], x) /\ op[s].kind = "vm.migrate"
         /\ op[s].vm \in VMs /\ op[s].src \in Nodes /\ op[s].dst \in Nodes /\ op[s].src # op[s].dst
         /\ x = "Prepare" => ~Has(op[s], "Undefine") /\ op[s].vm \notin Shared
         /\ x = "Assign" => ~Has(op[s], "Prepare")
         /\ x = "Cleanup" => ~Has(op[s], "Assign")
<1>1. op[s] \in OpRecords /\ OpIsSound(op[s])  BY Zenon DEF IndInv
<1>2. /\ op[s].todo # <<>> /\ Has(op[s], x) /\ op[s].vm \in VMs /\ op[s].src \in Nodes
  BY Zenon, AtIs
<1>3. op[s].kind = "vm.migrate"  BY Zenon, <1>1, <1>2 DEF OpIsSound, HandlerSteps
<1>4. op[s].dst \in Nodes /\ op[s].src # op[s].dst  BY Zenon, <1>1, <1>3 DEF OpIsSound, Mover
<1>5. op[s].todo \in Seq(StepNames) /\ Head(op[s].todo) = x /\ InOrder(op[s].todo)
  BY Zenon, <1>1 DEF OpRecords, At, OpIsSound
<1>6. /\ x = "Prepare" => ~Has(op[s], "Undefine")
      /\ x = "Assign" => ~Has(op[s], "Prepare")
      /\ x = "Cleanup" => ~Has(op[s], "Assign")
  BY Zenon, <1>2, <1>5, TailOrder DEF InOrder, Has
<1>7. x = "Prepare" => op[s].vm \notin Shared  BY Zenon, <1>1, <1>2 DEF OpIsSound
<1> QED  BY Zenon, <1>2, <1>3, <1>4, <1>6, <1>7

LEMMA UndefineInv == ASSUME IndInv, NEW s \in Slots, Undefine(s) PROVE IndInv'
<1>1. At(s, "Undefine")  BY Zenon DEF Undefine
<1>2. op[s].todo # <<>> /\ op[s].vm \in VMs /\ op[s].src \in Nodes /\ op[s].dst \in Nodes  BY Zenon, <1>1, MarksApart
<1>3. Advance(s) /\ (Fault \/ UNCHANGED faults) /\ UNCHANGED <<vms, job>>  BY Zenon DEF Undefine, AgentCall
<1>4. Takes(s)  BY Zenon, <1>2, <1>3, AdvanceTakes
<1>5. faults' \in Nat /\ hist \in Histories  BY Zenon, <1>3, FaultCounts DEF IndInv
<1>6. Ages  BY Zenon, <1>5 DEF Ages, Undefine, Histories
<1>7. RowsStay /\ JobsStay  BY Zenon, <1>3, RowsUnchanged, JobsUnchanged
<1>8. UNCHANGED agentVars \/ UndefineVM(op[s].src, op[s].vm)  BY Zenon DEF Undefine, AgentCall
<1>9. DomainsStay /\ DisksStay /\ UNCHANGED disk
  <2>1. CASE UNCHANGED agentVars  BY Zenon, <2>1, AgentsUnchanged DEF agentVars
  <2>2. CASE UndefineVM(op[s].src, op[s].vm)
    BY Zenon, <1>2, <2>2, DefineStays DEF UndefineVM, DisksStay, IndInv
  <2> QED  BY Zenon, <1>8, <2>1, <2>2
<1>10. hist'.left \/ domain'[op[s].src][op[s].vm] = "absent"
  <2>1. CASE UNCHANGED faults
    <3>1. UndefineVM(op[s].src, op[s].vm)  BY <2>1 DEF Undefine, AgentCall, Fault, IndInv
    <3> QED  BY Zenon, <1>2, <3>1, DefineDomains DEF UndefineVM
  <2>2. CASE faults' # faults  BY Zenon, <1>5, <2>2 DEF Undefine, Histories
  <2> QED  BY Zenon, <2>1, <2>2
<1>11. PICK k : k = op'[s]  BY Zenon
<1>12. /\ k.vm = op[s].vm /\ k.src = op[s].src /\ k.dst = op[s].dst
       /\ \A x \in {"Prepare", "Assign", "Cleanup"} : Has(k, x) <=> Has(op[s], x)
  BY Zenon, <1>1, <1>4, <1>11, AtIs DEF Takes
<1>13. Settled(op[s])  BY Zenon DEF IndInv
<1>14. Settled(k)'
  <2>1. Undefined(k)'  BY Zenon, <1>10, <1>12 DEF Undefined
  <2>2. Received(k)'  BY Zenon, <1>6, <1>9, <1>12, <1>13 DEF Settled, Received, Ages, DiskOf, Place
  <2>3. Moved(k)'  BY Zenon, <1>3, <1>6, <1>12, <1>13 DEF Settled, Moved, Ages
  <2> QED  BY Zenon, <2>1, <2>2, <2>3 DEF Settled
<1>15. Settled(op[s])'  BY Zenon, <1>11, <1>14 DEF Settled, Undefined, Received, Moved, Has, DiskOf
<1>16. OpsGo /\ \A t \in Slots \ {s} : SameMarks(op'[t], op[t])  BY Zenon, <1>4, ContinuesGo DEF Takes
<1>17. \A t \in Slots : Settled(op[t])' \/ SameMarks(op'[t], op[t])
  <2> TAKE t \in Slots
  <2>1. CASE t = s  BY Zenon, <1>15, <2>1
  <2>2. CASE t # s  BY Zenon, <1>16, <2>2
  <2> QED  BY Zenon, <2>1, <2>2
<1> QED  BY Zenon, <1>6, <1>7, <1>9, <1>16, <1>17, QuietKeeps

(* The new domain: that of the source is gone, and every other migration   *)
(* of the VM goes the same way.                                            *)
LEMMA PrepareDefines ==
  ASSUME IndInv, NEW s \in Slots, At(s, "Prepare"), Define(op[s].dst, op[s].vm, "running"),
         DiskOf(op[s].dst, op[s].vm) # NoDisk, Takes(s) \/ Drops(s),
         Fault \/ UNCHANGED faults, UNCHANGED <<vms, disk, job, hist>>
  PROVE  IndInv'
<1>1. /\ op[s].todo # <<>> /\ Has(op[s], "Prepare") /\ op[s].kind = "vm.migrate"
      /\ op[s].vm \in VMs /\ op[s].src \in Nodes /\ op[s].dst \in Nodes /\ op[s].src # op[s].dst
      /\ ~Has(op[s], "Undefine") /\ op[s].vm \notin Shared
  BY Zenon, MarksApart
<1>2. PICK v, m, n : v = op[s].vm /\ m = op[s].src /\ n = op[s].dst  BY Zenon
<1>3. v \in VMs /\ v \notin Shared /\ m \in Nodes /\ n \in Nodes /\ m # n  BY Zenon, <1>1, <1>2
<1>4. /\ domain' \in Domains
      /\ \A p \in Nodes, u \in VMs : p # n \/ u # v => domain'[p][u] = domain[p][u]
  BY <1>2, <1>3, DefineDomains
<1>5. Settled(op[s]) /\ Between(op[s])  BY Zenon DEF IndInv
<1>6. ~hist.left /\ ~hist.parted => domain[m][v] = "absent"  BY Zenon, <1>1, <1>2, <1>5 DEF Settled, Undefined
<1>7. ~hist.parted => \A p \in Nodes : domain[p][v] # "absent" => p \in {m, n}
  BY Zenon, <1>1, <1>2, <1>3, <1>5 DEF Between, Mover
<1>8. Ages /\ JobsStay  BY Zenon, FaultCounts, HistUnchanged, JobsUnchanged
<1>9. Continues(s)  BY Zenon DEF Takes, Drops
<1>10. OpsGo /\ \A t \in Slots \ {s} : SameMarks(op'[t], op[t])  BY Zenon, <1>9, ContinuesGo
<1>11. Settled(op[s])'
  <2>1. CASE Drops(s)  BY Zenon, <2>1, DropsSettle
  <2>2. CASE Takes(s)
    <3>1. PICK k : k = op'[s]  BY Zenon
    <3>2. /\ k.vm = v /\ k.src = m /\ k.dst = n
          /\ \A x \in {"Assign", "Cleanup"} : Has(k, x) <=> Has(op[s], x)
      BY Zenon, <1>2, <2>2, <3>1, AtIs DEF Takes
    <3>3. Undefined(k)'  BY Zenon, <1>3, <1>4, <1>6, <3>2 DEF Undefined
    <3>4. Received(k)'  BY Zenon, <1>2, <3>2 DEF Received, DiskOf, Place
    <3>5. Moved(k)'  BY Zenon, <1>2, <1>5, <3>2 DEF Settled, Moved
    <3> QED  BY Zenon, <3>1, <3>3, <3>4, <3>5 DEF Settled, Undefined, Received, Moved, Has, DiskOf
  <2> QED  BY Zenon, <2>1, <2>2
<1>12. ASSUME NEW t \in Slots PROVE Calm(op[t]) /\ StaysBetween(op[t])
  <2>1. PICK o : o = op[t]  BY Zenon
  <2>2. OpIsSound(o) /\ Between(o) /\ Agree(op[s], o)  BY Zenon, <2>1 DEF IndInv
  <2>3. Mover(o) /\ o.vm = v /\ ~hist.parted => o.src = m /\ o.dst = n
    BY Zenon, <1>1, <1>2, <2>2 DEF Agree, Mover
  <2>4. Mover(o) => o.vm \in VMs /\ o.src \in Nodes /\ o.dst \in Nodes  BY Zenon, <2>2 DEF OpIsSound, Mover
  <2>5. Has(o, "Prepare") => Mover(o)  BY Zenon, <2>2 DEF OpIsSound, HandlerSteps, Mover
  <2>6. Calm(o)  BY Zenon, <1>3, <1>4, <2>3, <2>4, <2>5 DEF Calm, DiskOf, Place
  <2>7. StaysBetween(o)  BY Zenon, <1>3, <1>4, <2>2, <2>3, <2>4 DEF StaysBetween, Between
  <2> QED  BY Zenon, <2>1, <2>6, <2>7
<1>13. \A t \in Slots : Settled(op[t])' \/ (SameMarks(op'[t], op[t]) /\ Calm(op[t]))
  <2> TAKE t \in Slots
  <2>1. CASE t = s  BY Zenon, <1>11, <2>1
  <2>2. CASE t # s  BY Zenon, <1>10, <1>12, <2>2
  <2> QED  BY Zenon, <2>1, <2>2
<1>14. ASSUME NEW u \in VMs PROVE DefinedOnce(u)' /\ HasDisk(u)'
  <2>1. DefinedOnce(u) /\ HasDisk(u)  BY Zenon DEF IndInv
  <2>2. HasDisk(u)'  BY Zenon, <2>1 DEF HasDisk, Visible, DiskOf, Place
  <2>3. CASE u # v  BY Zenon, <1>4, <2>1, <2>2, <2>3 DEF DefinedOnce
  <2>4. CASE u = v
    <3>1. ~hist.left /\ ~hist.parted => \A p \in Nodes : domain'[p][v] # "absent" => p = n
      BY Zenon, <1>3, <1>4, <1>6, <1>7
    <3> QED  BY Zenon, <1>3, <2>2, <2>4, <3>1 DEF DefinedOnce
  <2> QED  BY Zenon, <2>3, <2>4
<1>15. vms' \in Rows /\ disk' \in Disks  BY Zenon DEF IndInv
<1> QED  BY Zenon, <1>4, <1>8, <1>10, <1>12, <1>13, <1>14, <1>15, Keeps

LEMMA PrepareInv == ASSUME IndInv, NEW s \in Slots, Prepare(s) PROVE IndInv'
<1>1. At(s, "Prepare") /\ op[s].todo # <<>>  BY Zenon, AtIs DEF Prepare
<1>2. (Fault \/ UNCHANGED faults) /\ UNCHANGED <<vms, job, hist>>  BY Zenon DEF Prepare, AgentCall
<1>3. CASE Broken(s) /\ UNCHANGED agentVars
  <2>1. Drops(s) /\ Ages  BY Zenon, <1>2, <1>3, BrokenDrops, FaultCounts, HistUnchanged
  <2> QED  BY Zenon, <1>2, <1>3, <2>1, DropsInv
<1>4. CASE /\ Define(op[s].dst, op[s].vm, "running") /\ UNCHANGED disk
           /\ DiskOf(op[s].dst, op[s].vm) # NoDisk /\ (Advance(s) \/ Broken(s))
  <2>1. Takes(s) \/ Drops(s)  BY Zenon, <1>1, <1>4, AdvanceTakes, BrokenDrops
  <2> QED  BY Zenon, <1>1, <1>2, <1>4, <2>1, PrepareDefines
<1> QED  BY Zenon, <1>3, <1>4 DEF Prepare, AgentCall

(* The new node: the disk is there, and no other migration is to delete it.*)
LEMMA AssignMoves ==
  ASSUME IndInv, NEW s \in Slots, At(s, "Assign"), Visible(op[s].vm),
         vms' = [vms EXCEPT ![op[s].vm].node = op[s].dst], Takes(s),
         UNCHANGED <<agentVars, job, faults, hist>>
  PROVE  IndInv'
<1>1. /\ Has(op[s], "Assign") /\ op[s].kind = "vm.migrate" /\ ~Has(op[s], "Prepare")
      /\ op[s].vm \in VMs /\ op[s].src \in Nodes /\ op[s].dst \in Nodes /\ op[s].src # op[s].dst
  BY Zenon, MarksApart
<1>2. PICK v, m, n : v = op[s].vm /\ m = op[s].src /\ n = op[s].dst  BY Zenon
<1>3. v \in VMs /\ m \in Nodes /\ n \in Nodes /\ m # n  BY Zenon, <1>1, <1>2
<1>4. vms \in Rows /\ vms' = [vms EXCEPT ![v].node = n]  BY Zenon, <1>2 DEF IndInv
<1>5. /\ vms' \in Rows /\ vms'[v].node = n /\ vms'[v].status = vms[v].status
      /\ \A u \in VMs \ {v} : vms'[u] = vms[u]
  <2>1. PICK w : w = [vms[v] EXCEPT !.node = n]  BY Zenon
  <2>2. w \in [status : Statuses \cup {"none"}, node : Nodes] /\ w.node = n /\ w.status = vms[v].status
    BY <1>3, <1>4, <2>1 DEF Rows
  <2>3. vms' = [vms EXCEPT ![v] = w]  BY Zenon, <1>3, <1>4, <2>1 DEF Rows
  <2>4. vms'[v] = w /\ \A u \in VMs \ {v} : vms'[u] = vms[u]  BY Zenon, <1>3, <1>4, <2>3 DEF Rows
  <2>5. vms' \in Rows  BY Zenon, <1>4, <2>2, <2>3 DEF Rows
  <2> QED  BY Zenon, <2>2, <2>4, <2>5
<1>6. Ages /\ JobsStay  BY Zenon, FaultCounts, HistUnchanged, JobsUnchanged
<1>7. OpsGo /\ \A t \in Slots \ {s} : SameMarks(op'[t], op[t])  BY Zenon, ContinuesGo DEF Takes
<1>8. domain' = domain /\ disk' = disk  BY Zenon DEF agentVars
<1>9. Settled(op[s])  BY Zenon DEF IndInv
<1>10. Settled(op[s])'
  <2>1. PICK k : k = op'[s]  BY Zenon
  <2>2. /\ k.vm = v /\ k.src = m /\ k.dst = n
        /\ \A x \in {"Undefine", "Prepare"} : Has(k, x) <=> Has(op[s], x)
    BY Zenon, <1>2, <2>1, AtIs DEF Takes
  <2>3. Undefined(k)'  BY Zenon, <1>2, <1>8, <1>9, <2>2 DEF Settled, Undefined
  <2>4. Received(k)'  BY Zenon, <1>1, <1>2, <1>8, <1>9, <2>2 DEF Settled, Received, DiskOf, Place
  <2>5. Moved(k)'  BY Zenon, <1>3, <1>5, <2>2 DEF Moved
  <2> QED  BY Zenon, <2>1, <2>3, <2>4, <2>5 DEF Settled, Undefined, Received, Moved, Has, DiskOf
<1>11. ASSUME NEW t \in Slots PROVE Calm(op[t]) /\ StaysBetween(op[t])
  <2>1. PICK o : o = op[t]  BY Zenon
  <2>2. OpIsSound(o) /\ Between(o) /\ Agree(op[s], o)  BY Zenon, <2>1 DEF IndInv
  <2>3. /\ Mover(o) /\ o.vm = v /\ ~hist.crossed => n # o.src
        /\ Mover(o) /\ o.vm = v /\ ~hist.parted /\ v \notin Shared => o.dst = n
    BY Zenon, <1>1, <1>2, <2>2 DEF Agree, Mover
  <2>4. Mover(o) => o.vm \in VMs  BY Zenon, <2>2 DEF OpIsSound, Mover
  <2>5. Has(o, "Cleanup") => Mover(o)  BY Zenon, <2>2 DEF OpIsSound, HandlerSteps, Mover
  <2>6. Calm(o)  BY Zenon, <1>5, <1>8, <2>3, <2>4, <2>5 DEF Calm, DiskOf, Place
  <2>7. StaysBetween(o)  BY Zenon, <1>5, <1>8, <2>2, <2>3, <2>4 DEF StaysBetween, Between
  <2> QED  BY Zenon, <2>1, <2>6, <2>7
<1>12. \A t \in Slots : Settled(op[t])' \/ (SameMarks(op'[t], op[t]) /\ Calm(op[t]))
  <2> TAKE t \in Slots
  <2>1. CASE t = s  BY Zenon, <1>10, <2>1
  <2>2. CASE t # s  BY Zenon, <1>7, <1>11, <2>2
  <2> QED  BY Zenon, <2>1, <2>2
<1>13. ASSUME NEW u \in VMs PROVE DefinedOnce(u)' /\ HasDisk(u)'
  <2>1. DefinedOnce(u) /\ HasDisk(u)  BY Zenon DEF IndInv
  <2>2. DefinedOnce(u)'  BY Zenon, <1>8, <2>1 DEF DefinedOnce
  <2>3. CASE u # v  BY Zenon, <1>5, <1>8, <2>1, <2>2, <2>3 DEF HasDisk, Visible, DiskOf, Place
  <2>4. CASE u = v
    <3>1. v \notin Shared /\ ~hist.crossed => DiskOf(n, v) # NoDisk
      BY Zenon, <1>1, <1>2, <1>9 DEF Settled, Received
    <3>2. v \in Shared => DiskOf(n, v) # NoDisk
      BY Zenon, <1>2, <2>1, <2>4 DEF HasDisk, DiskOf, Place
    <3>3. HasDisk(v)'  BY Zenon, <1>5, <1>8, <3>1, <3>2 DEF HasDisk, DiskOf, Place
    <3> QED  BY Zenon, <2>2, <2>4, <3>3
  <2> QED  BY Zenon, <2>3, <2>4
<1>14. domain' \in Domains /\ disk' \in Disks  BY Zenon, <1>8 DEF IndInv
<1> QED  BY Zenon, <1>5, <1>6, <1>7, <1>11, <1>12, <1>13, <1>14, Keeps

LEMMA AssignInv == ASSUME IndInv, NEW s \in Slots, Assign(s) PROVE IndInv'
<1>1. At(s, "Assign") /\ op[s].todo # <<>>  BY Zenon, AtIs DEF Assign
<1>2. CASE Fail(s) /\ UNCHANGED vms
  <2>1. Ages  BY Zenon, FaultCounts, HistUnchanged, FlagAges DEF Assign
  <2> QED  BY Zenon, <1>2, <2>1, FailDrops, DropsInv DEF Assign
<1>3. CASE /\ Visible(op[s].vm) /\ vms' = [vms EXCEPT ![op[s].vm].node = op[s].dst] /\ Advance(s)
           /\ UNCHANGED <<faults, hist>>
  BY Zenon, <1>1, <1>3, AdvanceTakes, AssignMoves DEF Assign
<1> QED  BY Zenon, <1>2, <1>3 DEF Assign

LEMMA CleanupSettles ==
  ASSUME IndInv, NEW s \in Slots, At(s, "Cleanup"), Takes(s), UNCHANGED <<vms, domain, hist>>
  PROVE  Settled(op[s])'
<1>1. Has(op[s], "Cleanup") /\ ~Has(op[s], "Assign")  BY Zenon, MarksApart
<1>2. Settled(op[s])  BY Zenon DEF IndInv
<1>3. PICK k : k = op'[s]  BY Zenon
<1>4. /\ k.vm = op[s].vm /\ k.src = op[s].src
      /\ \A x \in {"Undefine", "Prepare", "Assign"} : Has(k, x) <=> Has(op[s], x)
  BY Zenon, <1>3, AtIs DEF Takes
<1>5. Undefined(k)'  BY Zenon, <1>2, <1>4 DEF Settled, Undefined
<1>6. Received(k)'  BY Zenon, <1>1, <1>4 DEF Received
<1>7. Moved(k)'  BY Zenon, <1>1, <1>2, <1>4 DEF Settled, Moved
<1> QED  BY Zenon, <1>3, <1>5, <1>6, <1>7 DEF Settled, Undefined, Received, Moved, Has, DiskOf

(* The old disk: the row names another node, and no other migration needs  *)
(* the disk in its place.                                                  *)
LEMMA CleanupDeletes ==
  ASSUME IndInv, NEW s \in Slots, At(s, "Cleanup"), op[s].vm \notin Shared,
         DeleteDisk(op[s].src, op[s].vm), Takes(s),
         Fault \/ UNCHANGED faults, UNCHANGED <<vms, job, hist>>
  PROVE  IndInv'
<1>1. /\ Has(op[s], "Cleanup") /\ op[s].kind = "vm.migrate" /\ ~Has(op[s], "Assign")
      /\ op[s].vm \in VMs /\ op[s].src \in Nodes
  BY Zenon, MarksApart
<1>2. PICK v, m : v = op[s].vm /\ m = op[s].src  BY Zenon
<1>3. v \in VMs /\ v \notin Shared /\ m \in Nodes  BY Zenon, <1>1, <1>2
<1>4. disk \in Disks /\ disk' = [disk EXCEPT ![m][v] = NoDisk] /\ domain' = domain
  BY Zenon, <1>2, <1>3 DEF IndInv, DeleteDisk, Place
<1>5. disk' \in Disks /\ \A p \in Places, u \in VMs : p # m \/ u # v => disk'[p][u] = disk[p][u]
  BY Zenon, <1>4 DEF Disks
<1>6. \A p \in Nodes, u \in VMs : Place(p, u) \in Places  BY DEF Places
<1>7. Ages /\ JobsStay  BY Zenon, FaultCounts, HistUnchanged, JobsUnchanged
<1>8. OpsGo /\ \A t \in Slots \ {s} : SameMarks(op'[t], op[t])  BY Zenon, ContinuesGo DEF Takes
<1>9. Settled(op[s])  BY Zenon DEF IndInv
<1>10. ~hist.crossed => vms[v].node # m  BY Zenon, <1>1, <1>2, <1>9 DEF Settled, Moved
<1>11. Settled(op[s])'  BY Zenon, <1>4, CleanupSettles
<1>12. ASSUME NEW t \in Slots PROVE Calm(op[t]) /\ StaysBetween(op[t])
  <2>1. PICK o : o = op[t]  BY Zenon
  <2>2. OpIsSound(o) /\ Between(o) /\ Agree(o, op[s])  BY Zenon, <2>1 DEF IndInv
  <2>3. Mover(o) /\ o.vm = v /\ ~hist.crossed => o.dst # m
    BY Zenon, <1>1, <1>2, <2>2 DEF Agree, Mover
  <2>4. Has(o, "Assign") => Mover(o) /\ o.vm \in VMs /\ o.dst \in Nodes
    BY Zenon, <2>2 DEF OpIsSound, HandlerSteps, Mover
  <2>5. o.vm \notin Shared => Place(o.dst, o.vm) = o.dst  BY Zenon DEF Place
  <2>6. Calm(o)  BY Zenon, <1>4, <1>5, <1>6, <2>3, <2>4, <2>5 DEF Calm, DiskOf
  <2>7. StaysBetween(o)  BY Zenon, <1>4, <2>2 DEF StaysBetween, Between
  <2> QED  BY Zenon, <2>1, <2>6, <2>7
<1>13. \A t \in Slots : Settled(op[t])' \/ (SameMarks(op'[t], op[t]) /\ Calm(op[t]))
  <2> TAKE t \in Slots
  <2>1. CASE t = s  BY Zenon, <1>11, <2>1
  <2>2. CASE t # s  BY Zenon, <1>8, <1>12, <2>2
  <2> QED  BY Zenon, <2>1, <2>2
<1>14. ASSUME NEW u \in VMs PROVE DefinedOnce(u)' /\ HasDisk(u)'
  <2>1. DefinedOnce(u) /\ HasDisk(u) /\ vms[u].node \in Nodes  BY Zenon DEF IndInv, Rows
  <2>2. DefinedOnce(u)'  BY Zenon, <1>4, <2>1 DEF DefinedOnce
  <2>3. u # v \/ ~hist.crossed => disk'[Place(vms[u].node, u)][u] = disk[Place(vms[u].node, u)][u]
    <3>1. Place(vms[u].node, u) \in Places  BY Zenon, <1>6, <2>1
    <3>2. u = v => Place(vms[u].node, u) = vms[u].node  BY Zenon, <1>3 DEF Place
    <3> QED  BY Zenon, <1>5, <1>10, <3>1, <3>2
  <2>4. HasDisk(u)'  BY Zenon, <1>3, <2>1, <2>3 DEF HasDisk, Visible, DiskOf, Place
  <2> QED  BY Zenon, <2>2, <2>4
<1>15. vms' \in Rows /\ domain' \in Domains  BY Zenon, <1>4 DEF IndInv
<1> QED  BY Zenon, <1>5, <1>7, <1>8, <1>12, <1>13, <1>14, <1>15, Keeps

LEMMA CleanupInv == ASSUME IndInv, NEW s \in Slots, CleanupSourceDiskAfterCommit(s) PROVE IndInv'
<1>1. At(s, "Cleanup") /\ op[s].todo # <<>>  BY Zenon, AtIs DEF CleanupSourceDiskAfterCommit
<1>2. Advance(s) /\ (Fault \/ UNCHANGED faults) /\ UNCHANGED <<vms, job, hist>>
  BY Zenon DEF CleanupSourceDiskAfterCommit, AgentCall
<1>3. Takes(s)  BY Zenon, <1>1, <1>2, AdvanceTakes
<1>4. UNCHANGED agentVars \/ (op[s].vm \notin Shared /\ DeleteDisk(op[s].src, op[s].vm))
  BY Zenon DEF CleanupSourceDiskAfterCommit, AgentCall
<1>5. CASE UNCHANGED agentVars
  <2>1. Settled(op[s])'  BY Zenon, <1>1, <1>2, <1>3, <1>5, CleanupSettles DEF agentVars
  <2>2. OpsGo /\ \A t \in Slots \ {s} : SameMarks(op'[t], op[t])  BY Zenon, <1>3, ContinuesGo DEF Takes
  <2>3. \A t \in Slots : Settled(op[t])' \/ SameMarks(op'[t], op[t])
    <3> TAKE t \in Slots
    <3>1. CASE t = s  BY Zenon, <2>1, <3>1
    <3>2. CASE t # s  BY Zenon, <2>2, <3>2
    <3> QED  BY Zenon, <3>1, <3>2
  <2>4. Ages /\ RowsStay /\ DomainsStay /\ DisksStay /\ JobsStay
    BY Zenon, <1>2, <1>5, FaultCounts, HistUnchanged, RowsUnchanged, AgentsUnchanged, JobsUnchanged
  <2> QED  BY Zenon, <2>2, <2>3, <2>4, QuietKeeps
<1>6. CASE op[s].vm \notin Shared /\ DeleteDisk(op[s].src, op[s].vm)
  BY Zenon, <1>1, <1>2, <1>3, <1>6, CleanupDeletes
<1> QED  BY Zenon, <1>4, <1>5, <1>6

-----------------------------------------------------------------------------
(* The move of a guest in the pool, which libvirt makes at once.           *)
LEMMA AnswerGoes ==
  ASSUME IndInv, NEW s \in Slots, NEW ok \in BOOLEAN, Answer(s, ok)
  PROVE  OpsGo /\ \A t \in Slots : Settled(op[t])' \/ SameMarks(op'[t], op[t])
<1>1. CASE ~At(s, "Await")
  <2>1. op' = op  BY Zenon, <1>1 DEF Answer
  <2> QED  BY Zenon, <2>1 DEF OpsGo, IndInv, Goes, SameMarks
<1>2. CASE At(s, "Await")
  <2>1. Advance(s) \/ Broken(s)  BY Zenon, <1>2 DEF Answer
  <2>2. op[s].todo # <<>> /\ \A y : At(s, y) => y = "Await"  BY Zenon, <1>2, AtIs
  <2>3. Takes(s) \/ Drops(s)  BY Zenon, <2>1, <2>2, AdvanceTakes, BrokenDrops
  <2>4. Settled(op[s])' \/ SameMarks(op'[s], op[s])  BY Zenon, <2>2, <2>3, DropsSettle, TakesKeeps
  <2>5. Continues(s)  BY Zenon, <2>3 DEF Takes, Drops
  <2>6. OpsGo /\ \A t \in Slots \ {s} : SameMarks(op'[t], op[t])  BY Zenon, <2>5, ContinuesGo
  <2>7. \A t \in Slots : Settled(op[t])' \/ SameMarks(op'[t], op[t])
    <3> TAKE t \in Slots
    <3>1. CASE t = s  BY Zenon, <2>4, <3>1
    <3>2. CASE t # s  BY Zenon, <2>6, <3>2
    <3> QED  BY Zenon, <3>1, <3>2
  <2> QED  BY Zenon, <2>6, <2>7
<1> QED  BY Zenon, <1>1, <1>2

LEMMA JobIs ==
  ASSUME IndInv, NEW v \in VMs, job[v] # None
  PROVE  /\ v \in Shared /\ job[v].by \in Slots /\ job[v].src \in Nodes /\ job[v].dst \in Nodes
         /\ job[v].src # job[v].dst /\ (job' = [job EXCEPT ![v] = None] => JobsStay)
BY Zenon DEF IndInv, Jobs, JobsStay

LEMMA JobFailsInv == ASSUME IndInv, NEW v \in VMs, JobFails(v) PROVE IndInv'
<1>1. job[v].by \in Slots /\ JobsStay  BY Zenon, JobIs DEF JobFails
<1>2. OpsGo /\ \A t \in Slots : Settled(op[t])' \/ SameMarks(op'[t], op[t])
  BY Zenon, <1>1, AnswerGoes DEF JobFails
<1>3. Ages /\ RowsStay /\ DomainsStay /\ DisksStay
  BY Zenon, FaultCounts, HistUnchanged, RowsUnchanged, AgentsUnchanged DEF JobFails
<1> QED  BY Zenon, <1>1, <1>2, <1>3, QuietKeeps

LEMMA JobDoneInv == ASSUME IndInv, NEW v \in VMs, JobDone(v) PROVE IndInv'
<1>1. v \in Shared /\ job[v].by \in Slots /\ job[v].src # job[v].dst /\ JobsStay  BY Zenon, JobIs DEF JobDone
<1>2. PICK m, n : m = job[v].src /\ n = job[v].dst  BY Zenon
<1>3. m \in Nodes /\ n \in Nodes /\ m # n  BY Zenon, <1>1, <1>2, JobIs DEF JobDone
<1>4. /\ domain \in Domains /\ domain[m][v] = "running"
      /\ domain' = [domain EXCEPT ![m][v] = "absent", ![n][v] = "running"]
  BY Zenon, <1>2 DEF IndInv, JobDone
<1>5. /\ domain' \in Domains /\ domain'[m][v] = "absent"
      /\ \A p \in Nodes, u \in VMs : p \notin {m, n} \/ u # v => domain'[p][u] = domain[p][u]
  BY Zenon, <1>3, <1>4 DEF Domains
<1>6. OpsGo /\ \A t \in Slots : Settled(op[t])' \/ SameMarks(op'[t], op[t])
  BY Zenon, <1>1, AnswerGoes DEF JobDone
<1>7. Ages  BY Zenon, FaultCounts, HistUnchanged DEF JobDone
<1>8. vms' = vms /\ disk' = disk  BY Zenon DEF JobDone
<1>9. ASSUME NEW t \in Slots PROVE Calm(op[t]) /\ StaysBetween(op[t])
  <2>1. PICK o : o = op[t]  BY Zenon
  <2>2. OpIsSound(o) /\ Between(o)  BY Zenon, <2>1 DEF IndInv
  <2>3. Has(o, "Prepare") => Mover(o)  BY Zenon, <2>2 DEF OpIsSound, HandlerSteps, Mover
  <2>4. Mover(o) => o.vm \in VMs /\ o.src \in Nodes  BY Zenon, <2>2 DEF OpIsSound, Mover
  <2>5. o.vm \notin Shared => o.vm # v  BY Zenon, <1>1
  <2>6. Calm(o)  BY Zenon, <1>5, <1>8, <2>3, <2>4, <2>5 DEF Calm, DiskOf
  <2>7. StaysBetween(o)  BY Zenon, <1>5, <1>7, <1>8, <2>2, <2>4, <2>5 DEF StaysBetween, Between, Ages
  <2> QED  BY Zenon, <2>1, <2>6, <2>7
<1>10. \A t \in Slots : Settled(op[t])' \/ (SameMarks(op'[t], op[t]) /\ Calm(op[t]))  BY Zenon, <1>6, <1>9
<1>11. ASSUME NEW u \in VMs PROVE DefinedOnce(u)' /\ HasDisk(u)'
  <2>1. DefinedOnce(u) /\ HasDisk(u) /\ DefinedOnce(v)  BY Zenon DEF IndInv
  <2>2. HasDisk(u)'  BY Zenon, <1>7, <1>8, <2>1 DEF HasDisk, Visible, DiskOf, Place, Ages
  <2>3. CASE u # v  BY SMTT(30), <1>5, <1>7, <2>1, <2>2, <2>3 DEF DefinedOnce, Ages
  <2>4. CASE u = v
    <3>1. \A p \in Nodes : domain[p][v] # "absent" => p = m  BY Zenon, <1>1, <1>3, <1>4, <2>1 DEF DefinedOnce
    <3>2. \A p \in Nodes : domain'[p][v] # "absent" => p = n  BY Zenon, <1>3, <1>5, <3>1
    <3> QED  BY Zenon, <2>2, <2>4, <3>2 DEF DefinedOnce
  <2> QED  BY Zenon, <2>3, <2>4
<1>12. vms' \in Rows /\ disk' \in Disks  BY Zenon, <1>8 DEF IndInv
<1> QED  BY Zenon, <1>1, <1>5, <1>6, <1>7, <1>9, <1>10, <1>11, <1>12, Keeps

LEMMA AbortInv == ASSUME IndInv, NEW s \in Slots, Abort(s) PROVE IndInv'
<1>1. At(s, "Abort") /\ op[s].todo # <<>> /\ op[s].vm \in VMs /\ \A y : At(s, y) => y = "Abort"
  BY Zenon, AtIs DEF Abort
<1>2. Ages /\ RowsStay /\ DomainsStay /\ DisksStay
  BY Zenon, FaultCounts, HistUnchanged, RowsUnchanged, AgentsUnchanged DEF Abort
<1>3. op \in [Slots -> OpRecords] /\ \A t \in Slots : OpIsSound(op[t])  BY Zenon DEF IndInv
<1>4. PICK r : r = Tail(op[s].todo)  BY Zenon
<1>5. PICK b : b = job[op[s].vm].by  BY Zenon
<1>6. CASE op' = [op EXCEPT ![s].todo = r] /\ JobsStay
  <2>1. Advance(s)
    <3>1. op[s].from = op'[s].from /\ op' = [op EXCEPT ![s].todo = r, ![s].from = op[s].from]
      BY Zenon, <1>3, <1>6 DEF OpRecords
    <3> QED  BY Zenon, <1>4, <3>1 DEF Advance, Goto
  <2>2. Takes(s)  BY Zenon, <1>1, <2>1, AdvanceTakes
  <2> QED  BY Zenon, <1>1, <1>2, <1>6, <2>2, QuietStep
<1>7. CASE /\ b \in Slots /\ At(b, "Await") /\ JobsStay
           /\ op' = [op EXCEPT ![s].todo = r, ![b].todo = <<"Error">>, ![b].from = None]
  <2>1. b # s  BY Zenon, <1>1, <1>7
  <2>2. PICK k : k = [op[s] EXCEPT !.todo = r]  BY Zenon
  <2>3. PICK h : h = [op[b] EXCEPT !.todo = <<"Error">>, !.from = None]  BY Zenon
  <2>4. op' = [op EXCEPT ![s] = k, ![b] = h]  BY Zenon, <1>3, <1>7, <2>1, <2>2, <2>3
  <2>5. op[s].todo \in Seq(StepNames) /\ InOrder(op[s].todo)  BY Zenon, <1>3 DEF OpRecords, OpIsSound
  <2>6. /\ r \in Seq(StepNames)
        /\ \A x : /\ InSeq(r, x) => InSeq(op[s].todo, x)
                  /\ InSeq(op[s].todo, x) => x = "Abort" \/ InSeq(r, x)
    BY Zenon, <1>1, <1>4, <2>5, TailHas DEF At
  <2>7. InOrder(r)  BY Zenon, <1>1, <1>4, <2>5, TailOrder DEF InOrder
  <2>8. /\ <<"Error">> \in Seq(StepNames) /\ InOrder(<<"Error">>)
        /\ \A x : InSeq(<<"Error">>, x) => x \notin HandlerSteps \cup {"Start", "Publish", "Load"}
    <3>1. Len(<<"Error">>) = 1 /\ <<"Error">>[1] = "Error"  BY Zenon
    <3>2. \A x : InSeq(<<"Error">>, x) => x = "Error"  BY <3>1 DEF InSeq
    <3> QED  BY Zenon, <3>2, Reduced DEF HandlerSteps
  <2>9. /\ k \in OpRecords /\ k.todo = r /\ k.kind = op[s].kind /\ k.vm = op[s].vm /\ k.src = op[s].src
        /\ k.dst = op[s].dst /\ k.pre = op[s].pre
    BY Zenon, <1>3, <2>2, <2>6 DEF OpRecords
  <2>10. /\ h \in OpRecords /\ h.todo = <<"Error">> /\ h.kind = op[b].kind /\ h.vm = op[b].vm /\ h.src = op[b].src
         /\ h.dst = op[b].dst /\ h.pre = op[b].pre
    BY ZenonT(60), <1>3, <1>7, <2>3, <2>8 DEF OpRecords
  <2>11. op' \in [Slots -> OpRecords] /\ op'[s] = k /\ op'[b] = h /\ \A t \in Slots \ {s, b} : op'[t] = op[t]
    <3>1. k \in OpRecords /\ h \in OpRecords  BY Zenon, <2>9, <2>10
    <3>2. op'[s] = k /\ op'[b] = h /\ \A t \in Slots \ {s, b} : op'[t] = op[t]  BY Zenon, <1>3, <1>7, <2>1, <2>4
    <3>3. op' \in [Slots -> OpRecords]  BY Zenon, <1>3, <2>4, <3>1
    <3> QED  BY Zenon, <3>2, <3>3
  <2>12. \A x : (Has(k, x) => Has(op[s], x)) /\ (Has(op[s], x) => x = "Abort" \/ Has(k, x))
    BY Zenon, <2>6, <2>9 DEF Has
  <2>13. OpIsSound(k) /\ Goes(k, op[s]) /\ SameMarks(k, op[s])
    <3>1. OpIsSound(op[s])  BY Zenon, <1>3
    <3>2. OpIsSound(k)  BY Zenon, <1>1, <2>7, <2>9, <2>12, <3>1 DEF OpIsSound, Mover
    <3> QED  BY Zenon, <2>9, <2>12, <3>2 DEF Goes, Mover, SameMarks
  <2>14. \A x : Has(h, x) => x \notin HandlerSteps \cup {"Start", "Publish", "Load"}  BY Zenon, <2>8, <2>10 DEF Has
  <2>15. OpIsSound(h) /\ Goes(h, op[b])
    <3>1. OpIsSound(op[b]) /\ op[b].todo # <<>>  BY Zenon, <1>3, <1>7 DEF At
    <3>2. ~Has(h, "Prepare") /\ ~Has(h, "Migrate") /\ ~Has(h, "Start") /\ ~Has(h, "Publish") /\ ~Has(h, "Load")
      BY Zenon, <2>14 DEF HandlerSteps
    <3>3. OpIsSound(h)  BY Zenon, <2>8, <2>10, <2>14, <3>1, <3>2 DEF OpIsSound, Mover
    <3> QED  BY Zenon, <2>10, <3>3 DEF Goes, Mover
  <2>16. Settled(op[b])'
    <3>1. ~Has(op'[b], "Prepare") /\ ~Has(op'[b], "Assign") /\ ~Has(op'[b], "Cleanup")
      BY Zenon, <2>11, <2>14 DEF HandlerSteps
    <3> QED  BY Zenon, <3>1 DEF Settled, Undefined, Received, Moved, Has, InSeq
  <2>17. OpsGo
    <3>1. ASSUME NEW t \in Slots PROVE OpIsSound(op'[t]) /\ Goes(op'[t], op[t])
      <4>1. CASE t \in {s, b}  BY Zenon, <2>11, <2>13, <2>15, <4>1
      <4>2. CASE t \notin {s, b}  BY Zenon, <1>3, <2>11, <4>2 DEF Goes
      <4> QED  BY Zenon, <4>1, <4>2
    <3> QED  BY Zenon, <2>11, <3>1 DEF OpsGo
  <2>18. \A t \in Slots : Settled(op[t])' \/ SameMarks(op'[t], op[t])
    <3> TAKE t \in Slots
    <3>1. CASE t = b  BY Zenon, <2>16, <3>1
    <3>2. CASE t = s  BY Zenon, <2>11, <2>13, <3>2
    <3>3. CASE t \notin {s, b}  BY Zenon, <2>11, <3>3 DEF SameMarks
    <3> QED  BY Zenon, <3>1, <3>2, <3>3
  <2> QED  BY Zenon, <1>2, <1>7, <2>17, <2>18, QuietKeeps
<1>8. CASE Advance(s) /\ UNCHANGED job
  <2>1. Takes(s)  BY Zenon, <1>1, <1>8, AdvanceTakes
  <2> QED  BY Zenon, <1>1, <1>2, <1>8, <2>1, JobsUnchanged, QuietStep
<1>9. CASE job[op[s].vm] # None /\ job' = [job EXCEPT ![op[s].vm] = None] /\ ~(Advance(s) /\ UNCHANGED job)
  <2>1. b \in Slots /\ JobsStay  BY Zenon, <1>1, <1>5, <1>9, JobIs
  <2> QED  BY Zenon, <1>4, <1>5, <1>6, <1>7, <1>9, <2>1 DEF Abort
<1> QED  BY Zenon, <1>8, <1>9 DEF Abort

-----------------------------------------------------------------------------
(* The beginning of an operation.                                          *)
LEMMA BeginAges ==
  ASSUME IndInv, NEW s \in Slots, NEW new, Begin(s, new)
  PROVE  /\ Ages
         /\ hist'.crossed <=> hist.crossed \/ (new.kind = "migrate" /\ Crosses(new.vm, new.src, new.dst))
         /\ hist'.parted <=> hist.parted \/ (new.kind = "migrate" /\ Parts(new.vm, new.src, new.dst))
<1>1. hist \in Histories /\ faults' \in Nat  BY Zenon, FaultCounts DEF IndInv, Begin
<1>2. PICK c \in BOOLEAN : c = (new.kind = "migrate" /\ Crosses(new.vm, new.src, new.dst))  BY Zenon
<1>3. PICK q \in BOOLEAN : q = (new.kind = "migrate" /\ Parts(new.vm, new.src, new.dst))  BY Zenon
<1>4. PICK m \in BOOLEAN : m = \E o \in Slots : Active(o) /\ {new.kind, op[o].kind} \cap Meddling # {}
  BY Zenon
<1>5. hist' = [hist EXCEPT !.meddled = @ \/ m, !.crossed = @ \/ c, !.parted = @ \/ q]
  BY Zenon, <1>2, <1>3, <1>4 DEF Begin
<1>6. /\ hist' \in Histories /\ hist'.left = hist.left
      /\ hist'.crossed = (hist.crossed \/ c) /\ hist'.parted = (hist.parted \/ q)
  BY Zenon, <1>1, <1>5 DEF Histories
<1> QED  BY Zenon, <1>1, <1>2, <1>3, <1>6 DEF Ages

LEMMA BeginIs ==
  ASSUME IndInv, NEW s \in Slots, NEW new \in OpRecords, Begin(s, new)
  PROVE  OthersStay(s) /\ op'[s] = new /\ UNCHANGED <<vms, agentVars, job>>
<1>1. op \in [Slots -> OpRecords]  BY Zenon DEF IndInv
<1> QED  BY Zenon, <1>1 DEF OthersStay, Begin

LEMMA BeginOther ==
  ASSUME IndInv, NEW s \in Slots, NEW new \in OpRecords, Begin(s, new), OpIsSound(new), ~Mover(new)
  PROVE  IndInv'
<1>1. OthersStay(s) /\ op'[s] = new /\ UNCHANGED <<vms, agentVars, job>>  BY Zenon, BeginIs
<1>2. \A x \in HandlerSteps : ~Has(new, x)  BY Zenon DEF OpIsSound, Mover
<1>3. Drops(s)  BY Zenon, <1>1, <1>2 DEF Drops, Continues, Goes
<1> QED  BY Zenon, <1>1, <1>3, BeginAges, DropsInv

LEMMA CancelMigrationInv ==
  ASSUME IndInv, NEW s \in Slots, NEW v \in VMs, CancelMigration(s, v) PROVE IndInv'
<1>1. PICK q : q = <<"Abort", "Restore">>  BY Zenon
<1>2. q \in Seq(StepNames)  BY <1>1 DEF StepNames
<1>3. Len(q) = 2 /\ q[1] = "Abort" /\ q[2] = "Restore"  BY Zenon, <1>1
<1>4. InOrder(q) /\ \A x : InSeq(q, x) => x \in {"Abort", "Restore"}  BY <1>3 DEF InOrder, Precedes, InSeq
<1>5. PICK k : k = [Idle EXCEPT !.kind = "cancel", !.vm = v, !.src = vms[v].node, !.todo = q]  BY Zenon
<1>6. vms[v].node \in Nodes  BY Zenon DEF IndInv, Rows
<1>7. /\ k \in OpRecords /\ k.kind = "cancel" /\ k.vm = v /\ k.src = vms[v].node /\ k.todo = q
  BY Zenon, <1>2, <1>5, <1>6, IdleIsSound DEF OpRecords
<1>8. \A x : Has(k, x) => x \in {"Abort", "Restore"}  BY Zenon, <1>4, <1>7 DEF Has
<1>9. OpIsSound(k) /\ ~Mover(k)
  <2>1. \A x \in HandlerSteps \cup {"Publish", "Load", "Start", "Prepare", "Migrate"} : ~Has(k, x)
    BY Zenon, <1>8 DEF HandlerSteps
  <2> QED  BY Zenon, <1>4, <1>6, <1>7, <2>1 DEF OpIsSound, Mover
<1>10. Begin(s, k)  BY Zenon, <1>1, <1>5 DEF CancelMigration
<1> QED  BY Zenon, <1>7, <1>9, <1>10, BeginOther

LEMMA PowerInv ==
  ASSUME IndInv, NEW s \in Slots, NEW v \in VMs, NEW k \in {"start", "stop"}, Power(s, v, k) PROVE IndInv'
<1>1. PICK q : q = IF k = "start" THEN <<"Start", "running">> ELSE <<"Stop", "stopped">>  BY Zenon
<1>2. q \in Seq(StepNames)
  <2>1. <<"Start", "running">> \in Seq(StepNames) /\ <<"Stop", "stopped">> \in Seq(StepNames)  BY DEF StepNames
  <2> QED  BY Zenon, <1>1, <2>1
<1>3. Len(q) = 2 /\ q[1] \in {"Start", "Stop"} /\ q[2] \in {"running", "stopped"}
  <2>1. q = <<"Start", "running">> \/ q = <<"Stop", "stopped">>  BY Zenon, <1>1
  <2> QED  BY <2>1
<1>4. InOrder(q) /\ \A x : InSeq(q, x) => x \in {"Start", "Stop", "running", "stopped"}
  BY <1>3 DEF InOrder, Precedes, InSeq
<1>5. PICK st : st = vms[v].status  BY Zenon
<1>6. st \in Statuses  BY Zenon, <1>5 DEF Power, Statuses
<1>7. PICK w : w = [Idle EXCEPT !.kind = k, !.vm = v, !.src = vms[v].node, !.dst = vms[v].node,
                                !.todo = q, !.from = st]
  BY Zenon
<1>8. vms[v].node \in Nodes  BY Zenon DEF IndInv, Rows
<1>9. /\ w \in OpRecords /\ w.kind = k /\ w.vm = v /\ w.src = vms[v].node /\ w.dst = vms[v].node /\ w.todo = q
  BY Zenon, <1>2, <1>6, <1>7, <1>8, IdleIsSound DEF OpRecords
<1>10. \A x : Has(w, x) => x \in {"Start", "Stop", "running", "stopped"}  BY Zenon, <1>4, <1>9 DEF Has
<1>11. OpIsSound(w) /\ ~Mover(w)
  <2>1. \A x \in HandlerSteps \cup {"Publish", "Load", "Prepare", "Migrate"} : ~Has(w, x)
    BY Zenon, <1>10 DEF HandlerSteps
  <2> QED  BY Zenon, <1>4, <1>8, <1>9, <2>1 DEF OpIsSound, Mover
<1>12. Begin(s, w)  BY Zenon, <1>1, <1>5, <1>7 DEF Power
<1> QED  BY Zenon, <1>9, <1>11, <1>12, BeginOther

(* The request of a migration: what it crosses or parts from is noted.     *)
LEMMA MigrateVMBegins ==
  ASSUME IndInv, NEW s \in Slots, NEW v \in VMs, NEW dst \in Nodes, NEW k \in OpRecords,
         k.kind = "migrate", k.vm = v, k.src = vms[v].node, k.dst = dst, dst # vms[v].node,
         OpIsSound(k), Begin(s, k)
  PROVE  IndInv'
<1>1. OthersStay(s) /\ op'[s] = k /\ vms' = vms /\ domain' = domain /\ disk' = disk /\ job' = job
  BY Zenon, BeginIs DEF agentVars
<1>2. Ages  BY Zenon, BeginAges
<1>3. ~hist'.crossed => ~Crosses(v, vms[v].node, dst)  BY Zenon, BeginAges
<1>4. ~hist'.parted => ~Parts(v, vms[v].node, dst)  BY Zenon, BeginAges
<1>5. \A x \in HandlerSteps : ~Has(k, x)  BY Zenon DEF OpIsSound
<1>6. ASSUME NEW t \in Slots PROVE OpIsSound(op[t])' /\ Settled(op[t])' /\ Between(op[t])'
  <2>1. CASE t = s
    <3>1. op'[t] = k  BY Zenon, <1>1, <2>1
    <3>2. ~Has(op'[t], "Prepare") /\ ~Has(op'[t], "Assign") /\ ~Has(op'[t], "Cleanup")
      BY Zenon, <1>5, <3>1 DEF HandlerSteps
    <3>3. Settled(op[t])'  BY Zenon, <3>2 DEF Settled, Undefined, Received, Moved, Has, InSeq
    <3>4. OpIsSound(op[t])'  BY Zenon, <3>1 DEF OpIsSound, Has, Mover, InOrder, Precedes, InSeq
    <3>5. ~hist'.parted => \A n \in Nodes : domain[n][v] # "absent" => n = vms[v].node
      BY Zenon, <1>4 DEF Parts
    <3>6. Between(op[t])'  BY Zenon, <1>1, <3>1, <3>5 DEF Between
    <3> QED  BY Zenon, <3>3, <3>4, <3>6
  <2>2. CASE t # s
    <3>1. PICK o : o = op[t]  BY Zenon
    <3>2. op'[t] = o  BY Zenon, <1>1, <2>2, <3>1 DEF OthersStay
    <3>3. OpIsSound(o) /\ Settled(o) /\ Between(o)  BY Zenon, <3>1 DEF IndInv
    <3>4. Calm(o)  BY Zenon, <1>1 DEF Calm, DiskOf
    <3>5. Settled(o)'  BY Zenon, <1>2, <3>3, <3>4, CalmSettles
    <3>6. Between(o)'  BY Zenon, <1>1, <1>2, <3>3 DEF Between, Ages, Mover
    <3>7. OpIsSound(op[t])'  BY Zenon, <3>2, <3>3 DEF OpIsSound, Has, Mover, InOrder, Precedes, InSeq
    <3>8. Settled(op[t])'  BY Zenon, <3>2, <3>5 DEF Settled, Undefined, Received, Moved, Has, DiskOf
    <3>9. Between(op[t])'  BY Zenon, <3>2, <3>6 DEF Between, Mover
    <3> QED  BY Zenon, <3>7, <3>8, <3>9
  <2> QED  BY Zenon, <2>1, <2>2
<1>7. ASSUME NEW t \in Slots \ {s} PROVE Agree(op[s], op[t])' /\ Agree(op[t], op[s])'
  <2>1. PICK o : o = op[t]  BY Zenon
  <2>2. op'[t] = o /\ op'[s] = k  BY Zenon, <1>1, <2>1 DEF OthersStay
  <2>3. ~hist'.crossed /\ Mover(o) /\ o.vm = v => o.dst # vms[v].node /\ o.src # dst
    BY Zenon, <1>3, <2>1 DEF Crosses, Moving, Mover
  <2>4. ~hist'.parted /\ Mover(o) /\ o.vm = v => o.dst = dst
    BY Zenon, <1>4, <2>1 DEF Parts, Moving, Mover
  <2>5. ~hist'.parted /\ Mover(o) /\ o.vm = v /\ v \notin Shared => o.src = vms[v].node
    <3>1. Between(o)  BY Zenon, <2>1 DEF IndInv
    <3> QED  BY Zenon, <1>2, <2>4, <3>1 DEF Between, Ages
  <2> QED  BY Zenon, <2>2, <2>3, <2>4, <2>5 DEF Agree
<1>8. Agree(op[s], op[s])'
  <2>1. k.dst # k.src  BY Zenon
  <2> QED  BY Zenon, <1>1, <2>1 DEF Agree
<1>9. ASSUME NEW t \in Slots, NEW u \in Slots PROVE Agree(op[t], op[u])'
  <2>1. CASE t # s /\ u # s
    <3>1. Agree(op[t], op[u])  BY Zenon DEF IndInv
    <3> QED  BY Zenon, <1>1, <1>2, <2>1, <3>1 DEF Agree, OthersStay, Ages
  <2>2. CASE t = s /\ u # s  BY Zenon, <1>7, <2>2
  <2>3. CASE t # s /\ u = s  BY Zenon, <1>7, <2>3
  <2>4. CASE t = s /\ u = s  BY Zenon, <1>8, <2>4
  <2> QED  BY Zenon, <2>1, <2>2, <2>3, <2>4
<1>10. ASSUME NEW u \in VMs PROVE DefinedOnce(u)' /\ HasDisk(u)'
  <2>1. DefinedOnce(u) /\ HasDisk(u)  BY Zenon DEF IndInv
  <2> QED  BY Zenon, <1>1, <1>2, <2>1 DEF DefinedOnce, HasDisk, Visible, DiskOf, Place, Ages
<1>11. /\ vms' \in Rows /\ domain' \in Domains /\ disk' \in Disks /\ job' \in Jobs
       /\ \A u \in VMs : job'[u] # None => u \in Shared /\ job'[u].src # job'[u].dst
  BY Zenon, <1>1 DEF IndInv
<1> QED  BY Zenon, <1>1, <1>2, <1>6, <1>9, <1>10, <1>11 DEF IndInv, Ages, OthersStay

LEMMA MigrateVMInv ==
  ASSUME IndInv, NEW s \in Slots, NEW v \in VMs, NEW dst \in Nodes, NEW live \in BOOLEAN,
         MigrateVM(s, v, dst, live)
  PROVE  IndInv'
<1>1. PICK q : q = <<"Mark", "Publish">>  BY Zenon
<1>2. q \in Seq(StepNames)  BY <1>1 DEF StepNames
<1>3. Len(q) = 2 /\ q[1] = "Mark" /\ q[2] = "Publish"  BY Zenon, <1>1
<1>4. InOrder(q) /\ \A x : InSeq(q, x) => x \in {"Mark", "Publish"}  BY <1>3 DEF InOrder, Precedes, InSeq
<1>5. PICK st : st = vms[v].status  BY Zenon
<1>6. st \in Statuses  BY Zenon, <1>5 DEF MigrateVM, ValidateVMStatusForMigration, Statuses
<1>7. PICK k : k = [Idle EXCEPT !.kind = "migrate", !.vm = v, !.src = vms[v].node, !.dst = dst,
                                !.pre = st, !.live = live, !.todo = q]
  BY Zenon
<1>8. vms[v].node \in Nodes /\ dst # vms[v].node  BY Zenon DEF IndInv, Rows, MigrateVM
<1>9. /\ k \in OpRecords /\ k.kind = "migrate" /\ k.vm = v /\ k.src = vms[v].node /\ k.dst = dst
      /\ k.pre = st /\ k.todo = q
  BY Zenon, <1>2, <1>6, <1>7, <1>8, IdleIsSound DEF OpRecords
<1>10. \A x : Has(k, x) => x \in {"Mark", "Publish"}  BY Zenon, <1>4, <1>9 DEF Has
<1>11. OpIsSound(k)
  <2>1. \A x \in HandlerSteps \cup {"Load", "Start", "Prepare", "Migrate"} : ~Has(k, x)
    BY Zenon, <1>10 DEF HandlerSteps
  <2> QED  BY Zenon, <1>4, <1>6, <1>8, <1>9, <2>1 DEF OpIsSound, Mover
<1>12. Begin(s, k)  BY Zenon, <1>1, <1>5, <1>7 DEF MigrateVM
<1> QED  BY Zenon, <1>8, <1>9, <1>11, <1>12, MigrateVMBegins

LEMMA UnchangedInv ==
  ASSUME IndInv, UNCHANGED <<vms, domain, disk, op, job, hist>>, faults' \in Nat  PROVE IndInv'
<1>1. OpsGo /\ \A s \in Slots : SameMarks(op'[s], op[s])  BY Zenon DEF OpsGo, IndInv, Goes, SameMarks
<1>2. Ages /\ RowsStay /\ DomainsStay /\ DisksStay /\ JobsStay
  BY Zenon, HistUnchanged, RowsUnchanged, AgentsUnchanged, JobsUnchanged DEF agentVars
<1> QED  BY Zenon, <1>1, <1>2, QuietKeeps

LEMMA GoOfflineInv == ASSUME IndInv, NEW n \in Nodes, GoOffline(n) PROVE IndInv'
<1>1. faults' \in Nat  BY Zenon, FaultCounts DEF GoOffline
<1> QED  BY Zenon, <1>1, UnchangedInv DEF GoOffline, agentVars

LEMMA InitInv == Init => IndInv
<1>1. SUFFICES ASSUME Init PROVE IndInv  BY Zenon
<1>2. Home \in Nodes  BY Zenon, MigrationAssumption DEF Home
<1>3. PICK v \in VMs, st \in {"running", "stopped"} :
       /\ vms = [u \in VMs |-> [status |-> IF u = v THEN st ELSE "none", node |-> Home]]
       /\ domain = [n \in Nodes |-> [u \in VMs |->
            IF n # Home \/ u # v THEN "absent" ELSE IF st = "running" THEN "running" ELSE "shutoff"]]
       /\ disk = [p \in Places |-> [u \in VMs |-> IF u = v /\ p = Place(Home, v) THEN "data" ELSE NoDisk]]
  BY Zenon, <1>1 DEF Init
<1>4. vms \in Rows  BY Zenon, <1>2, <1>3 DEF Rows, Statuses
<1>5. domain \in Domains  BY Zenon, <1>3 DEF Domains
<1>6. disk \in Disks  BY Zenon, <1>3 DEF Disks
<1>7. job \in Jobs /\ \A u \in VMs : job[u] = None  BY Zenon, <1>1 DEF Init, Jobs
<1>8. hist \in Histories  BY Zenon, <1>1 DEF Init, Histories
<1>9. faults \in Nat  BY Zenon, <1>1 DEF Init
<1>10. op \in [Slots -> OpRecords] /\ \A s \in Slots : op[s] = Idle  BY Zenon, <1>1, IdleIsSound DEF Init
<1>11. ~Mover(Idle)  BY Zenon DEF Mover, Idle
<1>12. ASSUME NEW s \in Slots PROVE OpIsSound(op[s]) /\ Settled(op[s]) /\ Between(op[s])
  <2>1. Settled(Idle)  BY Zenon, IdleIsSound DEF Settled, Undefined, Received, Moved
  <2>2. Between(Idle)  BY Zenon, <1>11 DEF Between
  <2> QED  BY Zenon, <1>10, <2>1, <2>2, IdleIsSound
<1>13. \A s, t \in Slots : Agree(op[s], op[t])  BY Zenon, <1>10, <1>11 DEF Agree
<1>14. ASSUME NEW u \in VMs PROVE DefinedOnce(u) /\ HasDisk(u)
  <2>1. \A n \in Nodes : domain[n][u] # "absent" => n = Home  BY Zenon, <1>3
  <2>2. DefinedOnce(u)  BY Zenon, <2>1 DEF DefinedOnce
  <2>3. Visible(u) => u = v  BY Zenon, <1>3 DEF Visible
  <2>4. Place(Home, v) \in Places  BY <1>2 DEF Places
  <2>5. disk[Place(Home, v)][v] # NoDisk /\ vms[v].node = Home  BY Zenon, <1>3, <2>4, MigrationAssumption
  <2>6. HasDisk(u)  BY Zenon, <2>3, <2>5 DEF HasDisk, DiskOf
  <2> QED  BY Zenon, <2>2, <2>6
<1> QED  BY Zenon, <1>4, <1>5, <1>6, <1>7, <1>8, <1>9, <1>10, <1>12, <1>13, <1>14 DEF IndInv

LEMMA StepInv == ASSUME IndInv, NEW s \in Slots, Step(s) PROVE IndInv'
BY Zenon, MarkInv, PublishInv, LoadInv, HandleMigrationFailureInv, MigrateInv, StopInv, SnapshotInv,
   TransferSnapshotInv, TransferInv, UndefineInv, PrepareInv, StartInv, AssignInv, FinalInv, CleanupInv,
   AbortInv, RestoreInv, SettleInv, FinishInv DEF Step

LEMMA NextInv == ASSUME IndInv, [Next]_vars PROVE IndInv'
<1>1. CASE Next
  BY Zenon, <1>1, MigrateVMInv, CancelMigrationInv, PowerInv, StepInv, InterruptInv, JobDoneInv, JobFailsInv,
     GoOfflineInv DEF Next, JobEnds
<1>2. CASE UNCHANGED vars
  <2>1. faults' \in Nat  BY Zenon, <1>2 DEF vars, IndInv
  <2> QED  BY Zenon, <1>2, <2>1, UnchangedInv DEF vars
<1> QED  BY Zenon, <1>1, <1>2

LEMMA Invariance == Spec => []IndInv
BY InitInv, NextInv, PTL DEF Spec

(* However many nodes there are, operations overlap, deliveries repeat and *)
(* calls fail, a guest runs on one node: a guest in the pool always, since *)
(* libvirt ends it on the source, and one on a local disk unless its       *)
(* source domain could not be undefined or its migrations part.            *)
THEOREM OneGuest == Spec => []GuestRunsOnce
<1>1. IndInv => GuestRunsOnce  BY Zenon DEF IndInv, DefinedOnce, GuestRunsOnce
<1> QED  BY <1>1, Invariance, PTL

(* The disk of a VM is on the node that its row names, since               *)
(* finalizeMigration writes the node before it deletes the old disk.       *)
THEOREM DiskFollowsRow == Spec => []RowHasDisk
<1>1. IndInv => RowHasDisk  BY Zenon DEF IndInv, HasDisk, RowHasDisk
<1> QED  BY <1>1, Invariance, PTL

=============================================================================
