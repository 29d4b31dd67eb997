-------------------------- MODULE ProvisioningProofs -------------------------
(***************************************************************************)
(* What the creation of VMs never does, for any number of VMs, addresses,  *)
(* requests and workers, whatever fails and however often a task is        *)
(* delivered.                                                              *)
(***************************************************************************)
EXTENDS Provisioning, TLAPS

NoCall == [key |-> None, service |-> None]
AllCalls == Calls \cup {NoCall}
AllStatuses == Statuses \cup {"none"}

RowRecords == [status: AllStatuses, key: {c.key : c \in AllCalls},
               service: {c.service : c \in AllCalls}]
RequestPcs == {"idle", "service", "insert", "publish", "mark", "delete", "done"}
RequestRecords == [pc: RequestPcs, call: AllCalls, vm: VMs \cup {None}, status: AllStatuses]
TaskStates == {"none", "queued", "acked"}
JobFields == {"pc", "kind", "vm", "ip", "subnet", "undo", "wasDeleted"}

(* As much of the types as the invariant below needs.                      *)
Typed ==
  /\ vms \in [VMs -> RowRecords]
  /\ task \in [Kinds -> [VMs -> TaskStates]]
  /\ request \in [Requests -> RequestRecords]
  /\ DOMAIN config = VMs
  /\ DOMAIN address = Range(Addresses)
  /\ DOMAIN job = Workers /\ \A w \in Workers : DOMAIN job[w] = JobFields

HasTask(v) == task["create"][v] # "none"

(* A row that is yet to be inserted has no task, and a key that is used    *)
(* names one VM among those with a create task.                            *)
KeysNameOne ==
  /\ \A v \in VMs : HasTask(v) => vms[v].status # "none"
  /\ \A u, v \in VMs : HasTask(u) /\ HasTask(v) /\ vms[u].key = vms[v].key /\ vms[u].key # None => u = v

(* An answer with a key names the VM with that key.                        *)
AnswersHold ==
  \A a \in answer : a.key # None => a.vm \in VMs /\ HasTask(a.vm) /\ vms[a.vm].key = a.key

(* Between its insertion and its task a row belongs to one request.        *)
RequestIsSound(r) ==
  /\ request[r].pc = "publish" =>
       /\ request[r].vm \in VMs /\ ~HasTask(request[r].vm)
       /\ vms[request[r].vm].status # "none"
  /\ request[r].pc \in {"mark", "delete"} => request[r].vm \in VMs /\ request[r].status # "none"

RowsAreOwned ==
  \A q, r \in Requests :
    q # r /\ request[q].pc = "publish" /\ request[r].pc = "publish" => request[q].vm # request[r].vm

(* A worker is at work on a task that was published.                       *)
JobIsSound(w) ==
  job[w].pc # "idle" =>
    job[w].kind \in Kinds /\ job[w].vm \in VMs /\ task[job[w].kind][job[w].vm] # "none"

(* The guest of v was given the address a, or is about to be.              *)
Given(v, a) ==
  \/ config[v].ip = a
  \/ \E w \in Workers : job[w].vm = v /\ job[w].ip = a

(* Such an address is out of the pool for good, and of one VM.             *)
AddressesAreOwned ==
  \A a : a # None =>
    /\ \A v \in VMs : Given(v, a) => a \in DOMAIN address /\ address[a].status # "available"
    /\ \A u, v \in VMs : Given(u, a) /\ Given(v, a) => u = v

IndInv ==
  /\ Typed /\ KeysNameOne /\ AnswersHold
  /\ \A r \in Requests : RequestIsSound(r)
  /\ RowsAreOwned
  /\ \A w \in Workers : JobIsSound(w)
  /\ AddressesAreOwned

-----------------------------------------------------------------------------
LEMMA InitInv == Init => IndInv
<1> SUFFICES ASSUME Init PROVE IndInv  BY Zenon
<1>1. vms \in [VMs -> RowRecords]
  <2>1. NoCall \in AllCalls /\ NoCall.key = None /\ NoCall.service = None  BY Zenon DEF AllCalls, NoCall
  <2>2. NoVM \in RowRecords  BY Zenon, <2>1 DEF RowRecords, AllStatuses, NoVM
  <2> QED  BY Zenon, <2>2 DEF Init
<1>2. task \in [Kinds -> [VMs -> TaskStates]] /\ \A v \in VMs : ~HasTask(v)
  BY Zenon DEF Init, TaskStates, HasTask, Kinds
<1>3. request \in [Requests -> RequestRecords] /\ \A r \in Requests : request[r].pc = "idle"
  BY Zenon DEF Init, RequestRecords, NoRequest, RequestPcs, AllStatuses, AllCalls, NoCall
<1>4. DOMAIN job = Workers
      /\ \A w \in Workers : DOMAIN job[w] = JobFields /\ job[w].pc = "idle" /\ job[w].ip = None
  BY Zenon DEF Init, NoJob, JobFields
<1>5. \A v \in VMs : config[v].ip = None  BY Zenon DEF Init, NoAddresses
<1>6. Typed  BY Zenon, <1>1, <1>2, <1>3, <1>4 DEF Init, Typed
<1>7. AddressesAreOwned  BY <1>4, <1>5 DEF AddressesAreOwned, Given
<1> QED
  BY Zenon, <1>2, <1>3, <1>4, <1>6, <1>7
  DEF Init, IndInv, KeysNameOne, AnswersHold, RequestIsSound, RowsAreOwned, JobIsSound

-----------------------------------------------------------------------------
(* What every statement on the vms table does, but for the insertion of a  *)
(* row and of its task: no row comes or goes, and no key changes.          *)
RowsStay ==
  /\ vms' \in [VMs -> RowRecords]
  /\ \A v \in VMs : vms'[v].key = vms[v].key /\ (vms'[v].status = "none" <=> vms[v].status = "none")

LEMMA RowsSame == ASSUME Typed, UNCHANGED vms PROVE RowsStay
BY Zenon DEF Typed, RowsStay

LEMMA StatusWritten ==
  ASSUME Typed, NEW v \in VMs, Visible(v), NEW st \in Statuses,
         vms' = [vms EXCEPT ![v].status = st]
  PROVE  RowsStay
<1>1. vms[v] \in RowRecords /\ vms[v].status # "none"  BY Zenon DEF Typed, Visible
<1>2. PICK x : x = [vms[v] EXCEPT !.status = st]  BY Zenon
<1>3. x \in RowRecords /\ x.key = vms[v].key /\ x.status = st
  BY Zenon, <1>1, <1>2 DEF RowRecords, AllStatuses
<1>4. vms' = [vms EXCEPT ![v] = x]  BY Zenon, <1>2
<1>5. vms'[v] = x /\ \A u \in VMs \ {v} : vms'[u] = vms[u]  BY Zenon, <1>4 DEF Typed
<1>6. vms' \in [VMs -> RowRecords]  BY Zenon, <1>3, <1>4 DEF Typed
<1>7. st # "none"  BY Zenon DEF Statuses
<1> QED  BY Zenon, <1>1, <1>3, <1>5, <1>6, <1>7 DEF RowsStay

LEMMA StatusMoves ==
  ASSUME Typed, NEW v \in VMs, NEW from, NEW st \in Statuses,
         \/ TransitionStatus(v, from, st)
         \/ UpdateStatus(v, st)
         \/ st = "deleted" /\ SoftDelete(v)
  PROVE  RowsStay
<1>1. CASE UNCHANGED vms  BY Zenon, <1>1, RowsSame
<1>2. CASE Visible(v) /\ vms' = [vms EXCEPT ![v].status = st]  BY Zenon, <1>2, StatusWritten
<1> QED  BY Zenon, <1>1, <1>2 DEF TransitionStatus, MayTransition, UpdateStatus, SoftDelete

(* Tasks are published for no further creation.                            *)
TasksStay ==
  /\ task' \in [Kinds -> [VMs -> TaskStates]]
  /\ \A v \in VMs : HasTask(v)' = HasTask(v)
  /\ \A k \in Kinds, v \in VMs : task[k][v] # "none" => task'[k][v] # "none"

LEMMA TasksSame == ASSUME Typed, UNCHANGED task PROVE TasksStay
BY Zenon DEF Typed, TasksStay, HasTask

LEMMA TaskWritten ==
  ASSUME Typed, NEW k \in Kinds, NEW v \in VMs, NEW st \in TaskStates, st # "none",
         k = "create" => HasTask(v),
         task' = [task EXCEPT ![k][v] = st]
  PROVE  TasksStay
<1>1. task[k] \in [VMs -> TaskStates]  BY Zenon DEF Typed
<1>2. PICK f : f = [task[k] EXCEPT ![v] = st]  BY Zenon
<1>3. f \in [VMs -> TaskStates] /\ f[v] = st /\ \A u \in VMs \ {v} : f[u] = task[k][u]
  BY Zenon, <1>1, <1>2
<1>4. task' = [task EXCEPT ![k] = f]  BY Zenon, <1>2
<1>5. task'[k] = f /\ \A j \in Kinds \ {k} : task'[j] = task[j]  BY Zenon, <1>4 DEF Typed
<1>6. task' \in [Kinds -> [VMs -> TaskStates]]  BY Zenon, <1>3, <1>4 DEF Typed
<1>7. "create" \in Kinds  BY Zenon DEF Kinds
<1>8. ASSUME NEW u \in VMs PROVE HasTask(u)' = HasTask(u)
  <2>1. CASE k = "create" /\ u = v  BY Zenon, <1>3, <1>5, <2>1 DEF HasTask
  <2>2. CASE ~(k = "create" /\ u = v)  BY Zenon, <1>3, <1>5, <1>7, <2>2 DEF HasTask
  <2> QED  BY Zenon, <2>1, <2>2
<1>9. ASSUME NEW j \in Kinds, NEW u \in VMs, task[j][u] # "none" PROVE task'[j][u] # "none"
  BY Zenon, <1>3, <1>5, <1>9
<1> QED  BY Zenon, <1>6, <1>8, <1>9 DEF TasksStay

-----------------------------------------------------------------------------
(* The steps that leave the requests alone.                                *)

LEMMA RequestsStay ==
  ASSUME IndInv, RowsStay, TasksStay, UNCHANGED apiVars
  PROVE  KeysNameOne' /\ AnswersHold' /\ RowsAreOwned' /\ \A r \in Requests : RequestIsSound(r)'
<1> USE DEF IndInv, apiVars
<1>1. KeysNameOne'  BY ZenonT(60) DEF KeysNameOne, RowsStay, TasksStay
<1>2. AnswersHold'  BY Zenon DEF AnswersHold, RowsStay, TasksStay
<1>3. RowsAreOwned'  BY Zenon DEF RowsAreOwned
<1>4. ASSUME NEW r \in Requests PROVE RequestIsSound(r)'
  BY Zenon DEF RequestIsSound, RowsStay, TasksStay
<1> QED  BY Zenon, <1>1, <1>2, <1>3, <1>4

(* What a worker may do to the addresses: it takes none from the pool, and *)
(* gives its VM's guest none but its own.                                  *)
AddressesStay(w) ==
  /\ DOMAIN address' = DOMAIN address /\ DOMAIN config' = VMs
  /\ \A a \in DOMAIN address : address'[a].status = "available" => address[a].status = "available"
  /\ \A v \in VMs :
       \/ config'[v].ip = config[v].ip
       \/ v = job[w].vm /\ config'[v].ip = job[w].ip

(* A worker goes on with its VM, or is done with it.                       *)
JobGoesOn(w) ==
  /\ DOMAIN job' = Workers /\ \A x \in Workers \ {w} : job'[x] = job[x]
  /\ DOMAIN job'[w] = JobFields
  /\ \/ job'[w].pc = "idle" /\ job'[w].ip = None
     \/ /\ job[w].pc # "idle"
        /\ job'[w].kind = job[w].kind /\ job'[w].vm = job[w].vm /\ job'[w].ip = job[w].ip

LEMMA WorkerStep ==
  ASSUME IndInv, NEW w \in Workers, JobGoesOn(w), AddressesStay(w),
         RowsStay, TasksStay, UNCHANGED apiVars
  PROVE  IndInv'
<1>1. Typed'
  BY Zenon DEF IndInv, Typed, JobGoesOn, AddressesStay, RowsStay, TasksStay, apiVars
<1>2. ASSUME NEW x \in Workers PROVE JobIsSound(x)'
  <2>1. JobIsSound(x)  BY Zenon DEF IndInv
  <2>2. CASE x # w  BY ZenonT(60), <2>1, <2>2 DEF JobIsSound, JobGoesOn, TasksStay
  <2>3. CASE x = w  BY Zenon, <2>1, <2>3 DEF JobIsSound, JobGoesOn, TasksStay
  <2> QED  BY Zenon, <2>2, <2>3
<1>3. ASSUME NEW a, a # None, NEW v \in VMs, Given(v, a)' PROVE Given(v, a)
  <2>1. CASE config'[v].ip = a  BY Zenon, <2>1 DEF AddressesStay, Given
  <2>2. CASE \E x \in Workers : job'[x].vm = v /\ job'[x].ip = a
    BY Zenon, <1>3, <2>2 DEF JobGoesOn, Given
  <2> QED  BY Zenon, <1>3, <2>1, <2>2 DEF Given
<1>4. AddressesAreOwned'
  BY Zenon, <1>3 DEF IndInv, AddressesAreOwned, AddressesStay
<1> QED  BY Zenon, <1>1, <1>2, <1>4, RequestsStay DEF IndInv

LEMMA SameAddresses ==
  ASSUME Typed, NEW w \in Workers, UNCHANGED <<address, config>>
  PROVE  AddressesStay(w)
BY Zenon DEF Typed, AddressesStay

LEMMA Steps ==
  ASSUME IndInv, NEW w \in Workers, job[w].pc # "idle", NEW pc, Step(w, pc)
  PROVE  JobGoesOn(w)
<1>1. PICK j : j = [job[w] EXCEPT !.pc = pc]  BY Zenon
<1>2. DOMAIN j = JobFields /\ j.kind = job[w].kind /\ j.vm = job[w].vm /\ j.ip = job[w].ip
  BY Zenon, <1>1 DEF IndInv, Typed, JobFields
<1>3. job' = [job EXCEPT ![w] = j]  BY Zenon, <1>1 DEF Step
<1> QED  BY Zenon, <1>2, <1>3 DEF IndInv, Typed, JobGoesOn

LEMMA Drops ==
  ASSUME IndInv, NEW w \in Workers, job' = [job EXCEPT ![w] = NoJob]
  PROVE  JobGoesOn(w)
<1>1. DOMAIN NoJob = JobFields /\ NoJob.pc = "idle" /\ NoJob.ip = None  BY Zenon DEF NoJob, JobFields
<1> QED  BY Zenon, <1>1 DEF IndInv, Typed, JobGoesOn

LEMMA Finishes ==
  ASSUME IndInv, NEW w \in Workers, job[w].pc # "idle", Finish(w)
  PROVE  JobGoesOn(w) /\ TasksStay
<1>1. JobGoesOn(w)  BY Zenon, Drops DEF Finish
<1>2. PICK k, v : k = job[w].kind /\ v = job[w].vm  BY Zenon
<1>3. k \in Kinds /\ v \in VMs /\ task[k][v] # "none"  BY Zenon, <1>2 DEF IndInv, JobIsSound
<1>4. CASE UNCHANGED task  BY Zenon, <1>1, <1>4, TasksSame DEF IndInv
<1>5. CASE task' = [task EXCEPT ![k][v] = "acked"]
  <2>1. "acked" \in TaskStates  BY Zenon DEF TaskStates
  <2>2. k = "create" => HasTask(v)  BY Zenon, <1>3 DEF HasTask
  <2> QED  BY Zenon, <1>1, <1>3, <1>5, <2>1, <2>2, TaskWritten DEF IndInv
<1> QED  BY Zenon, <1>1, <1>2, <1>4, <1>5 DEF Finish

(* The handlers take no address from the pool when they release.           *)
LEMMA ReleasesStay ==
  ASSUME IndInv, NEW w \in Workers, NEW v, NEW ok, ReleaseIPsByVM(v, ok), UNCHANGED config
  PROVE  AddressesStay(w)
<1>1. CASE UNCHANGED address  BY Zenon, <1>1, SameAddresses DEF IndInv
<1>2. ASSUME NEW S, ReleaseIPv4(S) PROVE AddressesStay(w)
  BY Zenon, <1>2 DEF IndInv, Typed, AddressesStay, ReleaseIPv4
<1> QED  BY Zenon, <1>1, <1>2 DEF ReleaseIPsByVM

-----------------------------------------------------------------------------
(* The steps that leave the workers alone.                                 *)

LEMMA WorkersStay ==
  ASSUME IndInv, UNCHANGED <<job, config, address>>,
         \A k \in Kinds, v \in VMs : task[k][v] # "none" => task'[k][v] # "none"
  PROVE  AddressesAreOwned' /\ \A w \in Workers : JobIsSound(w)'
<1>1. AddressesAreOwned'  BY DEF IndInv, AddressesAreOwned, Given
<1>2. ASSUME NEW w \in Workers PROVE JobIsSound(w)'
  <2>1. JobIsSound(w)  BY Zenon DEF IndInv
  <2> QED  BY Zenon, <2>1 DEF JobIsSound
<1> QED  BY Zenon, <1>1, <1>2

(* A request goes on without a row of its own, or returns, with a VM that  *)
(* has the key or without one.                                             *)
LEMMA RequestStep ==
  ASSUME IndInv, NEW r \in Requests, NEW x \in RequestRecords,
         request' = [request EXCEPT ![r] = x],
         x.pc # "publish", x.pc \in {"mark", "delete"} => x.vm \in VMs /\ x.status # "none",
         NEW A, answer' = answer \cup A,
         \A a \in A : a.key # None => a.vm \in VMs /\ HasTask(a.vm) /\ vms[a.vm].key = a.key,
         RowsStay, TasksStay, UNCHANGED <<job, config, address>>
  PROVE  IndInv'
<1>1. request'[r] = x /\ \A q \in Requests \ {r} : request'[q] = request[q]
  BY Zenon DEF IndInv, Typed
<1>2. Typed'  BY Zenon DEF IndInv, Typed, RowsStay, TasksStay
<1>3. KeysNameOne'  BY SMTT(30) DEF IndInv, KeysNameOne, RowsStay, TasksStay
<1>4. AnswersHold'
  <2> SUFFICES ASSUME NEW a \in answer', a.key # None
               PROVE  a.vm \in VMs /\ HasTask(a.vm)' /\ vms'[a.vm].key = a.key
    BY Zenon DEF AnswersHold, HasTask
  <2>1. a.vm \in VMs /\ HasTask(a.vm) /\ vms[a.vm].key = a.key  BY Zenon DEF IndInv, AnswersHold
  <2> QED  BY Zenon, <2>1 DEF RowsStay, TasksStay
<1>5. ASSUME NEW q \in Requests PROVE RequestIsSound(q)'
  <2>1. CASE q = r  BY Zenon, <1>1, <2>1 DEF RequestIsSound
  <2>2. CASE q # r
    <3>1. RequestIsSound(q)  BY Zenon DEF IndInv
    <3> QED  BY Zenon, <1>1, <2>2, <3>1 DEF RequestIsSound, RowsStay, TasksStay
  <2> QED  BY Zenon, <2>1, <2>2
<1>6. RowsAreOwned'  BY <1>1 DEF IndInv, RowsAreOwned
<1>7. AddressesAreOwned' /\ \A w \in Workers : JobIsSound(w)'
  BY Zenon, WorkersStay DEF TasksStay
<1> QED  BY Zenon, <1>2, <1>3, <1>4, <1>5, <1>6, <1>7 DEF IndInv

LEMMA SilentStep ==
  ASSUME IndInv, NEW r \in Requests, NEW x \in RequestRecords,
         request' = [request EXCEPT ![r] = x],
         x.pc # "publish", x.pc \in {"mark", "delete"} => x.vm \in VMs /\ x.status # "none",
         RowsStay, TasksStay, UNCHANGED <<answer, job, config, address>>
  PROVE  IndInv'
<1>1. PICK A : A = {}  BY Zenon
<1>2. /\ answer' = answer \cup A
      /\ \A a \in A : a.key # None => a.vm \in VMs /\ HasTask(a.vm) /\ vms[a.vm].key = a.key
  BY Zenon, <1>1
<1>3. UNCHANGED <<job, config, address>>  BY Zenon
<1> QED  BY Zenon, <1>2, <1>3, RequestStep

Done == [NoRequest EXCEPT !.pc = "done"]

LEMMA DoneIs == Done \in RequestRecords /\ Done.pc = "done"
BY Zenon DEF Done, NoRequest, RequestRecords, RequestPcs, AllCalls, NoCall, AllStatuses

LEMMA Refuses ==
  ASSUME IndInv, NEW r \in Requests, Refuse(r), RowsStay, TasksStay,
         UNCHANGED <<job, config, address>>
  PROVE  IndInv'
<1>1. request' = [request EXCEPT ![r] = Done] /\ UNCHANGED answer
  BY Zenon DEF Refuse, Return, Done
<1>2. PICK x \in RequestRecords : x = Done /\ x.pc = "done"  BY Zenon, DoneIs
<1> QED  BY Zenon, <1>1, <1>2, SilentStep

LEMMA Answers ==
  ASSUME IndInv, NEW r \in Requests, NEW c, NEW v \in WithKey(c.key), Answer(r, c, v),
         UNCHANGED <<vms, task, job, config, address>>
  PROVE  IndInv'
<1>1. PICK a : a = [key |-> c.key, vm |-> v]  BY Zenon
<1>2. PICK A : A = {a}  BY Zenon
<1>3. /\ request' = [request EXCEPT ![r] = Done] /\ answer' = answer \cup A
      /\ \A b \in A : b.key # None => b.vm \in VMs /\ HasTask(b.vm) /\ vms[b.vm].key = b.key
  BY <1>1, <1>2 DEF Answer, Return, Done, WithKey, HasTask
<1>4. PICK x \in RequestRecords : x = Done /\ x.pc = "done"  BY Zenon, DoneIs
<1>5. RowsStay /\ TasksStay  BY Zenon, RowsSame, TasksSame DEF IndInv
<1>6. UNCHANGED <<job, config, address>>  BY Zenon
<1> QED  BY Zenon, <1>3, <1>4, <1>5, <1>6, RequestStep

(* A request keeps its call and VM on its way.                             *)
LEMMA Goes ==
  ASSUME IndInv, NEW r \in Requests, NEW pc \in RequestPcs \ {"publish"}, Goto(r, pc),
         pc \in {"mark", "delete"} => request[r].pc \in {"mark", "delete"},
         RowsStay, TasksStay, UNCHANGED <<answer, job, config, address>>
  PROVE  IndInv'
<1>1. PICK x : x = [request[r] EXCEPT !.pc = pc]  BY Zenon
<1>2. request[r] \in RequestRecords  BY Zenon DEF IndInv, Typed
<1>3. x \in RequestRecords /\ x.pc = pc /\ x.vm = request[r].vm /\ x.status = request[r].status
  BY Zenon, <1>1, <1>2 DEF RequestRecords
<1>4. request' = [request EXCEPT ![r] = x]  BY Zenon, <1>1 DEF Goto
<1>5. x.pc \in {"mark", "delete"} => x.vm \in VMs /\ x.status # "none"
  BY Zenon, <1>3 DEF IndInv, RequestIsSound
<1> QED  BY Zenon, <1>3, <1>4, <1>5, SilentStep

-----------------------------------------------------------------------------
(* The requests.                                                           *)

LEMMA ResolveInv ==
  ASSUME IndInv, NEW r \in Requests, NEW c \in Calls, ResolveCreateIdempotency(r, c)
  PROVE  IndInv'
<1> USE DEF ResolveCreateIdempotency
<1>1. RowsStay /\ TasksStay /\ UNCHANGED <<job, config, address>>
  BY Zenon, RowsSame, TasksSame DEF IndInv, queueVars, ipamVars
<1>2. CASE Refuse(r)  BY Zenon, <1>1, <1>2, Refuses
<1>3. CASE \E v \in WithKey(c.key) : Answer(r, c, v)
  BY Zenon, <1>1, <1>3, Answers DEF queueVars
<1>4. CASE /\ request' = [request EXCEPT ![r].pc = "service", ![r].call = c]
           /\ UNCHANGED answer
  <2>1. PICK x : x = [NoRequest EXCEPT !.pc = "service", !.call = c]  BY Zenon
  <2>2. x \in RequestRecords /\ x.pc = "service"
    BY Zenon, <2>1 DEF NoRequest, RequestRecords, RequestPcs, AllCalls, AllStatuses
  <2>3. request' = [request EXCEPT ![r] = x]
    BY Zenon, <1>4, <2>1 DEF IndInv, Typed
  <2> QED  BY Zenon, <1>1, <1>4, <2>2, <2>3, SilentStep
<1> QED  BY Zenon, <1>2, <1>3, <1>4

LEMMA CheckInv ==
  ASSUME IndInv, NEW r \in Requests, CheckCreate(r)
  PROVE  IndInv'
<1>1. RowsStay /\ TasksStay /\ UNCHANGED <<job, config, address>>
  BY Zenon, RowsSame, TasksSame DEF IndInv, CheckCreate, queueVars, ipamVars
<1>2. CASE Refuse(r)  BY Zenon, <1>1, <1>2, Refuses
<1>3. CASE Goto(r, "insert") /\ UNCHANGED answer
  <2>1. "insert" \in RequestPcs \ {"publish"} /\ "insert" \notin {"mark", "delete"}
    BY Zenon DEF RequestPcs
  <2> QED  BY Zenon, <1>1, <1>3, <2>1, Goes
<1> QED  BY Zenon, <1>2, <1>3 DEF CheckCreate

(* The new row has no task, and is not in the hands of another request.    *)
LEMMA PersistInv ==
  ASSUME IndInv, NEW r \in Requests, PersistVMRecord(r)
  PROVE  IndInv'
<1>1. TasksStay /\ UNCHANGED <<task, job, config, address>>
  BY Zenon, TasksSame DEF IndInv, PersistVMRecord, queueVars, ipamVars
<1>2. CASE Refuse(r) /\ UNCHANGED vms
  BY Zenon, <1>1, <1>2, RowsSame, Refuses DEF IndInv
<1>3. CASE ~(Refuse(r) /\ UNCHANGED vms)
  <2>1. PICK v : v = CHOOSE x \in VMs : vms[x] = NoVM  BY Zenon
  <2>2. v \in VMs /\ vms[v] = NoVM  BY Zenon, <2>1 DEF PersistVMRecord
  <2>3. PICK s : s = request[r].call.service  BY Zenon
  <2>4. PICK y : y = [status |-> "provisioning", key |-> None, service |-> s]  BY Zenon
  <2>5. /\ vms' = [vms EXCEPT ![v] = y]
        /\ request' = [request EXCEPT ![r].pc = "publish", ![r].vm = v]
        /\ UNCHANGED answer
    BY Zenon, <1>3, <2>1, <2>3, <2>4 DEF PersistVMRecord
  <2>6. request[r] \in RequestRecords  BY Zenon DEF IndInv, Typed
  <2>7. y \in RowRecords /\ y.status # "none"
    <3>1. request[r].call \in AllCalls  BY Zenon, <2>6 DEF RequestRecords
    <3>2. NoCall \in AllCalls /\ NoCall.key = None  BY Zenon DEF AllCalls, NoCall
    <3>3. None \in {c.key : c \in AllCalls} /\ s \in {c.service : c \in AllCalls}
      BY Zenon, <2>3, <3>1, <3>2
    <3> QED  BY Zenon, <2>4, <3>3 DEF RowRecords, AllStatuses, Statuses
  <2>8. PICK x : x = [request[r] EXCEPT !.pc = "publish", !.vm = v]  BY Zenon
  <2>9. x \in RequestRecords /\ x.pc = "publish" /\ x.vm = v
    BY Zenon, <2>2, <2>6, <2>8 DEF RequestRecords, RequestPcs
  <2>10. request' = [request EXCEPT ![r] = x]  BY Zenon, <2>5, <2>8 DEF IndInv, Typed
  <2>11. request'[r] = x /\ \A q \in Requests \ {r} : request'[q] = request[q]
    BY Zenon, <2>10 DEF IndInv, Typed
  <2>12. vms'[v] = y /\ \A u \in VMs \ {v} : vms'[u] = vms[u]
    BY Zenon, <2>2, <2>5 DEF IndInv, Typed
  <2>13. vms' \in [VMs -> RowRecords]  BY Zenon, <2>2, <2>5, <2>7 DEF IndInv, Typed
  <2>14. vms[v].status = "none" /\ ~HasTask(v)
    BY <2>2 DEF NoVM, IndInv, KeysNameOne
  <2>15. \A u \in VMs : HasTask(u)' = HasTask(u)  BY Zenon, <1>1 DEF HasTask
  <2>16. Typed'
    BY Zenon, <1>1, <2>9, <2>10, <2>13 DEF IndInv, Typed
  <2>17. KeysNameOne'
    BY Zenon, <2>12, <2>14, <2>15 DEF IndInv, KeysNameOne
  <2>18. AnswersHold'
    BY Zenon, <2>5, <2>12, <2>14, <2>15 DEF IndInv, AnswersHold
  <2>19. ASSUME NEW q \in Requests, q # r, request[q].pc = "publish" PROVE request[q].vm # v
    BY Zenon, <2>14, <2>19 DEF IndInv, RequestIsSound
  <2>20. ASSUME NEW q \in Requests PROVE RequestIsSound(q)'
    <3>1. CASE q = r
      BY Zenon, <2>2, <2>7, <2>9, <2>11, <2>12, <2>14, <2>15, <3>1 DEF RequestIsSound
    <3>2. CASE q # r
      <4>1. RequestIsSound(q)  BY Zenon DEF IndInv
      <4> QED  BY Zenon, <2>11, <2>12, <2>15, <2>19, <3>2, <4>1 DEF RequestIsSound
    <3> QED  BY Zenon, <3>1, <3>2
  <2>21. RowsAreOwned'  BY <2>9, <2>11, <2>19 DEF IndInv, RowsAreOwned
  <2>22. AddressesAreOwned' /\ \A w \in Workers : JobIsSound(w)'
    BY Zenon, <1>1, WorkersStay DEF TasksStay
  <2> QED  BY Zenon, <2>16, <2>17, <2>18, <2>20, <2>21, <2>22 DEF IndInv
<1> QED  BY Zenon, <1>2, <1>3

(* The task is inserted, under a key that no other create task has.        *)
LEMMA CreationPublished ==
  ASSUME IndInv, NEW r \in Requests, request[r].pc = "publish",
         NEW v, v = request[r].vm, NEW key, key = request[r].call.key, WithKey(key) = {},
         InsertTask("create", v),
         NEW y \in RowRecords, y.key = key, y.status # "none", vms' = [vms EXCEPT ![v] = y],
         Return(r), NEW A \in SUBSET {[key |-> key, vm |-> v]}, answer' = answer \cup A,
         UNCHANGED <<job, config, address>>
  PROVE  IndInv'
<1>1. v \in VMs /\ ~HasTask(v)  BY Zenon DEF IndInv, RequestIsSound
<1>2. vms'[v] = y /\ \A u \in VMs \ {v} : vms'[u] = vms[u]  BY Zenon, <1>1 DEF IndInv, Typed
<1>3. vms' \in [VMs -> RowRecords]  BY Zenon, <1>1 DEF IndInv, Typed
<1>4. "create" \in Kinds /\ "queued" \in TaskStates  BY Zenon DEF Kinds, TaskStates
<1>5. PICK f : f = [task["create"] EXCEPT ![v] = "queued"]  BY Zenon
<1>6. task["create"] \in [VMs -> TaskStates]  BY Zenon, <1>4 DEF IndInv, Typed
<1>7. /\ f \in [VMs -> TaskStates]
      /\ f[v] = "queued" /\ \A u \in VMs \ {v} : f[u] = task["create"][u]
  BY Zenon, <1>1, <1>4, <1>5, <1>6
<1>8. task' = [task EXCEPT !["create"] = f]  BY Zenon, <1>5 DEF InsertTask
<1>9. task'["create"] = f /\ \A k \in Kinds \ {"create"} : task'[k] = task[k]
  BY Zenon, <1>4, <1>8 DEF IndInv, Typed
<1>10. task' \in [Kinds -> [VMs -> TaskStates]]  BY Zenon, <1>4, <1>7, <1>8 DEF IndInv, Typed
<1>11. HasTask(v)' /\ \A u \in VMs \ {v} : HasTask(u)' = HasTask(u)
  BY Zenon, <1>1, <1>7, <1>9 DEF HasTask
<1>12. PICK x \in RequestRecords : x = Done /\ x.pc = "done"  BY Zenon, DoneIs
<1>13. request' = [request EXCEPT ![r] = x]  BY Zenon, <1>12 DEF Return, Done
<1>14. request'[r] = x /\ \A q \in Requests \ {r} : request'[q] = request[q]
  BY Zenon, <1>13 DEF IndInv, Typed
<1>15. Typed'  BY Zenon, <1>3, <1>10, <1>12, <1>13 DEF IndInv, Typed
<1>16. \A u \in VMs : HasTask(u) /\ key # None => vms[u].key # key
  BY Zenon DEF WithKey, HasTask
<1>17. KeysNameOne'
  <2>1. \A u \in VMs : HasTask(u)' => vms'[u].status # "none"
    BY Zenon, <1>2, <1>11 DEF IndInv, KeysNameOne
  <2>2. ASSUME NEW u \in VMs, NEW w \in VMs, HasTask(u)', HasTask(w)', vms'[u].key = vms'[w].key,
               vms'[u].key # None
        PROVE  u = w
    BY SMTT(30), <1>2, <1>11, <1>16, <2>2 DEF IndInv, KeysNameOne
  <2> QED  BY Zenon, <2>1, <2>2 DEF KeysNameOne
<1>18. AnswersHold'
  <2> SUFFICES ASSUME NEW a \in answer', a.key # None
               PROVE  a.vm \in VMs /\ HasTask(a.vm)' /\ vms'[a.vm].key = a.key
    BY Zenon DEF AnswersHold, HasTask
  <2>1. CASE a \in answer
    BY Zenon, <1>1, <1>2, <1>11, <2>1 DEF IndInv, AnswersHold
  <2>2. CASE a = [key |-> key, vm |-> v]  BY Zenon, <1>1, <1>2, <1>11, <2>2
  <2> QED  BY Zenon, <2>1, <2>2
<1>19. ASSUME NEW q \in Requests PROVE RequestIsSound(q)'
  <2>1. CASE q = r  BY Zenon, <1>12, <1>14, <2>1 DEF RequestIsSound
  <2>2. CASE q # r
    <3>1. RequestIsSound(q)  BY Zenon DEF IndInv
    <3>2. request[q].pc = "publish" => request[q].vm # v  BY Zenon, <2>2 DEF IndInv, RowsAreOwned
    <3> QED  BY ZenonT(60), <1>2, <1>11, <1>14, <2>2, <3>1, <3>2 DEF RequestIsSound
  <2> QED  BY Zenon, <2>1, <2>2
<1>20. RowsAreOwned'  BY <1>12, <1>14 DEF IndInv, RowsAreOwned
<1>21. \A k \in Kinds, u \in VMs : task[k][u] # "none" => task'[k][u] # "none"
  BY Zenon, <1>4, <1>7, <1>9
<1>22. AddressesAreOwned' /\ \A w \in Workers : JobIsSound(w)'  BY Zenon, <1>21, WorkersStay
<1> QED  BY Zenon, <1>15, <1>17, <1>18, <1>19, <1>20, <1>22 DEF IndInv

LEMMA PublishInv ==
  ASSUME IndInv, NEW r \in Requests, PublishVMCreateTask(r)
  PROVE  IndInv'
<1>1. request[r].pc = "publish" /\ UNCHANGED <<job, config, address>>
  BY Zenon DEF PublishVMCreateTask, ipamVars
<1>2. PICK v : v = request[r].vm  BY Zenon
<1>3. PICK key : key = request[r].call.key  BY Zenon
<1>4. v \in VMs /\ vms[v] \in RowRecords /\ vms[v].status # "none"
  BY Zenon, <1>1, <1>2 DEF IndInv, Typed, RequestIsSound
<1>5. key \in {c.key : c \in AllCalls}
  BY Zenon, <1>3 DEF IndInv, Typed, RequestRecords
<1>6. CASE /\ WithKey(key) = {} /\ InsertTask("create", v)
           /\ vms' = [vms EXCEPT ![v].key = key] /\ Answer(r, request[r].call, v)
  <2>1. PICK y : y = [vms[v] EXCEPT !.key = key]  BY Zenon
  <2>2. y \in RowRecords /\ y.key = key /\ y.status # "none"
    BY Zenon, <1>4, <1>5, <2>1 DEF RowRecords
  <2>3. vms' = [vms EXCEPT ![v] = y]  BY Zenon, <1>6, <2>1
  <2>4. PICK A : A = {[key |-> key, vm |-> v]}  BY Zenon
  <2>5. Return(r) /\ answer' = answer \cup A  BY Zenon, <1>3, <1>6, <2>4 DEF Answer
  <2> QED  BY Zenon, <1>1, <1>2, <1>3, <1>6, <2>2, <2>3, <2>4, <2>5, CreationPublished
<1>7. CASE SoftDelete(v) /\ Refuse(r) /\ UNCHANGED task
  <2>1. "deleted" \in Statuses  BY Zenon DEF Statuses
  <2>2. RowsStay  BY Zenon, <1>4, <1>7, <2>1, StatusMoves DEF IndInv
  <2> QED  BY Zenon, <1>1, <1>7, <2>2, TasksSame, Refuses DEF IndInv
<1>8. CASE /\ WithKey(key) = {} /\ InsertTask("create", v)
           /\ vms' = [vms EXCEPT ![v].key = key, ![v].status = "deleted"] /\ Refuse(r)
  <2>1. PICK y : y = [vms[v] EXCEPT !.key = key, !.status = "deleted"]  BY Zenon
  <2>2. y \in RowRecords /\ y.key = key /\ y.status # "none"
    BY Zenon, <1>4, <1>5, <2>1 DEF RowRecords, AllStatuses, Statuses
  <2>3. vms' = [vms EXCEPT ![v] = y]  BY Zenon, <1>4, <1>8, <2>1 DEF IndInv, Typed
  <2>4. PICK A : A = {}  BY Zenon
  <2>5. Return(r) /\ answer' = answer \cup A  BY Zenon, <1>8, <2>4 DEF Refuse
  <2>6. A \in SUBSET {[key |-> key, vm |-> v]}  BY Zenon, <2>4
  <2> QED  BY Zenon, <1>1, <1>2, <1>3, <1>8, <2>2, <2>3, <2>5, <2>6, CreationPublished
<1> QED  BY Zenon, <1>2, <1>3, <1>6, <1>7, <1>8 DEF PublishVMCreateTask

LEMMA GetForDeleteInv ==
  ASSUME IndInv, NEW r \in Requests, NEW v \in VMs, GetVMForDelete(r, v)
  PROVE  IndInv'
<1>1. RowsStay /\ TasksStay /\ UNCHANGED <<job, config, address>>
  BY Zenon, RowsSame, TasksSame DEF IndInv, GetVMForDelete, queueVars, ipamVars
<1>2. vms[v].status \in AllStatuses /\ vms[v].status # "none"
  BY Zenon DEF GetVMForDelete, Visible, IndInv, Typed, RowRecords
<1>3. PICK x : x = [NoRequest EXCEPT !.pc = "mark", !.vm = v, !.status = vms[v].status]  BY Zenon
<1>4. x \in RequestRecords /\ x.pc = "mark" /\ x.vm = v /\ x.status # "none"
  BY Zenon, <1>2, <1>3 DEF NoRequest, RequestRecords, RequestPcs, AllCalls, NoCall
<1>5. request' = [request EXCEPT ![r] = x] /\ UNCHANGED answer  BY Zenon, <1>3 DEF GetVMForDelete
<1> QED  BY Zenon, <1>1, <1>4, <1>5, SilentStep

LEMMA MarkInv ==
  ASSUME IndInv, NEW r \in Requests, MarkDeleting(r)
  PROVE  IndInv'
<1>1. TasksStay /\ UNCHANGED <<job, config, address>>
  BY Zenon, TasksSame DEF IndInv, MarkDeleting, queueVars, ipamVars
<1>2. PICK v : v = request[r].vm  BY Zenon
<1>3. PICK st : st = request[r].status  BY Zenon
<1>4. v \in VMs /\ request[r].pc = "mark"
  BY Zenon, <1>2 DEF IndInv, RequestIsSound, MarkDeleting
<1>5. TransitionStatus(v, st, "deleting")  BY Zenon, <1>2, <1>3 DEF MarkDeleting
<1>6. "deleting" \in Statuses  BY Zenon DEF Statuses
<1>7. RowsStay  BY Zenon, <1>4, <1>5, <1>6, StatusMoves DEF IndInv
<1>8. CASE Refuse(r)  BY Zenon, <1>1, <1>7, <1>8, Refuses
<1>9. CASE Goto(r, "delete") /\ UNCHANGED answer
  <2>1. "delete" \in RequestPcs \ {"publish"}  BY Zenon DEF RequestPcs
  <2> QED  BY Zenon, <1>1, <1>4, <1>7, <1>9, <2>1, Goes
<1> QED  BY Zenon, <1>8, <1>9 DEF MarkDeleting

LEMMA PublishDeleteInv ==
  ASSUME IndInv, NEW r \in Requests, PublishVMDeleteTask(r)
  PROVE  IndInv'
<1>1. Refuse(r) /\ UNCHANGED <<job, config, address>>
  BY Zenon DEF PublishVMDeleteTask, ipamVars
<1>2. PICK v : v = request[r].vm  BY Zenon
<1>3. PICK st : st = request[r].status  BY Zenon
<1>4. v \in VMs /\ st # "none" /\ st \in AllStatuses
  BY Zenon, <1>2, <1>3 DEF IndInv, Typed, RequestRecords, RequestIsSound, PublishVMDeleteTask
<1>5. UNCHANGED vms \/ UpdateStatus(v, st)  BY Zenon, <1>2, <1>3 DEF PublishVMDeleteTask
<1>6. UNCHANGED task \/ InsertTask("delete", v)  BY Zenon, <1>2 DEF PublishVMDeleteTask
<1>7. RowsStay
  <2>1. CASE UNCHANGED vms  BY Zenon, <2>1, RowsSame DEF IndInv
  <2>2. CASE UpdateStatus(v, st)
    <3>1. st \in Statuses  BY Zenon, <1>4 DEF AllStatuses
    <3> QED  BY Zenon, <1>4, <2>2, <3>1, StatusMoves DEF IndInv
  <2> QED  BY Zenon, <1>5, <2>1, <2>2
<1>8. TasksStay
  <2>1. CASE UNCHANGED task  BY Zenon, <2>1, TasksSame DEF IndInv
  <2>2. CASE InsertTask("delete", v)
    <3>1. "delete" \in Kinds /\ "queued" \in TaskStates  BY Zenon DEF Kinds, TaskStates
    <3>2. task' = [task EXCEPT !["delete"][v] = "queued"]  BY Zenon, <2>2 DEF InsertTask
    <3> QED  BY Zenon, <1>4, <3>1, <3>2, TaskWritten DEF IndInv
  <2> QED  BY Zenon, <1>6, <2>1, <2>2
<1> QED  BY Zenon, <1>1, <1>7, <1>8, Refuses

LEMMA DropInv ==
  ASSUME IndInv, NEW r \in Requests, DropRequest(r)
  PROVE  IndInv'
<1>1. RowsStay /\ TasksStay /\ UNCHANGED <<job, config, address>>
  BY Zenon, RowsSame, TasksSame DEF IndInv, DropRequest, queueVars, ipamVars
<1> QED  BY Zenon, <1>1, Refuses DEF DropRequest

-----------------------------------------------------------------------------
(* The workers.                                                            *)

LEMMA DeliverInv ==
  ASSUME IndInv, NEW w \in Workers, NEW k \in Kinds, NEW v \in VMs, Deliver(w, k, v)
  PROVE  IndInv'
<1>1. RowsStay /\ TasksStay /\ UNCHANGED <<config, address, task, apiVars>>
  BY Zenon, RowsSame, TasksSame DEF IndInv, Deliver, ipamVars
<1>2. PICK pc : pc = IF k = "create" THEN "prepare" ELSE "load"  BY Zenon
<1>3. PICK j : j = [NoJob EXCEPT !.pc = pc, !.kind = k, !.vm = v]  BY Zenon
<1>4. DOMAIN j = JobFields /\ j.kind = k /\ j.vm = v /\ j.ip = None
  BY Zenon, <1>3 DEF NoJob, JobFields
<1>5. job' = [job EXCEPT ![w] = j]  BY Zenon, <1>2, <1>3 DEF Deliver
<1>6. /\ DOMAIN job' = Workers
      /\ job'[w] = j /\ \A x \in Workers \ {w} : job'[x] = job[x]
  BY Zenon, <1>5 DEF IndInv, Typed
<1>7. Typed'
  BY Zenon, <1>1, <1>4, <1>6 DEF IndInv, Typed, RowsStay, apiVars
<1>8. task[k][v] # "none"  BY Zenon DEF Deliver
<1>9. ASSUME NEW x \in Workers PROVE JobIsSound(x)'
  <2>1. JobIsSound(x)  BY Zenon DEF IndInv
  <2>2. CASE x = w  BY Zenon, <1>1, <1>4, <1>6, <1>8, <2>2 DEF JobIsSound
  <2>3. CASE x # w  BY Zenon, <1>1, <1>6, <2>1, <2>3 DEF JobIsSound
  <2> QED  BY Zenon, <2>2, <2>3
<1>10. ASSUME NEW a, a # None, NEW u \in VMs, Given(u, a)' PROVE Given(u, a)
  BY Zenon, <1>1, <1>4, <1>6, <1>10 DEF Given
<1>11. AddressesAreOwned'  BY Zenon, <1>1, <1>10 DEF IndInv, AddressesAreOwned
<1> QED  BY Zenon, <1>1, <1>7, <1>9, <1>11, RequestsStay DEF IndInv

(* The address comes from the pool, so that no guest was given it before.  *)
LEMMA AllocateAddressInv ==
  ASSUME IndInv, NEW w \in Workers, AllocateAddress(w)
  PROVE  IndInv'
<1>1. RowsStay /\ TasksStay /\ UNCHANGED <<config, task, apiVars>>
  BY Zenon, RowsSame, TasksSame DEF IndInv, AllocateAddress, queueVars
<1>2. PICK a \in AllocateIPv4 \cup {None} :
        /\ Assign(a, job[w].vm)
        /\ job' = [job EXCEPT ![w].pc = "ipv6", ![w].ip = a]
  BY Zenon DEF AllocateAddress
<1>3. PICK v : v = job[w].vm  BY Zenon
<1>4. job[w].pc # "idle"  BY Zenon DEF AllocateAddress
<1>5. v \in VMs  BY Zenon, <1>3, <1>4 DEF IndInv, JobIsSound
<1>6. PICK j : j = [job[w] EXCEPT !.pc = "ipv6", !.ip = a]  BY Zenon
<1>7. DOMAIN j = JobFields /\ j.kind = job[w].kind /\ j.vm = v /\ j.ip = a
  BY Zenon, <1>3, <1>6 DEF IndInv, Typed, JobFields
<1>8. job' = [job EXCEPT ![w] = j]  BY Zenon, <1>2, <1>6 DEF IndInv, Typed
<1>9. /\ DOMAIN job' = Workers
      /\ job'[w] = j /\ \A x \in Workers \ {w} : job'[x] = job[x]
  BY Zenon, <1>8 DEF IndInv, Typed
<1>10. a # None => a \in DOMAIN address /\ address[a].status = "available"
  BY Zenon DEF AllocateIPv4, Available, IndInv, Typed, Range
<1>11. /\ DOMAIN address' = DOMAIN address
       /\ a # None => address'[a].status # "available"
       /\ \A b \in DOMAIN address : address'[b].status = "available" => address[b].status = "available"
  <2>1. CASE a = None  BY Zenon, <1>2, <2>1 DEF Assign
  <2>2. CASE a # None  BY SMTT(30), <1>2, <1>10, <2>2 DEF Assign
  <2> QED  BY Zenon, <2>1, <2>2
<1>12. Typed'
  BY Zenon, <1>1, <1>7, <1>9, <1>11 DEF IndInv, Typed, RowsStay, apiVars
<1>13. ASSUME NEW x \in Workers PROVE JobIsSound(x)'
  <2>1. JobIsSound(x)  BY Zenon DEF IndInv
  <2>2. CASE x = w  BY Zenon, <1>1, <1>3, <1>4, <1>7, <1>9, <2>1, <2>2 DEF JobIsSound
  <2>3. CASE x # w  BY Zenon, <1>1, <1>9, <2>1, <2>3 DEF JobIsSound
  <2> QED  BY Zenon, <2>2, <2>3
<1>14. ASSUME NEW b, NEW u \in VMs, Given(u, b)' PROVE Given(u, b) \/ (u = v /\ b = a)
  BY Zenon, <1>1, <1>7, <1>9, <1>14 DEF Given
<1>15. \A u \in VMs : a # None => ~Given(u, a)  BY Zenon, <1>10 DEF IndInv, AddressesAreOwned
<1>16. AddressesAreOwned'
  BY Zenon, <1>10, <1>11, <1>14, <1>15 DEF IndInv, AddressesAreOwned
<1> QED  BY Zenon, <1>1, <1>12, <1>13, <1>16, RequestsStay DEF IndInv

LEMMA InterruptInv ==
  ASSUME IndInv, NEW w \in Workers, Interrupt(w)
  PROVE  IndInv'
<1>1. RowsStay /\ TasksStay /\ AddressesStay(w) /\ UNCHANGED apiVars
  BY Zenon, RowsSame, TasksSame, SameAddresses DEF IndInv, Interrupt, Fail
<1>2. JobGoesOn(w)  BY Zenon, Drops DEF Interrupt, Fail
<1> QED  BY Zenon, <1>1, <1>2, WorkerStep

LEMMA PrepareInv ==
  ASSUME IndInv, NEW w \in Workers, PrepareCreate(w)
  PROVE  IndInv'
<1>1. RowsStay /\ TasksStay /\ AddressesStay(w) /\ UNCHANGED apiVars
  BY Zenon, RowsSame, TasksSame, SameAddresses DEF IndInv, PrepareCreate, Fail, ipamVars
<1>2. job[w].pc # "idle" /\ (Step(w, "ipv4") \/ Fail(w))  BY Zenon DEF PrepareCreate
<1>3. JobGoesOn(w)  BY Zenon, <1>2, Steps, Drops DEF Fail
<1> QED  BY Zenon, <1>1, <1>3, WorkerStep

LEMMA AllocateSubnetInv ==
  ASSUME IndInv, NEW w \in Workers, AllocateSubnet(w)
  PROVE  IndInv'
<1>1. RowsStay /\ TasksStay /\ AddressesStay(w) /\ UNCHANGED apiVars
  BY Zenon, RowsSame, TasksSame, SameAddresses DEF IndInv, AllocateSubnet, queueVars
<1>2. PICK n : n = IF subnets' = subnets THEN None ELSE NextIndex  BY Zenon
<1>3. PICK s : s = <<"release-ips">>  BY Zenon
<1>4. PICK j : j = [job[w] EXCEPT !.pc = "agent", !.undo = s, !.subnet = n]  BY Zenon
<1>5. DOMAIN j = JobFields /\ j.kind = job[w].kind /\ j.vm = job[w].vm /\ j.ip = job[w].ip
  BY Zenon, <1>4 DEF IndInv, Typed, JobFields
<1>6. job' = [job EXCEPT ![w].pc = "agent", ![w].undo = s, ![w].subnet = n] /\ job[w].pc # "idle"
  BY Zenon, <1>2, <1>3 DEF AllocateSubnet
<1>7. job' = [job EXCEPT ![w] = j]  BY Zenon, <1>4, <1>6 DEF IndInv, Typed
<1>8. JobGoesOn(w)  BY Zenon, <1>5, <1>6, <1>7 DEF IndInv, Typed, JobGoesOn
<1> QED  BY Zenon, <1>1, <1>8, WorkerStep

LEMMA AwaitInv ==
  ASSUME IndInv, NEW w \in Workers, AwaitPrefix(w)
  PROVE  IndInv'
<1>1. RowsStay /\ TasksStay /\ AddressesStay(w) /\ UNCHANGED apiVars
  BY Zenon, RowsSame, TasksSame, SameAddresses DEF IndInv, AwaitPrefix, Fail, ipamVars
<1>2. JobGoesOn(w)  BY Zenon, Drops DEF AwaitPrefix, Fail
<1> QED  BY Zenon, <1>1, <1>2, WorkerStep

(* The guest is given the address that its handler holds.                  *)
LEMMA MaterializeInv ==
  ASSUME IndInv, NEW w \in Workers, MaterializeVM(w)
  PROVE  IndInv'
<1>1. RowsStay /\ TasksStay /\ UNCHANGED <<address, apiVars>> /\ job[w].pc # "idle"
  BY Zenon, RowsSame, TasksSame DEF IndInv, MaterializeVM, ipamVars, queueVars
<1>2. PICK v : v = job[w].vm  BY Zenon
<1>3. PICK y : y = [ip |-> job[w].ip, subnet |-> job[w].subnet]  BY Zenon
<1>4. UNCHANGED config \/ config' = [config EXCEPT ![v] = y]
  BY Zenon, <1>2, <1>3 DEF MaterializeVM
<1>5. y.ip = job[w].ip  BY Zenon, <1>3
<1>6. AddressesStay(w)
  <2>1. CASE UNCHANGED config  BY Zenon, <1>1, <2>1, SameAddresses DEF IndInv
  <2>2. CASE config' = [config EXCEPT ![v] = y]
    BY Zenon, <1>1, <1>2, <1>5, <2>2 DEF IndInv, Typed, AddressesStay
  <2> QED  BY Zenon, <1>4, <2>1, <2>2
<1>7. PICK s : s = Append(job[w].undo, "delete-vm")  BY Zenon
<1>8. CASE Step(w, "undo")  BY Zenon, <1>1, <1>6, <1>8, Steps, WorkerStep
<1>9. CASE job' = [job EXCEPT ![w].pc = "running", ![w].undo = s]
  <2>1. PICK j : j = [job[w] EXCEPT !.pc = "running", !.undo = s]  BY Zenon
  <2>2. DOMAIN j = JobFields /\ j.kind = job[w].kind /\ j.vm = job[w].vm /\ j.ip = job[w].ip
    BY Zenon, <2>1 DEF IndInv, Typed, JobFields
  <2>3. job' = [job EXCEPT ![w] = j]  BY Zenon, <1>9, <2>1 DEF IndInv, Typed
  <2>4. JobGoesOn(w)  BY Zenon, <1>1, <2>2, <2>3 DEF IndInv, Typed, JobGoesOn
  <2> QED  BY Zenon, <1>1, <1>6, <2>4, WorkerStep
<1> QED  BY Zenon, <1>7, <1>8, <1>9 DEF MaterializeVM

LEMMA SetRunningInv ==
  ASSUME IndInv, NEW w \in Workers, SetRunning(w)
  PROVE  IndInv'
<1>1. TasksStay /\ AddressesStay(w) /\ UNCHANGED apiVars /\ job[w].pc # "idle"
  BY Zenon, TasksSame, SameAddresses DEF IndInv, SetRunning, ipamVars, queueVars
<1>2. PICK v : v = job[w].vm  BY Zenon
<1>3. v \in VMs  BY Zenon, <1>1, <1>2 DEF IndInv, JobIsSound
<1>4. UNCHANGED vms \/ TransitionStatus(v, "provisioning", "running")  BY Zenon, <1>2 DEF SetRunning
<1>5. "running" \in Statuses  BY Zenon DEF Statuses
<1>6. RowsStay  BY Zenon, <1>3, <1>4, <1>5, RowsSame, StatusMoves DEF IndInv
<1>7. Step(w, "mac") \/ Step(w, "undo")  BY Zenon DEF SetRunning
<1> QED  BY Zenon, <1>1, <1>6, <1>7, Steps, WorkerStep

LEMMA UpdateMACInv ==
  ASSUME IndInv, NEW w \in Workers, UpdateMACAddress(w)
  PROVE  IndInv'
<1>1. RowsStay /\ AddressesStay(w) /\ UNCHANGED apiVars /\ job[w].pc # "idle"
  BY Zenon, RowsSame, SameAddresses DEF IndInv, UpdateMACAddress, ipamVars
<1>2. CASE Finish(w)  BY Zenon, <1>1, <1>2, Finishes, WorkerStep
<1>3. CASE Step(w, "undo") /\ UNCHANGED task
  BY Zenon, <1>1, <1>3, Steps, TasksSame, WorkerStep DEF IndInv
<1> QED  BY Zenon, <1>2, <1>3 DEF UpdateMACAddress

LEMMA RollbackInv ==
  ASSUME IndInv, NEW w \in Workers, RollbackWithErrorStatus(w)
  PROVE  IndInv'
<1>1. TasksStay /\ UNCHANGED <<config, apiVars>> /\ job[w].pc # "idle"
  BY Zenon, TasksSame DEF IndInv, RollbackWithErrorStatus, Fail
<1>2. PICK v : v = job[w].vm  BY Zenon
<1>3. v \in VMs  BY Zenon, <1>1, <1>2 DEF IndInv, JobIsSound
<1>4. AddressesStay(w)
  <2>1. UNCHANGED address \/ \E ok \in BOOLEAN : ReleaseIPsByVM(v, ok)
    BY Zenon, <1>2 DEF RollbackWithErrorStatus, ipamVars
  <2> QED  BY Zenon, <1>1, <2>1, SameAddresses, ReleasesStay DEF IndInv
<1>5. RowsStay
  <2>1. UNCHANGED vms \/ TransitionStatus(v, "provisioning", "error")
    BY Zenon, <1>2 DEF RollbackWithErrorStatus
  <2>2. "error" \in Statuses  BY Zenon DEF Statuses
  <2> QED  BY Zenon, <1>3, <2>1, <2>2, RowsSame, StatusMoves DEF IndInv
<1>6. PICK s : s = SubSeq(job[w].undo, 1, Len(job[w].undo) - 1)  BY Zenon
<1>7. Fail(w) \/ job' = [job EXCEPT ![w].undo = s]
  BY Zenon, <1>6 DEF RollbackWithErrorStatus
<1>8. CASE Fail(w)  BY Zenon, <1>1, <1>4, <1>5, <1>8, Drops, WorkerStep DEF Fail
<1>9. CASE job' = [job EXCEPT ![w].undo = s]
  <2>1. PICK j : j = [job[w] EXCEPT !.undo = s]  BY Zenon
  <2>2. DOMAIN j = JobFields /\ j.kind = job[w].kind /\ j.vm = job[w].vm /\ j.ip = job[w].ip
    BY Zenon, <2>1 DEF IndInv, Typed, JobFields
  <2>3. job' = [job EXCEPT ![w] = j]  BY Zenon, <1>9, <2>1
  <2>4. JobGoesOn(w)  BY Zenon, <1>1, <2>2, <2>3 DEF IndInv, Typed, JobGoesOn
  <2> QED  BY Zenon, <1>1, <1>4, <1>5, <2>4, WorkerStep
<1> QED  BY Zenon, <1>7, <1>8, <1>9

LEMMA LoadInv ==
  ASSUME IndInv, NEW w \in Workers, LoadVM(w)
  PROVE  IndInv'
<1>1. RowsStay /\ TasksStay /\ AddressesStay(w) /\ UNCHANGED apiVars /\ job[w].pc # "idle"
  BY Zenon, RowsSame, TasksSame, SameAddresses DEF IndInv, LoadVM, Fail, ipamVars
<1>2. PICK b : b = ~Visible(job[w].vm)  BY Zenon
<1>3. Fail(w) \/ job' = [job EXCEPT ![w].pc = "node", ![w].wasDeleted = b]
  BY Zenon, <1>2 DEF LoadVM
<1>4. CASE Fail(w)  BY Zenon, <1>1, <1>4, Drops, WorkerStep DEF Fail
<1>5. CASE job' = [job EXCEPT ![w].pc = "node", ![w].wasDeleted = b]
  <2>1. PICK j : j = [job[w] EXCEPT !.pc = "node", !.wasDeleted = b]  BY Zenon
  <2>2. DOMAIN j = JobFields /\ j.kind = job[w].kind /\ j.vm = job[w].vm /\ j.ip = job[w].ip
    BY Zenon, <2>1 DEF IndInv, Typed, JobFields
  <2>3. job' = [job EXCEPT ![w] = j]  BY Zenon, <1>5, <2>1 DEF IndInv, Typed
  <2>4. JobGoesOn(w)  BY Zenon, <1>1, <2>2, <2>3 DEF IndInv, Typed, JobGoesOn
  <2> QED  BY Zenon, <1>1, <2>4, WorkerStep
<1> QED  BY Zenon, <1>3, <1>4, <1>5

LEMMA CleanupInv ==
  ASSUME IndInv, NEW w \in Workers, CleanupNode(w)
  PROVE  IndInv'
<1>1. RowsStay /\ TasksStay /\ AddressesStay(w) /\ UNCHANGED apiVars /\ job[w].pc # "idle"
  BY Zenon, RowsSame, TasksSame, SameAddresses DEF IndInv, CleanupNode, Fail, ipamVars
<1>2. Fail(w) \/ Step(w, "ips")  BY Zenon DEF CleanupNode
<1>3. JobGoesOn(w)  BY Zenon, <1>1, <1>2, Steps, Drops DEF Fail
<1> QED  BY Zenon, <1>1, <1>3, WorkerStep

LEMMA ReleaseInv ==
  ASSUME IndInv, NEW w \in Workers, ReleaseIPs(w)
  PROVE  IndInv'
<1>1. RowsStay /\ TasksStay /\ UNCHANGED <<config, apiVars>> /\ job[w].pc # "idle"
  BY Zenon, RowsSame, TasksSame DEF IndInv, ReleaseIPs, Fail
<1>2. PICK v : v = job[w].vm  BY Zenon
<1>3. PICK ok : ReleaseIPsByVM(v, ok)  BY Zenon, <1>2 DEF ReleaseIPs
<1>4. AddressesStay(w)  BY Zenon, <1>1, <1>3, ReleasesStay
<1>5. Fail(w) \/ Step(w, "soft")  BY Zenon DEF ReleaseIPs
<1>6. JobGoesOn(w)  BY Zenon, <1>1, <1>5, Steps, Drops DEF Fail
<1> QED  BY Zenon, <1>1, <1>4, <1>6, WorkerStep

LEMMA SoftDeleteInv ==
  ASSUME IndInv, NEW w \in Workers, SoftDeleteVM(w)
  PROVE  IndInv'
<1>1. TasksStay /\ AddressesStay(w) /\ UNCHANGED apiVars /\ job[w].pc # "idle"
  BY Zenon, TasksSame, SameAddresses DEF IndInv, SoftDeleteVM, Fail, ipamVars
<1>2. PICK v : v = job[w].vm  BY Zenon
<1>3. v \in VMs  BY Zenon, <1>1, <1>2 DEF IndInv, JobIsSound
<1>4. UNCHANGED vms \/ SoftDelete(v)  BY Zenon, <1>2 DEF SoftDeleteVM
<1>5. "deleted" \in Statuses  BY Zenon DEF Statuses
<1>6. RowsStay  BY Zenon, <1>3, <1>4, <1>5, RowsSame, StatusMoves DEF IndInv
<1>7. Fail(w) \/ Step(w, "complete")  BY Zenon DEF SoftDeleteVM
<1>8. JobGoesOn(w)  BY Zenon, <1>1, <1>7, Steps, Drops DEF Fail
<1> QED  BY Zenon, <1>1, <1>6, <1>8, WorkerStep

LEMMA CompleteInv ==
  ASSUME IndInv, NEW w \in Workers, Complete(w)
  PROVE  IndInv'
<1>1. RowsStay /\ AddressesStay(w) /\ UNCHANGED apiVars /\ job[w].pc # "idle"
  BY Zenon, RowsSame, SameAddresses DEF IndInv, Complete, ipamVars
<1> QED  BY Zenon, <1>1, Finishes, WorkerStep DEF Complete

-----------------------------------------------------------------------------
LEMMA StutterInv == ASSUME IndInv, UNCHANGED vars PROVE IndInv'
<1>1. UNCHANGED <<vms, address, config, task, request, answer, job>>
  BY Zenon DEF vars, ipamVars, queueVars, apiVars
<1>2. Typed'  BY Zenon, <1>1 DEF IndInv, Typed
<1>3. RowsStay /\ TasksStay /\ UNCHANGED apiVars
  BY Zenon, <1>1, RowsSame, TasksSame DEF IndInv, apiVars
<1>4. AddressesAreOwned' /\ \A w \in Workers : JobIsSound(w)'
  BY Zenon, <1>1, <1>3, WorkersStay DEF TasksStay
<1> QED  BY Zenon, <1>2, <1>3, <1>4, RequestsStay DEF IndInv

LEMMA NextInv == ASSUME IndInv, [Next]_vars PROVE IndInv'
<1>1. CASE \E r \in CreateRequests : CreateRequest(r)
  <2>1. PICK r \in CreateRequests : CreateRequest(r)  BY Zenon, <1>1
  <2>2. r \in Requests  BY Zenon DEF Requests
  <2> QED  BY Zenon, <2>1, <2>2, ResolveInv, CheckInv, PersistInv, PublishInv DEF CreateRequest
<1>2. CASE \E r \in DeleteRequests : DeleteRequest(r)
  <2>1. PICK r \in DeleteRequests : DeleteRequest(r)  BY Zenon, <1>2
  <2>2. r \in Requests  BY Zenon DEF Requests
  <2> QED  BY Zenon, <2>1, <2>2, GetForDeleteInv, MarkInv, PublishDeleteInv DEF DeleteRequest
<1>3. CASE \E r \in Requests : DropRequest(r)  BY Zenon, <1>3, DropInv
<1>4. ASSUME NEW w \in Workers, HandleVMCreate(w) PROVE IndInv'
  BY Zenon, <1>4, PrepareInv, AllocateAddressInv, AllocateSubnetInv, AwaitInv, MaterializeInv,
     SetRunningInv, UpdateMACInv, RollbackInv
  DEF HandleVMCreate
<1>5. ASSUME NEW w \in Workers, HandleVMDelete(w) PROVE IndInv'
  BY Zenon, <1>5, LoadInv, CleanupInv, ReleaseInv, SoftDeleteInv, CompleteInv DEF HandleVMDelete
<1>6. ASSUME NEW w \in Workers, Interrupt(w) \/ \E k \in Kinds, v \in VMs : Deliver(w, k, v)
      PROVE IndInv'
  BY Zenon, <1>6, InterruptInv, DeliverInv
<1>7. CASE UNCHANGED vars  BY Zenon, <1>7, StutterInv
<1> QED  BY Zenon, <1>1, <1>2, <1>3, <1>4, <1>5, <1>6, <1>7 DEF Next

LEMMA Invariance == Spec => []IndInv
BY InitInv, NextInv, PTL DEF Spec

(* Two calls of CreateVM with one idempotency key never return two VMs:    *)
(* the unique key of the task decides, and a VM is returned only once its  *)
(* task is there.                                                          *)
THEOREM OneVMPerKey == Spec => []RetryGetsSameVM
<1>1. IndInv => RetryGetsSameVM  BY Zenon DEF IndInv, AnswersHold, KeysNameOne, RetryGetsSameVM
<1> QED  BY <1>1, Invariance, PTL

(* No two guests are ever given one IPv4 address: AllocateIPv4 takes only  *)
(* available ones, and ReleaseIPv4 makes none available again.             *)
THEOREM OneGuestPerAddress == Spec => []NoSharedAddress
<1>1. IndInv => NoSharedAddress
  BY Zenon DEF IndInv, AddressesAreOwned, Given, NoSharedAddress
<1> QED  BY <1>1, Invariance, PTL

=============================================================================
