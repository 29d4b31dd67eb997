----------------------------- MODULE Catalogue -----------------------------
(***************************************************************************)
(* What VMs are made of: nodes, plans, templates, storage backends and IP  *)
(* sets, which administrators add and remove while VMs are being created.  *)
(* VMService.CreateVM reads them one by one and then inserts a row that    *)
(* refers to them; the handlers that delete them count the VMs first and   *)
(* delete later.  In between, only the foreign keys watch.                 *)
(*                                                                         *)
(* Two facts of the wired program are constants.  Junction says whether    *)
(* the table that the statements on assignments name exists: FALSE, they   *)
(* say node_storage_backends where the migrations have node_storage.       *)
(* BackendColumn says whether the INSERT of a VM fills storage_backend_id, *)
(* which is NOT NULL: FALSE.  With either, no VM can be created.           *)
(***************************************************************************)
EXTENDS Naturals, FiniteSets

CONSTANTS VMs,           \* requests to create a VM, and the rows they insert
          Objects,       \* <<kind, id>>
          Names,         \* hostnames, slugs and names
          Admins,        \* administrators' requests being served at a time
          NoObject,      \* SQL NULL
          Junction, BackendColumn,
          MaxAdmin       \* bound: administrators' requests

VARIABLES obj,           \* rows: "none", "there" or "gone"; name; is_active
          assigned,      \* the junction table: <<backend, node>>
          vm,            \* VM rows, and the locals of CreateVM before them
          adm,           \* the locals of the administrators' handlers
          asked

vars == <<obj, assigned, vm, adm, asked>>

Kinds == {"node", "plan", "template", "backend", "ipset"}
OfKind(k) == {o \in Objects : o[1] = k}
There(o) == o # NoObject /\ obj[o].row = "there"
Present(k) == {o \in OfKind(k) : There(o)}
Named(k, name) == {o \in Present(k) : obj[o].name = name}

NoVM == [at |-> "none", plan |-> NoObject, template |-> NoObject, node |-> NoObject,
         backend |-> NoObject, ip |-> NoObject]
NoRequest == [at |-> "none", o |-> NoObject, name |-> NoObject, active |-> TRUE, late |-> {}]

(* One row of each kind, all of the same name.                             *)
Init ==
  /\ obj = [o \in Objects |-> [row |-> IF o[2] = 1 THEN "there" ELSE "none",
                               name |-> CHOOSE name \in Names : TRUE, active |-> TRUE]]
  /\ assigned = {<<<<"backend", 1>>, <<"node", 1>>>>}
  /\ vm = [v \in VMs |-> NoVM]
  /\ adm = [a \in Admins |-> NoRequest]
  /\ asked = 0

Rows == {v \in VMs : vm[v].at \in {"live", "deleted"}}
LiveOn(o) == {v \in VMs : vm[v].at = "live" /\ o \in {vm[v].node, vm[v].plan, vm[v].backend, vm[v].ip}}

-----------------------------------------------------------------------------
(* CreateVM: validateCreateVMRequest, selectNodeForVM, the backend, insert.*)

ReadPlan(v) ==
  /\ vm[v].at = "none"
  /\ \E p \in Present("plan") :
       /\ obj[p].active
       /\ vm' = [vm EXCEPT ![v].at = "template", ![v].plan = p]
  /\ UNCHANGED <<obj, assigned, adm, asked>>

Refuse(v) == vm' = [vm EXCEPT ![v] = [NoVM EXCEPT !.at = "refused"]]

ReadTemplate(v) ==
  /\ vm[v].at = "template"
  /\ \/ \E t \in Present("template") : vm' = [vm EXCEPT ![v].at = "node", ![v].template = t]
     \/ Present("template") = {} /\ Refuse(v)
  /\ UNCHANGED <<obj, assigned, adm, asked>>

(* GetBackendsForNodeByType: an error when the table does not exist.       *)
BackendsOf(n) == IF Junction THEN {b \in Present("backend") : <<b, n>> \in assigned} ELSE {}

SelectNodeForVM(v) ==
  /\ vm[v].at = "node"
  /\ LET fit == {n \in Present("node") : BackendsOf(n) # {}}
     IN \/ \E n \in fit : vm' = [vm EXCEPT ![v].at = "backend", ![v].node = n]
        \/ fit = {} /\ Refuse(v)
  /\ UNCHANGED <<obj, assigned, adm, asked>>

ResolveBackend(v) ==
  /\ vm[v].at = "backend"
  /\ LET found == BackendsOf(vm[v].node)
     IN \/ \E b \in found : vm' = [vm EXCEPT ![v].at = "insert", ![v].backend = b]
        \/ found = {} /\ vm' = [vm EXCEPT ![v].at = "insert"]
  /\ UNCHANGED <<obj, assigned, adm, asked>>

(* Requests to delete o that have already counted its users.               *)
Late(o, v) == [a \in Admins |-> IF adm[a].o = o THEN [adm[a] EXCEPT !.late = @ \cup {v}] ELSE adm[a]]
LateAll(v) ==
  [a \in Admins |-> IF adm[a].o \in {vm[v].node, vm[v].plan, vm[v].backend}
                      THEN [adm[a] EXCEPT !.late = @ \cup {v}] ELSE adm[a]]

(* Mutant: no foreign keys.                                                *)
AnyReferences(v) == TRUE

(* The foreign keys and the NOT NULL of storage_backend_id.                *)
References(v) ==
  /\ There(vm[v].plan) /\ There(vm[v].template) /\ There(vm[v].node)
  /\ BackendColumn /\ There(vm[v].backend)

PersistVMRecord(v) ==
  /\ vm[v].at = "insert"
  /\ IF References(v)
       THEN vm' = [vm EXCEPT ![v].at = "live"] /\ adm' = LateAll(v)
       ELSE Refuse(v) /\ UNCHANGED adm
  /\ UNCHANGED <<obj, assigned, asked>>

(* The task gives the VM an address of a set, and deleting the VM takes it *)
(* back; the row stays, with deleted_at set.                               *)
AllocateIPv4(v) ==
  /\ vm[v].at = "live" /\ vm[v].ip = NoObject
  /\ \E s \in Present("ipset") : vm' = [vm EXCEPT ![v].ip = s] /\ adm' = Late(s, v)
  /\ UNCHANGED <<obj, assigned, asked>>

DeleteVM(v) ==
  /\ vm[v].at = "live"
  /\ vm' = [vm EXCEPT ![v].at = "deleted", ![v].ip = NoObject]
  /\ UNCHANGED <<obj, assigned, adm, asked>>

-----------------------------------------------------------------------------
(* Administrators: create.                                                 *)

Ask(a, at, o, name) ==
  /\ adm[a] = NoRequest /\ asked < MaxAdmin
  /\ asked' = asked + 1
  /\ adm' = [adm EXCEPT ![a] = [at |-> at, o |-> o, name |-> name, active |-> TRUE, late |-> {}]]

Answer(a) == adm' = [adm EXCEPT ![a] = NoRequest]
Fresh(o, k) == o[1] = k /\ obj[o].row = "none"

(* The service's or the handler's lookup of the name asked for.            *)
HostnameFree(name) == Named("node", name) = {}
SlugFree(name) == Named("plan", name) = {}
TemplateNameFree(name) == Named("template", name) = {}

RegisterNode(a, o, name) ==
  /\ Fresh(o, "node") /\ HostnameFree(name)
  /\ Ask(a, "insert", o, name)
  /\ UNCHANGED <<obj, assigned, vm>>

CreatePlan(a, o, name) ==
  /\ Fresh(o, "plan") /\ SlugFree(name)
  /\ Ask(a, "insert", o, name)
  /\ UNCHANGED <<obj, assigned, vm>>

CreateTemplate(a, o, name) ==
  /\ Fresh(o, "template") /\ TemplateNameFree(name)
  /\ Ask(a, "insert", o, name)
  /\ UNCHANGED <<obj, assigned, vm>>

CreateStorageBackend(a, o, name) ==
  /\ Fresh(o, "backend") /\ Named("backend", name) = {}
  /\ Ask(a, "insert", o, name)
  /\ UNCHANGED <<obj, assigned, vm>>

(* No lookup.                                                              *)
CreateIPSet(a, o, name) ==
  /\ Fresh(o, "ipset")
  /\ Ask(a, "insert", o, name)
  /\ UNCHANGED <<obj, assigned, vm>>

(* Mutant: hostnames, slugs and names are not unique in the database.      *)
NameIsFree(o, name) == TRUE

(* The unique indexes of nodes, plans and backends.                        *)
NameFree(o, name) ==
  o[1] \in {"node", "plan", "backend"} => Named(o[1], name) \subseteq {o}

Insert(a, k) ==
  /\ adm[a].at = "insert" /\ adm[a].o[1] = k
  /\ obj' = IF obj[adm[a].o].row = "none" /\ NameFree(adm[a].o, adm[a].name)
              THEN [obj EXCEPT ![adm[a].o] = [row |-> "there", name |-> adm[a].name, active |-> TRUE]]
              ELSE obj
  /\ UNCHANGED <<assigned, vm, asked>>

InsertNode(a) == Insert(a, "node") /\ Answer(a)
InsertPlan(a) == Insert(a, "plan") /\ Answer(a)
InsertTemplate(a) == Insert(a, "template") /\ Answer(a)
InsertIPSet(a) == Insert(a, "ipset") /\ Answer(a)

(* CreateStorageBackend goes on to assign nodes, when some are given.      *)
InsertBackend(a) ==
  /\ Insert(a, "backend")
  /\ IF obj' # obj THEN Answer(a) \/ adm' = [adm EXCEPT ![a].at = "assign"] ELSE Answer(a)

(* AssignStorageBackendNodes: both exist, then the upsert with its keys.   *)
AssignStorageBackendNodes(a, b) ==
  /\ b \in Present("backend") /\ Present("node") # {}
  /\ Ask(a, "assign", b, NoObject)
  /\ UNCHANGED <<obj, assigned, vm>>

AssignToNodes(a) ==
  /\ adm[a].at = "assign"
  /\ assigned' = IF Junction /\ There(adm[a].o)
                   THEN assigned \cup {<<adm[a].o, n>> : n \in Present("node")} ELSE assigned
  /\ Answer(a)
  /\ UNCHANGED <<obj, vm, asked>>

(* The statement behind RemoveStorageBackendNode.                          *)
RemoveFromNode(b, n) == assigned \ {<<b, n>>}

RemoveStorageBackendNode(b, n) ==
  /\ asked < MaxAdmin /\ asked' = asked + 1
  /\ Junction /\ There(b) /\ <<b, n>> \in assigned
  /\ assigned' = RemoveFromNode(b, n)
  /\ UNCHANGED <<obj, vm, adm>>

-----------------------------------------------------------------------------
(* Administrators: update.  The row is read, changed in memory and written *)
(* back whole; names are looked up where there is a lookup.                *)

Copy(a, o, name, active) ==
  /\ There(o)
  /\ adm[a] = NoRequest /\ asked < MaxAdmin
  /\ asked' = asked + 1
  /\ adm' = [adm EXCEPT ![a] = [at |-> "write", o |-> o, name |-> name, active |-> active, late |-> {}]]
  /\ UNCHANGED <<obj, assigned, vm>>

(* applyPlanUpdates: any of the fields.                                    *)
Changed(o, name) == {obj[o].name, name} \X BOOLEAN

SlugOrOwn(o, name) == name = obj[o].name \/ SlugFree(name)

UpdatePlan(a, o, name) ==
  /\ o[1] = "plan"
  /\ \E f \in Changed(o, name) : SlugOrOwn(o, f[1]) /\ Copy(a, o, f[1], f[2])

UpdateTemplate(a, o, name) ==
  /\ o[1] = "template"
  /\ \E f \in Changed(o, name) :
       /\ Named("template", f[1]) \subseteq {o}
       /\ Copy(a, o, f[1], f[2])

UpdateStorageBackend(a, o, name) ==
  /\ o[1] = "backend"
  /\ name = obj[o].name \/ Named("backend", name) = {}
  /\ Copy(a, o, name, obj[o].active)

UpdateIPSet(a, o, name) ==
  /\ o[1] = "ipset"
  /\ Copy(a, o, name, obj[o].active)

(* Neither the hostname nor the status of a node: nothing the model has.   *)
Write(a, k) ==
  LET o == adm[a].o
  IN /\ adm[a].at = "write" /\ o[1] = k
     /\ obj' = IF There(o) /\ NameFree(o, adm[a].name)
                 THEN [obj EXCEPT ![o].name = adm[a].name, ![o].active = adm[a].active] ELSE obj
     /\ Answer(a)
     /\ UNCHANGED <<assigned, vm, asked>>

WritePlan(a) == Write(a, "plan")
WriteTemplate(a) == Write(a, "template")
WriteBackend(a) == Write(a, "backend")
WriteIPSet(a) == Write(a, "ipset")

-----------------------------------------------------------------------------
(* Administrators: delete.                                                 *)

(* Mutant: the VMs on the node are not counted.                            *)
DeleteNodeUncounted(a, n) ==
  /\ n[1] = "node" /\ There(n)
  /\ Ask(a, "delete", n, NoObject)
  /\ UNCHANGED <<obj, assigned, vm>>

(* DeleteNode, DeleteStorageBackend and DeleteIPSet refuse what a VM that  *)
(* is not deleted uses; plans and templates leave that to the foreign key. *)
DeleteNode(a, n) ==
  /\ n[1] = "node" /\ There(n) /\ LiveOn(n) = {}
  /\ Ask(a, "delete", n, NoObject)
  /\ UNCHANGED <<obj, assigned, vm>>

DeletePlan(a, p) ==
  /\ p[1] = "plan" /\ There(p)
  /\ Ask(a, "delete", p, NoObject)
  /\ UNCHANGED <<obj, assigned, vm>>

DeleteTemplate(a, t) ==
  /\ t[1] = "template" /\ There(t)
  /\ Ask(a, "delete", t, NoObject)
  /\ UNCHANGED <<obj, assigned, vm>>

CountByStorageBackend(b) == Cardinality(LiveOn(b))

DeleteStorageBackend(a, b) ==
  /\ b[1] = "backend" /\ There(b) /\ CountByStorageBackend(b) = 0
  /\ Ask(a, "detach", b, NoObject)
  /\ UNCHANGED <<obj, assigned, vm>>

(* DeleteIPSet goes on when its listing of assigned addresses failed.      *)
DeleteIPSet(a, s) ==
  /\ s[1] = "ipset" /\ There(s)
  /\ \/ LiveOn(s) = {} /\ Ask(a, "delete", s, NoObject)
     \/ /\ adm[a] = NoRequest /\ asked < MaxAdmin /\ asked' = asked + 1
        /\ adm' = [adm EXCEPT ![a] = [NoRequest EXCEPT !.at = "delete", !.o = s, !.late = VMs]]
  /\ UNCHANGED <<obj, assigned, vm>>

(* DeleteAllAssignmentsForBackend.                                         *)
DetachBackend(a) ==
  /\ adm[a].at = "detach"
  /\ IF Junction
       THEN /\ assigned' = {p \in assigned : p[1] # adm[a].o}
            /\ adm' = [adm EXCEPT ![a].at = "delete"]
       ELSE Answer(a) /\ UNCHANGED assigned
  /\ UNCHANGED <<obj, vm, asked>>

(* Rows that keep the object: ON DELETE RESTRICT, or no action.            *)
Restricts(o) ==
  \/ \E v \in Rows : o \in {vm[v].plan, vm[v].backend}
  \/ \E p \in assigned : p[1] = o

(* Mutant: the node's key has no ON DELETE action.                         *)
KeepReferences(o) == UNCHANGED vm

(* ON DELETE SET NULL of nodes and templates; the addresses of a set go    *)
(* with it.                                                                *)
SetNull(o) ==
  vm' = [v \in VMs |->
           IF v \notin Rows THEN vm[v]
           ELSE [vm[v] EXCEPT !.node = IF @ = o THEN NoObject ELSE @,
                              !.template = IF @ = o THEN NoObject ELSE @,
                              !.ip = IF @ = o THEN NoObject ELSE @]]

(* Mutant: the assignments of a node stay when it goes.                    *)
KeepAssignments(o) == assigned

(* ON DELETE CASCADE of node_storage.                                      *)
Cascade(o) == {p \in assigned : p[2] # o}

Delete(a, k) ==
  LET o == adm[a].o
  IN /\ adm[a].at = "delete" /\ o[1] = k
     /\ IF There(o) /\ ~Restricts(o)
          THEN /\ obj' = [obj EXCEPT ![o].row = "gone"]
               /\ assigned' = Cascade(o)
               /\ SetNull(o)
          ELSE UNCHANGED <<obj, assigned, vm>>
     /\ Answer(a)
     /\ UNCHANGED asked

RemoveNode(a) == Delete(a, "node")
RemovePlan(a) == Delete(a, "plan")
RemoveTemplate(a) == Delete(a, "template")
RemoveBackend(a) == Delete(a, "backend")
RemoveIPSet(a) == Delete(a, "ipset")

-----------------------------------------------------------------------------
CreateVMStep(v) ==
  ReadTemplate(v) \/ SelectNodeForVM(v) \/ ResolveBackend(v) \/ PersistVMRecord(v)

Request(a, o) ==
  \/ DeleteNode(a, o) \/ DeletePlan(a, o) \/ DeleteTemplate(a, o)
  \/ DeleteStorageBackend(a, o) \/ DeleteIPSet(a, o) \/ AssignStorageBackendNodes(a, o)
  \/ \E name \in Names :
       \/ RegisterNode(a, o, name) \/ CreatePlan(a, o, name) \/ CreateTemplate(a, o, name)
       \/ CreateStorageBackend(a, o, name) \/ CreateIPSet(a, o, name)
       \/ UpdatePlan(a, o, name) \/ UpdateTemplate(a, o, name)
       \/ UpdateStorageBackend(a, o, name) \/ UpdateIPSet(a, o, name)

Statement(a) ==
  \/ InsertNode(a) \/ InsertPlan(a) \/ InsertTemplate(a) \/ InsertBackend(a) \/ InsertIPSet(a)
  \/ WritePlan(a) \/ WriteTemplate(a) \/ WriteBackend(a) \/ WriteIPSet(a)
  \/ AssignToNodes(a) \/ DetachBackend(a)
  \/ RemoveNode(a) \/ RemovePlan(a) \/ RemoveTemplate(a) \/ RemoveBackend(a) \/ RemoveIPSet(a)

Next ==
  \/ \E v \in VMs : ReadPlan(v) \/ CreateVMStep(v) \/ AllocateIPv4(v) \/ DeleteVM(v)
  \/ \E a \in Admins : Statement(a) \/ \E o \in Objects : Request(a, o)
  \/ \E b \in OfKind("backend"), n \in OfKind("node") : RemoveStorageBackendNode(b, n)

Spec == Init /\ [][Next]_vars

-----------------------------------------------------------------------------
(* Types; assignments are between rows that exist, and a request under way *)
(* has an object it is about.                                              *)
TypeOK ==
  /\ obj \in [Objects -> [row : {"none", "there", "gone"}, name : Names, active : BOOLEAN]]
  /\ assigned \subseteq Present("backend") \X Present("node")
  /\ \A v \in VMs : /\ \A k \in Kinds \ {"ipset"} : vm[v][k] \in OfKind(k) \cup {NoObject}
                    /\ vm[v].ip \in OfKind("ipset") \cup {NoObject}
  /\ \A a \in Admins : adm[a].at = "none" <=> adm[a].o = NoObject
  /\ asked \in 0 .. MaxAdmin

(* Whatever was deleted between the reads of CreateVM and its insert, and  *)
(* afterwards: a VM row refers only to rows that exist, and always has a   *)
(* plan and a storage backend.                                             *)
ReferencesExist ==
  \A v \in Rows :
    /\ There(vm[v].plan) /\ There(vm[v].backend)
    /\ \A o \in {vm[v].node, vm[v].template, vm[v].ip} : o = NoObject \/ There(o)

(* DeleteNode, DeleteStorageBackend and DeleteIPSet delete what a VM uses  *)
(* only if the VM came after the check, or the check failed: such a VM     *)
(* loses its node or its address without being asked.                      *)
InUseIsRefused ==
  [][\A a \in Admins :
       LET o == adm[a].o
           deletes == adm[a].at = "delete" /\ adm'[a] # adm[a] /\ There(o) /\ obj'[o].row = "gone"
       IN deletes /\ o[1] \in {"node", "backend", "ipset"} => LiveOn(o) \subseteq adm[a].late]_vars

(* Two administrators who both found a hostname, slug or name free, for a  *)
(* new row or for a change of one, do not both get it.                     *)
OneObjectPerName ==
  \A k \in {"node", "plan", "backend"}, name \in Names : Cardinality(Named(k, name)) <= 1

=============================================================================
