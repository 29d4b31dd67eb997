------------------------------- MODULE Storage ------------------------------
(***************************************************************************)
(* The storage of one node agent: templates, VM disks with their snapshots,*)
(* cloud-init images and LVM backup files, under the agent's gRPC handlers,*)
(* of which several run at once.  The node has one backend.  Each command  *)
(* of a handler is a step; a command fails when the code or the tool       *)
(* refuses it, or by a fault, and the agent may be restarted between any   *)
(* two.  Sizes are left out.                                               *)
(***************************************************************************)
EXTENDS Sequences, FiniteSets, Naturals

CONSTANTS Templates, VMs, None,
          Snaps,      \* names of snapshots, each used once
          Handlers,   \* bound: gRPC calls served at a time
          MaxCalls,   \* bound on the calls
          MaxFaults   \* bound on failing commands and restarts

VARIABLES backend,    \* ceph, qcow or lvm
          strict,     \* the LVM managers refuse names with a slash, as the code does
          base,       \* base[t]: the image of a template
          sealed,     \* ceph: the snapshot a template is cloned from
          disk,       \* disk[v]: the image of a VM
          old,        \* old[v]: lvm, what Rollback renamed the disk to
          snap,       \* snap[s]: the VM it belongs to, and the image it depends on
          domain,     \* the libvirt domain
          seed,       \* VMs with a cloud-init image
          file,       \* file[v]: the LVM backup file
          job,        \* the call a handler is serving
          calls, faults,
          kept,       \* history: VMs made, and not asked to be erased since
          made,       \* history: VMs that were made at some time
          spoiled     \* history: templates and VMs whose clean-up did not happen

storeVars == <<base, sealed, disk, old, snap, domain, seed, file>>
histVars == <<kept, made, spoiled>>
vars == <<backend, strict, storeVars, job, calls, faults, histVars>>

Unused == [of |-> None, origin |-> "none"]
Idle == [op |-> "idle", t |-> None, v |-> None, s |-> None, todo |-> <<>>]

(* The snapshots of a VM that ListSnapshots lists.                         *)
SnapsOf(v) == {s \in Snaps : snap[s] = [of |-> v, origin |-> "disk"]}
Clear(S) == snap' = [s \in Snaps |-> IF s \in S THEN Unused ELSE snap[s]]

(* DiskIdentifier, which handlers pass on, is a path with slashes.         *)
ValidateLVIdentifier == ~strict

(* What the backend of the node does.                                      *)
On(rbd, qcow, lvm) == CASE backend = "ceph" -> rbd [] backend = "qcow" -> qcow [] OTHER -> lvm

-----------------------------------------------------------------------------
(* The handlers, as the steps they take.                                   *)

(* The template managers' ImportTemplate.                                  *)
ImportRBD == <<"Convert", "ImportRBD", "SealRBD", "ProtectRBD">>
ImportQCOW == <<"RefuseQCOW", "CreateQCOW", "CopyQCOW", "CheckQCOW">>
ImportLVM == <<"Convert", "CreateLV", "WriteLV">>

ImportTemplate == On(ImportRBD, ImportQCOW, ImportLVM)

EnsureTemplateCached == <<"Lookup", "Fetch">> \o ImportTemplate
BuildTemplateFromISO == <<"Fetch">> \o ImportTemplate

(* The clone of ceph is not resized.                                       *)
Clone == IF backend = "ceph" THEN <<"Clone">> ELSE <<"Clone", "Grow">>

CreateVM == <<"Seed">> \o (IF backend = "lvm" THEN <<"CheckPool">> ELSE <<>>) \o Clone \o <<"Define">>
ReinstallVM == <<"Seed", "Halt", "EraseOld">> \o Clone \o <<"Undefine", "Define">>
DeleteVM == <<"Undefine", "Erase">>
DeleteDisk == <<"Erase">>
ResizeVM == <<"Halt", "Extend", "Start">>

(* Mutant: the old disk is removed before the snapshot takes its name.     *)
RollbackInPlace == IF backend = "lvm" THEN <<"FindSnap", "Aside", "Discard", "Swap">> ELSE <<"Rollback">>

(* Rollback: a swap of names on lvm.                                       *)
Rollback == IF backend = "lvm" THEN <<"FindSnap", "Aside", "Swap", "Discard">> ELSE <<"Rollback">>

RevertSnapshot == <<"Halt">> \o Rollback
CreateSnapshot == <<"Snapshot">>
DeleteSnapshot == <<"Find", "Unsnapshot">>

(* The snapshots of migrations and backups, which lvm does not have.       *)
CreateDiskSnapshot == IF backend = "lvm" THEN <<"Refuse">> ELSE <<"Snapshot">>
DeleteDiskSnapshot == IF backend = "lvm" THEN <<>> ELSE <<"UnsnapshotQuietly">>

CreateLVMBackup == IF backend = "lvm" THEN <<"FindSnap", "CopyOut", "UnsnapshotQuietly">> ELSE <<"Refuse">>
RestoreLVMBackup == IF backend = "lvm" THEN <<"CheckStopped", "CopyIn">> ELSE <<"Refuse">>

Importing == {"EnsureTemplateCached", "BuildTemplateFromISO"}
Making == {"CreateVM", "ReinstallVM"}
Erasing == {"ReinstallVM", "DeleteVM", "DeleteDisk", "RestoreLVMBackup"}

Steps(op) ==
  CASE op = "EnsureTemplateCached" -> EnsureTemplateCached
    [] op = "BuildTemplateFromISO" -> BuildTemplateFromISO
    [] op = "CreateVM" -> CreateVM
    [] op = "ReinstallVM" -> ReinstallVM
    [] op = "DeleteVM" -> DeleteVM
    [] op = "DeleteDisk" -> DeleteDisk
    [] op = "ResizeVM" -> ResizeVM
    [] op = "RevertSnapshot" -> RevertSnapshot
    [] op = "CreateSnapshot" -> CreateSnapshot
    [] op = "DeleteSnapshot" -> DeleteSnapshot
    [] op = "CreateDiskSnapshot" -> CreateDiskSnapshot
    [] op = "DeleteDiskSnapshot" -> DeleteDiskSnapshot
    [] op = "CreateLVMBackup" -> CreateLVMBackup
    [] op = "RestoreLVMBackup" -> RestoreLVMBackup

TakesSnap == {"RevertSnapshot", "DeleteSnapshot", "DeleteDiskSnapshot", "CreateLVMBackup"}
NewSnap == {"CreateSnapshot", "CreateDiskSnapshot"}
OnVM == {"DeleteVM", "DeleteDisk", "ResizeVM", "RestoreLVMBackup"}

-----------------------------------------------------------------------------
(* A handler's progress.                                                   *)

At(h, step) == job[h].todo # <<>> /\ Head(job[h].todo) = step
Busy(x) == {h \in Handlers : x \in {job[h].t, job[h].v}}

Advance(h) == job' = [job EXCEPT ![h].todo = Tail(@)]
End(h) == job' = [job EXCEPT ![h] = Idle]
Goto(h, todo) == job' = [job EXCEPT ![h].todo = todo]

Fault == faults < MaxFaults /\ faults' = faults + 1
NoFault == UNCHANGED faults
Spoil(x) == spoiled' = spoiled \cup {x} /\ UNCHANGED <<kept, made>>

(* The handler returns an error.  The deferred clean-up of CreateVM        *)
(* removes the cloud-init image once there is one.                         *)
Fail(h) ==
  IF job[h].op = "CreateVM" /\ ~At(h, "Seed") THEN Goto(h, <<"Unseed">>) ELSE End(h)

Refused(h) == Fail(h) /\ NoFault /\ UNCHANGED <<storeVars, histVars>>
Fails(h) == Fault /\ Fail(h) /\ UNCHANGED <<storeVars, histVars>>

(* A call of the controller.  It does not repeat CreateVM while the first  *)
(* is being served: a task is delivered again after its deadline.          *)
Call(h, op, t, v, s) ==
  /\ job[h] = Idle /\ h = CHOOSE x \in Handlers : job[x] = Idle
  /\ calls < MaxCalls /\ calls' = calls + 1
  /\ job' = [job EXCEPT ![h] = [op |-> op, t |-> t, v |-> v, s |-> s, todo |-> Steps(op)]]
  /\ kept' = IF op \in Erasing THEN kept \ {v} ELSE kept
  /\ UNCHANGED <<backend, strict, storeVars, faults, made, spoiled>>

Request(h) ==
  \/ \E op \in Importing, t \in Templates : Call(h, op, t, None, None)
  \/ \E op \in Making, t \in Templates, v \in VMs :
       /\ op = "CreateVM" => \A x \in Handlers : job[x].op # op \/ job[x].v # v
       /\ op = "ReinstallVM" => v \in made
       /\ Call(h, op, t, v, None)
  \/ \E op \in OnVM, v \in made : Call(h, op, None, v, None)
  \/ \E op \in TakesSnap, v \in made, s \in Snaps : snap[s].of = v /\ Call(h, op, None, v, s)
  \/ \E op \in NewSnap, v \in made :
       \E s \in {s \in Snaps : snap[s] = Unused /\ \A x \in Handlers : job[x].s # s} :
         Call(h, op, None, v, s)

(* The call returns.  The VM is to be kept from then on, unless another    *)
(* call makes or erases it.                                                *)
Return(h) ==
  LET v == job[h].v
      whole == /\ job[h].op \in Making /\ disk[v] # "absent"
               /\ \A x \in Busy(v) \ {h} : job[x].op \notin Making \cup Erasing
  IN  /\ job[h] # Idle /\ job[h].todo = <<>>
      /\ End(h)
      /\ kept' = IF whole THEN kept \cup {v} ELSE kept
      /\ made' = IF job[h].op \in Making THEN made \cup {v} ELSE made
      /\ UNCHANGED <<storeVars, faults, spoiled>>

(* The agent dies and is started again: its calls are lost halfway.        *)
Restart ==
  /\ \E h \in Handlers : job[h] # Idle
  /\ Fault
  /\ job' = [h \in Handlers |-> Idle]
  /\ spoiled' = spoiled \cup {x \in Templates \cup VMs : Busy(x) # {}}
  /\ UNCHANGED <<backend, strict, storeVars, calls, kept, made>>

-----------------------------------------------------------------------------
(* Importing a template.                                                   *)

(* Mutant: the image is left behind.                                       *)
KeepBase(t) == UNCHANGED <<base, sealed>>

(* What ImportTemplate removes when a later step fails.                    *)
DropBase(t) ==
  /\ base' = [base EXCEPT ![t] = "absent"]
  /\ sealed' = [sealed EXCEPT ![t] = "none"]

(* The error of the removal is ignored or logged.                          *)
FailImport(h) ==
  LET t == job[h].t IN
  /\ Fault /\ Fail(h)
  /\ \/ DropBase(t) /\ UNCHANGED histVars
     \/ UNCHANGED <<base, sealed>> /\ Spoil(t)

otherVars == <<disk, old, snap, domain, seed, file>>

(* TemplateExists; whether the image is complete is not looked at.         *)
Lookup(h) ==
  /\ At(h, "Lookup")
  /\ \/ base[job[h].t] # "absent" /\ End(h) /\ NoFault
     \/ base[job[h].t] = "absent" /\ Advance(h) /\ NoFault
     \/ Fault /\ Advance(h)
  /\ UNCHANGED <<storeVars, histVars>>

(* DownloadFile, or Build, into a temporary directory; and convertToRaw.   *)
Fetch(h) ==
  /\ At(h, "Fetch") \/ At(h, "Convert")
  /\ \/ Advance(h) /\ NoFault /\ UNCHANGED <<storeVars, histVars>>
     \/ Fails(h)

ImportRawToRBD(h) ==
  LET t == job[h].t IN
  /\ At(h, "ImportRBD")
  /\ \/ /\ base[t] = "absent" /\ base' = [base EXCEPT ![t] = "whole"]
        /\ Advance(h) /\ NoFault /\ UNCHANGED <<sealed, otherVars, histVars>>
     \/ base[t] # "absent" /\ Refused(h)
     \/ Fails(h)
     \/ /\ base[t] = "absent" /\ Fault /\ base' = [base EXCEPT ![t] = "partial"]
        /\ Fail(h) /\ Spoil(t) /\ UNCHANGED <<sealed, otherVars>>

CreateTemplateSnapshot(h) ==
  LET t == job[h].t IN
  /\ At(h, "SealRBD")
  /\ \/ sealed' = [sealed EXCEPT ![t] = "taken"] /\ Advance(h) /\ NoFault /\ UNCHANGED <<base, histVars>>
     \/ FailImport(h)
  /\ UNCHANGED otherVars

ProtectTemplateSnapshot(h) ==
  LET t == job[h].t IN
  /\ At(h, "ProtectRBD")
  /\ \/ sealed' = [sealed EXCEPT ![t] = "protected"] /\ Advance(h) /\ NoFault /\ UNCHANGED <<base, histVars>>
     \/ FailImport(h)
  /\ UNCHANGED otherVars

RefuseExistingQCOW(h) ==
  /\ At(h, "RefuseQCOW")
  /\ \/ base[job[h].t] # "absent" /\ Refused(h)
     \/ base[job[h].t] = "absent" /\ Advance(h) /\ NoFault /\ UNCHANGED <<storeVars, histVars>>

(* copyFile: os.Create truncates, io.Copy fills; a file that was removed   *)
(* in between stays removed.  A failed copy is left where it is.           *)
CopyFile(h) ==
  LET t == job[h].t IN
  /\ \/ At(h, "CreateQCOW") /\ base' = [base EXCEPT ![t] = "partial"] /\ Advance(h) /\ NoFault /\ UNCHANGED histVars
     \/ /\ At(h, "CopyQCOW") /\ base' = [base EXCEPT ![t] = IF @ = "absent" THEN @ ELSE "whole"]
        /\ Advance(h) /\ NoFault /\ UNCHANGED histVars
     \/ /\ At(h, "CopyQCOW") /\ Fault /\ base' = [base EXCEPT ![t] = IF @ = "absent" THEN @ ELSE "partial"]
        /\ Fail(h) /\ Spoil(t)
  /\ UNCHANGED <<sealed, otherVars>>

(* verifyImage and GetTemplateSize.                                        *)
VerifyImage(h) ==
  LET t == job[h].t IN
  /\ At(h, "CheckQCOW")
  /\ \/ base[t] = "whole" /\ Advance(h) /\ NoFault /\ UNCHANGED <<base, sealed, histVars>>
     \/ base[t] # "whole" /\ NoFault /\ DropBase(t) /\ Fail(h) /\ UNCHANGED histVars
     \/ FailImport(h)
  /\ UNCHANGED otherVars

CreateThinLV(h) ==
  LET t == job[h].t IN
  /\ At(h, "CreateLV")
  /\ \/ /\ base[t] = "absent" /\ base' = [base EXCEPT ![t] = "partial"]
        /\ Advance(h) /\ NoFault /\ UNCHANGED <<sealed, otherVars, histVars>>
     \/ base[t] # "absent" /\ Refused(h)
     \/ Fails(h)

WriteRawToLV(h) ==
  LET t == job[h].t IN
  /\ At(h, "WriteLV")
  /\ \/ base' = [base EXCEPT ![t] = "whole"] /\ Advance(h) /\ NoFault /\ UNCHANGED <<sealed, histVars>>
     \/ FailImport(h)
  /\ UNCHANGED otherVars

ImportStep(h) ==
  \/ Lookup(h) \/ Fetch(h)
  \/ ImportRawToRBD(h) \/ CreateTemplateSnapshot(h) \/ ProtectTemplateSnapshot(h)
  \/ RefuseExistingQCOW(h) \/ CopyFile(h) \/ VerifyImage(h)
  \/ CreateThinLV(h) \/ WriteRawToLV(h)

-----------------------------------------------------------------------------
(* Disks.  ok says whether Delete returns without an error.                *)

InUse(v) == domain[v] = "running" /\ disk[v] # "absent"

(* removeAllSnapshots, then RemoveImage, which is refused while a guest    *)
(* has the image open.                                                     *)
RBDDelete(v, ok) ==
  /\ ok <=> ~InUse(v)
  /\ Clear(SnapsOf(v))
  /\ disk' = IF ok THEN [disk EXCEPT ![v] = "absent"] ELSE disk

(* The file is removed, with its snapshots, even under a running guest.    *)
QCOWDelete(v, ok) ==
  /\ ok
  /\ Clear(SnapsOf(v))
  /\ disk' = [disk EXCEPT ![v] = "absent"]

(* The dependent snapshots, then the LV, unless a guest has it open.       *)
LVMDelete(v, ok) ==
  IF ~ValidateLVIdentifier THEN ~ok /\ UNCHANGED <<disk, snap>>
  ELSE /\ ok <=> ~InUse(v)
       /\ Clear(SnapsOf(v))
       /\ disk' = IF ok THEN [disk EXCEPT ![v] = "absent"] ELSE disk

(* A fault may come after some of the snapshots were removed.              *)
Delete(v, ok) ==
  \/ /\ NoFault
     /\ On(RBDDelete(v, ok), QCOWDelete(v, ok), LVMDelete(v, ok))
  \/ /\ Fault /\ ~ok /\ UNCHANGED disk
     /\ IF backend = "qcow" THEN UNCHANGED snap ELSE \E S \in SUBSET SnapsOf(v) : Clear(S)

templateVars == <<base, sealed>>

(* deleteDisk of DeleteVM and DeleteDisk.                                  *)
Erase(h) ==
  /\ At(h, "Erase")
  /\ \E ok \in BOOLEAN : Delete(job[h].v, ok) /\ IF ok THEN Advance(h) ELSE Fail(h)
  /\ UNCHANGED <<templateVars, old, domain, seed, file, histVars>>

(* ReinstallVM goes on when the old disk could not be deleted.             *)
EraseOld(h) ==
  /\ At(h, "EraseOld")
  /\ \E ok \in BOOLEAN : Delete(job[h].v, ok)
  /\ Advance(h)
  /\ UNCHANGED <<templateVars, old, domain, seed, file, histVars>>

(* cleanupFailedCreate.                                                    *)
CleanDisk(h) ==
  /\ At(h, "CleanDisk")
  /\ \E ok \in BOOLEAN :
       /\ Delete(job[h].v, ok)
       /\ IF ok THEN UNCHANGED histVars ELSE Spoil(job[h].v)
  /\ Advance(h)
  /\ UNCHANGED <<templateVars, old, domain, seed, file>>

(* Generate; when building the image fails, a former one is removed too.   *)
GenerateCloudInit(h) ==
  LET v == job[h].v IN
  /\ At(h, "Seed")
  /\ \/ seed' = seed \cup {v} /\ Advance(h) /\ NoFault
     \/ Fault /\ seed' \in {seed, seed \ {v}} /\ Fail(h)
  /\ UNCHANGED <<templateVars, disk, old, snap, domain, file, histVars>>

DeleteCloudInit(h) ==
  LET v == job[h].v IN
  /\ At(h, "Unseed")
  /\ End(h)
  /\ \/ seed' = seed \ {v} /\ NoFault /\ UNCHANGED histVars
     \/ Fault /\ Spoil(v) /\ UNCHANGED seed
  /\ UNCHANGED <<templateVars, disk, old, snap, domain, file>>

(* ThinPoolStats: the pool is nearly full, or cannot be read.              *)
CheckPool(h) ==
  /\ At(h, "CheckPool")
  /\ \/ Advance(h) /\ NoFault /\ UNCHANGED <<storeVars, histVars>>
     \/ Fails(h)

(* The name is the path that ImportTemplate gave.                          *)
ValidateLVMLVName == ~strict

(* What is cloned: on ceph the protected snapshot, else the image, however *)
(* complete.                                                               *)
CloneFromTemplate(t, v) == sealed[t] = "protected" /\ disk[v] = "absent"
CreateOverlay(t, v) == base[t] # "absent" /\ disk[v] = "absent"
CreateThinSnapshot(t, v) == ValidateLVMLVName /\ base[t] # "absent" /\ disk[v] = "absent"

CloneTemplate(h) ==
  LET t == job[h].t
      v == job[h].v
      may == On(CloneFromTemplate(t, v), CreateOverlay(t, v), CreateThinSnapshot(t, v))
  IN  /\ At(h, "Clone")
      /\ \/ /\ may /\ disk' = [disk EXCEPT ![v] = base[t]] /\ Advance(h) /\ NoFault
            /\ UNCHANGED <<templateVars, old, snap, domain, seed, file, histVars>>
         \/ ~may /\ Refused(h)
         \/ Fails(h)

(* Mutant: the clone is left behind.                                       *)
KeepClone(v) == UNCHANGED disk

(* CloneForVM removes the clone that it cannot resize.                     *)
DropClone(v) == disk' = [disk EXCEPT ![v] = "absent"]

(* On lvm only if the template is smaller than the disk.                   *)
Grow(h) ==
  LET v == job[h].v IN
  /\ At(h, "Grow")
  /\ \/ disk[v] # "absent" /\ Advance(h) /\ NoFault /\ UNCHANGED <<disk, histVars>>
     \/ disk[v] = "absent" /\ Fail(h) /\ NoFault /\ UNCHANGED <<disk, histVars>>
     \/ backend = "lvm" /\ Advance(h) /\ NoFault /\ UNCHANGED <<disk, histVars>>
     \/ Fault /\ Fail(h) /\ ((DropClone(v) /\ UNCHANGED histVars) \/ (UNCHANGED disk /\ Spoil(v)))
  /\ UNCHANGED <<templateVars, old, snap, domain, seed, file>>

-----------------------------------------------------------------------------
(* The domain, as far as storage depends on it.                            *)

(* The manager's CreateVM defines, or redefines, and starts; a domain that *)
(* does not start is undefined again.                                      *)
DefineDomain(h) ==
  LET v == job[h].v
      starts == domain[v] # "running" /\ disk[v] # "absent"
      Failed == IF job[h].op = "CreateVM" THEN Goto(h, <<"CleanDisk", "Unseed">>) ELSE End(h)
      Undefined == domain' = [domain EXCEPT ![v] = IF @ = "running" THEN @ ELSE "none"]
  IN  /\ At(h, "Define")
      /\ \/ starts /\ domain' = [domain EXCEPT ![v] = "running"] /\ Advance(h) /\ NoFault
         \/ ~starts /\ Undefined /\ Failed /\ NoFault
         \/ Fault /\ Undefined /\ Failed
      /\ UNCHANGED <<templateVars, disk, old, snap, seed, file, histVars>>

(* The manager's DeleteVM; ReinstallVM only logs its error.                *)
Undefine(h) ==
  LET v == job[h].v IN
  /\ At(h, "Undefine")
  /\ \/ domain' = [domain EXCEPT ![v] = "none"] /\ Advance(h) /\ NoFault
     \/ Fault /\ UNCHANGED domain /\ IF job[h].op = "ReinstallVM" THEN Advance(h) ELSE Fail(h)
  /\ UNCHANGED <<templateVars, disk, old, snap, seed, file, histVars>>

(* ForceStopVM, or StopVM in ResizeVM, if the guest runs.  ReinstallVM     *)
(* does without a domain, and only logs an error.                          *)
Halt(h) ==
  LET v == job[h].v
      Otherwise == IF job[h].op = "ReinstallVM" THEN Advance(h) ELSE Fail(h)
  IN  /\ At(h, "Halt")
      /\ \/ domain[v] # "none" /\ domain' = [domain EXCEPT ![v] = "shutoff"] /\ Advance(h) /\ NoFault
         \/ domain[v] = "none" /\ Otherwise /\ NoFault /\ UNCHANGED domain
         \/ Fault /\ Otherwise /\ UNCHANGED domain
      /\ UNCHANGED <<templateVars, disk, old, snap, seed, file, histVars>>

(* StartVM at the end of ResizeVM, whose error is only logged.             *)
Start(h) ==
  LET v == job[h].v IN
  /\ At(h, "Start")
  /\ \/ /\ domain' = [domain EXCEPT ![v] = IF @ = "shutoff" /\ disk[v] # "absent" THEN "running" ELSE @]
        /\ NoFault
     \/ Fault /\ UNCHANGED domain
  /\ Advance(h)
  /\ UNCHANGED <<templateVars, disk, old, snap, seed, file, histVars>>

(* The backends' Resize.                                                   *)
RBDResize(v) == disk[v] # "absent"
QCOWResize(v) == disk[v] # "absent"
LVMResize(v) == ValidateLVIdentifier /\ disk[v] # "absent"

Extend(h) ==
  LET may == On(RBDResize(job[h].v), QCOWResize(job[h].v), LVMResize(job[h].v)) IN
  /\ At(h, "Extend")
  /\ \/ may /\ Advance(h) /\ NoFault /\ UNCHANGED <<storeVars, histVars>>
     \/ ~may /\ Refused(h)
     \/ Fails(h)

VMStep(h) ==
  \/ Erase(h) \/ EraseOld(h) \/ CleanDisk(h) \/ GenerateCloudInit(h) \/ DeleteCloudInit(h)
  \/ CheckPool(h) \/ CloneTemplate(h) \/ Grow(h)
  \/ DefineDomain(h) \/ Undefine(h) \/ Halt(h) \/ Start(h) \/ Extend(h)

-----------------------------------------------------------------------------
(* Snapshots and LVM backups.                                              *)

snapshotVars == <<templateVars, domain, seed, histVars>>

(* The backends' CreateSnapshot.                                           *)
RBDCreateSnapshot(v) == disk[v] # "absent"
QCOWCreateSnapshot(v) == disk[v] # "absent"
LVMCreateSnapshot(v) == ValidateLVIdentifier /\ disk[v] # "absent"

Snapshot(h) ==
  LET v == job[h].v
      may == On(RBDCreateSnapshot(v), QCOWCreateSnapshot(v), LVMCreateSnapshot(v))
  IN  /\ At(h, "Snapshot")
      /\ \/ /\ may /\ snap' = [snap EXCEPT ![job[h].s] = [of |-> v, origin |-> "disk"]]
            /\ Advance(h) /\ NoFault /\ UNCHANGED <<snapshotVars, disk, old, file>>
         \/ ~may /\ Refused(h)
         \/ Fails(h)

(* DeleteSnapshot looks its snapshot up in the list of the disk.           *)
FindInList(h) ==
  LET found == job[h].s \in SnapsOf(job[h].v) /\ (backend = "lvm" => ValidateLVIdentifier) IN
  /\ At(h, "Find")
  /\ \/ found /\ Advance(h) /\ NoFault /\ UNCHANGED <<storeVars, histVars>>
     \/ ~found /\ Refused(h)
     \/ Fails(h)

(* The backends' DeleteSnapshot; only lvm takes a missing one for deleted. *)
RBDDeleteSnapshot(s, ok) == (ok <=> snap[s] # Unused) /\ Clear({s})
QCOWDeleteSnapshot(s, ok) == (ok <=> snap[s] # Unused) /\ Clear({s})
LVMDeleteSnapshot(s, ok) ==
  (ok <=> ValidateLVIdentifier) /\ IF ok THEN Clear({s}) ELSE UNCHANGED snap

RemoveSnapshot(h) ==
  LET s == job[h].s IN
  /\ At(h, "Unsnapshot") \/ At(h, "UnsnapshotQuietly")
  /\ \E ok \in BOOLEAN :
       /\ \/ NoFault /\ On(RBDDeleteSnapshot(s, ok), QCOWDeleteSnapshot(s, ok), LVMDeleteSnapshot(s, ok))
          \/ Fault /\ ~ok /\ UNCHANGED snap
       /\ IF ok \/ At(h, "UnsnapshotQuietly") THEN Advance(h) ELSE Fail(h)
  /\ UNCHANGED <<snapshotVars, disk, old, file>>

(* Rollback of ceph and qcow, in place.                                    *)
RBDRollback(v, s) == disk[v] # "absent" /\ snap[s].of = v
QCOWRollback(v, s) == disk[v] # "absent" /\ snap[s].of = v

RollbackInStore(h) ==
  LET v == job[h].v
      s == job[h].s
      may == On(RBDRollback(v, s), QCOWRollback(v, s), FALSE)
  IN
  /\ At(h, "Rollback")
  /\ \/ may /\ Advance(h) /\ NoFault /\ UNCHANGED <<storeVars, histVars>>
     \/ ~may /\ Refused(h)
     \/ Fails(h)

(* ImageExists of the snapshot; Rollback has validated the names before.   *)
FindSnapshot(h) ==
  LET found == snap[job[h].s] # Unused /\ (job[h].op = "RevertSnapshot" => ValidateLVIdentifier) IN
  /\ At(h, "FindSnap")
  /\ \/ found /\ Advance(h) /\ NoFault /\ UNCHANGED <<storeVars, histVars>>
     \/ ~found /\ Refused(h)
     \/ Fails(h)

(* The snapshots that depend on one image now depend on another.           *)
Depend(from, to, v) ==
  [s \in Snaps |-> IF snap[s] = [of |-> v, origin |-> from] THEN [of |-> v, origin |-> to] ELSE snap[s]]

(* The disk is renamed to -old, which must be free.                        *)
RenameAside(h) ==
  LET v == job[h].v
      may == disk[v] # "absent" /\ old[v] = "absent"
  IN  /\ At(h, "Aside")
      /\ \/ /\ may /\ old' = [old EXCEPT ![v] = disk[v]] /\ disk' = [disk EXCEPT ![v] = "absent"]
            /\ snap' = Depend("disk", "old", v)
            /\ Advance(h) /\ NoFault /\ UNCHANGED <<snapshotVars, file>>
         \/ ~may /\ Refused(h)
         \/ Fails(h)

(* The snapshot is renamed to the disk, or the old disk back.              *)
RenameSnapshot(h) ==
  LET v == job[h].v
      s == job[h].s
      may == snap[s] # Unused /\ disk[v] = "absent"
      Back == \/ /\ disk[v] = "absent"
                 /\ disk' = [disk EXCEPT ![v] = old[v]] /\ old' = [old EXCEPT ![v] = "absent"]
                 /\ snap' = Depend("old", "disk", v)
              \/ disk[v] # "absent" /\ UNCHANGED <<disk, old, snap>>
  IN  /\ At(h, "Swap")
      /\ \/ /\ may /\ disk' = [disk EXCEPT ![v] = "whole"] /\ Clear({s})
            /\ Advance(h) /\ NoFault /\ UNCHANGED old
         \/ ~may /\ Back /\ Fail(h) /\ NoFault
         \/ Fault /\ Fail(h) /\ (Back \/ UNCHANGED <<disk, old, snap>>)
      /\ UNCHANGED <<snapshotVars, file>>

(* The old disk is removed; an error is only logged.                       *)
RemoveOld(h) ==
  LET v == job[h].v IN
  /\ At(h, "Discard")
  /\ Advance(h)
  /\ \/ old' = [old EXCEPT ![v] = "absent"] /\ snap' = Depend("old", "none", v) /\ NoFault
     \/ Fault /\ UNCHANGED <<old, snap>>
  /\ UNCHANGED <<snapshotVars, disk, file>>

(* dd from the snapshot to the backup file, which a failure leaves there.  *)
CopyOut(h) ==
  LET v == job[h].v IN
  /\ At(h, "CopyOut")
  /\ \/ /\ snap[job[h].s] # Unused /\ file' = [file EXCEPT ![v] = "whole"]
        /\ Advance(h) /\ NoFault /\ UNCHANGED <<snapshotVars, disk, old, snap>>
     \/ snap[job[h].s] = Unused /\ Refused(h)
     \/ Fault /\ file' = [file EXCEPT ![v] = "partial"] /\ Fail(h) /\ UNCHANGED <<snapshotVars, disk, old, snap>>

(* The domain is stopped, and the LV and the file are there.               *)
CheckStopped(h) ==
  LET v == job[h].v
      may == domain[v] = "shutoff" /\ ValidateLVIdentifier /\ disk[v] # "absent" /\ file[v] # "absent"
  IN  /\ At(h, "CheckStopped")
      /\ \/ may /\ Advance(h) /\ NoFault /\ UNCHANGED <<storeVars, histVars>>
         \/ ~may /\ Refused(h)
         \/ Fails(h)

(* dd from the file, whole or not, over the LV.                            *)
CopyIn(h) ==
  LET v == job[h].v IN
  /\ At(h, "CopyIn")
  /\ \/ disk' = [disk EXCEPT ![v] = IF @ = "absent" THEN @ ELSE file[v]] /\ Advance(h) /\ NoFault
     \/ Fault /\ disk' = [disk EXCEPT ![v] = IF @ = "absent" THEN @ ELSE "partial"] /\ Fail(h)
  /\ UNCHANGED <<snapshotVars, old, snap, file>>

SnapshotStep(h) ==
  \/ Snapshot(h) \/ FindInList(h) \/ RemoveSnapshot(h) \/ RollbackInStore(h)
  \/ FindSnapshot(h) \/ RenameAside(h) \/ RenameSnapshot(h) \/ RemoveOld(h)
  \/ CopyOut(h) \/ CheckStopped(h) \/ CopyIn(h)
  \/ At(h, "Refuse") /\ Refused(h)

-----------------------------------------------------------------------------

(* An empty store; or one with templates, and VMs with a snapshot and,     *)
(* on lvm, a backup.                                                       *)
Init ==
  /\ backend \in {"ceph", "qcow", "lvm"}
  /\ strict \in (IF backend = "lvm" THEN BOOLEAN ELSE {FALSE})
  /\ made \in {{}, VMs} /\ kept = made
  /\ LET full == made # {} IN
     /\ base = [t \in Templates |-> IF full THEN "whole" ELSE "absent"]
     /\ sealed = [t \in Templates |-> IF full /\ backend = "ceph" THEN "protected" ELSE "none"]
     /\ disk = [v \in VMs |-> IF full THEN "whole" ELSE "absent"]
     /\ domain \in [VMs -> IF full THEN {"running", "shutoff"} ELSE {"none"}]
     /\ seed = made
     /\ file = [v \in VMs |-> IF full /\ backend = "lvm" THEN "whole" ELSE "absent"]
     /\ \E s \in Snaps, v \in VMs :
          snap = [x \in Snaps |-> IF full /\ x = s THEN [of |-> v, origin |-> "disk"] ELSE Unused]
  /\ strict => made = {}
  /\ old = [v \in VMs |-> "absent"]
  /\ job = [h \in Handlers |-> Idle]
  /\ calls = 0 /\ faults = 0 /\ spoiled = {}

Next ==
  \/ \E h \in Handlers :
       \/ Request(h)
       \/ (ImportStep(h) \/ VMStep(h) \/ SnapshotStep(h) \/ Return(h)) /\ UNCHANGED <<backend, strict, calls>>
  \/ Restart

Spec == Init /\ [][Next]_vars

-----------------------------------------------------------------------------

Images == {"absent", "partial", "whole"}

TypeOK ==
  /\ base \in [Templates -> Images] /\ sealed \in [Templates -> {"none", "taken", "protected"}]
  /\ disk \in [VMs -> Images] /\ old \in [VMs -> Images] /\ file \in [VMs -> Images]
  /\ snap \in [Snaps -> [of : VMs \cup {None}, origin : {"none", "disk", "old"}]]
  /\ domain \in [VMs -> {"none", "shutoff", "running"}]
  /\ kept \subseteq made /\ made \subseteq VMs /\ seed \subseteq VMs
  /\ calls \in 0..MaxCalls /\ faults \in 0..MaxFaults

(* A VM keeps its disk, under its own name or under the one that Rollback  *)
(* gives it, wherever a revert fails or the agent dies, and whatever else  *)
(* is asked for meanwhile, until the VM is to be erased or reimaged        *)
(* (LVMManager.Rollback, "to avoid data-loss window").                     *)
NothingLost == \A v \in kept : disk[v] # "absent" \/ old[v] # "absent"

(* A template that exists while no import of it runs can be cloned: one    *)
(* that failed halfway has been removed (EnsureTemplateCached takes the    *)
(* existence of a template for its being complete).                        *)
CachedIsComplete ==
  \A t \in Templates :
    base[t] # "absent" /\ t \notin spoiled /\ (\A h \in Busy(t) : job[h].op \notin Importing) =>
      base[t] = "whole" /\ (backend = "ceph" => sealed[t] = "protected")

(* A CreateVM that failed leaves neither disk nor domain nor cloud-init    *)
(* image, so that it can be repeated (CloneForVM, cleanupFailedCreate and  *)
(* the deferred deletion of the image).                                    *)
FailedCreateLeavesNothing ==
  \A v \in VMs \ (made \cup spoiled) :
    Busy(v) = {} => disk[v] = "absent" /\ domain[v] = "none" /\ v \notin seed

=============================================================================
