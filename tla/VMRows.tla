------------------------------- MODULE VMRows -------------------------------
(***************************************************************************)
(* The vms table: which status may follow which, and the statements that   *)
(* change a row.  deleted_at is set together with the status deleted and   *)
(* never cleared, so that the status stands for both.                      *)
(***************************************************************************)
CONSTANTS VMs

VARIABLE vms   \* the rows; "none" is the status of a row not yet inserted

Statuses == {"provisioning", "running", "stopped", "suspended", "deleting", "migrating",
             "reinstalling", "error", "deleted"}

(* The statuses that may follow a status.                                  *)
ValidVMTransitions ==
  [s \in Statuses |->
     CASE s = "provisioning" -> {"running", "error"}
       [] s = "running"      -> {"stopped", "suspended", "deleting", "migrating", "reinstalling", "error"}
       [] s = "stopped"      -> {"running", "deleting", "reinstalling", "migrating", "error"}
       [] s = "suspended"    -> {"running", "stopped", "deleting", "migrating"}
       [] s = "deleting"     -> {"deleted", "error"}
       [] s = "migrating"    -> {"running", "stopped", "suspended", "error"}
       [] s = "reinstalling" -> {"running", "error"}
       [] s = "error"        -> {"stopped", "deleting"}
       [] s = "deleted"      -> {}]

ValidateVMTransition(from, to) == to \in ValidVMTransitions[from]

(* GetByIDIncludingDeleted and GetByID find a row.                         *)
Inserted(v) == vms[v].status # "none"

Visible(v) == vms[v].status \notin {"none", "deleted"}

(* TransitionStatus: the pair is permitted, and the row still has the      *)
(* status that the caller read.  The second conjunct is the WHERE clause.  *)
MayTransition(v, from, to) ==
  /\ ValidateVMTransition(from, to)
  /\ Visible(v) /\ vms[v].status = from

TransitionStatus(v, from, to) ==
  IF MayTransition(v, from, to) THEN vms' = [vms EXCEPT ![v].status = to] ELSE UNCHANGED vms

(* UpdateStatus: whatever status the row has.                              *)
UpdateStatus(v, st) ==
  IF Visible(v) THEN vms' = [vms EXCEPT ![v].status = st] ELSE UNCHANGED vms

SoftDelete(v) ==
  IF Visible(v) THEN vms' = [vms EXCEPT ![v].status = "deleted"] ELSE UNCHANGED vms

=============================================================================
