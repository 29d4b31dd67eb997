----------------------------- MODULE MCMigration -----------------------------
(* Three nodes; a VM on ceph, one on a local disk, and one on a local disk   *)
(* whose transfer would be relayed, of which one exists.                   *)
EXTENDS Migration

-----------------------------------------------------------------------------
(* The guest of a running VM is on the node that the row names; the types   *)
(* hold.                                                                   *)
RowIsTrue == TypeOK /\ RunningIsThere

=============================================================================
