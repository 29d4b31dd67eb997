------------------------------ MODULE MCBackups ------------------------------
(* Two monthly tasks, a monthly task beside a request, two requests, or a  *)
(* schedule of an administrator.                                           *)
EXTENDS Backups

CONSTANT c1

MCPlans ==
  LET never == MaxDay + 2
      plan(b, up, n, k, t, d, r) ==
        [backend |-> b, up |-> up, requests |-> n, tasks |-> k, today |-> t, day |-> d, run |-> r] IN
  {plan("qcow", {c1}, 0, 2, MaxDay, MaxDay, never)}
  \cup {plan(b, {c1}, 1, 1, MaxDay, MaxDay, never) : b \in {"ceph", "qcow"}}
  \cup {plan(b, {}, 2, 0, MaxDay, Days, never) : b \in {"ceph", "qcow", "lvm"}}
  \cup {plan("lvm", Controllers, 0, 2, 0, Days, 0)}

-----------------------------------------------------------------------------


=============================================================================
