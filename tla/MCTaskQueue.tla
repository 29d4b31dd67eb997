----------------------------- MODULE MCTaskQueue ----------------------------
(***************************************************************************)
(* Two goroutines of a process: a message can be handled twice at once,    *)
(* and a failure can cancel the handler beside it.                         *)
(***************************************************************************)
EXTENDS TaskQueue

CONSTANTS t1, t2, p1, a1, a2, none

OneTask == {t1}
TwoTasks == {t1, t2}
NoTasks == {}
SecondTask == {t2}
OneProc == {p1}
OneSlot == {a1}
PairOfSlots == {a1, a2}
SlotProc == [s \in Slots |-> p1]

=============================================================================
