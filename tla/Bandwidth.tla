------------------------------ MODULE Bandwidth -----------------------------
(***************************************************************************)
(* Bandwidth accounting: the controller adds up what a VM has sent in a    *)
(* month, and has the node agent throttle a VM that exceeds its limit.     *)
(* Callers of the service run at once; each statement and each call of     *)
(* the agent is a step.  As wired, only GetMonthlyUsage is called and the  *)
(* service has no throttler.                                               *)
(***************************************************************************)
EXTENDS Naturals, FiniteSets

CONSTANTS VMs, Callers, None,
          Limit,      \* bandwidth_limit_gb of every VM; 0 is no limit
          MaxMonth, MaxBytes, MaxCalls, MaxFaults   \* bounds

VARIABLES month,      \* the current billing period
          row,        \* row[v][m]: of bandwidth_usage, or None
          qdisc,      \* VMs whose interface has a tbf qdisc
          call,       \* call[c]: what a caller is doing
          calls, faults,
          sent,       \* history: sent[v][m] is what was recorded
          astray      \* history: VMs with overlapping calls, or a lost clean-up

vars == <<month, row, qdisc, call, calls, faults, sent, astray>>

Months == 1..MaxMonth
Idle == [op |-> "idle", v |-> None, m |-> 0, pc |-> "none"]
NewRow(bytes, limit) == [bytes |-> bytes, limit |-> limit, throttled |-> FALSE]

Fault == faults < MaxFaults /\ faults' = faults + 1
NoFault == UNCHANGED faults
At(c, pc) == call[c].pc = pc
Goto(c, pc) == call' = [call EXCEPT ![c].pc = pc]
Done(c) == call' = [call EXCEPT ![c] = Idle]
Fails(c) == Fault /\ Done(c) /\ UNCHANGED <<row, qdisc, sent, astray>>

-----------------------------------------------------------------------------
(* The repository.                                                         *)

Exceeded(r) == r.limit # 0 /\ r.bytes > r.limit

(* What is there, or a new row with the limit of the VM.                   *)
GetOrCreateUsage(v, m) ==
  row' = IF row[v][m] = None THEN [row EXCEPT ![v][m] = NewRow(0, Limit)] ELSE row

(* Mutant: the counters are replaced.                                      *)
ReplaceUsage(v, m, b) ==
  row' = [row EXCEPT ![v][m] = IF @ = None THEN NewRow(b, 0) ELSE [@ EXCEPT !.bytes = b]]

(* One upsert adds to the counters.  A row that it creates has no limit.   *)
UpdateUsage(v, m, b) ==
  row' = [row EXCEPT ![v][m] = IF @ = None THEN NewRow(b, 0) ELSE [@ EXCEPT !.bytes = @ + b]]

SetThrottled(v, m, b) == row[v][m] # None /\ row' = [row EXCEPT ![v][m].throttled = b]

ListThrottled == {v \in VMs : row[v][month] # None /\ row[v][month].throttled}

-----------------------------------------------------------------------------
(* The agent.                                                              *)

(* A former qdisc is removed first; an error may come before or after.     *)
ApplyThrottle(v, ok) ==
  \/ ok /\ NoFault /\ qdisc' = qdisc \cup {v}
  \/ ~ok /\ Fault /\ qdisc' \in {qdisc, qdisc \ {v}}

(* An interface that cannot be looked at counts as not throttled, without  *)
(* an error.                                                               *)
RemoveThrottle(v, ok) ==
  \/ ok /\ NoFault /\ qdisc' = qdisc \ {v}
  \/ Fault /\ UNCHANGED qdisc /\ ok \in BOOLEAN

-----------------------------------------------------------------------------
(* The service.                                                            *)

Busy(v) == {c \in Callers : call[c].v = v}

Begin(c, op, v, pc) ==
  /\ call[c] = Idle /\ c = CHOOSE x \in Callers : call[x] = Idle
  /\ calls < MaxCalls /\ calls' = calls + 1
  /\ call' = [call EXCEPT ![c] = [op |-> op, v |-> v, m |-> month, pc |-> pc]]
  /\ astray' = IF Busy(v) # {} THEN astray \cup {v} ELSE astray

(* RecordUsage up to the statement; the VM may be gone.                    *)
RecordUsage(c, v, b) ==
  /\ sent[v][month] + b <= MaxBytes
  /\ Begin(c, "RecordUsage", v, "check")
  /\ UpdateUsage(v, month, b)
  /\ sent' = [sent EXCEPT ![v][month] = @ + b]
  /\ UNCHANGED <<month, qdisc, faults>>

(* One VM of the running ones.                                             *)
CheckAllVMs(c, v) == Limit # 0 /\ Begin(c, "CheckAllVMs", v, "check") /\ UNCHANGED <<month, row, qdisc, faults, sent>>

(* For an administrator.                                                   *)
RemoveThrottling(c, v) == Begin(c, "RemoveThrottling", v, "remove") /\ UNCHANGED <<month, row, qdisc, faults, sent>>

(* For an API request.                                                     *)
GetMonthlyUsage(c, v) == Begin(c, "GetMonthlyUsage", v, "check") /\ UNCHANGED <<month, row, qdisc, faults, sent>>

(* One VM of those that are listed, in the current month.                  *)
ResetMonthlyCounters(c) ==
  \E v \in ListThrottled :
    Begin(c, "ResetMonthlyCounters", v, "remove") /\ UNCHANGED <<month, row, qdisc, faults, sent>>

(* checkAndThrottle, with the month of that moment.                        *)
CheckAndThrottle(c, r) == Exceeded(r) /\ Limit # 0 /\ call[c].op # "GetMonthlyUsage"

(* GetMonthlyUsage under CheckLimit.                                       *)
CheckLimit(c) ==
  LET v == call[c].v IN
  /\ At(c, "check")
  /\ \/ /\ GetOrCreateUsage(v, month) /\ NoFault
        /\ IF CheckAndThrottle(c, row'[v][month]) THEN Goto(c, "trigger") ELSE Done(c)
        /\ UNCHANGED <<qdisc, sent, astray>>
     \/ Fails(c)

(* TriggerThrottling up to its look at the row.                            *)
TriggerThrottling(c) ==
  LET v == call[c].v IN
  /\ At(c, "trigger")
  /\ \/ /\ GetOrCreateUsage(v, month) /\ NoFault
        /\ call' = [call EXCEPT ![c] = IF row'[v][month].throttled THEN Idle
                                       ELSE [@ EXCEPT !.m = month, !.pc = "apply"]]
        /\ UNCHANGED <<qdisc, sent, astray>>
     \/ Fails(c)

CallApplyThrottle(c) ==
  /\ At(c, "apply")
  /\ \E ok \in BOOLEAN : ApplyThrottle(call[c].v, ok) /\ IF ok THEN Goto(c, "mark") ELSE Done(c)
  /\ UNCHANGED <<row, sent, astray>>

(* Mutant: the failure to write is only logged.                            *)
LeaveThrottled(c) == Done(c)

(* A throttle that could not be recorded is taken back.                    *)
UndoThrottle(c) == Goto(c, "undo")

MarkThrottled(c) ==
  /\ At(c, "mark")
  /\ \/ SetThrottled(call[c].v, call[c].m, TRUE) /\ Done(c) /\ NoFault
     \/ Fault /\ UndoThrottle(c) /\ UNCHANGED row
  /\ UNCHANGED <<qdisc, sent, astray>>

(* The error of this call is ignored.                                      *)
TakeBack(c) ==
  /\ At(c, "undo")
  /\ \E ok \in BOOLEAN : RemoveThrottle(call[c].v, ok)
  /\ astray' = IF call[c].v \in qdisc' THEN astray \cup {call[c].v} ELSE astray
  /\ Done(c)
  /\ UNCHANGED <<row, sent>>

(* RemoveThrottling: the database is updated even if the agent fails.      *)
CallRemoveThrottle(c) ==
  /\ At(c, "remove")
  /\ \E ok \in BOOLEAN : RemoveThrottle(call[c].v, ok)
  /\ astray' = IF call[c].v \in qdisc' THEN astray \cup {call[c].v} ELSE astray
  /\ Goto(c, "unmark")
  /\ UNCHANGED <<row, sent>>

(* With the month of that moment; no row is an error.                      *)
UnmarkThrottled(c) ==
  /\ At(c, "unmark")
  /\ \/ SetThrottled(call[c].v, month, FALSE) /\ Done(c) /\ NoFault
     \/ row[call[c].v][month] = None /\ Done(c) /\ NoFault /\ UNCHANGED row
     \/ Fault /\ Done(c) /\ UNCHANGED row
  /\ UNCHANGED <<qdisc, sent, astray>>

Step(c) ==
  /\ \/ CheckLimit(c) \/ TriggerThrottling(c) \/ CallApplyThrottle(c) \/ MarkThrottled(c) \/ TakeBack(c)
     \/ CallRemoveThrottle(c) \/ UnmarkThrottled(c)
  /\ UNCHANGED <<month, calls>>

-----------------------------------------------------------------------------

(* The guest gets a new interface when it is started again.                *)
GuestRestarts(v) ==
  /\ v \in qdisc /\ qdisc' = qdisc \ {v}
  /\ UNCHANGED <<month, row, call, calls, faults, sent, astray>>

MonthPasses ==
  /\ month < MaxMonth /\ month' = month + 1
  /\ UNCHANGED <<row, qdisc, call, calls, faults, sent, astray>>

(* The controller dies and loses its calls.                                *)
Crash ==
  /\ Fault /\ \E c \in Callers : call[c] # Idle
  /\ call' = [c \in Callers |-> Idle]
  /\ astray' = astray \cup {call[c].v : c \in {c \in Callers : call[c] # Idle}}
  /\ UNCHANGED <<month, row, qdisc, calls, sent>>

Init ==
  /\ month = 1
  /\ row = [v \in VMs |-> [m \in Months |-> None]]
  /\ qdisc = {} /\ astray = {}
  /\ call = [c \in Callers |-> Idle]
  /\ calls = 0 /\ faults = 0
  /\ sent = [v \in VMs |-> [m \in Months |-> 0]]

Next ==
  \/ \E c \in Callers :
       \/ \E v \in VMs, b \in 1..MaxBytes : RecordUsage(c, v, b)
       \/ \E v \in VMs : CheckAllVMs(c, v) \/ RemoveThrottling(c, v) \/ GetMonthlyUsage(c, v)
       \/ ResetMonthlyCounters(c) \/ Step(c)
  \/ \E v \in VMs : GuestRestarts(v)
  \/ MonthPasses \/ Crash

Spec == Init /\ [][Next]_vars

-----------------------------------------------------------------------------

TypeOK ==
  /\ month \in Months /\ qdisc \subseteq VMs /\ astray \subseteq VMs
  /\ row \in [VMs -> [Months -> {None} \cup [bytes : 0..MaxBytes, limit : {0, Limit}, throttled : BOOLEAN]]]
  /\ calls \in 0..MaxCalls /\ faults \in 0..MaxFaults

(* No traffic that was recorded is lost or counted twice, whoever else     *)
(* records, looks the usage up, or creates the row (UpdateUsage,           *)
(* GetOrCreateUsage).                                                      *)
CountsAddUp ==
  \A v \in VMs, m \in Months : sent[v][m] = IF row[v][m] = None THEN 0 ELSE row[v][m].bytes

(* A VM is throttled only if some month's row says so: a throttle that     *)
(* could not be recorded is taken back (TriggerThrottling).  Calls for one *)
(* VM that overlap, a call that the controller did not survive, and a      *)
(* removal that failed are excepted.                                       *)
ThrottleIsRecorded ==
  \A v \in qdisc \ astray :
    \/ \E m \in Months : row[v][m] # None /\ row[v][m].throttled
    \/ Busy(v) # {}

=============================================================================
