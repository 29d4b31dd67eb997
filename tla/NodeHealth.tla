----------------------------- MODULE NodeHealth -----------------------------
(***************************************************************************)
(* How a hypervisor node comes to be declared failed: the heartbeats of    *)
(* its agent, the heartbeat checker and the failover monitor that every    *)
(* controller runs without any lock between them, and the administrators'  *)
(* drain, undrain and failover requests.  All of them read the nodes row   *)
(* and later write it by id, whatever it holds by then.  What a failover   *)
(* does after the node is verified as failed is in module Failover.        *)
(***************************************************************************)
EXTENDS Naturals, FiniteSets

CONSTANTS Nodes, NoNode,
          Controllers,  \* processes running the checker and the monitor
          Admins,       \* concurrent requests of administrators
          Threshold,    \* FailoverHeartbeatThreshold
          NoRow,        \* a snapshot holds no row of this node
          MaxLapses     \* bound: how often nodes fall silent

ASSUME NodeHealthAssumption ==
  Threshold \in Nat \ {0} /\ MaxLapses \in Nat /\ NoNode \notin Nodes

VARIABLES node,      \* nodes: status, consecutive_heartbeat_misses (all values
                     \* from Threshold on are alike), age of last_heartbeat_at
          reach,     \* the node's agent is up and can be reached
          snap,      \* checkAllNodes: rows listed and not yet looked at
          degrade,   \* checkAllNodes: the node whose UpdateStatus is due
          due,       \* checkNodes: nodes listed as needing failover
          verified,  \* verifyFailedNode: the node whose UpdateStatus is due
          request,   \* an administrator's request between its check and its write
          lapses     \* silences so far

rowVars == <<node, reach>>
checkerVars == <<snap, degrade>>
monitorVars == <<due, verified>>
vars == <<node, reach, snap, degrade, due, verified, request, lapses>>

Statuses == {"online", "degraded", "draining", "failed"}
Active == {"online", "degraded"}
Rows == [status: Statuses, misses: 0..Threshold, beat: {"never", "recent", "old"}]
NoRequest == [op |-> "none", node |-> NoNode]

SetStatus(n, st) == node' = [node EXCEPT ![n].status = st]

-----------------------------------------------------------------------------

(* RegisterNode: online, and no heartbeat yet.                             *)
Init ==
  /\ node = [n \in Nodes |-> [status |-> "online", misses |-> 0, beat |-> "never"]]
  /\ reach = [n \in Nodes |-> TRUE]
  /\ snap = [c \in Controllers |-> [n \in Nodes |-> NoRow]]
  /\ degrade = [c \in Controllers |-> NoNode]
  /\ due = [c \in Controllers |-> {}]
  /\ verified = [c \in Controllers |-> NoNode]
  /\ request = [a \in Admins |-> NoRequest]
  /\ lapses = 0

(* NodeService.UpdateHeartbeat, which nothing in the controller calls.     *)
RecordHeartbeat(n) ==
  /\ reach[n]
  /\ node' = [node EXCEPT ![n].misses = 0, ![n].beat = "recent"]
  /\ UNCHANGED <<reach, checkerVars, monitorVars, request, lapses>>

FallSilent(n) ==
  /\ reach[n] /\ lapses < MaxLapses
  /\ reach' = [reach EXCEPT ![n] = FALSE]
  /\ lapses' = lapses + 1
  /\ UNCHANGED <<node, checkerVars, monitorVars, request>>

ComeBack(n) ==
  /\ ~reach[n]
  /\ reach' = [reach EXCEPT ![n] = TRUE]
  /\ UNCHANGED <<node, checkerVars, monitorVars, request, lapses>>

(* The five minutes of the checker's Timeout pass.                         *)
HeartbeatAges(n) ==
  /\ ~reach[n] /\ node[n].beat = "recent"
  /\ node' = [node EXCEPT ![n].beat = "old"]
  /\ UNCHANGED <<reach, checkerVars, monitorVars, request, lapses>>

-----------------------------------------------------------------------------
(* The heartbeat checker.                                                  *)

(* Mutant: the checker lists nodes of every status.                        *)
ListAllNodes(c, statuses) ==
  /\ snap[c] = [n \in Nodes |-> NoRow] /\ degrade[c] = NoNode
  /\ snap' = [snap EXCEPT ![c] = node]
  /\ UNCHANGED <<rowVars, degrade, monitorVars, request, lapses>>

(* The two ListByStatus; the checker goes on without the degraded nodes if *)
(* the second one fails.                                                   *)
ListNodes(c, statuses) ==
  /\ snap[c] = [n \in Nodes |-> NoRow] /\ degrade[c] = NoNode
  /\ snap' = [snap EXCEPT ![c] =
                [n \in Nodes |-> IF node[n].status \in statuses THEN node[n] ELSE NoRow]]
  /\ snap' # snap
  /\ UNCHANGED <<rowVars, degrade, monitorVars, request, lapses>>

Forget(c, n) == snap' = [snap EXCEPT ![c][n] = NoRow]

(* A recent heartbeat: nothing to do for this node.                        *)
SkipNode(c, n) ==
  /\ snap[c][n] # NoRow /\ degrade[c] = NoNode
  /\ snap[c][n].beat = "recent"
  /\ Forget(c, n)
  /\ UNCHANGED <<rowVars, degrade, monitorVars, request, lapses>>

(* Mutant: the status that was listed is not looked at.                    *)
CountMissDegradeAny(c, n) ==
  LET misses == IF snap[c][n].misses < Threshold THEN snap[c][n].misses + 1 ELSE Threshold
  IN  /\ snap[c][n] # NoRow /\ degrade[c] = NoNode
      /\ snap[c][n].beat # "recent"
      /\ node' = [node EXCEPT ![n].misses = misses]
      /\ Forget(c, n)
      /\ degrade' = [degrade EXCEPT ![c] = IF snap[c][n].beat = "old" /\ misses >= Threshold
                                             THEN n ELSE NoNode]
      /\ UNCHANGED <<reach, monitorVars, request, lapses>>

(* UpdateHeartbeatMisses writes one more than what was listed.  A node     *)
(* without any heartbeat is counted but never degraded.                    *)
CountMiss(c, n) ==
  LET misses == IF snap[c][n].misses < Threshold THEN snap[c][n].misses + 1 ELSE Threshold
  IN  /\ snap[c][n] # NoRow /\ degrade[c] = NoNode
      /\ snap[c][n].beat # "recent"
      /\ node' = [node EXCEPT ![n].misses = misses]
      /\ Forget(c, n)
      /\ degrade' = [degrade EXCEPT ![c] = IF /\ snap[c][n].beat = "old"
                                              /\ misses >= Threshold
                                              /\ snap[c][n].status = "online"
                                             THEN n ELSE NoNode]
      /\ UNCHANGED <<reach, monitorVars, request, lapses>>

CountMissFails(c, n) ==
  /\ snap[c][n] # NoRow /\ degrade[c] = NoNode
  /\ snap[c][n].beat # "recent"
  /\ Forget(c, n)
  /\ UNCHANGED <<rowVars, degrade, monitorVars, request, lapses>>

(* UpdateStatus(degraded), or its failure.                                 *)
Degrade(c) ==
  /\ degrade[c] # NoNode
  /\ SetStatus(degrade[c], "degraded") \/ UNCHANGED node
  /\ degrade' = [degrade EXCEPT ![c] = NoNode]
  /\ UNCHANGED <<reach, snap, monitorVars, request, lapses>>

-----------------------------------------------------------------------------
(* The failover monitor, up to the start of the failover itself.           *)

(* Mutant: the monitor looks at online nodes only.                         *)
ListOnlineDue(c, statuses) ==
  /\ due[c] = {} /\ verified[c] = NoNode
  /\ due' = [due EXCEPT ![c] = {n \in Nodes : node[n].status = "online"
                                              /\ node[n].misses >= Threshold}]
  /\ due' # due
  /\ UNCHANGED <<rowVars, checkerVars, verified, request, lapses>>

(* getNodesNeedingFailover; again the degraded nodes may be missing.       *)
ListDue(c, statuses) ==
  /\ due[c] = {} /\ verified[c] = NoNode
  /\ due' = [due EXCEPT ![c] = {n \in Nodes : node[n].status \in statuses
                                              /\ node[n].misses >= Threshold}]
  /\ due' # due
  /\ UNCHANGED <<rowVars, checkerVars, verified, request, lapses>>

(* verifyFailedNode reads the row again, at whatever status it is now.     *)
VerifyFailedNode(c, n) ==
  /\ n \in due[c] /\ verified[c] = NoNode
  /\ due' = [due EXCEPT ![c] = @ \ {n}]
  /\ verified' = [verified EXCEPT ![c] = IF node[n].misses >= Threshold THEN n ELSE NoNode]
  /\ UNCHANGED <<rowVars, checkerVars, request, lapses>>

VerifyFails(c, n) ==
  /\ n \in due[c] /\ verified[c] = NoNode
  /\ due' = [due EXCEPT ![c] = @ \ {n}]
  /\ UNCHANGED <<rowVars, checkerVars, verified, request, lapses>>

(* UpdateStatus(failed); its failure is logged and the failover goes on.   *)
MarkFailed(c) ==
  /\ verified[c] # NoNode
  /\ SetStatus(verified[c], "failed")
  /\ verified' = [verified EXCEPT ![c] = NoNode]
  /\ UNCHANGED <<reach, checkerVars, due, request, lapses>>

MarkFails(c) ==
  /\ verified[c] # NoNode
  /\ verified' = [verified EXCEPT ![c] = NoNode]
  /\ UNCHANGED <<rowVars, checkerVars, due, request, lapses>>

-----------------------------------------------------------------------------
(* Administrators.                                                         *)

Checked(a, op, n) ==
  /\ request[a] = NoRequest
  /\ request' = [request EXCEPT ![a] = [op |-> op, node |-> n]]
  /\ UNCHANGED <<rowVars, checkerVars, monitorVars, lapses>>

DrainCheck(a, n) == node[n].status \notin {"draining", "failed"} /\ Checked(a, "drain", n)
UndrainCheck(a, n) == node[n].status = "draining" /\ Checked(a, "undrain", n)
FailoverCheck(a, n) == Checked(a, "failover", n)

(* The UpdateStatus of the request; an error ends it.  A failover goes on  *)
(* to EvacuateNode, whose first write makes the node draining.             *)
Write(a) ==
  LET op == request[a].op
      next == IF op = "failover" THEN [request[a] EXCEPT !.op = "evacuate"] ELSE NoRequest
      st == CASE op \in {"drain", "evacuate"} -> "draining"
              [] op = "undrain" -> "online"
              [] OTHER -> "failed"
  IN  /\ request[a] # NoRequest
      /\ SetStatus(request[a].node, st)
      /\ request' = [request EXCEPT ![a] = next]
      /\ UNCHANGED <<reach, checkerVars, monitorVars, lapses>>

WriteFails(a) ==
  /\ request[a] # NoRequest
  /\ request' = [request EXCEPT ![a] = NoRequest]
  /\ UNCHANGED <<rowVars, checkerVars, monitorVars, lapses>>

-----------------------------------------------------------------------------

Environment == \E n \in Nodes : FallSilent(n) \/ ComeBack(n) \/ HeartbeatAges(n)

Listings == {Active, {"online"}}

Checker(c) ==
  \/ \E statuses \in Listings : ListNodes(c, statuses)
  \/ \E n \in Nodes : SkipNode(c, n) \/ CountMiss(c, n) \/ CountMissFails(c, n)
  \/ Degrade(c)

Monitor(c) ==
  \/ \E statuses \in Listings : ListDue(c, statuses)
  \/ \E n \in Nodes : VerifyFailedNode(c, n) \/ VerifyFails(c, n)
  \/ MarkFailed(c) \/ MarkFails(c)

Administrator(a) ==
  \/ \E n \in Nodes : DrainCheck(a, n) \/ UndrainCheck(a, n) \/ FailoverCheck(a, n)
  \/ Write(a) \/ WriteFails(a)

Next ==
  \/ Environment
  \/ \E c \in Controllers : Checker(c) \/ Monitor(c)
  \/ \E a \in Admins : Administrator(a)
  \/ \E n \in Nodes : RecordHeartbeat(n)

Spec == Init /\ [][Next]_vars

(* The tickers fire, time passes, and no statement fails for ever.         *)
Fairness ==
  /\ \A n \in Nodes : WF_vars(HeartbeatAges(n))
  /\ \A c \in Controllers :
       /\ WF_vars(Checker(c)) /\ WF_vars(Monitor(c))
       /\ SF_vars(ListNodes(c, Active)) /\ SF_vars(ListDue(c, Active)) /\ SF_vars(MarkFailed(c))
       /\ \A n \in Nodes : SF_vars(CountMiss(c, n)) /\ SF_vars(VerifyFailedNode(c, n))

FairSpec == Spec /\ Fairness

-----------------------------------------------------------------------------

TypeOK ==
  /\ node \in [Nodes -> Rows]
  /\ reach \in [Nodes -> BOOLEAN]
  /\ snap \in [Controllers -> [Nodes -> {r \in Rows : r.status \in Active} \cup {NoRow}]]
  /\ degrade \in [Controllers -> Nodes \cup {NoNode}]
  /\ due \in [Controllers -> SUBSET Nodes]
  /\ verified \in [Controllers -> Nodes \cup {NoNode}]
  /\ request \in [Admins -> [op: {"none", "drain", "undrain", "failover", "evacuate"},
                             node: Nodes \cup {NoNode}]]
  /\ lapses \in 0..MaxLapses

(* A checker at work on a row it listed before it failed.                  *)
MayDegrade(c, n) ==
  degrade[c] = n \/ (snap[c][n] # NoRow /\ snap[c][n].status = "online")

Requested(n) == \E a \in Admins : request[a].node = n

FailedQuietly(n) ==
  node[n].status = "failed" /\ \A c \in Controllers : ~MayDegrade(c, n)

(* A failed node stays failed, and no controller even tries to change that,*)
(* until an administrator asks for it; the only exception is a checker     *)
(* that listed the node while it was online, before it failed, and comes   *)
(* late with its UpdateStatus(degraded).                                   *)
FailedIsKept ==
  [][\A n \in Nodes : FailedQuietly(n) /\ ~Requested(n) => FailedQuietly(n)']_vars

(* A node that falls silent for good ends up failed for good, whichever    *)
(* statements fail and however the checkers and monitors of the            *)
(* controllers overwrite each other's status on the way.                   *)
SilentIsFailed ==
  \A n \in Nodes : <>[](~reach[n]) => <>[](node[n].status = "failed")

=============================================================================
