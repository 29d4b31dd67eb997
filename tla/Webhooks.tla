------------------------------ MODULE Webhooks ------------------------------
(***************************************************************************)
(* Customer webhooks: registering them up to a limit, queueing deliveries, *)
(* and the two places that attempt one, the webhook.deliver task and the   *)
(* processor of pending deliveries.  Both work on the copies of the        *)
(* delivery and the webhook they read, send, and then write three rows'    *)
(* worth of consequences in separate statements.                           *)
(*                                                                         *)
(* As wired nothing registers the task handler and nothing calls the       *)
(* processor: the model has both, and says what holds once they run.       *)
(***************************************************************************)
EXTENDS Naturals, FiniteSets

CONSTANTS Hooks, Deliveries,   \* ids, given in order
          Creators,       \* requests to register a webhook, served at a time
          Tasks,          \* goroutines running webhook.deliver
          Processors,     \* callers of ProcessPendingDeliveries
          Nil,            \* no delivery in hand
          MaxWebhooks, MaxAttempts, MaxFailCount,   \* 5, 5 and 50
          MaxWebhookFaults, MaxEdits              \* bounds

VARIABLES hook,           \* webhooks: "none", "there", "gone"; active; fail_count
          delivery,       \* webhook_deliveries, with due: next_retry_at
          queued,         \* published webhook.deliver tasks
          creating,       \* what each Create has found
          try,            \* the locals of each attempt
          since,          \* history: what happened to the webhook since it was read
          hookFaults, edits

hookVars == <<hook, delivery, queued, creating, try, since, hookFaults, edits>>

Attempters == Tasks \cup Processors
NoTry == [at |-> "idle", d |-> Nil, count |-> 0, fails |-> 0, ok |-> FALSE, todo |-> {}]

WebhooksInit ==
  /\ hook = [h \in Hooks |-> [row |-> "none", active |-> FALSE, fails |-> 0]]
  /\ delivery = [d \in Deliveries |-> [status |-> "none", of |-> Nil, count |-> 0, due |-> "null"]]
  /\ queued = {}
  /\ creating = [c \in Creators |-> "idle"]
  /\ try = [a \in Attempters |-> NoTry]
  /\ since = [a \in Attempters |-> {}]
  /\ hookFaults = 0
  /\ edits = 0

There == {h \in Hooks : hook[h].row = "there"}
Open == {d \in Deliveries : delivery[d].status \in {"pending", "retrying"}}
(* Kept for the webhook of the delivery in hand, while it is in hand.      *)
Note(h, what) ==
  since' = [a \in Attempters |->
              IF try'[a].d = Nil THEN {}
              ELSE IF delivery[try'[a].d].of = h THEN since[a] \cup what ELSE since[a]]

-----------------------------------------------------------------------------
(* The customer's requests.                                                *)

CountLoosely(c) ==
  /\ creating[c] = "idle"
  /\ Cardinality(There) <= MaxWebhooks
  /\ creating' = [creating EXCEPT ![c] = "insert"]
  /\ UNCHANGED <<hook, delivery, queued, try, since, hookFaults, edits>>

(* Create: the limit is checked against a count ...                        *)
CountByCustomer(c) ==
  /\ creating[c] = "idle"
  /\ Cardinality(There) < MaxWebhooks
  /\ creating' = [creating EXCEPT ![c] = "insert"]
  /\ UNCHANGED <<hook, delivery, queued, try, since, hookFaults, edits>>

(* ... and the row is inserted later, perhaps after another one ("raced"). *)
CreateWebhook(c) ==
  /\ creating[c] \in {"insert", "raced"}
  /\ \E h \in Hooks :
       /\ hook[h].row = "none" /\ \A g \in Hooks : g < h => hook[g].row # "none"
       /\ hook' = [hook EXCEPT ![h] = [row |-> "there", active |-> TRUE, fails |-> 0]]
  /\ creating' = [o \in Creators |-> IF o = c \/ creating[o] = "idle" THEN "idle" ELSE "raced"]
  /\ UNCHANGED <<delivery, queued, try, since, hookFaults, edits>>

UpdateWebhook(h, active) ==
  /\ h \in There /\ hook[h].active # active
  /\ edits < MaxEdits
  /\ edits' = edits + 1
  /\ hook' = [hook EXCEPT ![h].active = active]
  /\ UNCHANGED <<delivery, queued, creating, try, hookFaults>>
  /\ Note(h, IF active THEN {} ELSE {"off"})

DeleteHookOnly(h) ==
  /\ h \in There
  /\ edits < MaxEdits
  /\ edits' = edits + 1
  /\ hook' = [hook EXCEPT ![h].row = "gone", ![h].active = FALSE]
  /\ UNCHANGED <<delivery, queued, creating, try, since, hookFaults>>

(* The deliveries go with it: ON DELETE CASCADE.                           *)
DeleteWebhook(h) ==
  /\ h \in There
  /\ edits < MaxEdits
  /\ edits' = edits + 1
  /\ hook' = [hook EXCEPT ![h].row = "gone", ![h].active = FALSE]
  /\ delivery' = [d \in Deliveries |->
                    IF delivery[d].of = h /\ delivery[d].status # "none"
                      THEN [delivery[d] EXCEPT !.status = "gone", !.due = "null"] ELSE delivery[d]]
  /\ UNCHANGED <<queued, creating, try, since, hookFaults>>

(* queueDelivery, for an event of an active webhook or for a test of any;  *)
(* an error of the publisher is only logged.                               *)
QueueDelivery(d, h) ==
  /\ h \in There /\ delivery[d].status = "none"
  /\ \A e \in Deliveries : e < d => delivery[e].status # "none"
  /\ delivery' = [delivery EXCEPT ![d] = [status |-> "pending", of |-> h, count |-> 0, due |-> "null"]]
  /\ \/ queued' = queued \cup {d} /\ UNCHANGED hookFaults
     \/ hookFaults < MaxWebhookFaults /\ hookFaults' = hookFaults + 1 /\ UNCHANGED queued
  /\ UNCHANGED <<hook, creating, try, since, edits>>

RetryComesDue(d) ==
  /\ delivery[d].due = "later"
  /\ delivery' = [delivery EXCEPT ![d].due = "now"]
  /\ UNCHANGED <<hook, queued, creating, try, since, hookFaults, edits>>

-----------------------------------------------------------------------------
(* Taking a delivery up.                                                   *)

Done(a) == IF try[a].todo = {} THEN NoTry ELSE [NoTry EXCEPT !.at = "next", !.todo = try[a].todo]

(* The check of the active flag left out.                                  *)
TakeUpInactive(a, d, count, rest) ==
  LET h == delivery[d].of
  IN /\ try' = [try EXCEPT ![a] = IF h \in There
                                    THEN [at |-> "send", d |-> d, count |-> count,
                                          fails |-> hook[h].fails, ok |-> FALSE, todo |-> rest]
                                  ELSE IF rest = {} THEN NoTry
                                  ELSE [NoTry EXCEPT !.at = "next", !.todo = rest]]
     /\ since' = [since EXCEPT ![a] = {}]

(* What both read of the webhook decides: gone, an error; inactive, the    *)
(* delivery will be marked failed; otherwise it will be sent.              *)
TakeUp(a, d, count, rest) ==
  LET h == delivery[d].of
      taken == [at |-> IF hook[h].active THEN "send" ELSE "mark", d |-> d, count |-> count,
                fails |-> hook[h].fails, ok |-> FALSE, todo |-> rest]
  IN /\ try' = [try EXCEPT ![a] = IF h \in There THEN taken
                                  ELSE IF rest = {} THEN NoTry
                                  ELSE [NoTry EXCEPT !.at = "next", !.todo = rest]]
     /\ since' = [since EXCEPT ![a] = {}]

(* webhook.deliver: delivered already, done; attempts used up, failed.     *)
HandleWebhookDeliver(a) ==
  /\ a \in Tasks /\ try[a].at = "idle"
  /\ \E d \in queued :
       /\ queued' = queued \ {d}
       /\ \/ delivery[d].status \in {"delivered", "gone"} /\ UNCHANGED <<try, since>>
          \/ /\ delivery[d].status \notin {"delivered", "gone"} /\ delivery[d].count >= MaxAttempts
             /\ try' = [try EXCEPT ![a] = [NoTry EXCEPT !.at = "mark", !.d = d]]
             /\ UNCHANGED since
          \/ /\ delivery[d].status \notin {"delivered", "gone"} /\ delivery[d].count < MaxAttempts
             /\ TakeUp(a, d, delivery[d].count, {})
  /\ UNCHANGED <<hook, delivery, creating, hookFaults, edits>>

(* GetPendingDeliveries: the batch, copied.                                *)
GetPendingDeliveries(a) ==
  /\ a \in Processors /\ try[a].at = "idle"
  /\ LET batch == {d \in Open : delivery[d].due # "later"}
     IN /\ batch # {}
        /\ try' = [try EXCEPT ![a] = [NoTry EXCEPT !.at = "next",
                                        !.todo = {<<d, delivery[d].count>> : d \in batch}]]
  /\ UNCHANGED <<hook, delivery, queued, creating, since, hookFaults, edits>>

(* The loop of ProcessPendingDeliveries.  A delivery is not read again.    *)
ProcessPendingDelivery(a) ==
  /\ try[a].at = "next"
  /\ \E p \in try[a].todo : TakeUp(a, p[1], p[2], try[a].todo \ {p})
  /\ UNCHANGED <<hook, delivery, queued, creating, hookFaults, edits>>

-----------------------------------------------------------------------------
(* The attempt.                                                            *)


MarkDeliveryFailed(a) ==
  /\ try[a].at = "mark"
  /\ delivery' = IF delivery[try[a].d].status = "gone" THEN delivery
                 ELSE [delivery EXCEPT ![try[a].d].status = "failed", ![try[a].d].due = "null"]
  /\ try' = [try EXCEPT ![a] = Done(a)]
  /\ Note(delivery[try[a].d].of, {})
  /\ UNCHANGED <<hook, queued, creating, hookFaults, edits>>

(* deliverWebhook: a 2xx answer or anything else.                          *)
DeliverWebhook(a) ==
  /\ try[a].at = "send"
  /\ \E ok \in BOOLEAN : try' = [try EXCEPT ![a].at = "attempt", ![a].ok = ok]
  /\ UNCHANGED <<hook, delivery, queued, creating, since, hookFaults, edits>>

NextRetryOneLess(a) == IF try[a].count + 2 < MaxAttempts THEN "later" ELSE "null"

(* Whether there is another try is decided on the copy, what the row says  *)
(* on the row.                                                             *)
NextRetryAt(a) == IF try[a].count + 1 < MaxAttempts THEN "later" ELSE "null"

NeverFailed(a) ==
  /\ try[a].at = "attempt"
  /\ LET d == try[a].d
         row == delivery[d]
     IN delivery' = IF row.status = "gone" THEN delivery
                    ELSE [delivery EXCEPT ![d] =
                            [row EXCEPT !.count = @ + 1,
                                        !.status = IF try[a].ok THEN "delivered" ELSE "retrying",
                                        !.due = IF try[a].ok THEN "null" ELSE "later"]]
  /\ try' = [try EXCEPT ![a].at = "status"]
  /\ UNCHANGED <<hook, queued, creating, since, hookFaults, edits>>

UpdateDeliveryAttempt(a) ==
  /\ try[a].at = "attempt"
  /\ LET d == try[a].d
         row == delivery[d]
         status == IF try[a].ok THEN "delivered"
                   ELSE IF row.count + 1 >= MaxAttempts THEN "failed" ELSE "retrying"
     IN delivery' = IF row.status = "gone" THEN delivery
                    ELSE [delivery EXCEPT ![d] =
                            [row EXCEPT !.count = @ + 1, !.status = status,
                                        !.due = IF try[a].ok THEN "null" ELSE NextRetryAt(a)]]
  /\ try' = [try EXCEPT ![a].at = "status"]
  /\ UNCHANGED <<hook, queued, creating, since, hookFaults, edits>>


Recorded(row, ok) ==
  IF ok THEN [row EXCEPT !.fails = 0, !.active = TRUE]
  ELSE [row EXCEPT !.fails = @ + 1, !.active = @ /\ row.fails + 1 < MaxFailCount]

(* UpdateDeliveryStatus, then the disabling by what the copy says.         *)
UpdateDeliveryStatus(a) ==
  /\ try[a].at = "status"
  /\ try' = [try EXCEPT ![a] = IF ~try[a].ok /\ try[a].fails + 1 >= MaxFailCount
                                 THEN [@ EXCEPT !.at = "disable"] ELSE Done(a)]
  /\ LET h == delivery[try[a].d].of
     IN /\ hook' = IF h \in There THEN [hook EXCEPT ![h] = Recorded(hook[h], try[a].ok)] ELSE hook
        /\ Note(h, IF try[a].ok THEN {"success"}
                   ELSE IF hook[h].active /\ ~hook'[h].active THEN {"off"} ELSE {})
  /\ UNCHANGED <<delivery, queued, creating, hookFaults, edits>>

DisableWebhook(a) ==
  /\ try[a].at = "disable"
  /\ try' = [try EXCEPT ![a] = Done(a)]
  /\ LET h == delivery[try[a].d].of
     IN /\ hook' = IF h \in There THEN [hook EXCEPT ![h].active = FALSE] ELSE hook
        /\ Note(h, {"off"})
  /\ UNCHANGED <<delivery, queued, creating, hookFaults, edits>>

(* A statement fails: the error is logged and the next one is executed.    *)
StatementFails(a) ==
  /\ try[a].at \in {"mark", "attempt", "status", "disable"}
  /\ hookFaults < MaxWebhookFaults
  /\ hookFaults' = hookFaults + 1
  /\ try' = [try EXCEPT ![a] =
               CASE @.at = "attempt" -> [@ EXCEPT !.at = "status"]
                 [] @.at = "status" /\ ~@.ok /\ @.fails + 1 >= MaxFailCount -> [@ EXCEPT !.at = "disable"]
                 [] OTHER -> Done(a)]
  /\ Note(delivery[try[a].d].of, {"lost"})
  /\ UNCHANGED <<hook, delivery, queued, creating, edits>>

AttemptStep(a) ==
  \/ ProcessPendingDelivery(a) \/ MarkDeliveryFailed(a) \/ DeliverWebhook(a)
  \/ UpdateDeliveryAttempt(a) \/ UpdateDeliveryStatus(a) \/ DisableWebhook(a)

WebhooksNext ==
  \/ \E c \in Creators : CountByCustomer(c) \/ CreateWebhook(c)
  \/ \E h \in Hooks : DeleteWebhook(h) \/ \E on \in BOOLEAN : UpdateWebhook(h, on)
  \/ \E d \in Deliveries : RetryComesDue(d) \/ \E h \in Hooks : QueueDelivery(d, h)
  \/ \E a \in Attempters : \/ HandleWebhookDeliver(a) \/ GetPendingDeliveries(a)
                           \/ AttemptStep(a) \/ StatementFails(a)

(* The processor is called periodically, an attempt that has begun goes    *)
(* on (every call has a timeout), and time passes.                         *)
WebhooksFairness ==
  /\ WF_hookVars(\E a \in Processors : GetPendingDeliveries(a))
  /\ \A a \in Attempters : WF_hookVars(AttemptStep(a))
  /\ WF_hookVars(\E d \in Deliveries : RetryComesDue(d))

WebhooksSpec == WebhooksInit /\ [][WebhooksNext]_hookVars /\ WebhooksFairness

-----------------------------------------------------------------------------
(* The types of the rows and of the locals; a delivery has its webhook.    *)
WebhooksTypeOK ==
  /\ hook \in [Hooks -> [row : {"none", "there", "gone"}, active : BOOLEAN, fails : Nat]]
  /\ delivery \in [Deliveries -> [status : {"none", "pending", "retrying", "delivered", "failed", "gone"},
                                  of : Hooks \cup {Nil}, count : Nat, due : {"null", "later", "now"}]]
  /\ queued \subseteq Deliveries
  /\ creating \in [Creators -> {"idle", "insert", "raced"}]
  /\ \A a \in Attempters : try[a].d \in Deliveries \cup {Nil} /\ (try[a].at = "idle" => try[a] = NoTry)
  /\ \A d \in Deliveries : /\ delivery[d].status = "none" <=> delivery[d].of = Nil
                           /\ delivery[d].status \notin {"none", "gone"} => delivery[d].of \in There

(* A delivery that is to be retried has a time for it, whichever attempts  *)
(* overlapped: the copy's count is never ahead of the row's.               *)
RetryHasTime == \A d \in Deliveries : delivery[d].status = "retrying" => delivery[d].due # "null"

(* A delivery is attempted at most MaxAttempts times, plus once for every  *)
(* further actor that had it in hand when the last one was used up.        *)
AttemptsAreBounded ==
  \A d \in Deliveries : delivery[d].count <= MaxAttempts + Cardinality(Attempters) - 1

(* A Create takes the customer past MaxWebhooks only when another Create   *)
(* inserted its row after this one had counted.                            *)
WebhookLimit ==
  [][\A c \in Creators : creating[c] = "insert" /\ creating'[c] = "idle"
       => Cardinality(There') <= MaxWebhooks]_hookVars

(* An attempt disables a webhook only when MaxFailCount failures in a row  *)
(* are on record, unless since that attempt read the webhook a success was *)
(* recorded or the recording of a failure failed: the second disabling     *)
(* trusts the copy.                                                        *)
DisabledForFailures ==
  [][\A a \in Attempters, h \in Hooks :
       /\ try'[a] # try[a] /\ try[a].d # Nil /\ delivery[try[a].d].of = h
       /\ hook[h].active /\ hook'[h].row = "there" /\ ~hook'[h].active
       => hook'[h].fails >= MaxFailCount \/ since[a] \cap {"success", "lost"} # {}]_hookVars

(* A delivery never switches a webhook on again that was inactive when the *)
(* attempt began; only the customer does, or an attempt that overlapped    *)
(* the switching off.                                                      *)
InactiveIsKept ==
  [][\A a \in Attempters, h \in Hooks :
       /\ try'[a] # try[a] /\ try[a].d # Nil /\ delivery[try[a].d].of = h
       /\ hook[h].row = "there" /\ ~hook[h].active /\ hook'[h].active
       => "off" \in since[a]]_hookVars

=============================================================================
