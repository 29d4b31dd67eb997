---------------------------- MODULE BillingLedger ---------------------------
(***************************************************************************)
(* CreditAccount and DebitAccount of the billing ledger, one action per    *)
(* SQL statement, run by concurrent database sessions at PostgreSQL's      *)
(* READ COMMITTED level.  A statement sees what is committed when it runs; *)
(* SELECT ... FOR UPDATE waits for the customer's row lock, which is held  *)
(* to the end of the transaction.  Any statement may fail, the caller's    *)
(* context may be cancelled and the process may die: all of these roll the *)
(* transaction back.  The answer to COMMIT may be lost after it took       *)
(* effect, which is why callers retry with the same idempotency key.       *)
(***************************************************************************)
EXTENDS AtomicLedger

CONSTANTS Sessions,   \* pooled connections, each running one call at a time
          NoSession,  \* a row lock nobody holds
          MaxEntries  \* bound: no call begins on a ledger of this length

ASSUME NoSessionAssumption == NoSession \notin Sessions

VARIABLES pc,         \* next statement of the session's call
          req,        \* arguments of the session's current or last call
          local,      \* currentBalance, then newBalance, of the call
          resp,       \* what the session's last call returned
          rowLock     \* holder of the FOR UPDATE lock on a customers row

sessionVars == <<pc, req, local, resp, rowLock>>
vars == <<balance, ledger, pc, req, local, resp, rowLock>>

(* CreditAccount passes no reference; DebitAccount passes its caller's.    *)
Request == {r \in [cust: Customers, type: TxTypes, amount: Amounts,
                   ref: Refs \cup {NoRef}, key: Keys \cup {NoKey}] :
              r.type = "credit" => r.ref = NoRef}

AnyRequest == CHOOSE r \in Request : TRUE

Steps == {"idle", "lookup", "lock", "update", "insert", "commit"}
HoldsLock == {"update", "insert", "commit"}

(* "error" is every failure that tells the caller nothing about the key.   *)
Response == [status: {"none", "ok", "invalid", "conflict", "error"}, id: Nat]
Answer(status) == [status |-> status, id |-> 0]

(* billingTxMatches.                                                       *)
Matches(e, r) == e.type = r.type /\ e.amount = r.amount /\ e.ref = r.ref

(* Mutant: a call that fails forgets to roll its transaction back.         *)
ReturnWithoutRollback(s, answer) ==
  /\ pc' = [pc EXCEPT ![s] = "idle"]
  /\ resp' = [resp EXCEPT ![s] = answer]
  /\ local' = [local EXCEPT ![s] = 0]
  /\ rowLock' = [c \in Customers |->
                   IF rowLock[c] = s /\ answer.status = "ok" THEN NoSession
                                                            ELSE rowLock[c]]

(* The end of a call: `defer tx.Rollback' ends a transaction that has not  *)
(* committed, which drops its row lock.                                    *)
Return(s, answer) ==
  /\ pc' = [pc EXCEPT ![s] = "idle"]
  /\ resp' = [resp EXCEPT ![s] = answer]
  /\ local' = [local EXCEPT ![s] = 0]
  /\ rowLock' = [c \in Customers |->
                   IF rowLock[c] = s THEN NoSession ELSE rowLock[c]]

-----------------------------------------------------------------------------

Init ==
  /\ LedgerInit
  /\ pc = [s \in Sessions |-> "idle"]
  /\ req = [s \in Sessions |-> AnyRequest]   \* of no consequence before Begin
  /\ local = [s \in Sessions |-> 0]
  /\ resp = [s \in Sessions |-> Answer("none")]
  /\ rowLock = [c \in Customers |-> NoSession]

(* Mutant: the amount check is gone.                                       *)
BeginUnchecked(s, r) ==
  /\ pc[s] = "idle"
  /\ Len(ledger[r.cust]) < MaxEntries
  /\ req' = [req EXCEPT ![s] = r]
  /\ pc' = [pc EXCEPT ![s] = IF r.key = NoKey THEN "lock" ELSE "lookup"]
  /\ resp' = [resp EXCEPT ![s] = Answer("none")]
  /\ UNCHANGED <<balance, ledger, local, rowLock>>

(* The service refuses a non-positive amount before it opens a transaction.*)
RejectAmount(s, r) ==
  /\ pc[s] = "idle"
  /\ r.amount <= 0
  /\ resp' = [resp EXCEPT ![s] = Answer("invalid")]
  /\ UNCHANGED <<balance, ledger, pc, req, local, rowLock>>

Begin(s, r) ==
  /\ pc[s] = "idle"
  /\ r.amount > 0
  /\ Len(ledger[r.cust]) < MaxEntries
  /\ req' = [req EXCEPT ![s] = r]
  /\ pc' = [pc EXCEPT ![s] = IF r.key = NoKey THEN "lock" ELSE "lookup"]
  /\ resp' = [resp EXCEPT ![s] = Answer("none")]
  /\ UNCHANGED <<balance, ledger, local, rowLock>>

(* Mutant: a row with the same key answers any request.                    *)
LookupKeyUnmatched(s) ==
  LET c == req[s].cust
  IN  /\ pc[s] = "lookup"
      /\ \/ /\ KeyFree(c, req[s].key)
            /\ pc' = [pc EXCEPT ![s] = "lock"]
            /\ UNCHANGED <<local, resp, rowLock>>
         \/ \E i \in DOMAIN ledger[c] :
              /\ ledger[c][i].key = req[s].key
              /\ Return(s, [status |-> "ok", id |-> i])
      /\ UNCHANGED <<balance, ledger, req>>

(* findMatchingIdempotencyKey: the key is new, or names a row that answers *)
(* the call, or names a row of some other request.                         *)
LookupKey(s) ==
  LET c == req[s].cust
  IN  /\ pc[s] = "lookup"
      /\ \/ /\ KeyFree(c, req[s].key)
            /\ pc' = [pc EXCEPT ![s] = "lock"]
            /\ UNCHANGED <<local, resp, rowLock>>
         \/ \E i \in DOMAIN ledger[c] :
              /\ ledger[c][i].key = req[s].key
              /\ Return(s, IF Matches(ledger[c][i], req[s])
                             THEN [status |-> "ok", id |-> i]
                             ELSE Answer("conflict"))
      /\ UNCHANGED <<balance, ledger, req>>

(* Mutant: SELECT without FOR UPDATE.                                      *)
ReadBalanceUnlocked(s) ==
  /\ pc[s] = "lock"
  /\ local' = [local EXCEPT ![s] = balance[req[s].cust]]
  /\ pc' = [pc EXCEPT ![s] = "update"]
  /\ UNCHANGED <<balance, ledger, req, resp, rowLock>>

(* SELECT balance ... FOR UPDATE.                                          *)
LockBalance(s) ==
  LET c == req[s].cust
  IN  /\ pc[s] = "lock"
      /\ rowLock[c] = NoSession
      /\ rowLock' = [rowLock EXCEPT ![c] = s]
      /\ local' = [local EXCEPT ![s] = balance[c]]
      /\ pc' = [pc EXCEPT ![s] = "update"]
      /\ UNCHANGED <<balance, ledger, req, resp>>

(* Mutant: the sign of a debit is lost.                                    *)
UpdateBalanceUnsigned(s) ==
  /\ pc[s] = "update"
  /\ local' = [local EXCEPT ![s] = @ + req[s].amount]
  /\ pc' = [pc EXCEPT ![s] = "insert"]
  /\ UNCHANGED <<balance, ledger, req, resp, rowLock>>

(* UPDATE customers SET balance; not visible to others before the commit.  *)
UpdateBalance(s) ==
  /\ pc[s] = "update"
  /\ local' = [local EXCEPT ![s] = @ + Delta(req[s].type, req[s].amount)]
  /\ pc' = [pc EXCEPT ![s] = "insert"]
  /\ UNCHANGED <<balance, ledger, req, resp, rowLock>>

(* Mutant: no unique index on (customer_id, idempotency_key).              *)
InsertUnindexed(s) ==
  /\ pc[s] = "insert"
  /\ pc' = [pc EXCEPT ![s] = "commit"]
  /\ UNCHANGED <<balance, ledger, req, local, resp, rowLock>>

(* INSERT INTO billing_transactions: the unique index raises an error when *)
(* another call committed the same key since this call looked it up.       *)
InsertTransaction(s) ==
  /\ pc[s] = "insert"
  /\ \/ /\ KeyFree(req[s].cust, req[s].key)
        /\ pc' = [pc EXCEPT ![s] = "commit"]
        /\ UNCHANGED <<local, resp, rowLock>>
     \/ /\ ~KeyFree(req[s].cust, req[s].key)
        /\ Return(s, Answer("error"))
  /\ UNCHANGED <<balance, ledger, req>>

Commit(s) ==
  LET c == req[s].cust
  IN  /\ pc[s] = "commit"
      /\ balance' = [balance EXCEPT ![c] = local[s]]
      /\ ledger' = [ledger EXCEPT ![c] =
                      Append(@, [type |-> req[s].type, amount |-> req[s].amount,
                                 ref |-> req[s].ref, key |-> req[s].key,
                                 after |-> local[s]])]
      /\ \/ Return(s, [status |-> "ok", id |-> Len(ledger[c]) + 1])
         \/ Return(s, Answer("error"))    \* committed, but the answer is lost
      /\ UNCHANGED req

(* A failed statement, a cancelled context or a crash before the commit.   *)
Abort(s) ==
  /\ pc[s] # "idle"
  /\ Return(s, Answer("error"))
  /\ UNCHANGED <<balance, ledger, req>>

Statement(s) == \/ LookupKey(s) \/ LockBalance(s) \/ UpdateBalance(s)
                \/ InsertTransaction(s) \/ Commit(s)

Next == \E s \in Sessions :
          \/ \E r \in Request : RejectAmount(s, r) \/ Begin(s, r)
          \/ Statement(s)
          \/ Abort(s)

(* The database executes the next statement of an open transaction; a row  *)
(* lock is granted in queue order, so a waiter is not overtaken for ever.  *)
Fairness == \A s \in Sessions : WF_vars(Statement(s)) /\ SF_vars(LockBalance(s))

Spec == Init /\ [][Next]_vars
FairSpec == Spec /\ Fairness

-----------------------------------------------------------------------------

TypeOK ==
  /\ LedgerTypeOK
  /\ pc \in [Sessions -> Steps]
  /\ req \in [Sessions -> Request]
  /\ local \in [Sessions -> Int]
  /\ resp \in [Sessions -> Response]
  /\ rowLock \in [Customers -> Sessions \cup {NoSession}]

(* A call that returned a row without an error has really been posted: the *)
(* row is committed, and it is the row of this very request, whether this  *)
(* call wrote it or an earlier one with the same key did.                  *)
AckedIsPosted ==
  \A s \in Sessions : resp[s].status = "ok" =>
    /\ resp[s].id \in DOMAIN ledger[req[s].cust]
    /\ LET e == ledger[req[s].cust][resp[s].id]
       IN  Matches(e, req[s]) /\ e.key = req[s].key

(* What the open transaction of one session relies on.                     *)
StaysCurrent(s) ==
  LET c == req[s].cust
  IN  /\ pc[s] # "idle" => req[s].amount > 0 /\ resp[s].status = "none"
      /\ pc[s] \in HoldsLock => rowLock[c] = s
      /\ pc[s] = "update" => local[s] = balance[c]
      /\ pc[s] \in {"insert", "commit"} =>
           local[s] = balance[c] + Delta(req[s].type, req[s].amount)
      /\ pc[s] = "commit" => KeyFree(c, req[s].key)

(* What an open transaction has read under its row lock stays true until   *)
(* it ends: it holds the lock of its customer, the balance it computed     *)
(* with is the committed one, and a key it has inserted is still unspent.  *)
ReadsStayCurrent == \A s \in Sessions : StaysCurrent(s)

(* Whatever the other sessions do and however many of them fail, a call    *)
(* that has begun returns: no transaction leaves a row lock behind that a  *)
(* later call waits on for ever.                                           *)
CallsReturn == \A s \in Sessions : []<>(pc[s] = "idle")

(* The calls take effect one at a time, in the order of their commits: the *)
(* statements above implement the ledger whose only step is an atomic Post.*)
ImplementsAtomicLedger == LedgerSpec

=============================================================================
