------------------------- MODULE BillingLedgerProofs ------------------------
(***************************************************************************)
(* The safety properties of BillingLedger, and that it implements          *)
(* AtomicLedger, for any number of customers, sessions, keys and amounts   *)
(* and any bound on the ledger.                                            *)
(***************************************************************************)
EXTENDS BillingLedger, AtomicLedgerProofs

(* The inductive invariant.  ReadsStayCurrent is the heart: it makes the   *)
(* commit of a transaction, several statements after its reads, equal to a *)
(* single atomic step.                                                     *)
IndInv ==
  /\ TypeOK
  /\ ReadsStayCurrent
  /\ BalanceMatchesLedger
  /\ IdempotencyKeyUnique
  /\ AckedIsPosted

(* There is a request to initialise req with.                              *)
LEMMA AnyRequestIsRequest == AnyRequest \in Request
<1>1. PICK c \in Customers : TRUE  BY Zenon, CustomersAssumption
<1>2. PICK a \in Amounts : TRUE  BY Zenon, AmountsAssumption
<1>3. [cust |-> c, type |-> "credit", amount |-> a, ref |-> NoRef, key |-> NoKey]
        \in Request
  BY Zenon, <1>1, <1>2 DEF Request, TxTypes
<1> QED  BY Zenon, <1>3 DEF AnyRequest

(* Every initial state satisfies the inductive invariant.                  *)
LEMMA InitInv == Init => IndInv
<1> SUFFICES ASSUME Init PROVE IndInv  BY Zenon
<1> USE DEF Init, LedgerInit
<1>1. TypeOK
  BY AnyRequestIsRequest DEF TypeOK, LedgerTypeOK, Steps, Response, Answer
<1>2. ReadsStayCurrent  BY Zenon DEF ReadsStayCurrent, StaysCurrent, HoldsLock
<1>3. BalanceMatchesLedger
  <2> SUFFICES ASSUME NEW c \in Customers
               PROVE  DOMAIN ledger[c] = {} /\ balance[c] = After(c, Len(ledger[c]))
    BY Zenon DEF BalanceMatchesLedger
  <2> QED  BY DEF After
<1>4. IdempotencyKeyUnique  BY DEF IdempotencyKeyUnique
<1>5. AckedIsPosted  BY Zenon DEF AckedIsPosted, Answer
<1> QED  BY Zenon, <1>1, <1>2, <1>3, <1>4, <1>5 DEF IndInv

(* A step of another session that writes neither the balance nor the       *)
(* ledger and takes no lock away leaves a transaction current.             *)
LEMMA OthersStayCurrent ==
  ASSUME ReadsStayCurrent, NEW t \in Sessions, UNCHANGED <<balance, ledger>>,
         req'[t] = req[t], pc'[t] = pc[t], local'[t] = local[t], resp'[t] = resp[t],
         rowLock[req[t].cust] = t => rowLock'[req[t].cust] = t
  PROVE  StaysCurrent(t)'
<1>1. StaysCurrent(t)  BY Zenon DEF ReadsStayCurrent
<1>2. KeyFree(req[t].cust, req[t].key) => KeyFree(req[t].cust, req[t].key)'
  BY Zenon DEF KeyFree
<1> QED  BY Zenon, <1>1, <1>2 DEF StaysCurrent

(* A call that ends without posting, with an error or with the row that an *)
(* earlier call posted for the same request.                               *)
LEMMA ReturnInv ==
  ASSUME IndInv, NEW s \in Sessions, NEW answer \in Response, Return(s, answer),
         UNCHANGED <<balance, ledger, req>>,
         answer.status = "ok" =>
           /\ answer.id \in DOMAIN ledger[req[s].cust]
           /\ Matches(ledger[req[s].cust][answer.id], req[s])
           /\ ledger[req[s].cust][answer.id].key = req[s].key
  PROVE  IndInv'
<1> USE DEF IndInv
<1>1. TypeOK'
  BY DEF TypeOK, LedgerTypeOK, Return, Steps
<1>2. ReadsStayCurrent'
  <2>1. StaysCurrent(s)'
    BY Zenon DEF StaysCurrent, TypeOK, Return, HoldsLock
  <2>2. ASSUME NEW t \in Sessions \ {s} PROVE StaysCurrent(t)'
    <3>1. rowLock[req[t].cust] = t => rowLock'[req[t].cust] = t
      BY Zenon, <2>2 DEF TypeOK, Return, Request
    <3> QED  BY Zenon, <2>2, <3>1, OthersStayCurrent DEF TypeOK, Return
  <2> QED  BY Zenon, <2>1, <2>2 DEF ReadsStayCurrent
<1>3. AckedIsPosted'
  BY Zenon DEF AckedIsPosted, Matches, TypeOK, Return
<1> QED  BY Zenon, <1>1, <1>2, <1>3, LedgerUnchanged DEF ledgerVars

(* Sessions that hold the row lock of the same customer are the same.      *)
LEMMA LockExcludes ==
  ASSUME ReadsStayCurrent, NEW s \in Sessions, NEW t \in Sessions,
         pc[s] \in HoldsLock, pc[t] \in HoldsLock, req[s].cust = req[t].cust
  PROVE  s = t
BY ZenonT(60) DEF ReadsStayCurrent, StaysCurrent

(* The commit of a transaction is one atomic Post of its request.          *)
LEMMA CommitPosts ==
  ASSUME IndInv, NEW s \in Sessions, Commit(s)
  PROVE  /\ req[s].amount \in PosAmounts
         /\ Post(req[s].cust, req[s].type, req[s].amount, req[s].ref, req[s].key)
<1> USE DEF IndInv
<1>1. req[s].amount \in PosAmounts
  BY Zenon DEF TypeOK, Request, PosAmounts, ReadsStayCurrent, StaysCurrent, Commit
<1>2. local[s] = balance[req[s].cust] + Delta(req[s].type, req[s].amount)
  BY Zenon DEF ReadsStayCurrent, StaysCurrent, Commit
<1>3. KeyFree(req[s].cust, req[s].key)  BY Zenon DEF ReadsStayCurrent, StaysCurrent, Commit
<1> QED  BY Zenon, <1>1, <1>2, <1>3 DEF Commit, Post

(* The next-state relation preserves the inductive invariant.              *)
LEMMA NextInv == IndInv /\ [Next]_vars => IndInv'
<1> SUFFICES ASSUME IndInv, [Next]_vars PROVE IndInv'  BY Zenon
<1> USE DEF IndInv
<1>1. ASSUME NEW s \in Sessions, NEW r \in Request, RejectAmount(s, r) PROVE IndInv'
  <2> USE <1>1 DEF RejectAmount, Answer
  <2>1. TypeOK'  BY Zenon DEF TypeOK, LedgerTypeOK, Response
  <2>2. ReadsStayCurrent'
    <3>1. StaysCurrent(s)'
      BY Zenon DEF StaysCurrent, TypeOK, HoldsLock
    <3>2. ASSUME NEW t \in Sessions \ {s} PROVE StaysCurrent(t)'
      BY Zenon, <3>2, OthersStayCurrent DEF TypeOK
    <3> QED  BY Zenon, <3>1, <3>2 DEF ReadsStayCurrent
  <2>3. AckedIsPosted'  BY Zenon DEF AckedIsPosted, TypeOK
  <2> QED  BY Zenon, <2>1, <2>2, <2>3, LedgerUnchanged DEF ledgerVars
<1>2. ASSUME NEW s \in Sessions, NEW r \in Request, Begin(s, r) PROVE IndInv'
  <2> USE <1>2 DEF Begin, Answer
  <2>1. TypeOK'  BY Zenon DEF TypeOK, LedgerTypeOK, Response, Steps
  <2>2. ReadsStayCurrent'
    <3>1. StaysCurrent(s)'
      BY Zenon DEF StaysCurrent, ReadsStayCurrent, TypeOK, HoldsLock
    <3>2. ASSUME NEW t \in Sessions \ {s} PROVE StaysCurrent(t)'
      BY Zenon, <3>2, OthersStayCurrent DEF TypeOK
    <3> QED  BY Zenon, <3>1, <3>2 DEF ReadsStayCurrent
  <2>3. AckedIsPosted'  BY Zenon DEF AckedIsPosted, TypeOK
  <2> QED  BY Zenon, <2>1, <2>2, <2>3, LedgerUnchanged DEF ledgerVars
<1>3. ASSUME NEW s \in Sessions, LookupKey(s) PROVE IndInv'
  <2>1. CASE pc' = [pc EXCEPT ![s] = "lock"] /\ UNCHANGED <<local, resp, rowLock>>
    <3> USE <1>3, <2>1 DEF LookupKey
    <3>1. TypeOK'  BY Zenon DEF TypeOK, LedgerTypeOK, Steps
    <3>2. ReadsStayCurrent'
      <4>1. StaysCurrent(s)'
        BY Zenon DEF StaysCurrent, ReadsStayCurrent, KeyFree, TypeOK, HoldsLock
      <4>2. ASSUME NEW t \in Sessions \ {s} PROVE StaysCurrent(t)'
        BY Zenon, <4>2, OthersStayCurrent DEF TypeOK
      <4> QED  BY Zenon, <4>1, <4>2 DEF ReadsStayCurrent
    <3>3. AckedIsPosted'  BY Zenon DEF AckedIsPosted, TypeOK
    <3> QED  BY Zenon, <3>1, <3>2, <3>3, LedgerUnchanged DEF ledgerVars
  <2>2. ASSUME NEW i \in DOMAIN ledger[req[s].cust],
               ledger[req[s].cust][i].key = req[s].key,
               Return(s, IF Matches(ledger[req[s].cust][i], req[s])
                           THEN [status |-> "ok", id |-> i]
                           ELSE Answer("conflict"))
        PROVE  IndInv'
    <3>1. i \in Nat  BY <2>2 DEF TypeOK, LedgerTypeOK, Request
    <3> QED  BY Zenon, <1>3, <2>2, <3>1, ReturnInv DEF LookupKey, Answer, Response
  <2> QED  BY Zenon, <1>3, <2>1, <2>2 DEF LookupKey
<1>4. ASSUME NEW s \in Sessions, LockBalance(s) PROVE IndInv'
  <2> USE <1>4 DEF LockBalance
  <2>1. TypeOK'  BY Zenon DEF TypeOK, LedgerTypeOK, Steps, Request
  <2>2. ReadsStayCurrent'
    <3>1. StaysCurrent(s)'
      BY Zenon DEF StaysCurrent, ReadsStayCurrent, TypeOK, HoldsLock, Request
    <3>2. ASSUME NEW t \in Sessions \ {s} PROVE StaysCurrent(t)'
      <4>1. rowLock[req[t].cust] = t => rowLock'[req[t].cust] = t
        BY Zenon, <3>2, NoSessionAssumption DEF TypeOK, Request
      <4> QED  BY Zenon, <3>2, <4>1, OthersStayCurrent DEF TypeOK
    <3> QED  BY Zenon, <3>1, <3>2 DEF ReadsStayCurrent
  <2>3. AckedIsPosted'  BY Zenon DEF AckedIsPosted, TypeOK
  <2> QED  BY Zenon, <2>1, <2>2, <2>3, LedgerUnchanged DEF ledgerVars
<1>5. ASSUME NEW s \in Sessions, UpdateBalance(s) PROVE IndInv'
  <2> USE <1>5 DEF UpdateBalance
  <2>1. TypeOK'
    <3>1. req[s].amount \in Int  BY Zenon, AmountsAssumption DEF TypeOK, Request
    <3>2. local[s] + Delta(req[s].type, req[s].amount) \in Int
      BY <3>1 DEF TypeOK, Delta
    <3> QED  BY Zenon, <3>2 DEF TypeOK, LedgerTypeOK, Steps
  <2>2. ReadsStayCurrent'
    <3>1. StaysCurrent(s)'
      BY Zenon DEF StaysCurrent, ReadsStayCurrent, TypeOK, HoldsLock
    <3>2. ASSUME NEW t \in Sessions \ {s} PROVE StaysCurrent(t)'
      BY Zenon, <3>2, OthersStayCurrent DEF TypeOK
    <3> QED  BY Zenon, <3>1, <3>2 DEF ReadsStayCurrent
  <2>3. AckedIsPosted'  BY Zenon DEF AckedIsPosted, TypeOK
  <2> QED  BY Zenon, <2>1, <2>2, <2>3, LedgerUnchanged DEF ledgerVars
<1>6. ASSUME NEW s \in Sessions, InsertTransaction(s) PROVE IndInv'
  <2>1. CASE KeyFree(req[s].cust, req[s].key)
    <3> USE <1>6, <2>1 DEF InsertTransaction
    <3>1. TypeOK'  BY Zenon DEF TypeOK, LedgerTypeOK, Steps
    <3>2. ReadsStayCurrent'
      <4>1. StaysCurrent(s)'
        BY Zenon DEF StaysCurrent, ReadsStayCurrent, KeyFree, TypeOK, HoldsLock
      <4>2. ASSUME NEW t \in Sessions \ {s} PROVE StaysCurrent(t)'
        BY Zenon, <4>2, OthersStayCurrent DEF TypeOK
      <4> QED  BY Zenon, <4>1, <4>2 DEF ReadsStayCurrent
    <3>3. AckedIsPosted'  BY Zenon DEF AckedIsPosted, TypeOK
    <3> QED  BY Zenon, <3>1, <3>2, <3>3, LedgerUnchanged DEF ledgerVars
  <2>2. CASE ~KeyFree(req[s].cust, req[s].key)
    BY Zenon, <1>6, <2>2, ReturnInv DEF InsertTransaction, Answer, Response
  <2> QED  BY Zenon, <2>1, <2>2
<1>7. ASSUME NEW s \in Sessions, Commit(s) PROVE IndInv'
  <2> DEFINE c == req[s].cust
  <2>1. req[s] \in Request  BY Zenon DEF TypeOK
  <2>2. LedgerTypeOK' /\ BalanceMatchesLedger' /\ IdempotencyKeyUnique'
    BY Zenon, <1>7, <2>1, CommitPosts, PostKeepsLedger DEF TypeOK, Request
  <2>3. PICK e : /\ ledger' = [ledger EXCEPT ![c] = Append(@, e)]
                 /\ Matches(e, req[s]) /\ e.key = req[s].key
    <3> DEFINE row == [type |-> req[s].type, amount |-> req[s].amount,
                       ref |-> req[s].ref, key |-> req[s].key, after |-> local[s]]
    <3>1. Matches(row, req[s]) /\ row.key = req[s].key  BY Zenon DEF Matches
    <3>2. ledger' = [ledger EXCEPT ![c] = Append(@, row)]  BY Zenon, <1>7 DEF Commit
    <3> QED  BY Zenon, <3>1, <3>2
  <2>4. PICK answer \in Response :
          /\ Return(s, answer)
          /\ answer.status = "ok" => answer.id = Len(ledger[c]) + 1
    <3>1. c \in Customers /\ Len(ledger[c]) \in Nat
      BY <2>1 DEF TypeOK, LedgerTypeOK, Request
    <3> QED  BY SMTT(30), <1>7, <3>1 DEF Commit, Response, Answer
  <2>5. TypeOK'
    BY <1>7, <2>2, <2>4 DEF TypeOK, Commit, Return, Steps
  <2>6. ReadsStayCurrent'
    <3>1. ASSUME NEW t \in Sessions \ {s}, pc[t] \in HoldsLock
          PROVE  /\ balance'[req[t].cust] = balance[req[t].cust]
                 /\ ledger'[req[t].cust] = ledger[req[t].cust]
      <4>1. req[t].cust # c
        BY Zenon, <1>7, <3>1, LockExcludes DEF Commit, HoldsLock
      <4> QED  BY Zenon, <1>7, <4>1 DEF Commit, TypeOK, LedgerTypeOK, Request
    <3>2. /\ pc' = [pc EXCEPT ![s] = "idle"] /\ req' = req
          /\ \A t \in Sessions \ {s} :
               local'[t] = local[t] /\ resp'[t] = resp[t] /\ pc'[t] = pc[t]
      BY Zenon, <1>7, <2>4 DEF Commit, Return, TypeOK
    <3>3. \A t \in Sessions \ {s} :
            rowLock[req[t].cust] = t => rowLock'[req[t].cust] = t
      BY Zenon, <2>4 DEF Return, TypeOK, Request
    <3> SUFFICES ASSUME NEW t \in Sessions \ {s}
                 PROVE  LET d == req[t].cust
                        IN  /\ pc[t] # "idle" => req[t].amount > 0
                                                 /\ resp[t].status = "none"
                            /\ pc[t] \in HoldsLock => rowLock'[d] = t
                            /\ pc[t] = "update" => local[t] = balance'[d]
                            /\ pc[t] \in {"insert", "commit"} =>
                                 local[t] = balance'[d]
                                   + Delta(req[t].type, req[t].amount)
                            /\ pc[t] = "commit" => KeyFree(d, req[t].key)'
      BY <3>2 DEF ReadsStayCurrent, StaysCurrent, KeyFree, HoldsLock, TypeOK
    <3> QED  BY SMTT(30), <3>1, <3>2, <3>3 DEF ReadsStayCurrent, StaysCurrent, KeyFree, HoldsLock
  <2>7. AckedIsPosted'
    <3>1. /\ ledger \in [Customers -> Seq(Entry)] /\ c \in Customers
          /\ e \in Entry /\ req' = req
      BY <1>7, <2>1, <2>2, <2>3 DEF TypeOK, LedgerTypeOK, Request, Commit
    <3>2. /\ Len(ledger[c]) + 1 \in DOMAIN ledger'[c]
          /\ ledger'[c][Len(ledger[c]) + 1] = e
      BY <2>3, <3>1
    <3>3. ASSUME NEW d \in Customers, NEW i \in DOMAIN ledger[d]
          PROVE  i \in DOMAIN ledger'[d] /\ ledger'[d][i] = ledger[d][i]
      BY <2>3, <3>1
    <3>4. \A t \in Sessions : resp'[t] = IF t = s THEN answer ELSE resp[t]
      BY Zenon, <2>4 DEF Return, TypeOK
    <3>5. \A t \in Sessions : req[t].cust \in Customers  BY Zenon DEF TypeOK, Request
    <3> SUFFICES ASSUME NEW t \in Sessions, resp'[t].status = "ok"
                 PROVE  /\ resp'[t].id \in DOMAIN ledger'[req[t].cust]
                        /\ LET f == ledger'[req[t].cust][resp'[t].id]
                           IN  Matches(f, req[t]) /\ f.key = req[t].key
      BY Zenon, <3>1 DEF AckedIsPosted, Matches
    <3>6. CASE t = s  BY Zenon, <2>3, <2>4, <3>2, <3>4, <3>6
    <3>7. CASE t # s  BY SMTT(30), <3>3, <3>4, <3>5, <3>7 DEF AckedIsPosted
    <3> QED  BY Zenon, <3>6, <3>7
  <2> QED  BY Zenon, <2>2, <2>5, <2>6, <2>7
<1>8. ASSUME NEW s \in Sessions, Abort(s) PROVE IndInv'
  BY Zenon, <1>8, ReturnInv DEF Abort, Answer, Response
<1>9. CASE UNCHANGED vars
  <2> USE <1>9 DEF vars
  <2>1. TypeOK'  BY Zenon DEF TypeOK, LedgerTypeOK
  <2>2. ReadsStayCurrent'  BY Zenon DEF ReadsStayCurrent, StaysCurrent, KeyFree
  <2>3. AckedIsPosted'  BY Zenon DEF AckedIsPosted
  <2> QED  BY Zenon, <2>1, <2>2, <2>3, LedgerUnchanged DEF ledgerVars
<1> QED
  BY Zenon, <1>1, <1>2, <1>3, <1>4, <1>5, <1>6, <1>7, <1>8, <1>9 DEF Next, Statement

-----------------------------------------------------------------------------

(* The inductive invariant always holds.                                   *)
LEMMA Invariance == Spec => []IndInv
BY InitInv, NextInv, PTL DEF Spec

(* The variables of every run of the ledger keep their types; above all,   *)
(* no row with a non-positive amount is ever stored.                       *)
THEOREM TypeCorrect == Spec => []TypeOK
BY Invariance, PTL DEF IndInv

(* No lost update: the ledger always explains the balance.                 *)
THEOREM NoLostUpdate == Spec => []BalanceMatchesLedger
BY Invariance, PTL DEF IndInv

(* No double posting under one idempotency key.                            *)
THEOREM PostedOnce == Spec => []IdempotencyKeyUnique
BY Invariance, PTL DEF IndInv

(* A call that was answered with a row has been posted.                    *)
THEOREM AnswersAreDurable == Spec => []AckedIsPosted
BY Invariance, PTL DEF IndInv

(* An open transaction's reads stay current under its row lock.            *)
THEOREM RowLockSuffices == Spec => []ReadsStayCurrent
BY Invariance, PTL DEF IndInv

(* The SQL statements of CreditAccount and DebitAccount implement atomic   *)
(* postings: a commit is a Post, every other statement a stutter.          *)
THEOREM Refinement == Spec => ImplementsAtomicLedger
<1>1. Init => LedgerInit  BY Zenon DEF Init
<1>2. IndInv /\ [Next]_vars => [LedgerNext]_ledgerVars
  <2> SUFFICES ASSUME IndInv, [Next]_vars, ~UNCHANGED ledgerVars PROVE LedgerNext
    BY Zenon
  <2>1. PICK s \in Sessions : Commit(s)
    BY Zenon DEF Next, Statement, RejectAmount, Begin, LookupKey, LockBalance,
           UpdateBalance, InsertTransaction, Abort, vars, ledgerVars
  <2>2. req[s] \in Request  BY Zenon DEF IndInv, TypeOK
  <2> QED  BY Zenon, <2>1, <2>2, CommitPosts DEF LedgerNext, Request
<1> QED  BY <1>1, <1>2, Invariance, PTL DEF Spec, LedgerSpec, ImplementsAtomicLedger

=============================================================================
