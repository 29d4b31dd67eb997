------------------------- MODULE AtomicLedgerProofs -------------------------
(***************************************************************************)
(* What every step of the credit ledger preserves, for the proofs of the   *)
(* ledger's implementation and of its callers.                             *)
(***************************************************************************)
EXTENDS AtomicLedger, TLAPS

(* A step that leaves the two tables alone keeps what is said of them.     *)
LEMMA LedgerUnchanged ==
  ASSUME UNCHANGED ledgerVars, BalanceMatchesLedger, IdempotencyKeyUnique
  PROVE  BalanceMatchesLedger' /\ IdempotencyKeyUnique'
BY DEF ledgerVars, BalanceMatchesLedger, IdempotencyKeyUnique, After

(* What a Post does to the table: one row more, which is the one asked     *)
(* for, and no other row altered.                                          *)
LEMMA PostAppends ==
  ASSUME LedgerTypeOK, NEW c \in Customers, NEW type \in TxTypes, NEW amount \in PosAmounts,
         NEW ref, NEW key, Post(c, type, amount, ref, key)
  PROVE  /\ KeyFree(c, key)
         /\ balance' = [balance EXCEPT ![c] = @ + Delta(type, amount)]
         /\ Len(ledger[c]) \in Nat
         /\ \A d \in Customers :
              /\ DOMAIN ledger[d] \subseteq Nat
              /\ DOMAIN ledger'[d] = DOMAIN ledger[d]
                                       \cup (IF d = c THEN {Len(ledger[c]) + 1} ELSE {})
              /\ \A n \in DOMAIN ledger[d] : ledger'[d][n] = ledger[d][n]
         /\ Len(ledger[c]) + 1 \notin DOMAIN ledger[c]
         /\ LET e == ledger'[c][Len(ledger[c]) + 1]
            IN  /\ e.type = type /\ e.amount = amount
                /\ e.ref = ref /\ e.key = key
<1> DEFINE e == [type |-> type, amount |-> amount, ref |-> ref, key |-> key,
                 after |-> balance[c] + Delta(type, amount)]
<1>1. KeyFree(c, key) /\ balance' = [balance EXCEPT ![c] = @ + Delta(type, amount)]
  BY DEF Post
<1>2. ledger' = [ledger EXCEPT ![c] = Append(@, e)]  BY DEF Post
<1>3. /\ ledger \in [Customers -> Seq(Entry)]
      /\ ledger[c] \in Seq(Entry)
  BY DEF LedgerTypeOK
<1>4. \A d \in Customers \ {c} : ledger'[d] = ledger[d]  BY <1>2, <1>3
<1>5. ledger'[c] = Append(ledger[c], e)  BY <1>2, <1>3
<1> HIDE DEF e
<1>6. /\ Len(ledger[c]) \in Nat /\ DOMAIN ledger[c] = 1..Len(ledger[c])
      /\ DOMAIN Append(ledger[c], e) = 1..(Len(ledger[c]) + 1)
      /\ \A n \in 1..Len(ledger[c]) : Append(ledger[c], e)[n] = ledger[c][n]
      /\ Append(ledger[c], e)[Len(ledger[c]) + 1] = e
  BY <1>3
<1>7. \A d \in Customers : DOMAIN ledger[d] \subseteq Nat  BY <1>3
<1>8. e.type = type /\ e.amount = amount /\ e.ref = ref /\ e.key = key  BY DEF e
<1> QED  BY <1>1, <1>4, <1>5, <1>6, <1>7, <1>8

(* A Post keeps the ledger well formed.                                    *)
LEMMA PostKeepsLedger ==
  ASSUME LedgerTypeOK, BalanceMatchesLedger, IdempotencyKeyUnique,
         NEW c \in Customers, NEW type \in TxTypes, NEW amount \in PosAmounts,
         NEW ref \in Refs \cup {NoRef}, NEW key \in Keys \cup {NoKey},
         Post(c, type, amount, ref, key)
  PROVE  LedgerTypeOK' /\ BalanceMatchesLedger' /\ IdempotencyKeyUnique'
<1>1. PICK e \in Entry :
        /\ e.type = type /\ e.amount = amount /\ e.key = key
        /\ e.after = balance[c] + Delta(type, amount)
        /\ balance' = [balance EXCEPT ![c] = e.after]
        /\ ledger' = [ledger EXCEPT ![c] = Append(@, e)]
  <2> DEFINE f == [type |-> type, amount |-> amount, ref |-> ref, key |-> key,
                   after |-> balance[c] + Delta(type, amount)]
  <2>1. f \in Entry
    BY AmountsAssumption DEF LedgerTypeOK, Delta, PosAmounts, Entry
  <2> QED  BY <2>1 DEF Post
<1>2. ledger[c] \in Seq(Entry)  BY DEF LedgerTypeOK
<1>3. PICK n \in Nat : n = Len(ledger[c])  BY <1>2
<1>4. /\ Len(ledger'[c]) = n + 1
      /\ DOMAIN ledger'[c] = 1..(n + 1)
      /\ DOMAIN ledger[c] = 1..n
      /\ ledger'[c][n + 1] = e
      /\ \A i \in 1..n : ledger'[c][i] = ledger[c][i]
  BY <1>1, <1>2, <1>3 DEF LedgerTypeOK
<1>5. \A d \in Customers \ {c} : ledger'[d] = ledger[d] /\ balance'[d] = balance[d]
  BY <1>1 DEF LedgerTypeOK
<1>6. LedgerTypeOK'
  <2>1. e.after \in Int  BY DEF Entry
  <2> QED  BY <1>1, <1>2, <2>1 DEF LedgerTypeOK
<1>7. BalanceMatchesLedger'
  <2> SUFFICES ASSUME NEW d \in Customers
               PROVE  /\ \A i \in DOMAIN ledger'[d] :
                           ledger'[d][i].after = After(d, i - 1)'
                             + Delta(ledger'[d][i].type, ledger'[d][i].amount)
                      /\ balance'[d] = After(d, Len(ledger[d]))'
    BY DEF BalanceMatchesLedger
  <2>1. CASE d # c
    BY <2>1, <1>5 DEF BalanceMatchesLedger, After
  <2>2. CASE d = c
    <3>1. balance[c] = After(c, n)  BY <1>3 DEF BalanceMatchesLedger
    <3>2. \A i \in 0..n : After(c, i)' = After(c, i)
      BY <1>4 DEF After
    <3>3. balance'[c] = After(c, n + 1)'
      BY <1>1, <1>4 DEF After, LedgerTypeOK
    <3>4. ASSUME NEW i \in 1..n
          PROVE  ledger'[c][i].after = After(c, i - 1)'
                   + Delta(ledger'[c][i].type, ledger'[c][i].amount)
      <4>1. After(c, i - 1)' = After(c, i - 1)  BY <3>2
      <4> QED  BY <1>4, <4>1 DEF BalanceMatchesLedger
    <3>5. ledger'[c][n + 1].after = After(c, (n + 1) - 1)'
            + Delta(ledger'[c][n + 1].type, ledger'[c][n + 1].amount)
      <4>1. After(c, (n + 1) - 1)' = balance[c]  BY <3>1, <3>2
      <4> QED  BY <1>1, <1>4, <4>1
    <3> QED  BY <2>2, <1>4, <3>3, <3>4, <3>5
  <2> QED  BY <2>1, <2>2
<1>8. IdempotencyKeyUnique'
  <2>1. key # NoKey => \A i \in 1..n : ledger[c][i].key # key
    BY <1>4 DEF Post, KeyFree
  <2>2. \A i, j \in 1..(n + 1) :
          ledger'[c][i].key = ledger'[c][j].key /\ ledger'[c][i].key # NoKey => i = j
    BY <2>1, <1>1, <1>4 DEF IdempotencyKeyUnique
  <2> QED  BY <2>2, <1>4, <1>5 DEF IdempotencyKeyUnique
<1> QED  BY <1>6, <1>7, <1>8

(* The atomic ledger keeps its promises.                                   *)
THEOREM AtomicLedgerCorrect ==
  LedgerSpec => [](LedgerTypeOK /\ BalanceMatchesLedger /\ IdempotencyKeyUnique)
<1> DEFINE Inv == LedgerTypeOK /\ BalanceMatchesLedger /\ IdempotencyKeyUnique
<1>1. LedgerInit => Inv
  <2> SUFFICES ASSUME LedgerInit PROVE Inv  OBVIOUS
  <2> USE DEF LedgerInit
  <2>1. ASSUME NEW c \in Customers
        PROVE  DOMAIN ledger[c] = {} /\ balance[c] = After(c, Len(ledger[c]))
    BY DEF After
  <2> QED  BY <2>1 DEF LedgerTypeOK, BalanceMatchesLedger, IdempotencyKeyUnique
<1>2. Inv /\ [LedgerNext]_ledgerVars => Inv'
  <2> SUFFICES ASSUME Inv, [LedgerNext]_ledgerVars PROVE Inv'  OBVIOUS
  <2>1. CASE LedgerNext  BY <2>1, PostKeepsLedger DEF LedgerNext
  <2>2. CASE UNCHANGED ledgerVars
    BY <2>2, LedgerUnchanged DEF ledgerVars, LedgerTypeOK
  <2> QED  BY <2>1, <2>2
<1> QED  BY <1>1, <1>2, PTL DEF LedgerSpec

=============================================================================
