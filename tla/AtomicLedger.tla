---------------------------- MODULE AtomicLedger ----------------------------
(***************************************************************************)
(* What the native-billing credit ledger promises its callers: a credit or *)
(* a debit changes the customer's balance and appends the ledger row that  *)
(* explains the change in one indivisible step, rows are never altered,    *)
(* and an idempotency key is used by at most one row of a customer.        *)
(*                                                                         *)
(* `BillingLedger' is the implementation, SQL statement by SQL statement;  *)
(* the modules of the ledger's callers are built on this one.              *)
(***************************************************************************)
EXTENDS Integers, Sequences

CONSTANTS Customers,  \* customers.id
          Amounts,    \* amounts a caller may ask for, in cents
          Refs,       \* (reference_type, reference_id) pairs
          NoRef,      \* both columns NULL
          Keys,       \* idempotency keys
          NoKey       \* idempotency_key NULL

ASSUME AmountsAssumption == Amounts \subseteq Int /\ Amounts # {}
ASSUME CustomersAssumption == Customers # {}
ASSUME NoKeyAssumption == NoKey \notin Keys

VARIABLES balance,    \* customers.balance
          ledger      \* committed billing_transactions of a customer, in commit order

ledgerVars == <<balance, ledger>>

TxTypes == {"credit", "debit"}

(* The amounts the ledger service lets through.                            *)
PosAmounts == {a \in Amounts : a > 0}

(* A row of billing_transactions; its id is its position in the ledger.    *)
Entry == [type: TxTypes, amount: PosAmounts, ref: Refs \cup {NoRef},
          key: Keys \cup {NoKey}, after: Int]

(* The signed change that lockAndUpdateBalance applies.                    *)
Delta(type, amount) == IF type = "credit" THEN amount ELSE -amount

(* The unique index on (customer_id, idempotency_key) admits key.          *)
KeyFree(c, key) ==
  key # NoKey => \A i \in DOMAIN ledger[c] : ledger[c][i].key # key

(* The balance after the i-th row; a customer's account opens at zero.     *)
After(c, i) == IF i = 0 THEN 0 ELSE ledger[c][i].after

-----------------------------------------------------------------------------

LedgerTypeOK ==
  /\ balance \in [Customers -> Int]
  /\ ledger \in [Customers -> Seq(Entry)]

LedgerInit ==
  /\ balance = [c \in Customers |-> 0]
  /\ ledger = [c \in Customers |-> <<>>]

Post(c, type, amount, ref, key) ==
  LET after == balance[c] + Delta(type, amount)
  IN  /\ KeyFree(c, key)
      /\ balance' = [balance EXCEPT ![c] = after]
      /\ ledger' = [ledger EXCEPT ![c] =
                      Append(@, [type |-> type, amount |-> amount, ref |-> ref,
                                 key |-> key, after |-> after])]

LedgerNext ==
  \E c \in Customers, type \in TxTypes, amount \in PosAmounts,
     ref \in Refs \cup {NoRef}, key \in Keys \cup {NoKey} :
       Post(c, type, amount, ref, key)

LedgerSpec == LedgerInit /\ [][LedgerNext]_ledgerVars

-----------------------------------------------------------------------------

(* The ledger explains the balance: each row's balance_after is the one    *)
(* before it plus or minus the row's amount, and customers.balance is the  *)
(* last one.  Two calls that read the balance and write it back must never *)
(* lose one of the two updates (lockAndUpdateBalance under FOR UPDATE).    *)
BalanceMatchesLedger ==
  \A c \in Customers :
    /\ \A i \in DOMAIN ledger[c] :
         ledger[c][i].after = After(c, i - 1)
                                + Delta(ledger[c][i].type, ledger[c][i].amount)
    /\ balance[c] = After(c, Len(ledger[c]))

(* A customer's idempotency key is spent at most once, although every call *)
(* looks it up before it holds any lock (the lookup and the insert of      *)
(* CreditAccount and DebitAccount, against the partial unique index).      *)
IdempotencyKeyUnique ==
  \A c \in Customers : \A i, j \in DOMAIN ledger[c] :
    ledger[c][i].key = ledger[c][j].key /\ ledger[c][i].key # NoKey => i = j

=============================================================================
