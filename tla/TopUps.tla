------------------------------- MODULE TopUps -------------------------------
(***************************************************************************)
(* What topping up promises: a payment that the customer made at a gateway *)
(* is credited once, with its own amount and to its own customer, and only *)
(* a credited payment is taken back.  `Payments' is the implementation.    *)
(***************************************************************************)
EXTENDS Integers, Sequences

CONSTANTS TopUpIds,   \* billing_payments.id
          Holders,    \* the customers
          Sums        \* amounts that can be paid

VARIABLES order,      \* what a payment is for: its customer and its amount
          paid,       \* payments that a gateway took money for
          credited,   \* payments that are on the customers' accounts
          account     \* the customers' balances

topUpVars == <<order, paid, credited, account>>

TopUpInit ==
  /\ order = [p \in TopUpIds |-> <<>>]
  /\ paid = {}
  /\ credited = {}
  /\ account = [c \in Holders |-> 0]

(* The customer asks for a checkout.                                       *)
Order(p) ==
  /\ order[p] = <<>>
  /\ \E c \in Holders, a \in Sums : order' = [order EXCEPT ![p] = <<c, a>>]
  /\ UNCHANGED <<paid, credited, account>>

(* The gateway takes the money.                                            *)
Take(p) ==
  /\ order[p] # <<>>
  /\ p \notin paid
  /\ paid' = paid \cup {p}
  /\ UNCHANGED <<order, credited, account>>

Credit(p) ==
  /\ p \in paid \ credited
  /\ credited' = credited \cup {p}
  /\ account' = [account EXCEPT ![order[p][1]] = @ + order[p][2]]
  /\ UNCHANGED <<order, paid>>

TakeBack(p) ==
  /\ p \in credited
  /\ \E a \in Sums :
       a <= order[p][2] /\ account' = [account EXCEPT ![order[p][1]] = @ - a]
  /\ UNCHANGED <<order, paid, credited>>

TopUpNext ==
  \E p \in TopUpIds : Order(p) \/ Take(p) \/ Credit(p) \/ TakeBack(p)

TopUpSpec == TopUpInit /\ [][TopUpNext]_topUpVars

=============================================================================
