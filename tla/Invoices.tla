------------------------------ MODULE Invoices ------------------------------
(***************************************************************************)
(* Monthly invoices, on the credit ledger.  Every controller has a timer   *)
(* for five past midnight on the first of the month; its job goes through  *)
(* the native-billing customers, adds up the debits of the month before    *)
(* and creates an invoice under the next number.  No lock keeps two        *)
(* controllers from doing so together.  Debits go on meanwhile: a row's    *)
(* created_at is the start of its transaction, which may commit later.     *)
(*                                                                         *)
(* MarkAsPaid is not modelled: nothing calls it.                           *)
(***************************************************************************)
EXTENDS AtomicLedger, FiniteSetsExt, SequencesExt

CONSTANTS Controllers,
          Admins,      \* administrators' requests being served at a time
          NoOne,       \* nobody holds the lock; no transaction; no invoice
          MaxMonth,    \* bound: the last month
          MaxDebits,   \* bound: debits of all customers
          MaxFaults    \* bound: statements that fail and controllers that die

InvoiceBoundsAssumption ==
  /\ MaxMonth \in Nat \ {0} /\ MaxDebits \in Nat /\ MaxFaults \in Nat
InvoiceKeysAssumption == NoOne \notin Controllers \cup Customers

VARIABLES month,       \* the current month
          five,        \* five minutes of it have passed
          posted,      \* the months of created_at of a customer's ledger rows
          debit,       \* a debit under way
          counter,     \* billing_invoice_counters.last_number
          counterLock, \* the controller whose transaction updated it
          invoices,    \* billing_invoices
          timer,       \* the month in which a controller's timer fires, 0 for none
          job,         \* the locals of GenerateAllMonthlyInvoices
          voiding,     \* the invoice that an administrator's request has read
          faults

clock == <<month, five>>
invoiceVars == <<counter, counterLock, invoices>>
vars == <<balance, ledger, clock, posted, debit, invoiceVars, timer, job, voiding, faults>>

Idle == [pc |-> "idle", period |-> 0, todo |-> <<>>, items |-> <<>>, number |-> 0]

Init ==
  /\ LedgerInit
  /\ month = 1 /\ five = TRUE
  /\ posted = [c \in Customers |-> <<>>]
  /\ debit = NoOne
  /\ counter = 0 /\ counterLock = NoOne /\ invoices = {}
  /\ timer = [k \in Controllers |-> 2]
  /\ job = [k \in Controllers |-> Idle]
  /\ voiding = [a \in Admins |-> NoOne]
  /\ faults = 0

-----------------------------------------------------------------------------
(* Debits: hourly charges refer to a VM, adjustments by an administrator   *)
(* and refunds do not.                                                     *)

BeginDebit(c, amount, ref) ==
  /\ debit = NoOne
  /\ MapThenSumSet(LAMBDA d : Len(ledger[d]), Customers) < MaxDebits
  /\ debit' = [customer |-> c, amount |-> amount, ref |-> ref, month |-> month]
  /\ UNCHANGED <<ledgerVars, clock, posted, invoiceVars, timer, job, voiding, faults>>

CommitDebit ==
  /\ debit # NoOne
  /\ Post(debit.customer, "debit", debit.amount, debit.ref, NoKey)
  /\ posted' = [posted EXCEPT ![debit.customer] = Append(@, debit.month)]
  /\ debit' = NoOne
  /\ UNCHANGED <<clock, invoiceVars, timer, job, voiding, faults>>

-----------------------------------------------------------------------------
(* Time.  No transaction of the ledger stays open for five minutes, and no *)
(* job takes a month.                                                      *)

Due(k) == timer[k] = month /\ five

FiveMinutesPass ==
  /\ ~five
  /\ debit # NoOne => debit.month = month
  /\ five' = TRUE
  /\ UNCHANGED <<ledgerVars, month, posted, debit, invoiceVars, timer, job, voiding, faults>>

MonthEnds ==
  /\ month < MaxMonth /\ five
  /\ \A k \in Controllers : ~Due(k) /\ job[k] = Idle
  /\ month' = month + 1 /\ five' = FALSE
  /\ UNCHANGED <<ledgerVars, posted, debit, invoiceVars, timer, job, voiding, faults>>

-----------------------------------------------------------------------------
(* startMonthlyInvoiceScheduler and GenerateAllMonthlyInvoices.            *)

(* Mutant: the timer is set for midnight.                                  *)
StartAtMidnight(k) ==
  /\ timer[k] = month
  /\ timer' = [timer EXCEPT ![k] = 0]
  /\ job' = [job EXCEPT ![k] = [Idle EXCEPT !.pc = "exists", !.period = month - 1,
                                  !.todo = SetToSeq(Customers)]]
  /\ UNCHANGED <<ledgerVars, clock, posted, debit, invoiceVars, voiding, faults>>

(* The timer fires and the customers are listed, in the order of their ids.*)
StartJob(k) ==
  /\ Due(k)
  /\ timer' = [timer EXCEPT ![k] = 0]
  /\ job' = [job EXCEPT ![k] = [Idle EXCEPT !.pc = "exists", !.period = month - 1,
                                  !.todo = SetToSeq(Customers)]]
  /\ UNCHANGED <<ledgerVars, clock, posted, debit, invoiceVars, voiding, faults>>

(* The next customer, or the end of the job and the next timer.            *)
NextCustomer(k) ==
  IF Len(job[k].todo) > 1
    THEN /\ job' = [job EXCEPT ![k] = [Idle EXCEPT !.pc = "exists", !.period = job[k].period,
                                         !.todo = Tail(job[k].todo)]]
         /\ UNCHANGED timer
    ELSE /\ job' = [job EXCEPT ![k] = Idle]
         /\ timer' = [timer EXCEPT ![k] = month + 1]

(* Mutant: the rollback is forgotten.                                      *)
KeepLock(k) == UNCHANGED counterLock

(* The transaction ends.                                                   *)
Unlock(k) == counterLock' = IF counterLock = k THEN NoOne ELSE counterLock

(* A statement fails: its transaction is rolled back, the error is logged  *)
(* and the job goes on with the next customer.                             *)
StatementFails(k) ==
  /\ job[k] # Idle
  /\ faults < MaxFaults /\ faults' = faults + 1
  /\ NextCustomer(k)
  /\ Unlock(k)
  /\ UNCHANGED <<ledgerVars, clock, posted, debit, counter, invoices, voiding>>

Die(k) ==
  /\ timer[k] # 0 \/ job[k] # Idle
  /\ faults < MaxFaults /\ faults' = faults + 1
  /\ job' = [job EXCEPT ![k] = Idle]
  /\ timer' = [timer EXCEPT ![k] = 0]
  /\ Unlock(k)
  /\ UNCHANGED <<ledgerVars, clock, posted, debit, counter, invoices, voiding>>

Restart(k) ==
  /\ timer[k] = 0 /\ job[k] = Idle
  /\ timer' = [timer EXCEPT ![k] = month + 1]
  /\ UNCHANGED <<ledgerVars, clock, posted, debit, invoiceVars, job, voiding, faults>>

-----------------------------------------------------------------------------
(* GenerateMonthlyInvoice for the first customer of the list.              *)

(* ExistsForPeriod; a void invoice counts.                                 *)
ExistsForPeriod(c, p) == \E inv \in invoices : inv.customer = c /\ inv.period = p

(* Mutant: an invoice that exists ends the job.                            *)
StopAtExisting(k) ==
  /\ job[k].pc = "exists"
  /\ IF ExistsForPeriod(Head(job[k].todo), job[k].period)
       THEN /\ job' = [job EXCEPT ![k] = Idle]
            /\ timer' = [timer EXCEPT ![k] = month + 1]
       ELSE job' = [job EXCEPT ![k].pc = "list"] /\ UNCHANGED timer
  /\ UNCHANGED <<ledgerVars, clock, posted, debit, invoiceVars, voiding, faults>>

GenerateMonthlyInvoice(k) ==
  /\ job[k].pc = "exists"
  /\ IF ExistsForPeriod(Head(job[k].todo), job[k].period)
       THEN NextCustomer(k)
       ELSE job' = [job EXCEPT ![k].pc = "list"] /\ UNCHANGED timer
  /\ UNCHANGED <<ledgerVars, clock, posted, debit, invoiceVars, voiding, faults>>

(* ListByCustomerForPeriod, of the debits.                                 *)
ListByCustomerForPeriod(c, p) ==
  {i \in DOMAIN ledger[c] : posted[c][i] = p /\ ledger[c][i].type = "debit"}

SumOf(c, rows) == MapThenSumSet(LAMBDA i : ledger[c][i].amount, rows)

(* aggregateLineItems: one item for each VM, one for the other charges.    *)
AggregateLineItems(c, rows) ==
  [ref \in {ledger[c][i].ref : i \in rows} |->
     SumOf(c, {i \in rows : ledger[c][i].ref = ref})]

BuildInvoice(k) ==
  LET c == Head(job[k].todo)
      rows == ListByCustomerForPeriod(c, job[k].period)
  IN  /\ job[k].pc = "list"
      /\ IF rows = {}
           THEN NextCustomer(k)
           ELSE /\ job' = [job EXCEPT ![k].pc = "number", ![k].items = AggregateLineItems(c, rows)]
                /\ UNCHANGED timer
      /\ UNCHANGED <<ledgerVars, clock, posted, debit, invoiceVars, voiding, faults>>

(* Mutant: the number is taken outside of the transaction.                 *)
NumberOutside(k) ==
  /\ job[k].pc = "number"
  /\ counterLock = NoOne
  /\ counter' = counter + 1
  /\ job' = [job EXCEPT ![k].pc = "insert", ![k].number = counter + 1]
  /\ UNCHANGED <<ledgerVars, clock, posted, debit, counterLock, invoices, timer, voiding, faults>>

(* nextInvoiceNumber: its UPDATE waits for a transaction that updated the  *)
(* counter, and shows to others when it commits.                           *)
NextInvoiceNumber(k) ==
  /\ job[k].pc = "number"
  /\ counterLock = NoOne
  /\ counterLock' = k
  /\ job' = [job EXCEPT ![k].pc = "insert", ![k].number = counter + 1]
  /\ UNCHANGED <<ledgerVars, clock, posted, debit, counter, invoices, timer, voiding, faults>>

(* Mutant: there is no unique index.                                       *)
InsertAnyway(k) ==
  /\ job[k].pc = "insert"
  /\ job' = [job EXCEPT ![k].pc = "commit"] /\ UNCHANGED <<timer, counterLock>>
  /\ UNCHANGED <<ledgerVars, clock, posted, debit, counter, invoices, voiding, faults>>

(* insertInvoice: a violation of the unique index rolls back and counts as *)
(* an invoice that exists.                                                 *)
InsertInvoice(k) ==
  /\ job[k].pc = "insert"
  /\ IF ExistsForPeriod(Head(job[k].todo), job[k].period)
       THEN NextCustomer(k) /\ Unlock(k)
       ELSE job' = [job EXCEPT ![k].pc = "commit"] /\ UNCHANGED <<timer, counterLock>>
  /\ UNCHANGED <<ledgerVars, clock, posted, debit, counter, invoices, voiding, faults>>

CommitInvoice(k) ==
  LET j == job[k]
  IN  /\ j.pc = "commit"
      /\ counter' = j.number
      /\ invoices' = invoices \cup
           {[customer |-> Head(j.todo), period |-> j.period, number |-> j.number,
             items |-> j.items, status |-> "issued",
             total |-> MapThenSumSet(LAMBDA ref : j.items[ref], DOMAIN j.items)]}
      /\ NextCustomer(k)
      /\ Unlock(k)
      /\ UNCHANGED <<ledgerVars, clock, posted, debit, voiding, faults>>

-----------------------------------------------------------------------------
(* VoidInvoice: the status is read and then written without a condition.   *)

ReadForVoid(a, inv) ==
  /\ voiding[a] = NoOne
  /\ inv.status = "issued"
  /\ voiding' = [voiding EXCEPT ![a] = inv.number]
  /\ UNCHANGED <<ledgerVars, clock, posted, debit, invoiceVars, timer, job, faults>>

VoidInvoice(a) ==
  /\ voiding[a] # NoOne
  /\ invoices' = {IF inv.number = voiding[a] THEN [inv EXCEPT !.status = "void"] ELSE inv :
                    inv \in invoices}
  /\ voiding' = [voiding EXCEPT ![a] = NoOne]
  /\ UNCHANGED <<ledgerVars, clock, posted, debit, counter, counterLock, timer, job, faults>>

-----------------------------------------------------------------------------

JobStep(k) ==
  \/ StartJob(k) \/ GenerateMonthlyInvoice(k) \/ BuildInvoice(k)
  \/ NextInvoiceNumber(k) \/ InsertInvoice(k) \/ CommitInvoice(k)

Next ==
  \/ FiveMinutesPass \/ MonthEnds
  \/ \E c \in Customers, amount \in PosAmounts, ref \in Refs \cup {NoRef} :
       BeginDebit(c, amount, ref)
  \/ CommitDebit
  \/ \E k \in Controllers : JobStep(k) \/ StatementFails(k) \/ Die(k) \/ Restart(k)
  \/ \E a \in Admins : VoidInvoice(a) \/ \E inv \in invoices : ReadForVoid(a, inv)

Spec == Init /\ [][Next]_vars

(* Time passes, and the jobs and transactions of a live process run on.    *)
Fairness ==
  /\ WF_vars(FiveMinutesPass) /\ WF_vars(MonthEnds) /\ WF_vars(CommitDebit)
  /\ \A k \in Controllers : WF_vars(JobStep(k))

FairSpec == Spec /\ Fairness

-----------------------------------------------------------------------------

TypeOK ==
  /\ LedgerTypeOK
  /\ month \in 1..MaxMonth /\ five \in BOOLEAN
  /\ \A c \in Customers : posted[c] \in [DOMAIN ledger[c] -> 1..MaxMonth]
  /\ counter \in Nat /\ counterLock \in Controllers \cup {NoOne}
  /\ \A inv \in invoices :
       /\ inv.customer \in Customers /\ inv.period \in 1..MaxMonth
       /\ inv.number \in 1..counter /\ inv.status \in {"issued", "void"}
       /\ inv.total > 0
  /\ timer \in [Controllers -> 0..(MaxMonth + 1)]
  /\ counterLock # NoOne => job[counterLock].pc \in {"insert", "commit"}
  /\ faults \in 0..MaxFaults

(* A customer gets one invoice for a month, although the controllers'      *)
(* timers fire together and each looks before it inserts, and a void       *)
(* invoice is not replaced (GenerateMonthlyInvoice, the unique index).     *)
OneInvoicePerPeriod ==
  \A i, j \in invoices : i.customer = j.customer /\ i.period = j.period => i = j

(* Invoices are numbered without gaps although transactions roll back and  *)
(* controllers die with a number taken (CreateWithNextNumber).             *)
GapFree == {inv.number : inv \in invoices} = 1..counter

(* An invoice holds all of the customer's debits of its month, for ever:   *)
(* none is added to the month after it was invoiced, although a debit that *)
(* began before midnight commits after it (created_at, 00:05).             *)
InvoiceIsComplete ==
  \A inv \in invoices :
    inv.total = SumOf(inv.customer, ListByCustomerForPeriod(inv.customer, inv.period))

(* A month with debits is invoiced although one statement fails or one     *)
(* controller dies: the other one's job does not stop at the invoices that *)
(* exist already (GenerateAllMonthlyInvoices).                             *)
EveryPeriodIsInvoiced ==
  []<>(\A c \in Customers, p \in 1..(MaxMonth - 1) :
         ListByCustomerForPeriod(c, p) # {} => ExistsForPeriod(c, p))

=============================================================================
