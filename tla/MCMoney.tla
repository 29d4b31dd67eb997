------------------------------ MODULE MCMoney -------------------------------
(***************************************************************************)
(* Small instances of top-ups and of invoices.                             *)
(*  payments: a customer tops up once through any of the four gateways, two*)
(*    requests are served at a time, an invoice may be paid twice and      *)
(*    refunded in two parts, and two requests break off;                   *)
(*  invoices: two controllers invoice two customers, who have at most two  *)
(*    debits in three months; one statement fails or one controller dies.  *)
(* A behaviour is one of the part chosen at first.                         *)
(***************************************************************************)
EXTENDS Payments

CONSTANTS Invoiced, None, Controllers, Admins, NoKeys, OneAmount, MaxMonth, MaxDebits, MaxLapses

MCKeys == {"credit", "refund"} \X Ids

VARIABLES part,
          invoiced, rows, month, five, posted, debit, counter, counterLock, invoices, timer, job,
          voiding, lapses

Inv == INSTANCE Invoices WITH
         balance <- invoiced, ledger <- rows, Customers <- Invoiced, Amounts <- OneAmount,
         Refs <- {}, NoRef <- None, Keys <- NoKeys, NoKey <- None, NoOne <- None,
         faults <- lapses, MaxFaults <- MaxLapses

ASSUME GatewaysAssumption /\ EventTypesAssumption /\ BoundsAssumption
       /\ PaymentKeysAssumption /\ NoIdAssumption
ASSUME Inv!InvoiceBoundsAssumption /\ Inv!InvoiceKeysAssumption

invVars == <<invoiced, rows, month, five, posted, debit, counter, counterLock, invoices, timer, job,
             voiding, lapses>>
moneyVars == <<part, vars, invVars>>

MoneyInit == part \in {"payments", "invoices"} /\ Init /\ Inv!Init

MoneyNext ==
  /\ UNCHANGED part
  /\ \/ part = "payments" /\ Next /\ UNCHANGED invVars
     \/ part = "invoices" /\ Inv!Next /\ UNCHANGED vars

(* The parts' fairness; time passes where invoices are the part chosen.    *)
MoneySpec ==
  /\ MoneyInit /\ [][MoneyNext]_moneyVars
  /\ Fairness
  /\ WF_invVars(part = "invoices" /\ Inv!FiveMinutesPass)
  /\ WF_invVars(part = "invoices" /\ Inv!MonthEnds)
  /\ WF_invVars(Inv!CommitDebit)
  /\ \A k \in Controllers : WF_invVars(part = "invoices" /\ Inv!JobStep(k))

-----------------------------------------------------------------------------
(* The properties are stated and explained in the parts' modules.  Those   *)
(* of Payments are PaymentsMatchLedger and ImplementsTopUps.               *)

(* Invoices: one for a month, numbered without gaps, with all debits of    *)
(* the month; the types hold.                                              *)
InvoicesAreComplete ==
  Inv!TypeOK /\ Inv!OneInvoicePerPeriod /\ Inv!GapFree /\ Inv!InvoiceIsComplete


=============================================================================
