------------------------------ MODULE Payments ------------------------------
(***************************************************************************)
(* Top-ups through the payment gateways, on the credit ledger.  A request  *)
(* of the customer creates a payment row and a checkout session; the       *)
(* customer pays at the gateway; the gateway reports the charge in         *)
(* webhooks that it repeats until they are answered, in any order and      *)
(* possibly after that; PayPal charges are captured by a second request of *)
(* the customer, which settles the payment as its webhook does.  A         *)
(* settlement is one transaction: advisory lock, claim of the row, credit. *)
(***************************************************************************)
EXTENDS AtomicLedger, FiniteSetsExt

CONSTANTS Payments,    \* billing_payments.id
          Gateways,    \* the registered providers
          Requests,    \* API requests being served at a time
          NoPayment,
          NoId,        \* a column that is NULL
          EventTypes,  \* event types that the providers pass on
          MinTopUp, MaxTopUp,  \* billing.topup.min_amount and max_amount
          MaxCharges,  \* bound: payments that a customer makes on one invoice
          MaxRefunds,  \* bound: refunds of a payment
          MaxFaults    \* bound: requests that break off

(* Identifiers given by a gateway for payment p: <<p, 0>> is the checkout  *)
(* session, order or invoice, <<p, n>> the n-th charge.                    *)
Ids == Payments \X (0..MaxCharges)
Events == [type: EventTypes, id: Ids, seq: 1..2, amount: PosAmounts]

GatewaysAssumption == Gateways \subseteq {"stripe", "paypal", "btcpay", "nowpayments"}
EventTypesAssumption == EventTypes \subseteq {"completed", "failed", "refunded"}
BoundsAssumption == MaxCharges \in Nat \ {0} /\ MaxRefunds \in 0..MaxCharges
                           /\ MaxFaults \in Nat
NoIdAssumption == NoId \notin Ids \cup Events
PaymentKeysAssumption ==
  {"credit", "refund"} \X Ids \subseteq Keys /\ Payments \subseteq Refs

VARIABLES payment,     \* billing_payments
          checkout,    \* the gateway's session of a payment
          charged,     \* charges that gateways took
          refunds,     \* refunds that gateways paid out
          hooks,       \* events that gateways send
          answered,    \* events that were answered with 200
          request,     \* the locals of a request
          faults       \* requests that broke off

gatewayVars == <<checkout, charged, refunds, hooks>>
vars == <<balance, ledger, payment, gatewayVars, answered, request, faults>>

NoRow == [status |-> "none", gateway |-> "none", customer |-> NoPayment, amount |-> 0,
          gid |-> NoId, capture |-> NoId]

(* event is the webhook that the request answers, if it does.              *)
Idle == [pc |-> "idle", payment |-> NoPayment, id |-> NoId, amount |-> 0, event |-> NoId]

(* centsToDecimal and decimalToCents: an amount as PayPal and BTCPay       *)
(* write it, whole units and hundredths.                                   *)
centsToDecimal(cents) == <<cents \div 100, cents % 100>>

decimalToCents(d) == d[1] * 100 + d[2]

-----------------------------------------------------------------------------
(* Events, as the providers' HandleWebhook hands them to the service.      *)

Completed(id, seq) ==
  [type |-> "completed", id |-> id, seq |-> seq, amount |-> payment[id[1]].amount]

(* Stripe reports a charge twice, as a session and as a payment intent.    *)
StripeEvents(id) == {Completed(id, 1), Completed(id, 2)}

(* Amounts return from PayPal and BTCPay as decimals.                      *)
Decimal(e) == [e EXCEPT !.amount = decimalToCents(centsToDecimal(@))]

PayPalEvents(id) == {Decimal(Completed(id, 1))}

BTCPayEvents(id) == {Decimal(Completed(id, 1))}

(* NOWPayments sends a float, which is rounded to the cent it came from.   *)
NOWPaymentsEvents(id) == {Completed(id, 1)}

EventsOf(g, id) ==
  [stripe |-> StripeEvents(id), paypal |-> PayPalEvents(id),
   btcpay |-> BTCPayEvents(id), nowpayments |-> NOWPaymentsEvents(id)][g]

(* Mutant: the key of the event, which differs between two reports.        *)
KeyOfEvent(id, e) == <<"credit", IF e = NoId THEN id ELSE <<id[1], e.seq>> >>

(* paymentCreditIdempotencyKey, and the keys of the PayPal and crypto      *)
(* paths: the charge decides, not the event.                               *)
CreditKey(id, e) == <<"credit", id>>

(* GetByGatewayPaymentID.                                                  *)
ByGatewayID(g, id) == {p \in Payments : payment[p].gateway = g /\ payment[p].gid = id}

(* lookupPayPalWebhookPayment: by the capture, then by the order.          *)
ByCaptureOrOrder(id) ==
  IF ByGatewayID("paypal", id) # {} THEN ByGatewayID("paypal", id)
                                    ELSE ByGatewayID("paypal", <<id[1], 0>>)

(* lookupWebhookPayment: Stripe returns the payment's own identifier.      *)
LookupWebhookPayment(g, id) == IF g = "stripe" THEN {id[1]} ELSE ByCaptureOrOrder(id)

(* cryptoPaymentForCredit: BTCPay names its invoice, NOWPayments our id.   *)
CryptoPaymentForCredit(g, id) ==
  IF g = "btcpay" THEN ByGatewayID(g, id) ELSE {id[1]}

(* validatePaymentMatchesEvent; the customer and the currency return in    *)
(* the metadata they were sent in.                                         *)
MatchesEvent(p, e) == payment[p].amount = e.amount

-----------------------------------------------------------------------------

Init ==
  /\ LedgerInit
  /\ payment = [p \in Payments |-> NoRow]
  /\ checkout = [p \in Payments |-> "none"]
  /\ charged = {} /\ refunds = {} /\ hooks = {} /\ answered = {}
  /\ request = [r \in Requests |-> Idle]
  /\ faults = 0

(* The request returns.                                                    *)
Return(r) == request' = [request EXCEPT ![r] = Idle]

(* Mutant: the customer's capture counts as an answered event.             *)
AnswerAnything(r) ==
  /\ Return(r)
  /\ answered' = answered \cup {request[r].event} /\ UNCHANGED faults

(* The gateway gets 200 for the event, or the response is lost.            *)
Answer(r) ==
  /\ Return(r)
  /\ \/ answered' = answered \cup ({request[r].event} \ {NoId}) /\ UNCHANGED faults
     \/ request[r].event # NoId /\ faults < MaxFaults
        /\ faults' = faults + 1 /\ UNCHANGED answered


(* A statement or a call fails, or the process dies: a transaction is      *)
(* rolled back and a webhook is not answered with 200.                     *)
BreakOff(r) ==
  /\ request[r].pc # "idle"
  /\ faults < MaxFaults
  /\ faults' = faults + 1
  /\ Return(r)
  /\ UNCHANGED <<ledgerVars, payment, gatewayVars, answered>>

ValidateTopUpAmount(a) == MinTopUp <= a /\ a <= MaxTopUp

(* The insertion of the pending row.                                       *)
InitiateTopUp(r, p, c, g, a) ==
  /\ request[r].pc = "idle"
  /\ payment[p].status = "none"
  /\ ValidateTopUpAmount(a)
  /\ payment' = [payment EXCEPT ![p] = [NoRow EXCEPT !.status = "pending", !.gateway = g,
                                          !.customer = c, !.amount = a]]
  /\ request' = [request EXCEPT ![r] = [Idle EXCEPT !.pc = "session", !.payment = p]]
  /\ UNCHANGED <<ledgerVars, gatewayVars, answered, faults>>

(* CreatePaymentSession of a provider: the gateway opens a session.        *)
OpenSession(r, g) ==
  /\ request[r].pc = "session"
  /\ payment[request[r].payment].gateway = g
  /\ checkout' = [checkout EXCEPT ![request[r].payment] = "open"]
  /\ request' = [request EXCEPT ![r].pc = "store"]
  /\ UNCHANGED <<ledgerVars, payment, charged, refunds, hooks, answered, faults>>

(* Stripe makes a checkout session, PayPal an order, BTCPay and            *)
(* NOWPayments an invoice.                                                 *)
CreateCheckoutSession(r) == OpenSession(r, "stripe")

CreateOrder(r) == OpenSession(r, "paypal")

CreateBTCPayInvoice(r) == OpenSession(r, "btcpay")

CreateNOWPaymentsInvoice(r) == OpenSession(r, "nowpayments")

(* Whose transaction locks row p (FOR UPDATE) or gateway identifier id     *)
(* (pg_advisory_xact_lock).                                                *)
RowFree(p) == \A q \in Requests : request[q].pc = "credit" => request[q].payment # p

AdvisoryFree(id) ==
  \A q \in Requests : request[q].pc \in {"claim", "credit"} => request[q].id # id

(* UpdateStatus: no condition on the status that the row has.              *)
UpdateStatus(p, st, id) ==
  /\ RowFree(p)
  /\ payment' = [payment EXCEPT ![p].status = st, ![p].gid = id]

(* The session's identifier is stored; if that fails it is logged, and the *)
(* customer is sent to the checkout all the same.                          *)
StoreSessionID(r) ==
  LET p == request[r].payment
  IN  /\ request[r].pc = "store"
      /\ \/ UpdateStatus(p, "pending", <<p, 0>>) /\ UNCHANGED faults
         \/ faults < MaxFaults /\ faults' = faults + 1 /\ UNCHANGED payment
      /\ checkout' = [checkout EXCEPT ![p] = "shown"]
      /\ Return(r)
      /\ UNCHANGED <<ledgerVars, charged, refunds, hooks, answered>>

-----------------------------------------------------------------------------
(* The gateways and the customer at them.                                  *)

Charge(p, id) ==
  /\ charged' = charged \cup {id}
  /\ hooks' = hooks \cup {e \in EventsOf(payment[p].gateway, id) : e.type \in EventTypes}

(* A checkout is paid: once, except that a NOWPayments invoice accepts     *)
(* several deposits.                                                       *)
Pay(p) ==
  LET g == payment[p].gateway
      paid == {id[2] : id \in {id \in charged : id[1] = p}}
  IN  /\ checkout[p] = "shown"
      /\ g # "paypal"
      /\ \/ /\ g = "nowpayments"
            /\ \E n \in 1 .. MaxCharges : paid = 1 .. n - 1 /\ Charge(p, <<p, n>>)
         \/ g # "nowpayments" /\ paid = {} /\ Charge(p, <<p, IF g = "btcpay" THEN 0 ELSE 1>>)
      /\ UNCHANGED <<ledgerVars, payment, checkout, refunds, answered, request, faults>>

(* The buyer approves the PayPal order; or PayPal releases a capture that  *)
(* it held for review.                                                     *)
Approve(p) ==
  /\ checkout[p] = "shown" /\ payment[p].gateway = "paypal"
  /\ checkout' = [checkout EXCEPT ![p] = "approved"]
  /\ UNCHANGED <<ledgerVars, payment, charged, refunds, hooks, answered, request, faults>>

ReleaseCapture(p) ==
  /\ checkout[p] = "held"
  /\ checkout' = [checkout EXCEPT ![p] = "captured"]
  /\ Charge(p, <<p, 1>>)
  /\ UNCHANGED <<ledgerVars, payment, refunds, answered, request, faults>>

(* An attempt to pay is declined; the checkout stays open for another.     *)
Decline(p) ==
  /\ "failed" \in EventTypes
  /\ checkout[p] = "shown" /\ payment[p].gateway = "stripe"
  /\ hooks' = hooks \cup {[type |-> "failed", id |-> <<p, 1>>, seq |-> 1,
                           amount |-> payment[p].amount]}
  /\ UNCHANGED <<ledgerVars, payment, checkout, charged, refunds, answered, request, faults>>

-----------------------------------------------------------------------------
(* A settlement: settlePayment and the two transactions behind it.         *)

Settle(r, p, id, e) ==
  request' = [request EXCEPT ![r] =
                [pc |-> "lock", payment |-> p, id |-> id, amount |-> payment[p].amount,
                 event |-> e]]

(* lockGatewayPaymentID.                                                   *)
LockGatewayPaymentID(r) ==
  /\ request[r].pc = "lock"
  /\ AdvisoryFree(request[r].id)
  /\ request' = [request EXCEPT ![r].pc = "claim"]
  /\ UNCHANGED <<ledgerVars, payment, gatewayVars, answered, faults>>

(* Mutant: a completed row may be claimed again, whoever completed it.     *)
CanClaimCompleted(p, id) == payment[p].status \notin {"refunded", "failed"}

(* canClaimLocalPayment.                                                   *)
CanClaimLocalPayment(p, id) ==
  /\ payment[p].status \notin {"refunded", "failed"}
  /\ payment[p].status = "completed" => payment[p].gid = id

(* canClaimPayPalCapture.                                                  *)
CanClaimPayPalCapture(p, id) ==
  /\ payment[p].gid = <<id[1], 0>>
  /\ payment[p].status \notin {"refunded", "failed"}
  /\ payment[p].capture \in (IF payment[p].status = "completed" THEN {id} ELSE {NoId, id})

HasOtherGatewayPayment(p, id) ==
  \E q \in Payments \ {p} : payment[q].gateway = payment[p].gateway /\ payment[q].gid = id

HasOtherPayPalCapture(p, id) ==
  \E q \in Payments \ {p} : payment[q].gateway = "paypal" /\ payment[q].capture = id

(* A claim that is refused is no error to a webhook; a capture reports it. *)
ClaimIf(r, ok) ==
  /\ RowFree(request[r].payment)
  /\ \/ ok /\ request' = [request EXCEPT ![r].pc = "credit"] /\ UNCHANGED <<answered, faults>>
     \/ ~ok /\ Answer(r)
  /\ UNCHANGED <<ledgerVars, payment, gatewayVars>>

(* The two claims, up to their UPDATE.                                     *)
ClaimGatewayPaymentTx(r) ==
  LET p == request[r].payment
      id == request[r].id
  IN  /\ request[r].pc = "claim"
      /\ payment[p].gateway # "paypal"
      /\ ClaimIf(r, CanClaimLocalPayment(p, id) /\ ~HasOtherGatewayPayment(p, id))

ClaimPayPalCaptureTx(r) ==
  LET p == request[r].payment
      id == request[r].id
  IN  /\ request[r].pc = "claim"
      /\ payment[p].gateway = "paypal"
      /\ ClaimIf(r, CanClaimPayPalCapture(p, id) /\ ~HasOtherPayPalCapture(p, id))

KeySpent(c, key) == key # NoKey /\ \E i \in DOMAIN ledger[c] : ledger[c][i].key = key

(* creditAccountTx: a key that is spent was spent by this credit.          *)
CreditAccountTx(r) ==
  LET c == payment[request[r].payment].customer
      key == CreditKey(request[r].id, request[r].event)
  IN  IF KeySpent(c, key) THEN UNCHANGED ledgerVars
                          ELSE Post(c, "credit", request[r].amount, NoRef, key)

(* updatePaymentCompletedTx: the charge replaces the session.              *)
CompletedRow(p, id) == [payment[p] EXCEPT !.status = "completed", !.gid = id]

(* updatePayPalCaptureCompletedTx: the order stays, the capture is added.  *)
CapturedRow(p, id) ==
  [payment[p] EXCEPT !.status = "completed", !.gid = <<id[1], 0>>, !.capture = id]

(* Mutant: the row is updated after the transaction, which is left out.    *)
CreditAlone(r) ==
  /\ request[r].pc = "credit"
  /\ payment[request[r].payment].gateway # "paypal"
  /\ CreditAccountTx(r)
  /\ Answer(r)
  /\ UNCHANGED <<payment, gatewayVars>>

CompleteWithGatewayPaymentIDAndCredit(r) ==
  LET p == request[r].payment
  IN  /\ request[r].pc = "credit"
      /\ payment[p].gateway # "paypal"
      /\ payment' = [payment EXCEPT ![p] = CompletedRow(p, request[r].id)]
      /\ CreditAccountTx(r)
      /\ Answer(r)
      /\ UNCHANGED gatewayVars

CompletePayPalCaptureAndCredit(r) ==
  LET p == request[r].payment
  IN  /\ request[r].pc = "credit"
      /\ payment[p].gateway = "paypal"
      /\ payment' = [payment EXCEPT ![p] = CapturedRow(p, request[r].id)]
      /\ CreditAccountTx(r)
      /\ Answer(r)
      /\ UNCHANGED gatewayVars

-----------------------------------------------------------------------------
(* CapturePayPalOrder, called by the customer who returns from PayPal.     *)

CompletedPayPalCapture(p) == payment[p].status = "completed" /\ payment[p].capture # NoId

CapturePayPalOrder(r, p) ==
  /\ request[r].pc = "idle"
  /\ p \in ByGatewayID("paypal", <<p, 0>>)
  /\ IF CompletedPayPalCapture(p)
       THEN Settle(r, p, payment[p].capture, NoId)
       ELSE request' = [request EXCEPT ![r] = [Idle EXCEPT !.pc = "capture", !.payment = p]]
  /\ UNCHANGED <<ledgerVars, payment, gatewayVars, answered, faults>>

(* CaptureOrder: PayPal captures an approved order once, and repeats its   *)
(* answer; validatePayPalCapture rejects a capture that is held.           *)
CaptureOrder(r) ==
  LET p == request[r].payment
  IN  /\ request[r].pc = "capture"
      /\ \/ /\ checkout[p] = "approved"
            /\ \/ /\ checkout' = [checkout EXCEPT ![p] = "captured"]
                  /\ Charge(p, <<p, 1>>)
                  /\ \/ Settle(r, p, <<p, 1>>, NoId) /\ UNCHANGED faults
                     \/ faults < MaxFaults /\ faults' = faults + 1 /\ Return(r)
               \/ /\ checkout' = [checkout EXCEPT ![p] = "held"]
                  /\ Return(r)
                  /\ UNCHANGED <<charged, hooks, faults>>
         \/ /\ checkout[p] = "captured"
            /\ Settle(r, p, <<p, 1>>, NoId)
            /\ UNCHANGED <<checkout, charged, hooks, faults>>
         \/ /\ checkout[p] \notin {"approved", "captured"}
            /\ Return(r)
            /\ UNCHANGED <<checkout, charged, hooks, faults>>
      /\ UNCHANGED <<ledgerVars, payment, refunds, answered>>

-----------------------------------------------------------------------------
(* Webhooks: HandleWebhook and routeWebhookEvent.  An event for which no   *)
(* payment is found is answered with an error and changes nothing.         *)

(* handlePaymentCompleted, for Stripe and PayPal, up to the settlement.    *)
HandlePaymentCompleted(r, e) ==
  LET g == payment[e.id[1]].gateway
  IN  /\ request[r].pc = "idle"
      /\ e.type = "completed" /\ g \in {"stripe", "paypal"}
      /\ \E p \in LookupWebhookPayment(g, e.id) : MatchesEvent(p, e) /\ Settle(r, p, e.id, e)
      /\ UNCHANGED <<ledgerVars, payment, gatewayVars, answered, faults>>

(* CreditFromPayment, for the crypto gateways, with validateCryptoPayment. *)
CreditFromPayment(r, e) ==
  LET g == payment[e.id[1]].gateway
  IN  /\ request[r].pc = "idle"
      /\ e.type = "completed" /\ g \in {"btcpay", "nowpayments"}
      /\ \E p \in CryptoPaymentForCredit(g, e.id) : MatchesEvent(p, e) /\ Settle(r, p, e.id, e)
      /\ UNCHANGED <<ledgerVars, payment, gatewayVars, answered, faults>>

HandlePaymentFailed(e) ==
  /\ e.type = "failed"
  /\ UpdateStatus(e.id[1], "failed", e.id)
  /\ answered' = answered \cup {e}
  /\ UNCHANGED <<ledgerVars, gatewayVars, request, faults>>

(* handleRefundCompleted: the payment is read, then booked.                *)
HandleRefundCompleted(r, e) ==
  /\ request[r].pc = "idle"
  /\ e.type = "refunded"
  /\ \E p \in ByGatewayID(payment[e.id[1]].gateway, e.id) :
       request' = [request EXCEPT ![r] = [pc |-> "debit", payment |-> p, id |-> e.id,
                                          amount |-> e.amount, event |-> e]]
  /\ UNCHANGED <<ledgerVars, payment, gatewayVars, answered, faults>>

(* Mutant: the refund is booked without an idempotency key.                *)
NoRefundKey(e) == NoKey

RefundKey(e) == <<"refund", <<e.id[1], e.seq>> >>

(* updatePaymentRefundedTx and debitAccountTx, one transaction.            *)
MarkRefundedAndDebit(r) ==
  LET p == request[r].payment
      c == payment[p].customer
      key == RefundKey(request[r].event)
  IN  /\ request[r].pc = "debit"
      /\ RowFree(p)
      /\ payment' = [payment EXCEPT ![p].status = "refunded"]
      /\ IF KeySpent(c, key) THEN UNCHANGED ledgerVars
                             ELSE Post(c, "debit", request[r].amount, p, key)
      /\ Answer(r)
      /\ UNCHANGED gatewayVars

-----------------------------------------------------------------------------
(* RefundPayment, called by an administrator.  It writes nothing.          *)

(* refundGatewayPaymentID.                                                 *)
RefundGatewayPaymentID(p) ==
  IF payment[p].gateway = "paypal" /\ payment[p].capture # NoId
    THEN payment[p].capture ELSE payment[p].gid

(* validateRefund.                                                         *)
ValidateRefund(p, a) ==
  /\ payment[p].status = "completed"
  /\ RefundGatewayPaymentID(p) # NoId
  /\ a > 0 /\ a <= payment[p].amount

RefundPayment(r, p, a) ==
  /\ request[r].pc = "idle"
  /\ ValidateRefund(p, a)
  /\ request' = [request EXCEPT ![r] = [Idle EXCEPT !.pc = "refund", !.payment = p,
                                          !.id = RefundGatewayPaymentID(p), !.amount = a]]
  /\ UNCHANGED <<ledgerVars, payment, gatewayVars, answered, faults>>

RefundedTotal(p) ==
  MapThenSumSet(LAMBDA x : x.amount, {x \in refunds : x.id[1] = p})

(* The gateways pay out no more than they took.                            *)
PayOut(r) ==
  LET p == request[r].payment
      a == request[r].amount
      used == {x.seq : x \in refunds}
  IN  /\ \/ \E n \in 1 .. MaxRefunds :
              /\ used = 1 .. n - 1
              /\ RefundedTotal(p) + a <= payment[p].amount
              /\ refunds' = refunds \cup {[id |-> request[r].id, seq |-> n, amount |-> a]}
              /\ hooks' = hooks \cup
                   ({[type |-> "refunded", id |-> request[r].id, seq |-> n, amount |-> a]} \cap Events)
         \/ /\ used = 1 .. MaxRefunds \/ RefundedTotal(p) + a > payment[p].amount
            /\ UNCHANGED <<refunds, hooks>>
      /\ Return(r)
      /\ UNCHANGED <<ledgerVars, payment, checkout, charged, answered, faults>>

(* RefundPayment of the providers; the crypto gateways refuse.             *)
StripeRefund(r) ==
  request[r].pc = "refund" /\ payment[request[r].payment].gateway = "stripe" /\ PayOut(r)

PayPalRefund(r) ==
  request[r].pc = "refund" /\ payment[request[r].payment].gateway = "paypal" /\ PayOut(r)

CryptoRefund(r) ==
  /\ request[r].pc = "refund"
  /\ payment[request[r].payment].gateway \in {"btcpay", "nowpayments"}
  /\ Return(r)
  /\ UNCHANGED <<ledgerVars, payment, gatewayVars, answered, faults>>

-----------------------------------------------------------------------------

RequestStep(r) ==
  \/ CreateCheckoutSession(r) \/ CreateOrder(r)
  \/ CreateBTCPayInvoice(r) \/ CreateNOWPaymentsInvoice(r)
  \/ StoreSessionID(r)
  \/ LockGatewayPaymentID(r) \/ ClaimGatewayPaymentTx(r) \/ ClaimPayPalCaptureTx(r)
  \/ CompleteWithGatewayPaymentIDAndCredit(r) \/ CompletePayPalCaptureAndCredit(r)
  \/ CaptureOrder(r)
  \/ MarkRefundedAndDebit(r)
  \/ StripeRefund(r) \/ PayPalRefund(r) \/ CryptoRefund(r)

Receive(e) ==
  \/ \E r \in Requests :
       HandlePaymentCompleted(r, e) \/ CreditFromPayment(r, e) \/ HandleRefundCompleted(r, e)
  \/ HandlePaymentFailed(e)

Next ==
  \/ \E r \in Requests :
       \/ RequestStep(r) \/ BreakOff(r)
       \/ \E p \in Payments, c \in Customers, g \in Gateways, a \in PosAmounts :
            InitiateTopUp(r, p, c, g, a)
       \/ \E p \in Payments : CapturePayPalOrder(r, p)
       \/ \E p \in Payments, a \in PosAmounts : RefundPayment(r, p, a)
  \/ \E p \in Payments : Pay(p) \/ Approve(p) \/ ReleaseCapture(p) \/ Decline(p)
  \/ \E e \in hooks : Receive(e)

Spec == Init /\ [][Next]_vars

(* A request runs on, and the gateways repeat their events until these are *)
(* answered; the server does not refuse them all for ever.                 *)
Fairness ==
  /\ \A r \in Requests : WF_vars(RequestStep(r))
  /\ SF_vars(\E e \in hooks \ answered : Receive(e))

FairSpec == Spec /\ Fairness

-----------------------------------------------------------------------------

TypeOK ==
  /\ LedgerTypeOK
  /\ payment \in [Payments ->
       [status: {"none", "pending", "completed", "failed", "refunded"},
        gateway: Gateways \cup {"none"}, customer: Customers \cup {NoPayment},
        amount: PosAmounts \cup {0}, gid: Ids \cup {NoId}, capture: Ids \cup {NoId}]]
  /\ checkout \in [Payments -> {"none", "open", "shown", "approved", "held", "captured"}]
  /\ charged \subseteq Ids
  /\ refunds \subseteq [id: Ids, seq: 1..MaxRefunds, amount: PosAmounts]
  /\ answered \subseteq hooks /\ hooks \subseteq Events
  /\ request \in [Requests ->
       [pc: {"idle", "session", "store", "lock", "claim", "credit", "capture", "debit", "refund"},
        payment: Payments \cup {NoPayment}, id: Ids \cup {NoId},
        amount: PosAmounts \cup {0}, event: Events \cup {NoId}]]
  /\ faults \in 0..MaxFaults

Rows(p) == IF payment[p].status = "none" THEN <<>> ELSE ledger[payment[p].customer]

Credits(p) == {n \in DOMAIN Rows(p) : Rows(p)[n].type = "credit" /\ Rows(p)[n].key[2][1] = p}

Debits(p) == {n \in DOMAIN Rows(p) : Rows(p)[n].type = "debit" /\ Rows(p)[n].ref = p}

(* The payments table and the ledger agree whichever requests settle a     *)
(* payment together, and wherever they break off: a row that says          *)
(* completed or refunded was credited, a pending one was not (the single   *)
(* transaction of CompleteWithGatewayPaymentIDAndCredit and its sibling).  *)
RowMatchesLedger ==
  \A p \in Payments :
    /\ payment[p].status \in {"completed", "refunded"} => Credits(p) # {}
    /\ payment[p].status = "pending" => Credits(p) = {}

(* The ledger takes back no more than the gateway paid out, although a     *)
(* refund is reported several times and two administrators refund at once: *)
(* every debit of a payment books a refund of its own, with its amount     *)
(* (MarkRefundedAndDebit's idempotency key).                               *)
RefundsMatch ==
  \A p \in Payments : \A n \in Debits(p) :
    /\ \E x \in refunds : /\ x.id[1] = p /\ x.amount = Rows(p)[n].amount
                         /\ Rows(p)[n].key = <<"refund", <<p, x.seq>> >>
    /\ \A m \in Debits(p) : Rows(p)[m].key = Rows(p)[n].key => m = n

(* The payments table, the gateways and the ledger agree, and the types    *)
(* hold.                                                                   *)
PaymentsMatchLedger == TypeOK /\ RowMatchesLedger /\ RefundsMatch

(* What `TopUps' speaks of: the order behind a row, the payments that a    *)
(* gateway took money for, and those that the ledger shows.                *)
Ordered ==
  [p \in Payments |-> IF payment[p].status = "none" THEN <<>>
                      ELSE <<payment[p].customer, payment[p].amount>>]

PaidFor == {id[1] : id \in charged}

OnAccount == {p \in Payments : Credits(p) # {}}

(* The requests, gateways and transactions together do what `TopUps' says: *)
(* a payment that was made is credited once, with its amount, although it  *)
(* is reported by several events, captured by the customer and deposited   *)
(* for twice, and nothing else changes a balance.                          *)
Promise == INSTANCE TopUps WITH
  TopUpIds <- Payments,
  Holders  <- Customers,
  Sums     <- PosAmounts,
  order    <- Ordered,
  paid     <- PaidFor,
  credited <- OnAccount,
  account  <- balance

ImplementsTopUps == Promise!TopUpSpec

(* The payment can be found from what its gateway reports: a BTCPay        *)
(* invoice is known only by the identifier that StoreSessionID may lose.   *)
Traceable(p) == payment[p].gateway # "btcpay" \/ payment[p].gid # NoId

(* Money that a gateway took reaches the account although requests break   *)
(* off between the capture and the credit and webhooks are lost or late,   *)
(* except for a payment reported as failed: a later success is ignored     *)
(* (canClaimLocalPayment).                                                 *)
PaidIsCredited ==
  []<>(\A p \in Payments :
         Traceable(p) /\ (\E id \in charged : id[1] = p)
         => Credits(p) # {} \/ payment[p].status = "failed")

=============================================================================
