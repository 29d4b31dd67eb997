SPECIFICATION MoneySpec
CONSTANTS
  Customers = {c1}
  Amounts = {50, 150}
  Refs = {p1}
  NoRef = None
  Keys <- MCKeys
  NoKey = None
  Payments = {p1}
  Gateways = {"stripe", "paypal", "btcpay", "nowpayments"}
  Requests = {r1, r2}
  NoPayment = None
  NoId = None
  EventTypes = {"completed", "failed", "refunded"}
  MinTopUp = 150
  MaxTopUp = 150
  MaxCharges = 2
  MaxRefunds = 2
  MaxFaults = 2
  Invoiced = {c1, c2}
  None = None
  Controllers = {k1, k2}
  Admins = {a1}
  NoKeys = {}
  OneAmount = {1}
  MaxMonth = 3
  MaxDebits = 2
  MaxLapses = 1
\* Top-ups and months come to an end.
CHECK_DEADLOCK FALSE
INVARIANTS PaymentsMatchLedger InvoicesAreComplete
PROPERTIES ImplementsTopUps 
