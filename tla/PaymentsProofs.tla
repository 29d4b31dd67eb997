--------------------------- MODULE PaymentsProofs ---------------------------
(***************************************************************************)
(* Payments keep the payments table, the gateways and the ledger in step,  *)
(* and implement TopUps, for any number of customers, payments, requests,  *)
(* charges and refunds.                                                    *)
(***************************************************************************)
EXTENDS Payments, AtomicLedgerProofs

PaymentsAssumptions ==
  /\ GatewaysAssumption /\ EventTypesAssumption /\ BoundsAssumption
  /\ NoIdAssumption /\ PaymentKeysAssumption

(* The checkout of a payment has been shown to the customer.               *)
Shown(p) == checkout[p] \notin {"none", "open"}

(* A ledger row of customer c that credits payment p.                      *)
IsCredit(c, n, p) == ledger[c][n].type = "credit" /\ ledger[c][n].key[2][1] = p

Credited(p) == \E n \in DOMAIN ledger[payment[p].customer] : IsCredit(payment[p].customer, n, p)

(* The charge that a completed row is completed by, and its credit.        *)
PaidBy(p) == IF payment[p].gateway = "paypal" THEN payment[p].capture ELSE payment[p].gid

Spent(p, id) ==
  \E n \in DOMAIN ledger[payment[p].customer] :
    /\ ledger[payment[p].customer][n].type = "credit"
    /\ ledger[payment[p].customer][n].key = <<"credit", id>>

(* Every row of the ledger is the credit of a charge or books a refund, of *)
(* a payment of that customer.                                             *)
EntryIsSound(c, n) ==
  \E p \in Payments :
    /\ payment[p].status # "none" /\ payment[p].customer = c
    /\ \/ /\ ledger[c][n].type = "credit"
          /\ \E id \in charged : id[1] = p /\ ledger[c][n].key = <<"credit", id>>
       \/ /\ ledger[c][n].type = "debit" /\ ledger[c][n].ref = p
          /\ \E x \in refunds : /\ x.id[1] = p /\ x.amount = ledger[c][n].amount
                                /\ ledger[c][n].key = <<"refund", <<p, x.seq>> >>

RowIsSound(p) ==
  /\ payment[p].status = "none" => checkout[p] = "none"
  /\ payment[p].status # "none" => /\ payment[p].customer \in Customers
                                   /\ payment[p].amount \in PosAmounts
                                   /\ payment[p].gateway \in Gateways
  /\ ~Shown(p) => payment[p].status \in {"none", "pending"} /\ payment[p].gid = NoId
  /\ checkout[p] = "captured" => <<p, 1>> \in charged
  /\ payment[p].gid # NoId => payment[p].gid[1] = p
  /\ payment[p].capture # NoId => payment[p].capture[1] = p /\ payment[p].capture \in charged
  /\ payment[p].status = "pending" => ~Credited(p)
  /\ payment[p].status = "completed" => PaidBy(p) \in Ids /\ Spent(p, PaidBy(p))
  /\ payment[p].status = "refunded" => Credited(p)

(* What an event reports is so, and stays so.                              *)
EventIsSound(e) ==
  /\ Shown(e.id[1])
  /\ e.type = "completed" => e.id \in charged
  /\ e.type = "refunded" =>
       /\ Credited(e.id[1]) /\ e.amount <= payment[e.id[1]].amount
       /\ \E x \in refunds : x.id = e.id /\ x.seq = e.seq /\ x.amount = e.amount

(* What a request remembers; nobody writes the row that it has claimed.    *)
RequestIsSound(k) ==
  /\ k.event # NoId => k.event \in hooks
  /\ k.pc # "idle" => k.payment \in Payments /\ payment[k.payment].status # "none"
  /\ k.pc = "session" => checkout[k.payment] = "none"
  /\ k.pc = "store" => checkout[k.payment] = "open"
  /\ k.pc \in {"lock", "claim", "credit"} =>
       k.id \in charged /\ k.id[1] = k.payment /\ k.amount = payment[k.payment].amount
  /\ k.pc = "credit" => \/ payment[k.payment].status = "pending"
                        \/ payment[k.payment].status = "completed" /\ PaidBy(k.payment) = k.id
  /\ k.pc = "debit" => /\ k.event \in hooks /\ k.event.type = "refunded"
                       /\ k.event.id[1] = k.payment /\ k.event.amount = k.amount
  /\ k.pc = "refund" => /\ k.id \in Ids /\ k.id[1] = k.payment /\ Credited(k.payment)
                        /\ k.amount \in PosAmounts /\ k.amount <= payment[k.payment].amount

(* A payment is opened by one request, and claimed by one at a time.       *)
OneAtATime ==
  \A r, q \in Requests :
    request[r].payment = request[q].payment
    /\ (\/ request[r].pc \in {"session", "store"} /\ request[q].pc \in {"session", "store"}
        \/ request[r].pc = "credit" /\ request[q].pc = "credit")
    => r = q

IndInv ==
  /\ TypeOK /\ BalanceMatchesLedger /\ IdempotencyKeyUnique
  /\ \A id \in charged : Shown(id[1])
  /\ \A c \in Customers : \A n \in DOMAIN ledger[c] : EntryIsSound(c, n)
  /\ \A p \in Payments : RowIsSound(p)
  /\ \A e \in hooks : EventIsSound(e)
  /\ \A r \in Requests : RequestIsSound(request[r])
  /\ OneAtATime

-----------------------------------------------------------------------------
(* What no step takes back.                                                *)
Grows ==
  /\ \A p \in Payments :
       payment[p].status # "none" =>
         /\ payment'[p].status # "none"
         /\ payment'[p].customer = payment[p].customer
         /\ payment'[p].amount = payment[p].amount
         /\ payment'[p].gateway = payment[p].gateway
  /\ \A p \in Payments : Shown(p) => Shown(p)'
  /\ charged \subseteq charged' /\ refunds \subseteq refunds' /\ hooks \subseteq hooks'
  /\ \A c \in Customers : \A n \in DOMAIN ledger[c] :
       n \in DOMAIN ledger'[c] /\ ledger'[c][n] = ledger[c][n]

(* Keys are pairs.                                                         *)
LEMMA SecondOf == ASSUME NEW a, NEW b, NEW k, k = <<a, b>>  PROVE k[2] = b
OBVIOUS

LEMMA KeysDiffer == ASSUME NEW a, NEW b  PROVE <<"credit", a>> # <<"refund", b>>
OBVIOUS

LEMMA NothingIsTakenBack ==
  UNCHANGED <<ledger, payment, checkout>> /\ charged \subseteq charged'
  /\ refunds \subseteq refunds' /\ hooks \subseteq hooks' => Grows
BY Zenon DEF Grows, Shown

LEMMA CreditsStay ==
  ASSUME IndInv, Grows, NEW p \in Payments, payment[p].status # "none", NEW id
  PROVE  (Credited(p) => Credited(p)') /\ (Spent(p, id) => Spent(p, id)')
<1>1. payment[p].customer \in Customers /\ payment'[p].customer = payment[p].customer
  BY Zenon DEF IndInv, RowIsSound, Grows
<1>2. Credited(p) => Credited(p)'  BY <1>1 DEF Credited, IsCredit, Grows
<1>3. Spent(p, id) => Spent(p, id)'  BY Zenon, <1>1 DEF Spent, Grows
<1> QED  BY Zenon, <1>2, <1>3

LEMMA ShownIsOrdered ==
  ASSUME IndInv, NEW p \in Payments, Shown(p)  PROVE  payment[p].status # "none"
BY Zenon DEF IndInv, RowIsSound, Shown

LEMMA CreditedIsShown ==
  ASSUME IndInv, NEW p \in Payments, payment[p].status # "none", Credited(p)
  PROVE  Shown(p)
<1>1. PICK c \in Customers : c = payment[p].customer  BY Zenon DEF IndInv, RowIsSound
<1>2. PICK n \in DOMAIN ledger[c] : ledger[c][n].type = "credit" /\ ledger[c][n].key[2][1] = p
  BY Zenon, <1>1 DEF Credited, IsCredit
<1>3. EntryIsSound(c, n)  BY Zenon DEF IndInv
<1>4. PICK id \in charged : ledger[c][n].key = <<"credit", id>>
  BY Zenon, <1>2, <1>3 DEF EntryIsSound
<1>5. id[1] = p  BY <1>2, <1>4
<1> QED  BY Zenon, <1>5 DEF IndInv

LEMMA EntriesStay ==
  ASSUME IndInv, Grows, NEW c \in Customers, NEW n \in DOMAIN ledger[c]
  PROVE  EntryIsSound(c, n)'
<1>1. PICK p \in Payments :
        /\ payment[p].status # "none" /\ payment[p].customer = c
        /\ \/ /\ ledger[c][n].type = "credit"
              /\ \E id \in charged : id[1] = p /\ ledger[c][n].key = <<"credit", id>>
           \/ /\ ledger[c][n].type = "debit" /\ ledger[c][n].ref = p
              /\ \E x \in refunds : /\ x.id[1] = p /\ x.amount = ledger[c][n].amount
                                    /\ ledger[c][n].key = <<"refund", <<p, x.seq>> >>
  BY Zenon DEF IndInv, EntryIsSound
<1>2. ledger'[c][n] = ledger[c][n] /\ charged \subseteq charged' /\ refunds \subseteq refunds'
      /\ payment'[p].status # "none" /\ payment'[p].customer = c
  BY Zenon, <1>1 DEF Grows
<1> QED  BY Zenon, <1>1, <1>2 DEF EntryIsSound

LEMMA EventsStay ==
  ASSUME IndInv, Grows, NEW e \in hooks
  PROVE  EventIsSound(e)'
<1>1. EventIsSound(e) /\ e.id[1] \in Payments  BY Zenon DEF IndInv, TypeOK, Events, Ids
<1>2. payment[e.id[1]].status # "none"  BY Zenon, <1>1, ShownIsOrdered DEF EventIsSound
<1>3. PICK p \in Payments : p = e.id[1]  BY Zenon, <1>1
<1>4. Credited(p) => Credited(p)'  BY Zenon, <1>2, <1>3, CreditsStay
<1> QED  BY Zenon, <1>1, <1>2, <1>3, <1>4 DEF EventIsSound, Grows

(* A request that waits keeps what it knows, as long as nobody opens the   *)
(* checkout that it is opening and nobody writes the row that it locks.    *)
Undisturbed(k) ==
  /\ k.pc \in {"session", "store"} => checkout'[k.payment] = checkout[k.payment]
  /\ k.pc = "credit" => payment'[k.payment] = payment[k.payment]

LEMMA RequestsStay ==
  ASSUME IndInv, Grows, NEW k, RequestIsSound(k), Undisturbed(k)
  PROVE  RequestIsSound(k)'
<1>1. k.event # NoId => k.event \in hooks'  BY Zenon DEF RequestIsSound, Grows
<1>2. CASE k.pc = "idle"  BY Zenon, <1>1, <1>2 DEF RequestIsSound
<1>3. CASE k.pc # "idle"
  <2>1. PICK p \in Payments : p = k.payment /\ payment[p].status # "none"
    BY Zenon, <1>3 DEF RequestIsSound
  <2>2. Credited(p) => Credited(p)'  BY Zenon, <2>1, CreditsStay
  <2>3. payment'[p].amount = payment[p].amount /\ payment'[p].status # "none"
    BY Zenon, <2>1 DEF Grows
  <2>4. k.pc = "credit" => /\ PaidBy(p)' = PaidBy(p)
                           /\ payment'[p].status = payment[p].status
    BY Zenon, <2>1 DEF Undisturbed, PaidBy
  <2>5. charged \subseteq charged' /\ hooks \subseteq hooks'  BY Zenon DEF Grows
  <2> QED  BY Zenon, <1>1, <2>1, <2>2, <2>3, <2>4, <2>5 DEF RequestIsSound, Undisturbed
<1> QED  BY Zenon, <1>2, <1>3

LEMMA RowStays ==
  ASSUME IndInv, Grows, NEW p \in Payments, payment'[p] = payment[p],
         payment[p].status = "none" => checkout'[p] = "none",
         checkout'[p] = "captured" => <<p, 1>> \in charged',
         payment[p].status = "pending" => ~Credited(p)'
  PROVE  RowIsSound(p)'
<1>1. RowIsSound(p)  BY Zenon DEF IndInv
<1>2. PaidBy(p)' = PaidBy(p)  BY Zenon DEF PaidBy
<1>3. PICK id : id = PaidBy(p)  BY Zenon
<1>4. payment[p].status = "completed" => Spent(p, id)'
  BY Zenon, <1>1, <1>3, CreditsStay DEF RowIsSound
<1>5. payment[p].status = "refunded" => Credited(p)'
  BY Zenon, <1>1, CreditsStay DEF RowIsSound
<1>6. payment[p].status = "completed" => PaidBy(p)' \in Ids /\ Spent(p, PaidBy(p))'
  BY Zenon, <1>1, <1>2, <1>3, <1>4 DEF RowIsSound, Spent
<1>7. (Shown(p) => Shown(p)') /\ charged \subseteq charged'  BY Zenon DEF Grows
<1> QED  BY Zenon, <1>1, <1>5, <1>6, <1>7 DEF RowIsSound

(* A step keeps the invariant when what it adds is sound.                  *)
LEMMA StepKeeps ==
  ASSUME IndInv, Grows, TypeOK', BalanceMatchesLedger', IdempotencyKeyUnique',
         \A id \in charged' \ charged : Shown(id[1])',
         \A c \in Customers : \A n \in DOMAIN ledger'[c] \ DOMAIN ledger[c] : EntryIsSound(c, n)',
         \A p \in Payments : RowIsSound(p)',
         \A e \in hooks' \ hooks : EventIsSound(e)',
         \A r \in Requests : \/ RequestIsSound(request[r])'
                             \/ request'[r] = request[r] /\ Undisturbed(request[r]),
         OneAtATime'
  PROVE  IndInv'
<1>1. ASSUME NEW id \in charged' PROVE Shown(id[1])'
  <2>1. CASE id \in charged
    <3>1. PICK p \in Payments : p = id[1]  BY Zenon, <2>1 DEF IndInv, TypeOK, Ids
    <3> QED  BY Zenon, <2>1, <3>1 DEF IndInv, Grows
  <2> QED  BY Zenon, <2>1
<1>2. ASSUME NEW c \in Customers, NEW n \in DOMAIN ledger'[c] PROVE EntryIsSound(c, n)'
  BY Zenon, EntriesStay
<1>3. ASSUME NEW e \in hooks' PROVE EventIsSound(e)'
  BY Zenon, EventsStay
<1>4. ASSUME NEW r \in Requests PROVE RequestIsSound(request[r])'
  <2>1. CASE request'[r] = request[r] /\ Undisturbed(request[r])
    <3>1. PICK k : k = request[r]  BY Zenon
    <3>2. RequestIsSound(k)'  BY Zenon, <2>1, <3>1, RequestsStay DEF IndInv
    <3> QED  BY Zenon, <2>1, <3>1, <3>2
  <2> QED  BY Zenon, <2>1
<1> QED  BY Zenon, <1>1, <1>2, <1>3, <1>4 DEF IndInv

RequestRecords ==
  [pc: {"idle", "session", "store", "lock", "claim", "credit", "capture", "debit", "refund"},
   payment: Payments \cup {NoPayment}, id: Ids \cup {NoId},
   amount: PosAmounts \cup {0}, event: Events \cup {NoId}]

(* A request comes to k: it does not open what another opens, and does not *)
(* claim what another has claimed.                                         *)
Comes(r, k) ==
  /\ k \in RequestRecords
  /\ request' = [request EXCEPT ![r] = k]
  /\ k.pc \in {"session", "store"} =>
       \A q \in Requests \ {r} :
         request[q].pc \in {"session", "store"} => request[q].payment # k.payment
  /\ k.pc = "credit" => RowFree(k.payment)

LEMMA ComesKeeps ==
  ASSUME IndInv, NEW r \in Requests, NEW k, Comes(r, k)
  PROVE  /\ request' \in [Requests -> RequestRecords] /\ OneAtATime'
         /\ request'[r] = k /\ \A q \in Requests \ {r} : request'[q] = request[q]
<1>1. request \in [Requests -> RequestRecords]  BY Zenon DEF IndInv, TypeOK, RequestRecords
<1>2. request'[r] = k /\ \A q \in Requests \ {r} : request'[q] = request[q]
  BY Zenon, <1>1 DEF Comes
<1>3. OneAtATime'  BY <1>2 DEF IndInv, OneAtATime, Comes, RowFree
<1> QED  BY Zenon, <1>1, <1>2, <1>3 DEF Comes

(* The steps that write nothing but the locals of a request.               *)
LEMMA OnlyRequestMoves ==
  ASSUME IndInv, UNCHANGED <<ledgerVars, payment, gatewayVars>>,
         NEW r \in Requests, NEW k, Comes(r, k), RequestIsSound(k),
         answered' \subseteq hooks, faults' \in 0..MaxFaults
  PROVE  IndInv'
<1> USE DEF ledgerVars, gatewayVars
<1>1. Grows  BY Zenon, NothingIsTakenBack
<1>2. TypeOK'  BY Zenon, ComesKeeps DEF IndInv, TypeOK, LedgerTypeOK, RequestRecords
<1>3. BalanceMatchesLedger' /\ IdempotencyKeyUnique'  BY Zenon, LedgerUnchanged DEF IndInv
<1>4. ASSUME NEW p \in Payments PROVE RowIsSound(p)'
  <2>1. RowIsSound(p) /\ Credited(p)' = Credited(p)  BY Zenon DEF IndInv, Credited, IsCredit
  <2> QED  BY Zenon, <1>1, <2>1, RowStays DEF RowIsSound
<1>5. RequestIsSound(k)'
  BY Zenon DEF RequestIsSound, Credited, IsCredit, PaidBy
<1>6. ASSUME NEW q \in Requests
      PROVE  \/ RequestIsSound(request[q])'
             \/ request'[q] = request[q] /\ Undisturbed(request[q])
  BY Zenon, <1>5, ComesKeeps DEF Undisturbed
<1>7. OneAtATime'  BY Zenon, ComesKeeps
<1> QED
  BY Zenon, <1>1, <1>2, <1>3, <1>4, <1>6, <1>7, StepKeeps DEF IndInv

LEMMA InitInv ==
  ASSUME PaymentsAssumptions, Init  PROVE IndInv
<1> USE DEF Init, LedgerInit
<1>1. /\ NoRow.status = "none" /\ NoRow.gid = NoId /\ NoRow.capture = NoId
      /\ Idle.pc = "idle" /\ Idle.event = NoId
  BY Zenon DEF NoRow, Idle
<1>2. TypeOK
  <2>1. LedgerTypeOK  BY DEF LedgerTypeOK
  <2>2. 0 \in 0..MaxFaults  BY DEF PaymentsAssumptions, BoundsAssumption
  <2> QED  BY Zenon, <2>1, <2>2 DEF TypeOK, NoRow, Idle
<1>3. ASSUME NEW c \in Customers PROVE DOMAIN ledger[c] = {} /\ balance[c] = After(c, Len(ledger[c]))
  BY DEF After
<1>4. BalanceMatchesLedger /\ IdempotencyKeyUnique
  BY Zenon, <1>3 DEF BalanceMatchesLedger, IdempotencyKeyUnique
<1>6. \A p \in Payments : RowIsSound(p)
  BY Zenon, <1>1 DEF RowIsSound, Shown
<1>7. \A r \in Requests : RequestIsSound(request[r])  BY Zenon, <1>1 DEF RequestIsSound
<1>8. OneAtATime  BY Zenon, <1>1 DEF OneAtATime
<1> QED  BY Zenon, <1>2, <1>3, <1>4, <1>6, <1>7, <1>8 DEF IndInv

-----------------------------------------------------------------------------
(* Requests return, settle and claim.                                      *)

LEMMA ReturnComes ==
  ASSUME NEW r \in Requests, Return(r)
  PROVE  \E k : Comes(r, k) /\ RequestIsSound(k) /\ RequestIsSound(k)'
<1>1. Idle \in RequestRecords  BY Zenon DEF Idle, RequestRecords
<1>2. Idle.pc = "idle" /\ Idle.event = NoId  BY Zenon DEF Idle
<1>3. PICK k : k = Idle  BY Zenon
<1> QED  BY Zenon, <1>1, <1>2, <1>3 DEF Comes, Return, RequestIsSound

LEMMA AnswerIsTyped ==
  ASSUME IndInv, PaymentsAssumptions, NEW r \in Requests, Answer(r)
  PROVE  Return(r) /\ answered' \subseteq hooks /\ faults' \in 0..MaxFaults
<1>1. RequestIsSound(request[r]) /\ answered \subseteq hooks /\ faults \in 0..MaxFaults
  BY Zenon DEF IndInv, TypeOK
<1> QED  BY <1>1 DEF Answer, RequestIsSound, PaymentsAssumptions, BoundsAssumption

LEMMA ReturnInv ==
  ASSUME IndInv, UNCHANGED <<ledgerVars, payment, gatewayVars>>,
         NEW r \in Requests, Return(r), answered' \subseteq hooks, faults' \in 0..MaxFaults
  PROVE  IndInv'
BY Zenon, ReturnComes, OnlyRequestMoves

LEMMA SettleInv ==
  ASSUME IndInv, UNCHANGED <<ledgerVars, payment, gatewayVars, answered, faults>>,
         NEW r \in Requests, NEW p \in Payments, payment[p].status # "none",
         NEW id \in charged, id[1] = p, NEW e \in hooks \cup {NoId}, Settle(r, p, id, e)
  PROVE  IndInv'
<1>1. PICK k : k = [pc |-> "lock", payment |-> p, id |-> id, amount |-> payment[p].amount,
                    event |-> e]
  BY Zenon
<1>2. k \in RequestRecords  BY Zenon, <1>1 DEF IndInv, TypeOK, RequestRecords
<1>3. Comes(r, k)  BY Zenon, <1>1, <1>2 DEF Comes, Settle
<1>4. RequestIsSound(k)  BY Zenon, <1>1 DEF RequestIsSound
<1>5. answered' \subseteq hooks /\ faults' \in 0..MaxFaults  BY Zenon DEF IndInv, TypeOK
<1> QED  BY Zenon, <1>3, <1>4, <1>5, OnlyRequestMoves

LEMMA LockInv ==
  ASSUME IndInv, NEW r \in Requests, LockGatewayPaymentID(r)  PROVE IndInv'
<1>1. PICK k : k = [request[r] EXCEPT !.pc = "claim"]  BY Zenon
<1>2. request[r] \in RequestRecords /\ RequestIsSound(request[r]) /\ request[r].pc = "lock"
  BY Zenon DEF IndInv, TypeOK, RequestRecords, LockGatewayPaymentID
<1>3. /\ k \in RequestRecords /\ k.pc = "claim" /\ k.payment = request[r].payment
      /\ k.id = request[r].id /\ k.amount = request[r].amount /\ k.event = request[r].event
  BY Zenon, <1>1, <1>2 DEF RequestRecords
<1>4. Comes(r, k)  BY Zenon, <1>1, <1>3 DEF Comes, LockGatewayPaymentID
<1>5. RequestIsSound(k)  BY Zenon, <1>2, <1>3 DEF RequestIsSound
<1>6. answered' \subseteq hooks /\ faults' \in 0..MaxFaults
  BY Zenon DEF IndInv, TypeOK, LockGatewayPaymentID
<1> QED  BY Zenon, <1>4, <1>5, <1>6, OnlyRequestMoves DEF LockGatewayPaymentID

LEMMA ClaimInv ==
  ASSUME IndInv, PaymentsAssumptions, NEW r \in Requests, NEW ok \in BOOLEAN, ClaimIf(r, ok),
         request[r].pc = "claim",
         ok => \/ payment[request[r].payment].status = "pending"
               \/ /\ payment[request[r].payment].status = "completed"
                  /\ PaidBy(request[r].payment) = request[r].id
  PROVE IndInv'
<1>1. CASE ~ok  BY Zenon, <1>1, AnswerIsTyped, ReturnInv DEF ClaimIf
<1>2. CASE ok
  <2>1. PICK k : k = [request[r] EXCEPT !.pc = "credit"]  BY Zenon
  <2>2. request[r] \in RequestRecords /\ RequestIsSound(request[r])
    BY Zenon DEF IndInv, TypeOK, RequestRecords
  <2>3. /\ k \in RequestRecords /\ k.pc = "credit" /\ k.payment = request[r].payment
        /\ k.id = request[r].id /\ k.amount = request[r].amount /\ k.event = request[r].event
    BY Zenon, <2>1, <2>2 DEF RequestRecords
  <2>4. Comes(r, k)  BY Zenon, <1>2, <2>1, <2>3 DEF Comes, ClaimIf
  <2>5. RequestIsSound(k)  BY Zenon, <1>2, <2>2, <2>3 DEF RequestIsSound
  <2>6. answered' \subseteq hooks /\ faults' \in 0..MaxFaults
    BY Zenon, <1>2 DEF IndInv, TypeOK, ClaimIf
  <2> QED  BY Zenon, <2>4, <2>5, <2>6, OnlyRequestMoves DEF ClaimIf
<1> QED  BY Zenon, <1>1, <1>2

LEMMA ClaimsInv ==
  ASSUME IndInv, PaymentsAssumptions, NEW r \in Requests,
         ClaimGatewayPaymentTx(r) \/ ClaimPayPalCaptureTx(r)
  PROVE  IndInv'
<1>1. PICK p : p = request[r].payment  BY Zenon
<1>2. PICK id : id = request[r].id  BY Zenon
<1>3. request[r].pc = "claim"  BY Zenon DEF ClaimGatewayPaymentTx, ClaimPayPalCaptureTx
<1>4. /\ p \in Payments /\ id \in Ids
      /\ payment[p].status \in {"pending", "completed", "failed", "refunded"}
  BY SMTT(30), <1>1, <1>2, <1>3 DEF IndInv, RequestIsSound, TypeOK
<1>5. CASE ClaimGatewayPaymentTx(r)
  BY Zenon, <1>1, <1>2, <1>3, <1>4, <1>5, ClaimInv
     DEF ClaimGatewayPaymentTx, CanClaimLocalPayment, PaidBy
<1>6. CASE ClaimPayPalCaptureTx(r)
  BY Zenon, <1>1, <1>2, <1>3, <1>4, <1>6, ClaimInv
     DEF ClaimPayPalCaptureTx, CanClaimPayPalCapture, PaidBy
<1> QED  BY Zenon, <1>5, <1>6

(* The payment that an event is looked up for is the one it is about.      *)
LEMMA LookupFinds ==
  ASSUME IndInv, PaymentsAssumptions, NEW id \in Ids, NEW g, NEW p,
         \/ p \in LookupWebhookPayment(g, id)
         \/ p \in CryptoPaymentForCredit(g, id)
         \/ p \in ByGatewayID(g, id)
  PROVE  p = id[1]
<1>1. id[1] \in Payments /\ <<id[1], 0>> \in Ids /\ <<id[1], 0>>[1] = id[1]
  BY DEF Ids, PaymentsAssumptions, BoundsAssumption
<1>2. ASSUME NEW h, NEW i \in Ids, p \in ByGatewayID(h, i) PROVE p = i[1]
  <2>1. p \in Payments /\ payment[p].gid = i /\ i # NoId
    BY Zenon, <1>2 DEF ByGatewayID, PaymentsAssumptions, NoIdAssumption
  <2> QED  BY Zenon, <2>1 DEF IndInv, RowIsSound
<1> QED  BY Zenon, <1>1, <1>2 DEF LookupWebhookPayment, CryptoPaymentForCredit, ByCaptureOrOrder

LEMMA CompletedEventInv ==
  ASSUME IndInv, PaymentsAssumptions, NEW e \in hooks, NEW r \in Requests,
         HandlePaymentCompleted(r, e) \/ CreditFromPayment(r, e)
  PROVE  IndInv'
<1>1. e.id \in Ids /\ e.id[1] \in Payments /\ EventIsSound(e)
  BY Zenon DEF IndInv, TypeOK, Events, Ids
<1>2. e.id \in charged /\ payment[e.id[1]].status # "none"
  BY Zenon, <1>1, ShownIsOrdered DEF EventIsSound, HandlePaymentCompleted, CreditFromPayment
<1>3. Settle(r, e.id[1], e.id, e)
  BY Zenon, <1>1, LookupFinds DEF HandlePaymentCompleted, CreditFromPayment
<1>4. UNCHANGED <<ledgerVars, payment, gatewayVars, answered, faults>>
  BY Zenon DEF HandlePaymentCompleted, CreditFromPayment
<1> QED  BY Zenon, <1>1, <1>2, <1>3, <1>4, SettleInv

LEMMA RefundEventInv ==
  ASSUME IndInv, PaymentsAssumptions, NEW e \in hooks, NEW r \in Requests,
         HandleRefundCompleted(r, e)
  PROVE  IndInv'
<1>1. e \in Events /\ e.id \in Ids /\ e.id[1] \in Payments /\ e.amount \in PosAmounts
      /\ EventIsSound(e)
  BY Zenon DEF IndInv, TypeOK, Events, Ids
<1>2. payment[e.id[1]].status # "none"  BY Zenon, <1>1, ShownIsOrdered DEF EventIsSound
<1>3. PICK k : k = [pc |-> "debit", payment |-> e.id[1], id |-> e.id, amount |-> e.amount,
                    event |-> e]
  BY Zenon
<1>4. k \in RequestRecords  BY Zenon, <1>1, <1>3 DEF RequestRecords
<1>5. request' = [request EXCEPT ![r] = k]
  BY Zenon, <1>1, <1>3, LookupFinds DEF HandleRefundCompleted
<1>6. Comes(r, k)  BY Zenon, <1>3, <1>4, <1>5 DEF Comes
<1>7. RequestIsSound(k)
  BY Zenon, <1>1, <1>2, <1>3 DEF RequestIsSound, HandleRefundCompleted
<1>8. answered' \subseteq hooks /\ faults' \in 0..MaxFaults
  BY Zenon DEF IndInv, TypeOK, HandleRefundCompleted
<1> QED  BY Zenon, <1>6, <1>7, <1>8, OnlyRequestMoves DEF HandleRefundCompleted

LEMMA CaptureRequestInv ==
  ASSUME IndInv, PaymentsAssumptions, NEW r \in Requests, NEW p \in Payments,
         CapturePayPalOrder(r, p)
  PROVE  IndInv'
<1>1. payment[p].gid = <<p, 0>> /\ <<p, 0>> \in Ids /\ RowIsSound(p)
  BY DEF CapturePayPalOrder, ByGatewayID, IndInv, Ids, PaymentsAssumptions, BoundsAssumption
<1>2. payment[p].status # "none"
  BY Zenon, <1>1 DEF RowIsSound, Shown, PaymentsAssumptions, NoIdAssumption
<1>3. CASE CompletedPayPalCapture(p)
  <2>1. payment[p].capture \in charged /\ payment[p].capture[1] = p
    BY Zenon, <1>1, <1>3 DEF CompletedPayPalCapture, RowIsSound
  <2> QED  BY Zenon, <1>2, <1>3, <2>1, SettleInv DEF CapturePayPalOrder
<1>4. CASE ~CompletedPayPalCapture(p)
  <2>1. PICK k : k = [Idle EXCEPT !.pc = "capture", !.payment = p]  BY Zenon
  <2>2. k \in RequestRecords /\ k.pc = "capture" /\ k.payment = p /\ k.event = NoId
    BY Zenon, <2>1 DEF Idle, RequestRecords
  <2>3. Comes(r, k)  BY Zenon, <1>4, <2>1, <2>2 DEF Comes, CapturePayPalOrder
  <2>4. RequestIsSound(k)  BY Zenon, <1>2, <2>2 DEF RequestIsSound
  <2>5. answered' \subseteq hooks /\ faults' \in 0..MaxFaults
    BY Zenon DEF IndInv, TypeOK, CapturePayPalOrder
  <2> QED  BY Zenon, <2>3, <2>4, <2>5, OnlyRequestMoves DEF CapturePayPalOrder
<1> QED  BY Zenon, <1>3, <1>4

LEMMA RefundRequestInv ==
  ASSUME IndInv, PaymentsAssumptions, NEW r \in Requests, NEW p \in Payments,
         NEW a \in PosAmounts, RefundPayment(r, p, a)
  PROVE  IndInv'
<1>1. RowIsSound(p) /\ payment[p].status = "completed" /\ a <= payment[p].amount
  BY Zenon DEF IndInv, RefundPayment, ValidateRefund
<1>2. PICK id \in Ids : id = RefundGatewayPaymentID(p) /\ id[1] = p
  BY Zenon, <1>1 DEF RefundGatewayPaymentID, RowIsSound, IndInv, TypeOK, RefundPayment, ValidateRefund
<1>3. Credited(p)
  <2>1. PICK n \in DOMAIN ledger[payment[p].customer] :
          /\ ledger[payment[p].customer][n].type = "credit"
          /\ ledger[payment[p].customer][n].key = <<"credit", PaidBy(p)>>
    BY Zenon, <1>1 DEF RowIsSound, Spent
  <2>2. PaidBy(p)[1] = p
    BY Zenon, <1>1 DEF RowIsSound, PaidBy, PaymentsAssumptions, NoIdAssumption
  <2>3. ledger[payment[p].customer][n].key[2] = PaidBy(p)  BY ZenonT(60), <2>1, SecondOf
  <2> QED  BY Zenon, <2>1, <2>2, <2>3 DEF Credited, IsCredit
<1>4. PICK k : k = [Idle EXCEPT !.pc = "refund", !.payment = p, !.id = id, !.amount = a]
  BY Zenon
<1>5. /\ k \in RequestRecords /\ k.pc = "refund" /\ k.payment = p /\ k.event = NoId
      /\ k.id = id /\ k.amount = a
  BY Zenon, <1>4 DEF Idle, RequestRecords
<1>6. Comes(r, k)  BY Zenon, <1>2, <1>4, <1>5 DEF Comes, RefundPayment
<1>7. RequestIsSound(k)  BY Zenon, <1>1, <1>2, <1>3, <1>5 DEF RequestIsSound
<1>8. answered' \subseteq hooks /\ faults' \in 0..MaxFaults
  BY Zenon DEF IndInv, TypeOK, RefundPayment
<1> QED  BY Zenon, <1>6, <1>7, <1>8, OnlyRequestMoves DEF RefundPayment

LEMMA BreakOffInv ==
  ASSUME IndInv, PaymentsAssumptions, NEW r \in Requests, BreakOff(r) \/ CryptoRefund(r)
  PROVE  IndInv'
<1>1. answered' \subseteq hooks /\ faults' \in 0..MaxFaults
  BY DEF IndInv, TypeOK, BreakOff, CryptoRefund, PaymentsAssumptions, BoundsAssumption
<1> QED  BY Zenon, <1>1, ReturnInv DEF BreakOff, CryptoRefund

-----------------------------------------------------------------------------
(* The gateways.                                                           *)

Stages == {"none", "open", "shown", "approved", "held", "captured"}
Payouts == [id: Ids, seq: 1..MaxRefunds, amount: PosAmounts]

(* The steps that move the checkout of p to x, with charges C, refunds X   *)
(* and events H that are about p, and leave rows and ledger alone.         *)
LEMMA GatewayMoves ==
  ASSUME IndInv, UNCHANGED <<ledgerVars, payment, answered>>,
         NEW p \in Payments, payment[p].status # "none",
         NEW x \in Stages, checkout' = [checkout EXCEPT ![p] = x],
         Shown(p) => x \notin {"none", "open"}, x = "captured" => <<p, 1>> \in charged',
         NEW C \in SUBSET Ids, charged' = charged \cup C,
         \A id \in C : id[1] = p, C # {} => x \notin {"none", "open"},
         NEW X \in SUBSET Payouts, refunds' = refunds \cup X,
         NEW H \in SUBSET Events, hooks' = hooks \cup H, \A e \in H : EventIsSound(e)',
         request' \in [Requests -> RequestRecords], OneAtATime',
         \A r \in Requests : \/ RequestIsSound(request[r])'
                             \/ request'[r] = request[r] /\ Undisturbed(request[r]),
         faults' \in 0..MaxFaults
  PROVE  IndInv'
<1> USE DEF ledgerVars
<1>1. checkout \in [Payments -> Stages]  BY Zenon DEF IndInv, TypeOK, Stages
<1>2. checkout'[p] = x /\ \A q \in Payments \ {p} : checkout'[q] = checkout[q]
  BY Zenon, <1>1
<1>3. Grows  BY Zenon, <1>2 DEF Grows, Shown
<1>4. TypeOK'  BY Zenon, <1>1 DEF IndInv, TypeOK, LedgerTypeOK, RequestRecords, Stages, Payouts
<1>5. BalanceMatchesLedger' /\ IdempotencyKeyUnique'  BY Zenon, LedgerUnchanged DEF IndInv
<1>7. ASSUME NEW id \in charged' \ charged PROVE Shown(id[1])'  BY Zenon, <1>2 DEF Shown
<1>8. ASSUME NEW q \in Payments PROVE RowIsSound(q)'
  <2>1. RowIsSound(q) /\ Credited(q)' = Credited(q)  BY Zenon DEF IndInv, Credited, IsCredit
  <2> QED  BY SMTT(30), <1>2, <1>3, <2>1, RowStays DEF RowIsSound
<1> QED
  BY Zenon, <1>3, <1>4, <1>5, <1>7, <1>8, StepKeeps DEF IndInv

(* The same when no money moves.                                           *)
LEMMA CheckoutMoves ==
  ASSUME IndInv, UNCHANGED <<ledgerVars, payment, charged, refunds, answered>>,
         NEW p \in Payments, payment[p].status # "none",
         NEW x \in Stages \ {"captured"}, checkout' = [checkout EXCEPT ![p] = x],
         Shown(p) => x \notin {"none", "open"},
         NEW H \in SUBSET Events, hooks' = hooks \cup H, \A e \in H : EventIsSound(e)',
         request' \in [Requests -> RequestRecords], OneAtATime',
         \A r \in Requests : \/ RequestIsSound(request[r])'
                             \/ request'[r] = request[r] /\ Undisturbed(request[r]),
         faults' \in 0..MaxFaults
  PROVE  IndInv'
<1>1. PICK Z : Z = {}  BY Zenon
<1>2. /\ Z \in SUBSET Ids /\ Z \in SUBSET Payouts
      /\ charged' = charged \cup Z /\ refunds' = refunds \cup Z
      /\ \A id \in Z : id[1] = p
  BY Zenon, <1>1
<1>3. x \in Stages /\ x # "captured"  BY Zenon
<1>4. UNCHANGED <<ledgerVars, payment, answered>>  BY Zenon
<1> QED  BY Zenon, <1>1, <1>2, <1>3, <1>4, GatewayMoves

(* An amount survives its decimal form.                                    *)
LEMMA DecimalRoundTrip ==
  ASSUME NEW a \in Nat  PROVE decimalToCents(centsToDecimal(a)) = a
BY SMTT(30) DEF decimalToCents, centsToDecimal

(* A charge is reported as completed, with its identifier and the amount   *)
(* of its payment.                                                         *)
LEMMA ChargeReports ==
  ASSUME IndInv, PaymentsAssumptions, NEW p \in Payments, payment[p].status # "none",
         NEW id \in Ids, id[1] = p,
         NEW e \in EventsOf(payment[p].gateway, id), e.type \in EventTypes
  PROVE  e \in Events /\ e.type = "completed" /\ e.id = id
<1>1. payment[p].amount \in PosAmounts /\ payment[p].gateway \in Gateways
  BY Zenon DEF IndInv, RowIsSound
<1>2. \A n \in {1, 2} : Decimal(Completed(id, n)) = Completed(id, n)
  <2>1. \A a \in PosAmounts : a \in Nat  BY AmountsAssumption DEF PosAmounts
  <2> QED  BY SMTT(30), <1>1, <2>1, DecimalRoundTrip DEF Decimal, Completed
<1>3. e \in {Completed(id, 1), Completed(id, 2)}
  <2>1. /\ EventsOf("stripe", id) = StripeEvents(id)
        /\ EventsOf("paypal", id) = PayPalEvents(id)
        /\ EventsOf("btcpay", id) = BTCPayEvents(id)
        /\ EventsOf("nowpayments", id) = NOWPaymentsEvents(id)
    BY Zenon DEF EventsOf
  <2>2. payment[p].gateway \in {"stripe", "paypal", "btcpay", "nowpayments"}
    BY Zenon, <1>1 DEF PaymentsAssumptions, GatewaysAssumption
  <2> QED
    BY Zenon, <1>2, <2>1, <2>2 DEF StripeEvents, PayPalEvents, BTCPayEvents, NOWPaymentsEvents
<1>4. PICK n \in {1, 2} : e = [type |-> "completed", id |-> id, seq |-> n, amount |-> payment[p].amount]
  BY Zenon, <1>3 DEF Completed
<1> QED  BY SMTT(30), <1>1, <1>4 DEF Events

(* A checkout that is shown is not being opened by any request.            *)
LEMMA OthersWait ==
  ASSUME IndInv, UNCHANGED payment, NEW p \in Payments, Shown(p), NEW x,
         checkout' = [checkout EXCEPT ![p] = x], NEW r \in Requests
  PROVE  Undisturbed(request[r])
<1>1. RequestIsSound(request[r]) /\ checkout \in [Payments -> Stages]
  BY Zenon DEF IndInv, TypeOK, Stages
<1> QED  BY Zenon, <1>1 DEF RequestIsSound, Undisturbed, Shown

LEMMA ChargeMoves ==
  ASSUME IndInv, PaymentsAssumptions, UNCHANGED <<ledgerVars, payment, refunds, answered>>,
         NEW p \in Payments, Shown(p), NEW x \in Stages \ {"none", "open"},
         checkout' = [checkout EXCEPT ![p] = x],
         NEW id \in Ids, id[1] = p, Charge(p, id), x = "captured" => <<p, 1>> \in charged',
         request' \in [Requests -> RequestRecords], OneAtATime',
         \A r \in Requests : RequestIsSound(request[r])' \/ request'[r] = request[r],
         faults' \in 0..MaxFaults
  PROVE  IndInv'
<1>1. payment[p].status # "none"  BY Zenon, ShownIsOrdered
<1>2. PICK H : H = {e \in EventsOf(payment[p].gateway, id) : e.type \in EventTypes}  BY Zenon
<1>3. \A e \in H : e \in Events /\ e.type = "completed" /\ e.id = id
  BY SMTT(30), <1>1, <1>2, ChargeReports
<1>4. charged' = charged \cup {id} /\ hooks' = hooks \cup H  BY Zenon, <1>2 DEF Charge
<1>5. Shown(p)'  BY Zenon DEF Shown, IndInv, TypeOK
<1>6. \A e \in H : EventIsSound(e)'  BY Zenon, <1>3, <1>4, <1>5 DEF EventIsSound
<1>7. \A r \in Requests : \/ RequestIsSound(request[r])'
                          \/ request'[r] = request[r] /\ Undisturbed(request[r])
  BY Zenon, OthersWait
<1>8. PICK C, X : C = {id} /\ X = {}  BY Zenon
<1>9. /\ C \in SUBSET Ids /\ charged' = charged \cup C /\ \A i \in C : i[1] = p
      /\ X \in SUBSET Payouts /\ refunds' = refunds \cup X /\ H \in SUBSET Events
  BY Zenon, <1>3, <1>4, <1>8
<1>10. x \in Stages /\ x \notin {"none", "open"}  BY Zenon
<1> QED  BY Zenon, <1>1, <1>4, <1>6, <1>7, <1>9, <1>10, GatewayMoves

LEMMA PayInv ==
  ASSUME IndInv, PaymentsAssumptions, NEW p \in Payments, Pay(p)  PROVE IndInv'
<1>1. PICK n \in 0..MaxCharges : Charge(p, <<p, n>>)
  BY DEF Pay, PaymentsAssumptions, BoundsAssumption
<1>2. <<p, n>> \in Ids /\ <<p, n>>[1] = p  BY Zenon DEF Ids
<1>3. PICK i \in Ids : i[1] = p /\ Charge(p, i)  BY Zenon, <1>1, <1>2
<1>4. checkout[p] = "shown" /\ checkout' = checkout /\ Shown(p)  BY Zenon DEF Pay, Shown
<1>5. checkout' = [checkout EXCEPT ![p] = "shown"]  BY Zenon, <1>4 DEF IndInv, TypeOK
<1>6. request' \in [Requests -> RequestRecords] /\ faults' \in 0..MaxFaults
  BY Zenon DEF Pay, IndInv, TypeOK, RequestRecords
<1>7. OneAtATime' /\ request' = request  BY Zenon DEF Pay, IndInv, OneAtATime
<1> QED  BY Zenon, <1>3, <1>4, <1>5, <1>6, <1>7, ChargeMoves DEF Pay, Stages

LEMMA ReleaseInv ==
  ASSUME IndInv, PaymentsAssumptions, NEW p \in Payments, ReleaseCapture(p)  PROVE IndInv'
<1>1. Shown(p) /\ Charge(p, <<p, 1>>) /\ checkout' = [checkout EXCEPT ![p] = "captured"]
  BY Zenon DEF ReleaseCapture, Shown
<1>2. <<p, 1>> \in Ids /\ <<p, 1>>[1] = p  BY DEF Ids, PaymentsAssumptions, BoundsAssumption
<1>3. <<p, 1>> \in charged'  BY Zenon, <1>1 DEF Charge
<1>4. request' \in [Requests -> RequestRecords] /\ faults' \in 0..MaxFaults
  BY Zenon DEF ReleaseCapture, IndInv, TypeOK, RequestRecords
<1>5. OneAtATime' /\ request' = request  BY Zenon DEF ReleaseCapture, IndInv, OneAtATime
<1> QED  BY Zenon, <1>1, <1>2, <1>3, <1>4, <1>5, ChargeMoves DEF ReleaseCapture, Stages

LEMMA ApproveInv ==
  ASSUME IndInv, NEW p \in Payments, Approve(p)  PROVE IndInv'
<1>1. Shown(p) /\ checkout' = [checkout EXCEPT ![p] = "approved"]  BY Zenon DEF Approve, Shown
<1>2. payment[p].status # "none"  BY Zenon, <1>1, ShownIsOrdered
<1>3. \A r \in Requests : request'[r] = request[r] /\ Undisturbed(request[r])
  BY Zenon, <1>1, OthersWait DEF Approve
<1>4. request' \in [Requests -> RequestRecords] /\ faults' \in 0..MaxFaults
  BY Zenon DEF Approve, IndInv, TypeOK, RequestRecords
<1>5. OneAtATime'  BY Zenon DEF Approve, IndInv, OneAtATime
<1>6. UNCHANGED <<ledgerVars, payment, charged, refunds, answered>>  BY Zenon DEF Approve
<1>7. PICK H : H = {}  BY Zenon
<1>8. H \in SUBSET Events /\ hooks' = hooks \cup H /\ \A e \in H : EventIsSound(e)'
  BY Zenon, <1>7 DEF Approve
<1>9. "approved" \in Stages \ {"captured"}  BY Zenon DEF Stages
<1> QED  BY Zenon, <1>1, <1>2, <1>3, <1>4, <1>5, <1>6, <1>8, <1>9, CheckoutMoves

LEMMA DeclineInv ==
  ASSUME IndInv, NEW p \in Payments, Decline(p), PaymentsAssumptions  PROVE IndInv'
<1>1. Shown(p) /\ checkout' = checkout /\ checkout[p] = "shown"  BY Zenon DEF Decline, Shown
<1>2. payment[p].status # "none"  BY Zenon, <1>1, ShownIsOrdered
<1>3. checkout' = [checkout EXCEPT ![p] = "shown"]  BY Zenon, <1>1 DEF IndInv, TypeOK
<1>4. PICK e : e = [type |-> "failed", id |-> <<p, 1>>, seq |-> 1, amount |-> payment[p].amount]
  BY Zenon
<1>5. e \in Events
  <2>1. payment[p].amount \in PosAmounts  BY Zenon, <1>2 DEF IndInv, RowIsSound
  <2>2. <<p, 1>> \in Ids  BY DEF Ids, PaymentsAssumptions, BoundsAssumption
  <2> QED  BY SMTT(30), <1>4, <2>1, <2>2 DEF Events, Decline
<1>6. EventIsSound(e)'  BY Zenon, <1>1, <1>4 DEF EventIsSound, Shown
<1>7. hooks' = hooks \cup {e}  BY Zenon, <1>4 DEF Decline
<1>8. \A r \in Requests : request'[r] = request[r] /\ Undisturbed(request[r])
  BY Zenon, <1>1, <1>3, OthersWait DEF Decline
<1>9. request' \in [Requests -> RequestRecords] /\ faults' \in 0..MaxFaults
  BY Zenon DEF Decline, IndInv, TypeOK, RequestRecords
<1>10. OneAtATime'  BY Zenon DEF Decline, IndInv, OneAtATime
<1>11. UNCHANGED <<ledgerVars, payment, charged, refunds, answered>>  BY Zenon DEF Decline
<1>12. PICK H : H = {e}  BY Zenon
<1>13. H \in SUBSET Events /\ hooks' = hooks \cup H /\ \A f \in H : EventIsSound(f)'
  BY Zenon, <1>5, <1>6, <1>7, <1>12
<1>14. "shown" \in Stages \ {"captured"}  BY Zenon DEF Stages
<1> QED
  BY Zenon, <1>2, <1>3, <1>8, <1>9, <1>10, <1>11, <1>13, <1>14, CheckoutMoves

LEMMA OpenInv ==
  ASSUME IndInv, NEW r \in Requests, NEW g, OpenSession(r, g)  PROVE IndInv'
<1>1. request[r] \in RequestRecords /\ RequestIsSound(request[r]) /\ request[r].pc = "session"
  BY Zenon DEF IndInv, TypeOK, RequestRecords, OpenSession
<1>2. PICK p \in Payments : p = request[r].payment /\ payment[p].status # "none"
  BY Zenon, <1>1 DEF RequestIsSound
<1>3. checkout[p] = "none" /\ checkout' = [checkout EXCEPT ![p] = "open"]
  BY Zenon, <1>1, <1>2 DEF RequestIsSound, OpenSession
<1>4. PICK k : k = [request[r] EXCEPT !.pc = "store"]  BY Zenon
<1>5. /\ k \in RequestRecords /\ k.pc = "store" /\ k.payment = p /\ k.event = request[r].event
  BY Zenon, <1>1, <1>2, <1>4 DEF RequestRecords
<1>6. \A q \in Requests \ {r} :
        request[q].pc \in {"session", "store"} => request[q].payment # p
  BY Zenon, <1>1, <1>2 DEF IndInv, OneAtATime
<1>7. Comes(r, k)  BY Zenon, <1>4, <1>5, <1>6 DEF Comes, OpenSession
<1>8. checkout'[p] = "open" /\ \A q \in Payments \ {p} : checkout'[q] = checkout[q]
  BY Zenon, <1>3 DEF IndInv, TypeOK
<1>9. RequestIsSound(k)'
  BY Zenon, <1>1, <1>2, <1>5, <1>8 DEF RequestIsSound, OpenSession
<1>10. ASSUME NEW q \in Requests
       PROVE  \/ RequestIsSound(request[q])'
              \/ request'[q] = request[q] /\ Undisturbed(request[q])
  <2>1. CASE q = r  BY Zenon, <1>7, <1>9, <2>1, ComesKeeps
  <2>2. CASE q # r
    <3>1. request[q].pc # "idle" => request[q].payment \in Payments
      BY Zenon DEF IndInv, RequestIsSound
    <3>2. Undisturbed(request[q])
      BY Zenon, <1>6, <1>8, <2>2, <3>1 DEF Undisturbed, OpenSession
    <3> QED  BY Zenon, <1>7, <2>2, <3>2, ComesKeeps
  <2> QED  BY Zenon, <2>1, <2>2
<1>11. UNCHANGED <<ledgerVars, payment, charged, refunds, answered>>  BY Zenon DEF OpenSession
<1>12. PICK H : H = {}  BY Zenon
<1>13. H \in SUBSET Events /\ hooks' = hooks \cup H /\ \A f \in H : EventIsSound(f)'
  BY Zenon, <1>12 DEF OpenSession
<1>14. "open" \in Stages \ {"captured"} /\ ~Shown(p)  BY Zenon, <1>3 DEF Stages, Shown
<1>15. request' \in [Requests -> RequestRecords] /\ OneAtATime' /\ faults' \in 0..MaxFaults
  BY Zenon, <1>7, ComesKeeps DEF IndInv, TypeOK, OpenSession
<1> QED
  BY Zenon, <1>2, <1>3, <1>10, <1>11, <1>13, <1>14, <1>15, CheckoutMoves

(* CaptureOrder, when PayPal captures: the money is taken and the request  *)
(* settles it or breaks off.                                               *)
LEMMA CapturedInv ==
  ASSUME IndInv, PaymentsAssumptions, NEW r \in Requests, NEW p \in Payments, Shown(p),
         checkout' = [checkout EXCEPT ![p] = "captured"], Charge(p, <<p, 1>>),
         Settle(r, p, <<p, 1>>, NoId) \/ Return(r), faults' \in 0..MaxFaults,
         UNCHANGED <<ledgerVars, payment, refunds, answered>>
  PROVE  IndInv'
<1>1. <<p, 1>> \in Ids /\ <<p, 1>>[1] = p  BY DEF Ids, PaymentsAssumptions, BoundsAssumption
<1>2. <<p, 1>> \in charged'  BY Zenon DEF Charge
<1>3. payment[p].status # "none"  BY Zenon, ShownIsOrdered
<1>4. PICK k : Comes(r, k) /\ RequestIsSound(k)'
  <2>1. CASE Return(r)  BY Zenon, <2>1, ReturnComes
  <2>2. CASE Settle(r, p, <<p, 1>>, NoId)
    <3>1. PICK k : k = [pc |-> "lock", payment |-> p, id |-> <<p, 1>>,
                        amount |-> payment[p].amount, event |-> NoId]
      BY Zenon
    <3>2. k \in RequestRecords  BY Zenon, <1>1, <3>1 DEF IndInv, TypeOK, RequestRecords
    <3>3. Comes(r, k)  BY Zenon, <2>2, <3>1, <3>2 DEF Comes, Settle
    <3>4. RequestIsSound(k)'  BY Zenon, <1>1, <1>2, <1>3, <3>1 DEF RequestIsSound
    <3> QED  BY Zenon, <3>3, <3>4
  <2> QED  BY Zenon, <2>1, <2>2
<1>5. /\ request' \in [Requests -> RequestRecords] /\ OneAtATime'
      /\ \A q \in Requests : RequestIsSound(request[q])' \/ request'[q] = request[q]
  BY Zenon, <1>4, ComesKeeps
<1> QED  BY Zenon, <1>1, <1>2, <1>5, ChargeMoves DEF Stages

LEMMA CaptureInv ==
  ASSUME IndInv, PaymentsAssumptions, NEW r \in Requests, CaptureOrder(r)  PROVE IndInv'
<1>1. PICK p \in Payments : p = request[r].payment /\ payment[p].status # "none"
  BY Zenon DEF CaptureOrder, IndInv, RequestIsSound
<1>2. faults \in 0..MaxFaults /\ (faults < MaxFaults => faults + 1 \in 0..MaxFaults)
      /\ answered \subseteq hooks
  BY DEF IndInv, TypeOK, PaymentsAssumptions, BoundsAssumption
<1>3. UNCHANGED <<ledgerVars, payment, refunds, answered>>  BY Zenon DEF CaptureOrder
<1>4. CASE checkout[p] = "approved"
  <2>1. Shown(p)  BY Zenon, <1>4 DEF Shown
  <2>2. CASE checkout' = [checkout EXCEPT ![p] = "captured"] /\ Charge(p, <<p, 1>>)
              /\ \/ Settle(r, p, <<p, 1>>, NoId) /\ UNCHANGED faults
                 \/ faults < MaxFaults /\ faults' = faults + 1 /\ Return(r)
    BY Zenon, <1>2, <1>3, <2>1, <2>2, CapturedInv
  <2>3. CASE checkout' = [checkout EXCEPT ![p] = "held"] /\ Return(r)
              /\ UNCHANGED <<charged, hooks, faults>>
    <3>1. /\ request' \in [Requests -> RequestRecords] /\ OneAtATime'
          /\ \A q \in Requests : RequestIsSound(request[q])' \/ request'[q] = request[q]
      BY Zenon, <2>3, ReturnComes, ComesKeeps
    <3>2. \A q \in Requests : \/ RequestIsSound(request[q])'
                              \/ request'[q] = request[q] /\ Undisturbed(request[q])
      BY Zenon, <1>3, <2>1, <2>3, <3>1, OthersWait
    <3>3. PICK H : H = {}  BY Zenon
    <3>4. H \in SUBSET Events /\ hooks' = hooks \cup H /\ \A f \in H : EventIsSound(f)'
      BY Zenon, <2>3, <3>3
    <3>5. "held" \in Stages \ {"captured"}  BY Zenon DEF Stages
    <3> QED  BY Zenon, <1>1, <1>2, <1>3, <2>3, <3>1, <3>2, <3>4, <3>5, CheckoutMoves
  <2> QED  BY Zenon, <1>1, <1>4, <2>2, <2>3 DEF CaptureOrder
<1>5. CASE checkout[p] = "captured"
  <2>1. <<p, 1>> \in charged /\ <<p, 1>>[1] = p  BY Zenon, <1>5 DEF IndInv, RowIsSound
  <2>2. Settle(r, p, <<p, 1>>, NoId) /\ UNCHANGED <<gatewayVars, faults>>
    BY Zenon, <1>1, <1>5 DEF CaptureOrder, gatewayVars
  <2> QED  BY Zenon, <1>1, <1>3, <2>1, <2>2, SettleInv
<1>6. CASE checkout[p] \notin {"approved", "captured"}
  <2>1. Return(r) /\ UNCHANGED <<gatewayVars, faults>>
    BY Zenon, <1>1, <1>6 DEF CaptureOrder, gatewayVars
  <2> QED  BY Zenon, <1>2, <1>3, <2>1, ReturnInv
<1> QED  BY Zenon, <1>4, <1>5, <1>6

LEMMA PayOutInv ==
  ASSUME IndInv, PaymentsAssumptions, NEW r \in Requests, request[r].pc = "refund", PayOut(r)
  PROVE  IndInv'
<1>1. RequestIsSound(request[r])  BY Zenon DEF IndInv
<1>2. PICK p \in Payments : p = request[r].payment /\ payment[p].status # "none"
  BY Zenon, <1>1 DEF RequestIsSound
<1>3. UNCHANGED <<ledgerVars, payment, checkout, charged, answered, faults>> /\ Return(r)
  BY Zenon DEF PayOut
<1>4. answered \subseteq hooks /\ faults \in 0..MaxFaults  BY Zenon DEF IndInv, TypeOK
<1>5. CASE UNCHANGED <<refunds, hooks>>
  <2>1. UNCHANGED <<ledgerVars, payment, gatewayVars>>  BY Zenon, <1>3, <1>5 DEF gatewayVars
  <2> QED  BY Zenon, <1>3, <1>4, <2>1, ReturnInv
<1>6. CASE ~UNCHANGED <<refunds, hooks>>
  <2>2. PICK i : i = request[r].id  BY Zenon
  <2>3. PICK a : a = request[r].amount  BY Zenon
  <2>1. PICK n \in 1..MaxRefunds :
          /\ refunds' = refunds \cup {[id |-> i, seq |-> n, amount |-> a]}
          /\ hooks' = hooks \cup
               ({[type |-> "refunded", id |-> i, seq |-> n, amount |-> a]} \cap Events)
    BY Zenon, <1>6, <2>2, <2>3 DEF PayOut
  <2>4. PICK x : x = [id |-> i, seq |-> n, amount |-> a]  BY Zenon
  <2>5. PICK e : e = [type |-> "refunded", id |-> i, seq |-> n, amount |-> a]  BY Zenon
  <2>6. refunds' = refunds \cup {x} /\ hooks' = hooks \cup ({e} \cap Events)
    BY Zenon, <2>1, <2>4, <2>5
  <2>7. /\ i \in Ids /\ i[1] = p /\ Credited(p) /\ a \in PosAmounts /\ a <= payment[p].amount
    BY Zenon, <1>1, <1>2, <2>2, <2>3 DEF RequestIsSound
  <2>8. x \in Payouts  BY Zenon, <2>4, <2>7 DEF Payouts
  <2>9. Shown(p)
    BY Zenon, <1>2, <2>7, CreditedIsShown
  <2>10. EventIsSound(e)'
    <3>1. Credited(p)' /\ Shown(p)'
      BY Zenon, <1>3, <2>7, <2>9 DEF Credited, IsCredit, Shown, ledgerVars
    <3> QED  BY SMTT(30), <1>3, <2>4, <2>5, <2>6, <2>7, <3>1 DEF EventIsSound
  <2>11. PICK H : H = {e} \cap Events  BY Zenon
  <2>12. H \in SUBSET Events /\ hooks' = hooks \cup H /\ \A f \in H : EventIsSound(f)'
    BY Zenon, <2>6, <2>10, <2>11
  <2>13. PICK X : X = {x}  BY Zenon
  <2>14. X \in SUBSET Payouts /\ refunds' = refunds \cup X
    BY Zenon, <2>6, <2>8, <2>13
  <2>15. PICK C : C = {}  BY Zenon
  <2>16. C \in SUBSET Ids /\ charged' = charged \cup C /\ \A id \in C : id[1] = p
    BY Zenon, <1>3, <2>15
  <2>17. PICK s : s = checkout[p]  BY Zenon
  <2>18. /\ s \in Stages /\ checkout' = [checkout EXCEPT ![p] = s]
         /\ s \notin {"none", "open"} /\ (s = "captured" => <<p, 1>> \in charged')
    BY SMTT(30), <1>3, <2>9, <2>17 DEF IndInv, TypeOK, Stages, Shown, RowIsSound
  <2>19. /\ request' \in [Requests -> RequestRecords] /\ OneAtATime'
         /\ \A q \in Requests : RequestIsSound(request[q])' \/ request'[q] = request[q]
    BY Zenon, <1>3, ReturnComes, ComesKeeps
  <2>20. \A q \in Requests : \/ RequestIsSound(request[q])'
                             \/ request'[q] = request[q] /\ Undisturbed(request[q])
    BY Zenon, <1>3, <2>9, <2>18, <2>19, OthersWait
  <2>21. UNCHANGED <<ledgerVars, payment, answered>> /\ faults' \in 0..MaxFaults
    BY Zenon, <1>3, <1>4
  <2> QED
    BY ZenonT(60), <1>2, <2>12, <2>14, <2>16, <2>18, <2>19, <2>20, <2>21, GatewayMoves
<1> QED  BY Zenon, <1>5, <1>6

-----------------------------------------------------------------------------
(* The steps that write a row of the payments table.                       *)

RowRecords ==
  [status: {"none", "pending", "completed", "failed", "refunded"},
   gateway: Gateways \cup {"none"}, customer: Customers \cup {NoPayment},
   amount: PosAmounts \cup {0}, gid: Ids \cup {NoId}, capture: Ids \cup {NoId}]

(* r keeps its place and is not opening the checkout of p if that moves.   *)
Waits(r, p) ==
  /\ request'[r] = request[r]
  /\ checkout' = checkout \/ ~(request[r].pc \in {"session", "store"} /\ request[r].payment = p)

(* A write that leaves the ledger and the gateways alone: the row of p     *)
(* becomes w, which nobody has claimed.                                    *)
LEMMA RowWrite ==
  ASSUME IndInv, UNCHANGED <<ledgerVars, charged, refunds, hooks>>,
         NEW p \in Payments, NEW w \in RowRecords, payment' = [payment EXCEPT ![p] = w],
         RowFree(p), RowIsSound(p)', w.status # "none",
         payment[p].status # "none" => /\ w.customer = payment[p].customer
                                       /\ w.amount = payment[p].amount
                                       /\ w.gateway = payment[p].gateway,
         checkout' \in [Payments -> Stages], Shown(p) => Shown(p)',
         \A q \in Payments \ {p} : checkout'[q] = checkout[q],
         request' \in [Requests -> RequestRecords], OneAtATime',
         \A r \in Requests : RequestIsSound(request[r])' \/ Waits(r, p),
         answered' \subseteq hooks, faults' \in 0..MaxFaults
  PROVE  IndInv'
<1> USE DEF ledgerVars
<1>1. payment \in [Payments -> RowRecords]  BY Zenon DEF IndInv, TypeOK, RowRecords
<1>2. payment'[p] = w /\ \A q \in Payments \ {p} : payment'[q] = payment[q]  BY Zenon, <1>1
<1>3. Grows  BY Zenon, <1>2 DEF Grows, Shown
<1>4. TypeOK'
  BY Zenon, <1>1 DEF IndInv, TypeOK, LedgerTypeOK, RequestRecords, Stages, RowRecords
<1>5. BalanceMatchesLedger' /\ IdempotencyKeyUnique'  BY Zenon, LedgerUnchanged DEF IndInv
<1>6. ASSUME NEW q \in Payments PROVE RowIsSound(q)'
  <2>1. CASE q # p
    <3>1. RowIsSound(q)  BY Zenon DEF IndInv
    <3>2. payment'[q] = payment[q] /\ checkout'[q] = checkout[q] /\ ledger' = ledger
          /\ charged' = charged
      BY Zenon, <1>2, <2>1
    <3>3. Credited(q)' => Credited(q)  BY Zenon, <3>2 DEF Credited, IsCredit
    <3>4. /\ payment[q].status = "none" => checkout'[q] = "none"
          /\ checkout'[q] = "captured" => <<q, 1>> \in charged'
          /\ payment[q].status = "pending" => ~Credited(q)'
      BY Zenon, <3>1, <3>2, <3>3 DEF RowIsSound
    <3> QED  BY Zenon, <1>3, <3>2, <3>4, RowStays
  <2> QED  BY Zenon, <2>1
<1>7. ASSUME NEW r \in Requests
      PROVE  \/ RequestIsSound(request[r])'
             \/ request'[r] = request[r] /\ Undisturbed(request[r])
  <2>1. request[r].pc # "idle" => request[r].payment \in Payments
    BY Zenon DEF IndInv, RequestIsSound
  <2>2. request[r].pc = "credit" => request[r].payment # p  BY Zenon DEF RowFree
  <2> QED  BY Zenon, <1>2, <2>1, <2>2 DEF Undisturbed, Waits
<1> QED
  BY Zenon, <1>3, <1>4, <1>5, <1>6, <1>7, StepKeeps DEF IndInv

LEMMA InitiateInv ==
  ASSUME IndInv, PaymentsAssumptions, NEW r \in Requests, NEW p \in Payments, NEW c \in Customers,
         NEW g \in Gateways, NEW a \in PosAmounts, InitiateTopUp(r, p, c, g, a)
  PROVE  IndInv'
<1>1. PICK w : w = [NoRow EXCEPT !.status = "pending", !.gateway = g, !.customer = c, !.amount = a]
  BY Zenon
<1>2. /\ w \in RowRecords /\ w.status = "pending" /\ w.gateway = g /\ w.customer = c
      /\ w.amount = a /\ w.gid = NoId /\ w.capture = NoId
  BY Zenon, <1>1 DEF RowRecords, NoRow
<1>3. payment' = [payment EXCEPT ![p] = w] /\ payment[p].status = "none"
  BY Zenon, <1>1 DEF InitiateTopUp
<1>4. payment'[p] = w  BY Zenon, <1>3 DEF IndInv, TypeOK
<1>5. checkout[p] = "none" /\ checkout' = checkout
  BY Zenon, <1>3 DEF IndInv, RowIsSound, InitiateTopUp, gatewayVars
<1>6. \A q \in Requests : request[q].pc # "idle" => request[q].payment # p
  BY Zenon, <1>3 DEF IndInv, RequestIsSound
<1>7. RowFree(p)  BY Zenon, <1>6 DEF RowFree
<1>8. ~Credited(p)'
  <2>1. SUFFICES ASSUME NEW n \in DOMAIN ledger[c], ledger[c][n].type = "credit",
                        ledger[c][n].key[2][1] = p
                 PROVE FALSE
    BY Zenon, <1>2, <1>4 DEF Credited, IsCredit, InitiateTopUp, ledgerVars
  <2>2. EntryIsSound(c, n)  BY Zenon DEF IndInv
  <2>3. PICK q \in Payments, id \in charged :
          payment[q].status # "none" /\ id[1] = q /\ ledger[c][n].key = <<"credit", id>>
    BY Zenon, <2>1, <2>2 DEF EntryIsSound
  <2> QED  BY SMTT(30), <1>3, <2>1, <2>3
<1>9. RowIsSound(p)'
  BY Zenon, <1>2, <1>4, <1>5, <1>8 DEF RowIsSound, Shown
<1>10. PICK k : k = [Idle EXCEPT !.pc = "session", !.payment = p]  BY Zenon
<1>11. k \in RequestRecords /\ k.pc = "session" /\ k.payment = p /\ k.event = NoId
  BY Zenon, <1>10 DEF Idle, RequestRecords
<1>12. Comes(r, k)  BY Zenon, <1>6, <1>10, <1>11 DEF Comes, InitiateTopUp
<1>13. RequestIsSound(k)'
  BY Zenon, <1>2, <1>4, <1>5, <1>11 DEF RequestIsSound
<1>14. /\ request' \in [Requests -> RequestRecords] /\ OneAtATime'
       /\ \A q \in Requests : RequestIsSound(request[q])' \/ Waits(q, p)
  BY Zenon, <1>5, <1>12, <1>13, ComesKeeps DEF Waits
<1>15. UNCHANGED <<ledgerVars, charged, refunds, hooks>> /\ answered' \subseteq hooks
       /\ faults' \in 0..MaxFaults /\ checkout' \in [Payments -> Stages]
  BY Zenon DEF InitiateTopUp, gatewayVars, IndInv, TypeOK, Stages
<1>16. ~Shown(p) /\ \A q \in Payments \ {p} : checkout'[q] = checkout[q]  BY Zenon, <1>5 DEF Shown
<1> QED
  BY Zenon, <1>2, <1>3, <1>7, <1>9, <1>14, <1>15, <1>16, RowWrite

LEMMA StoreInv ==
  ASSUME IndInv, PaymentsAssumptions, NEW r \in Requests, StoreSessionID(r)  PROVE IndInv'
<1>1. RequestIsSound(request[r]) /\ request[r].pc = "store"  BY Zenon DEF IndInv, StoreSessionID
<1>2. PICK p \in Payments : p = request[r].payment /\ checkout[p] = "open" /\ ~Shown(p)
                             /\ payment[p].status = "pending" /\ payment[p].gid = NoId
  BY Zenon, <1>1 DEF RequestIsSound, IndInv, RowIsSound, Shown
<1>3. /\ checkout' = [checkout EXCEPT ![p] = "shown"] /\ Return(r)
      /\ UNCHANGED <<ledgerVars, charged, refunds, hooks, answered>>
  BY Zenon, <1>2 DEF StoreSessionID
<1>4. /\ request' \in [Requests -> RequestRecords] /\ OneAtATime'
      /\ RequestIsSound(request[r])' /\ \A q \in Requests \ {r} : request'[q] = request[q]
  BY Zenon, <1>3, ReturnComes, ComesKeeps
<1>5. \A q \in Requests \ {r} :
        request[q].pc \in {"session", "store"} => request[q].payment # p
  BY Zenon, <1>1, <1>2 DEF IndInv, OneAtATime
<1>6. /\ checkout' \in [Payments -> Stages] /\ checkout'[p] = "shown" /\ Shown(p)'
      /\ \A q \in Payments \ {p} : checkout'[q] = checkout[q]
  BY Zenon, <1>3 DEF IndInv, TypeOK, Stages, Shown
<1>7. answered' \subseteq hooks /\ faults' \in 0..MaxFaults
  BY SMTT(30), <1>3 DEF StoreSessionID, IndInv, TypeOK, PaymentsAssumptions, BoundsAssumption
<1>8. payment[p] \in RowRecords /\ RowIsSound(p)  BY Zenon DEF IndInv, TypeOK, RowRecords
<1>9. CASE UpdateStatus(p, "pending", <<p, 0>>)
  <2>1. PICK w : w = [payment[p] EXCEPT !.status = "pending", !.gid = <<p, 0>>]  BY Zenon
  <2>2. <<p, 0>> \in Ids /\ <<p, 0>>[1] = p  BY DEF Ids, PaymentsAssumptions, BoundsAssumption
  <2>3. /\ w \in RowRecords /\ w.status = "pending" /\ w.gid = <<p, 0>>
        /\ w.gateway = payment[p].gateway /\ w.customer = payment[p].customer
        /\ w.amount = payment[p].amount /\ w.capture = payment[p].capture
    BY Zenon, <1>8, <2>1, <2>2 DEF RowRecords
  <2>4. payment' = [payment EXCEPT ![p] = w] /\ RowFree(p)
    BY Zenon, <1>9, <2>1 DEF UpdateStatus, IndInv, TypeOK
  <2>5. payment'[p] = w  BY Zenon, <2>4 DEF IndInv, TypeOK
  <2>6. ~Credited(p)'
    <3>1. ~Credited(p)  BY Zenon, <1>2, <1>8 DEF RowIsSound
    <3>2. payment'[p].customer = payment[p].customer /\ ledger' = ledger
      BY Zenon, <1>3, <2>3, <2>5 DEF ledgerVars
    <3> QED  BY Zenon, <3>1, <3>2 DEF Credited, IsCredit
  <2>7. RowIsSound(p)'
    BY Zenon, <1>2, <1>3, <1>6, <1>8, <2>2, <2>3, <2>5, <2>6 DEF RowIsSound
  <2>8. \A q \in Requests : RequestIsSound(request[q])' \/ Waits(q, p)
    BY Zenon, <1>4, <1>5 DEF Waits
  <2>9. UNCHANGED <<ledgerVars, charged, refunds, hooks>>  BY Zenon, <1>3
  <2> QED
    BY Zenon, <1>4, <1>6, <1>7, <2>3, <2>4, <2>7, <2>8, <2>9, RowWrite
<1>10. CASE UNCHANGED payment
  <2>1. \A q \in Requests : \/ RequestIsSound(request[q])'
                            \/ request'[q] = request[q] /\ Undisturbed(request[q])
    <3>1. ASSUME NEW q \in Requests \ {r} PROVE Undisturbed(request[q])
      <4>1. request[q].pc # "idle" => request[q].payment \in Payments
        BY Zenon DEF IndInv, RequestIsSound
      <4> QED  BY Zenon, <1>5, <1>6, <1>10, <4>1 DEF Undisturbed
    <3> QED  BY Zenon, <1>4, <3>1
  <2>2. PICK H : H = {}  BY Zenon
  <2>3. H \in SUBSET Events /\ hooks' = hooks \cup H /\ \A f \in H : EventIsSound(f)'
    BY Zenon, <1>3, <2>2
  <2>4. "shown" \in Stages \ {"captured"}  BY Zenon DEF Stages
  <2> QED  BY Zenon, <1>2, <1>3, <1>4, <1>7, <1>10, <2>1, <2>3, <2>4, CheckoutMoves
<1> QED  BY Zenon, <1>2, <1>9, <1>10 DEF StoreSessionID

LEMMA FailedEventInv ==
  ASSUME IndInv, NEW e \in hooks, HandlePaymentFailed(e)  PROVE IndInv'
<1>1. PICK p \in Payments : p = e.id[1] /\ e.id \in Ids /\ Shown(p)
  BY Zenon DEF IndInv, TypeOK, Events, Ids, EventIsSound
<1>2. payment[p].status # "none" /\ payment[p] \in RowRecords /\ RowIsSound(p)
  BY Zenon, <1>1, ShownIsOrdered DEF IndInv, TypeOK, RowRecords
<1>3. PICK w : w = [payment[p] EXCEPT !.status = "failed", !.gid = e.id]  BY Zenon
<1>4. /\ w \in RowRecords /\ w.status = "failed" /\ w.gid = e.id
      /\ w.gateway = payment[p].gateway /\ w.customer = payment[p].customer
      /\ w.amount = payment[p].amount /\ w.capture = payment[p].capture
  BY Zenon, <1>1, <1>2, <1>3 DEF RowRecords
<1>5. payment' = [payment EXCEPT ![p] = w] /\ RowFree(p)
  BY Zenon, <1>1, <1>3 DEF HandlePaymentFailed, UpdateStatus, IndInv, TypeOK
<1>6. payment'[p] = w  BY Zenon, <1>5 DEF IndInv, TypeOK
<1>7. UNCHANGED <<ledgerVars, checkout, charged, refunds, hooks, request, faults>>
      /\ answered' \subseteq hooks
  BY Zenon DEF HandlePaymentFailed, gatewayVars, IndInv, TypeOK
<1>8. RowIsSound(p)'
  BY Zenon, <1>1, <1>2, <1>4, <1>6, <1>7 DEF RowIsSound, Shown
<1>9. /\ request' \in [Requests -> RequestRecords] /\ OneAtATime' /\ faults' \in 0..MaxFaults
      /\ checkout' \in [Payments -> Stages] /\ (Shown(p) => Shown(p)')
  BY Zenon, <1>7 DEF IndInv, TypeOK, RequestRecords, OneAtATime, Stages, Shown
<1>10. \A r \in Requests : RequestIsSound(request[r])' \/ Waits(r, p)  BY Zenon, <1>7 DEF Waits
<1>11. \A q \in Payments \ {p} : checkout'[q] = checkout[q]  BY Zenon, <1>7
<1>12. UNCHANGED <<ledgerVars, charged, refunds, hooks>>  BY Zenon, <1>7
<1> QED
  BY Zenon, <1>2, <1>4, <1>5, <1>7, <1>8, <1>9, <1>10, <1>11, <1>12, RowWrite

-----------------------------------------------------------------------------
(* The two transactions that write the row of p and post to the ledger of  *)
(* its customer, unless their key is spent.                                *)

Books(p, type, amount, ref, key) ==
  \/ UNCHANGED ledgerVars
  \/ Post(payment[p].customer, type, amount, ref, key)

IsOf(p, type, amount, ref, key) ==
  \/ type = "credit" /\ \E id \in charged : id[1] = p /\ key = <<"credit", id>>
  \/ /\ type = "debit" /\ ref = p
     /\ \E x \in refunds : x.id[1] = p /\ x.amount = amount /\ key = <<"refund", <<p, x.seq>> >>

(* The row becomes w, which differs in its status and identifiers only.    *)
Rewrites(p, w) ==
  /\ payment[p].status # "none" /\ w \in RowRecords /\ w.status # "none"
  /\ w.customer = payment[p].customer /\ w.amount = payment[p].amount
  /\ w.gateway = payment[p].gateway
  /\ payment' = [payment EXCEPT ![p] = w]

(* What the ledger is afterwards: at most one row more, of p.              *)
LEMMA BooksAppends ==
  ASSUME IndInv, NEW p \in Payments, payment[p].status # "none",
         NEW type \in TxTypes, NEW amount \in PosAmounts, NEW ref, NEW key,
         Books(p, type, amount, ref, key), IsOf(p, type, amount, ref, key)
  PROVE  \A c \in Customers :
           /\ \A n \in DOMAIN ledger[c] : n \in DOMAIN ledger'[c] /\ ledger'[c][n] = ledger[c][n]
           /\ \A n \in DOMAIN ledger'[c] \ DOMAIN ledger[c] :
                /\ c = payment[p].customer
                /\ ledger'[c][n].type = type /\ ledger'[c][n].amount = amount
                /\ ledger'[c][n].ref = ref /\ ledger'[c][n].key = key
<1>1. payment[p].customer \in Customers /\ LedgerTypeOK  BY Zenon DEF IndInv, RowIsSound, TypeOK
<1>2. CASE UNCHANGED ledgerVars  BY Zenon, <1>2 DEF ledgerVars
<1>3. CASE Post(payment[p].customer, type, amount, ref, key)
  <2>1. PICK d \in Customers : d = payment[p].customer  BY Zenon, <1>1
  <2>2. Post(d, type, amount, ref, key)  BY Zenon, <1>3, <2>1
  <2> QED  BY SMTT(30), <1>1, <2>1, <2>2, PostAppends
<1> QED  BY Zenon, <1>2, <1>3 DEF Books

LEMMA BooksGrow ==
  ASSUME IndInv, UNCHANGED gatewayVars, NEW p \in Payments, NEW w, Rewrites(p, w),
         NEW type \in TxTypes, NEW amount \in PosAmounts, NEW ref, NEW key,
         Books(p, type, amount, ref, key), IsOf(p, type, amount, ref, key)
  PROVE  Grows
<1>1. payment'[p] = w /\ \A q \in Payments \ {p} : payment'[q] = payment[q]
  BY Zenon DEF IndInv, TypeOK, Rewrites
<1>2. \A c \in Customers : \A n \in DOMAIN ledger[c] :
        n \in DOMAIN ledger'[c] /\ ledger'[c][n] = ledger[c][n]
  BY Zenon, BooksAppends DEF Rewrites
<1> QED  BY Zenon, <1>1, <1>2 DEF Grows, Rewrites, gatewayVars, Shown

LEMMA BooksKeep ==
  ASSUME IndInv, PaymentsAssumptions, UNCHANGED gatewayVars,
         NEW p \in Payments, NEW w, Rewrites(p, w), RowIsSound(p)',
         NEW type \in TxTypes, NEW amount \in PosAmounts, NEW ref \in Refs \cup {NoRef},
         NEW key \in Keys, Books(p, type, amount, ref, key), IsOf(p, type, amount, ref, key),
         NEW r \in Requests, Answer(r),
         \A q \in Requests \ {r} : request[q].pc = "credit" => request[q].payment # p
  PROVE  IndInv'
<1>1. Grows  BY Zenon, BooksGrow
<1>2. payment'[p] = w /\ \A q \in Payments \ {p} : payment'[q] = payment[q]
  BY Zenon DEF IndInv, TypeOK, Rewrites
<1>3. /\ request' \in [Requests -> RequestRecords] /\ OneAtATime' /\ RequestIsSound(request[r])'
      /\ \A q \in Requests \ {r} : request'[q] = request[q]
      /\ answered' \subseteq hooks /\ faults' \in 0..MaxFaults
  BY Zenon, AnswerIsTyped, ReturnComes, ComesKeeps
<1>4. PICK d \in Customers : d = payment[p].customer
  BY Zenon DEF IndInv, RowIsSound, Rewrites
<1>5. LedgerTypeOK' /\ BalanceMatchesLedger' /\ IdempotencyKeyUnique'
  <2>1. CASE UNCHANGED ledgerVars
    BY Zenon, <2>1, LedgerUnchanged DEF IndInv, TypeOK, LedgerTypeOK, ledgerVars
  <2>2. CASE Post(d, type, amount, ref, key)
    BY Zenon, <2>2, PostKeepsLedger DEF IndInv, TypeOK
  <2> QED  BY Zenon, <1>4, <2>1, <2>2 DEF Books
<1>6. TypeOK'
  BY Zenon, <1>3, <1>5 DEF IndInv, TypeOK, Rewrites, RowRecords, RequestRecords, gatewayVars
<1>7. ASSUME NEW c \in Customers, NEW n \in DOMAIN ledger'[c] \ DOMAIN ledger[c]
      PROVE  EntryIsSound(c, n)'
  <2>1. /\ c = payment[p].customer /\ ledger'[c][n].type = type /\ ledger'[c][n].amount = amount
        /\ ledger'[c][n].ref = ref /\ ledger'[c][n].key = key
    BY SMTT(30), BooksAppends DEF Rewrites
  <2>2. payment'[p].status # "none" /\ payment'[p].customer = c /\ charged' = charged
        /\ refunds' = refunds
    BY Zenon, <1>2, <2>1 DEF Rewrites, gatewayVars
  <2> QED  BY ZenonT(60), <2>1, <2>2 DEF EntryIsSound, IsOf
<1>8. ASSUME NEW q \in Payments PROVE RowIsSound(q)'
  <2>1. CASE q # p
    <3>1. RowIsSound(q)  BY Zenon DEF IndInv
    <3>2. ASSUME payment[q].status = "pending" PROVE ~Credited(q)'
      <4>1. SUFFICES ASSUME NEW c \in Customers, c = payment[q].customer,
                            NEW n \in DOMAIN ledger'[c], ledger'[c][n].type = "credit",
                            ledger'[c][n].key[2][1] = q
                     PROVE  FALSE
        BY Zenon, <1>2, <2>1, <3>1, <3>2 DEF Credited, IsCredit, RowIsSound
      <4>2. CASE n \in DOMAIN ledger[c]
        <5>1. ledger'[c][n] = ledger[c][n]  BY Zenon, <1>1, <4>2 DEF Grows
        <5>2. Credited(q)  BY Zenon, <4>1, <4>2, <5>1 DEF Credited, IsCredit
        <5> QED  BY Zenon, <3>1, <3>2, <5>2 DEF RowIsSound
      <4>3. CASE n \notin DOMAIN ledger[c]
        <5>1. ledger'[c][n].type = type /\ ledger'[c][n].key = key
          BY SMTT(30), <4>3, BooksAppends DEF Rewrites
        <5>2. PICK id \in charged : id[1] = p /\ key = <<"credit", id>>
          BY Zenon, <4>1, <5>1 DEF IsOf
        <5>3. key[2] = id  BY Zenon, <5>2, SecondOf
        <5> QED  BY Zenon, <2>1, <4>1, <5>1, <5>2, <5>3
      <4> QED  BY Zenon, <4>2, <4>3
    <3> QED  BY ZenonT(60), <1>1, <1>2, <2>1, <3>1, <3>2, RowStays DEF RowIsSound, gatewayVars
  <2> QED  BY Zenon, <2>1
<1>9. ASSUME NEW q \in Requests
      PROVE  \/ RequestIsSound(request[q])'
             \/ request'[q] = request[q] /\ Undisturbed(request[q])
  <2>1. request[q].pc # "idle" => request[q].payment \in Payments
    BY Zenon DEF IndInv, RequestIsSound
  <2> QED  BY Zenon, <1>2, <1>3, <2>1 DEF Undisturbed, gatewayVars
<1>10. charged' = charged /\ refunds' = refunds /\ hooks' = hooks  BY Zenon DEF gatewayVars
<1> QED
  BY Zenon, <1>1, <1>3, <1>5, <1>6, <1>7, <1>8, <1>9, <1>10, StepKeeps DEF IndInv

(* A claim leads to the credit of the charge, now or earlier.              *)
LEMMA CreditSpends ==
  ASSUME IndInv, PaymentsAssumptions, NEW r \in Requests, request[r].pc = "credit",
         NEW p \in Payments, p = request[r].payment, NEW id, id = request[r].id, NEW w, Rewrites(p, w),
         CreditAccountTx(r), UNCHANGED gatewayVars
  PROVE  /\ Books(p, "credit", payment[p].amount, NoRef, <<"credit", id>>)
         /\ IsOf(p, "credit", payment[p].amount, NoRef, <<"credit", id>>)
         /\ <<"credit", id>> \in Keys /\ payment[p].amount \in PosAmounts
         /\ id \in charged /\ id \in Ids /\ id[1] = p
         /\ Spent(p, id)'
<1>1. /\ id \in charged /\ id[1] = p /\ request[r].amount = payment[p].amount
  BY Zenon DEF IndInv, RequestIsSound
<1>2. /\ id \in Ids /\ payment[p].amount \in PosAmounts /\ payment[p].customer \in Customers
  BY Zenon, <1>1 DEF IndInv, TypeOK, RowIsSound, Rewrites
<1>3. <<"credit", id>> \in Keys /\ <<"credit", id>> # NoKey
  BY Zenon, <1>2, NoKeyAssumption DEF PaymentsAssumptions, PaymentKeysAssumption
<1>4. PICK c \in Customers : c = payment[p].customer  BY Zenon, <1>2
<1>5. IF KeySpent(c, <<"credit", id>>)
        THEN UNCHANGED ledgerVars
        ELSE Post(c, "credit", payment[p].amount, NoRef, <<"credit", id>>)
  BY Zenon, <1>1, <1>4 DEF CreditAccountTx, CreditKey
<1>6. Books(p, "credit", payment[p].amount, NoRef, <<"credit", id>>)
  BY Zenon, <1>4, <1>5 DEF Books
<1>7. IsOf(p, "credit", payment[p].amount, NoRef, <<"credit", id>>)  BY Zenon, <1>1 DEF IsOf
<1>8. payment'[p].customer = c
  BY Zenon, <1>4 DEF Rewrites, IndInv, TypeOK
<1>9. \E n \in DOMAIN ledger'[c] :
        ledger'[c][n].type = "credit" /\ ledger'[c][n].key = <<"credit", id>>
  <2>1. CASE KeySpent(c, <<"credit", id>>)
    <3>1. PICK n \in DOMAIN ledger[c] : ledger[c][n].key = <<"credit", id>>
      BY Zenon, <2>1 DEF KeySpent
    <3>2. EntryIsSound(c, n)  BY Zenon DEF IndInv
    <3>3. ledger[c][n].type = "credit"  BY ZenonT(60), <3>1, <3>2, KeysDiffer DEF EntryIsSound
    <3> QED  BY Zenon, <1>5, <2>1, <3>1, <3>3 DEF ledgerVars
  <2>2. CASE ~KeySpent(c, <<"credit", id>>)
    <3>1. LedgerTypeOK /\ "credit" \in TxTypes  BY Zenon DEF IndInv, TypeOK, TxTypes
    <3>2. Post(c, "credit", payment[p].amount, NoRef, <<"credit", id>>)  BY Zenon, <1>5, <2>2
    <3> QED  BY SMTT(30), <1>2, <3>1, <3>2, PostAppends
  <2> QED  BY Zenon, <2>1, <2>2
<1>10. Spent(p, id)'  BY Zenon, <1>8, <1>9 DEF Spent
<1> QED  BY Zenon, <1>1, <1>2, <1>3, <1>6, <1>7, <1>10

(* The row that a settlement writes.                                       *)
LEMMA CompleteRewrites ==
  ASSUME IndInv, PaymentsAssumptions, NEW r \in Requests,
         \/ CompleteWithGatewayPaymentIDAndCredit(r)
         \/ CompletePayPalCaptureAndCredit(r),
         NEW p \in Payments, p = request[r].payment, payment[p].status # "none",
         NEW id \in Ids, id = request[r].id, id[1] = p
  PROVE  \E w : /\ Rewrites(p, w) /\ w.status = "completed"
                /\ w.gateway = "paypal" => w.capture = id
                /\ w.gateway # "paypal" => w.gid = id
                /\ w.gid[1] = p
                /\ w.capture # NoId => w.capture \in {id, payment[p].capture}
<1>1. payment[p] \in RowRecords  BY Zenon DEF IndInv, TypeOK, RowRecords
<1>2. CASE CompleteWithGatewayPaymentIDAndCredit(r)
  <2>1. PICK w : w = [payment[p] EXCEPT !.status = "completed", !.gid = id]  BY Zenon
  <2>2. /\ w \in RowRecords /\ w.status = "completed" /\ w.gid = id
        /\ w.customer = payment[p].customer /\ w.amount = payment[p].amount
        /\ w.gateway = payment[p].gateway /\ w.capture = payment[p].capture
    BY Zenon, <1>1, <2>1 DEF RowRecords
  <2>3. payment' = [payment EXCEPT ![p] = w] /\ payment[p].gateway # "paypal"
    BY Zenon, <1>2, <2>1 DEF CompleteWithGatewayPaymentIDAndCredit, CompletedRow
  <2> QED  BY Zenon, <2>2, <2>3 DEF Rewrites
<1>3. CASE CompletePayPalCaptureAndCredit(r)
  <2>1. PICK o : o = <<id[1], 0>>  BY Zenon
  <2>2. o \in Ids /\ o[1] = p
    BY SMTT(30), <1>1, <2>1 DEF Ids, PaymentsAssumptions, BoundsAssumption
  <2>3. PICK w : w = [payment[p] EXCEPT !.status = "completed", !.gid = o, !.capture = id]
    BY Zenon
  <2>4. /\ w \in RowRecords /\ w.status = "completed" /\ w.gid = o /\ w.capture = id
        /\ w.customer = payment[p].customer /\ w.amount = payment[p].amount
        /\ w.gateway = payment[p].gateway
    BY Zenon, <1>1, <2>2, <2>3 DEF RowRecords
  <2>5. payment' = [payment EXCEPT ![p] = w] /\ payment[p].gateway = "paypal"
    BY Zenon, <1>3, <2>1, <2>3 DEF CompletePayPalCaptureAndCredit, CapturedRow
  <2> QED  BY Zenon, <2>2, <2>4, <2>5 DEF Rewrites
<1> QED  BY Zenon, <1>2, <1>3

LEMMA CompleteInv ==
  ASSUME IndInv, PaymentsAssumptions, NEW r \in Requests,
         \/ CompleteWithGatewayPaymentIDAndCredit(r)
         \/ CompletePayPalCaptureAndCredit(r)
  PROVE  IndInv'
<1>1. PICK id : id = request[r].id  BY Zenon
<1>2. request[r].pc = "credit" /\ CreditAccountTx(r) /\ Answer(r) /\ UNCHANGED gatewayVars
  BY Zenon DEF CompleteWithGatewayPaymentIDAndCredit, CompletePayPalCaptureAndCredit
<1>3. PICK p \in Payments : p = request[r].payment /\ payment[p].status # "none"
  BY Zenon, <1>2 DEF IndInv, RequestIsSound
<1>4. id \in Ids /\ id \in charged /\ id[1] = p
  BY Zenon, <1>1, <1>2, <1>3 DEF IndInv, TypeOK, RequestIsSound
<1>5. payment[p] \in RowRecords /\ RowIsSound(p)  BY Zenon DEF IndInv, TypeOK, RowRecords
<1>6. PICK w : /\ Rewrites(p, w) /\ w.status = "completed"
               /\ w.gateway = "paypal" => w.capture = id
               /\ w.gateway # "paypal" => w.gid = id
               /\ w.gid[1] = p
               /\ w.capture # NoId => w.capture \in {id, payment[p].capture}
  BY SMTT(30), <1>1, <1>3, <1>4, CompleteRewrites
<1>7. w.customer = payment[p].customer /\ w.amount = payment[p].amount
      /\ w.gateway = payment[p].gateway
  BY Zenon, <1>6 DEF Rewrites
<1>8. payment'[p] = w  BY Zenon, <1>6 DEF IndInv, TypeOK, Rewrites
<1>9. /\ Books(p, "credit", payment[p].amount, NoRef, <<"credit", id>>)
      /\ IsOf(p, "credit", payment[p].amount, NoRef, <<"credit", id>>)
      /\ <<"credit", id>> \in Keys /\ payment[p].amount \in PosAmounts
      /\ Spent(p, id)'
  BY Zenon, <1>1, <1>2, <1>3, <1>6, CreditSpends
<1>10. Shown(p)' /\ checkout' = checkout /\ charged' = charged
  BY Zenon, <1>2, <1>4 DEF IndInv, Shown, gatewayVars
<1>11. PaidBy(p)' = id  BY Zenon, <1>6, <1>7, <1>8 DEF PaidBy
<1>12. RowIsSound(p)'
  <2>1. Spent(p, PaidBy(p))'  BY Zenon, <1>9, <1>11 DEF Spent
  <2>2. /\ payment'[p].status = "completed" /\ payment'[p].customer \in Customers
        /\ payment'[p].amount \in PosAmounts /\ payment'[p].gateway \in Gateways
    BY Zenon, <1>3, <1>5, <1>6, <1>7, <1>8 DEF RowIsSound
  <2>3. checkout'[p] = "captured" => <<p, 1>> \in charged'  BY Zenon, <1>5, <1>10 DEF RowIsSound
  <2>4. payment'[p].gid[1] = p  BY Zenon, <1>6, <1>8
  <2>5. payment'[p].capture # NoId =>
          payment'[p].capture[1] = p /\ payment'[p].capture \in charged'
    BY Zenon, <1>4, <1>5, <1>6, <1>8, <1>10 DEF RowIsSound
  <2>6. PaidBy(p)' \in Ids  BY Zenon, <1>4, <1>11
  <2> QED  BY Zenon, <1>10, <2>1, <2>2, <2>3, <2>4, <2>5, <2>6 DEF RowIsSound
<1>13. \A q \in Requests \ {r} : request[q].pc = "credit" => request[q].payment # p
  BY Zenon, <1>2, <1>3 DEF IndInv, OneAtATime
<1>14. "credit" \in TxTypes /\ NoRef \in Refs \cup {NoRef}  BY Zenon DEF TxTypes
<1> QED
  BY Zenon, <1>2, <1>6, <1>9, <1>12, <1>13, <1>14, BooksKeep

(* A refund that is booked is one that the gateway paid out.               *)
LEMMA RefundIsOf ==
  ASSUME IndInv, PaymentsAssumptions, NEW r \in Requests, MarkRefundedAndDebit(r),
         NEW p \in Payments, p = request[r].payment, NEW a, a = request[r].amount,
         NEW key, key = RefundKey(request[r].event)
  PROVE  /\ Books(p, "debit", a, p, key) /\ IsOf(p, "debit", a, p, key)
         /\ key \in Keys /\ p \in Refs /\ a \in PosAmounts /\ a <= payment[p].amount
         /\ payment[p].status # "none" /\ Credited(p) /\ Shown(p)
<1>1. RequestIsSound(request[r]) /\ request[r].pc = "debit"  BY Zenon DEF IndInv, MarkRefundedAndDebit
<1>2. PICK e \in hooks : e = request[r].event /\ e.type = "refunded" /\ e.id[1] = p /\ e.amount = a
  BY Zenon, <1>1 DEF RequestIsSound
<1>3. e \in Events /\ EventIsSound(e)  BY Zenon DEF IndInv, TypeOK
<1>4. PICK x \in refunds : x.id = e.id /\ x.seq = e.seq /\ x.amount = e.amount
  BY Zenon, <1>2, <1>3 DEF EventIsSound
<1>5. x \in Payouts  BY Zenon DEF IndInv, TypeOK, Payouts
<1>6. key = <<"refund", <<p, x.seq>> >>  BY Zenon, <1>2, <1>4 DEF RefundKey
<1>7. <<p, x.seq>> \in Ids  BY SMTT(30), <1>5 DEF Payouts, Ids, PaymentsAssumptions, BoundsAssumption
<1>8. key \in Keys /\ p \in Refs  BY Zenon, <1>6, <1>7 DEF PaymentsAssumptions, PaymentKeysAssumption
<1>9. IsOf(p, "debit", a, p, key)  BY Zenon, <1>2, <1>4, <1>6 DEF IsOf
<1>10. Books(p, "debit", a, p, key)  BY Zenon, <1>2 DEF MarkRefundedAndDebit, Books
<1>11. a \in PosAmounts /\ a <= payment[p].amount /\ Credited(p) /\ Shown(p)
  BY Zenon, <1>2, <1>3 DEF Events, EventIsSound
<1> QED  BY Zenon, <1>8, <1>9, <1>10, <1>11, ShownIsOrdered

LEMMA RefundedRewrites ==
  ASSUME IndInv, NEW r \in Requests, MarkRefundedAndDebit(r),
         NEW p \in Payments, p = request[r].payment, payment[p].status # "none"
  PROVE  \E w : /\ Rewrites(p, w) /\ w.status = "refunded"
                /\ w.gid = payment[p].gid /\ w.capture = payment[p].capture
<1>1. payment[p] \in RowRecords  BY Zenon DEF IndInv, TypeOK, RowRecords
<1>2. PICK w : w = [payment[p] EXCEPT !.status = "refunded"]  BY Zenon
<1>3. /\ w \in RowRecords /\ w.status = "refunded" /\ w.gid = payment[p].gid
      /\ w.capture = payment[p].capture /\ w.customer = payment[p].customer
      /\ w.amount = payment[p].amount /\ w.gateway = payment[p].gateway
  BY Zenon, <1>1, <1>2 DEF RowRecords
<1>4. payment' = [payment EXCEPT ![p] = w]  BY Zenon, <1>2 DEF MarkRefundedAndDebit
<1> QED  BY Zenon, <1>3, <1>4 DEF Rewrites

LEMMA RefundedInv ==
  ASSUME IndInv, PaymentsAssumptions, NEW r \in Requests, MarkRefundedAndDebit(r)  PROVE IndInv'
<1>1. PICK p \in Payments : p = request[r].payment
  BY Zenon DEF IndInv, RequestIsSound, MarkRefundedAndDebit
<1>2. PICK a : a = request[r].amount  BY Zenon
<1>3. PICK key : key = RefundKey(request[r].event)  BY Zenon
<1>4. /\ Books(p, "debit", a, p, key) /\ IsOf(p, "debit", a, p, key)
      /\ key \in Keys /\ p \in Refs \cup {NoRef} /\ a \in PosAmounts
      /\ payment[p].status # "none" /\ Credited(p) /\ Shown(p)
  BY Zenon, <1>1, <1>2, <1>3, RefundIsOf
<1>5. PICK w : /\ Rewrites(p, w) /\ w.status = "refunded"
               /\ w.gid = payment[p].gid /\ w.capture = payment[p].capture
  BY Zenon, <1>1, <1>4, RefundedRewrites
<1>6. payment'[p] = w  BY Zenon, <1>5 DEF Rewrites, IndInv, TypeOK
<1>7. Answer(r) /\ UNCHANGED gatewayVars /\ RowFree(p) /\ "debit" \in TxTypes
  BY Zenon, <1>1 DEF MarkRefundedAndDebit, TxTypes
<1>8. Grows  BY Zenon, <1>4, <1>5, <1>7, BooksGrow
<1>9. Credited(p)'  BY Zenon, <1>4, <1>8, CreditsStay
<1>10. RowIsSound(p) /\ checkout' = checkout /\ charged' = charged
  BY Zenon, <1>7 DEF IndInv, gatewayVars
<1>11. RowIsSound(p)'
  BY SMTT(30), <1>4, <1>5, <1>6, <1>9, <1>10 DEF RowIsSound, Rewrites, Shown
<1>12. \A q \in Requests \ {r} : request[q].pc = "credit" => request[q].payment # p
  BY Zenon, <1>7 DEF RowFree
<1> QED  BY Zenon, <1>4, <1>5, <1>7, <1>11, <1>12, BooksKeep

-----------------------------------------------------------------------------

LEMMA RequestStepInv ==
  ASSUME IndInv, PaymentsAssumptions, NEW r \in Requests, RequestStep(r)  PROVE IndInv'
<1>1. CASE \E g : OpenSession(r, g)  BY Zenon, <1>1, OpenInv
<1>2. CASE StoreSessionID(r)  BY Zenon, <1>2, StoreInv
<1>3. CASE LockGatewayPaymentID(r)  BY Zenon, <1>3, LockInv
<1>4. CASE ClaimGatewayPaymentTx(r) \/ ClaimPayPalCaptureTx(r)  BY Zenon, <1>4, ClaimsInv
<1>5. CASE CompleteWithGatewayPaymentIDAndCredit(r) \/ CompletePayPalCaptureAndCredit(r)
  BY Zenon, <1>5, CompleteInv
<1>6. CASE CaptureOrder(r)  BY Zenon, <1>6, CaptureInv
<1>7. CASE MarkRefundedAndDebit(r)  BY Zenon, <1>7, RefundedInv
<1>8. CASE request[r].pc = "refund" /\ PayOut(r)  BY Zenon, <1>8, PayOutInv
<1>9. CASE CryptoRefund(r)  BY Zenon, <1>9, BreakOffInv
<1> QED
  BY Zenon, <1>1, <1>2, <1>3, <1>4, <1>5, <1>6, <1>7, <1>8, <1>9
     DEF RequestStep, CreateCheckoutSession, CreateOrder, CreateBTCPayInvoice,
         CreateNOWPaymentsInvoice, StripeRefund, PayPalRefund

LEMMA UnchangedInv ==
  ASSUME IndInv, UNCHANGED vars  PROVE IndInv'
<1> USE DEF vars, gatewayVars
<1>1. TypeOK' /\ OneAtATime'  BY Zenon DEF IndInv, TypeOK, LedgerTypeOK, OneAtATime
<1>2. BalanceMatchesLedger' /\ IdempotencyKeyUnique'  BY Zenon, LedgerUnchanged DEF IndInv, ledgerVars
<1>3. Grows  BY Zenon, NothingIsTakenBack
<1>4. ASSUME NEW p \in Payments PROVE RowIsSound(p)'
  <2>1. RowIsSound(p) /\ Credited(p)' = Credited(p)  BY Zenon DEF IndInv, Credited, IsCredit
  <2> QED  BY Zenon, <1>3, <2>1, RowStays DEF RowIsSound
<1>5. \A r \in Requests : request'[r] = request[r] /\ Undisturbed(request[r])
  BY Zenon DEF Undisturbed
<1> QED  BY Zenon, <1>1, <1>2, <1>3, <1>4, <1>5, StepKeeps DEF IndInv

LEMMA NextInv ==
  ASSUME IndInv, PaymentsAssumptions, [Next]_vars  PROVE IndInv'
<1>1. ASSUME NEW r \in Requests, RequestStep(r) PROVE IndInv'  BY Zenon, <1>1, RequestStepInv
<1>2. ASSUME NEW r \in Requests, BreakOff(r) PROVE IndInv'  BY Zenon, <1>2, BreakOffInv
<1>3. ASSUME NEW r \in Requests, NEW p \in Payments, NEW c \in Customers, NEW g \in Gateways,
             NEW a \in PosAmounts, InitiateTopUp(r, p, c, g, a)
      PROVE  IndInv'
  BY Zenon, <1>3, InitiateInv
<1>4. ASSUME NEW r \in Requests, NEW p \in Payments, CapturePayPalOrder(r, p) PROVE IndInv'
  BY Zenon, <1>4, CaptureRequestInv
<1>5. ASSUME NEW r \in Requests, NEW p \in Payments, NEW a \in PosAmounts, RefundPayment(r, p, a)
      PROVE  IndInv'
  BY Zenon, <1>5, RefundRequestInv
<1>6. ASSUME NEW p \in Payments, Pay(p) \/ Approve(p) \/ ReleaseCapture(p) \/ Decline(p)
      PROVE  IndInv'
  BY Zenon, <1>6, PayInv, ApproveInv, ReleaseInv, DeclineInv
<1>7. ASSUME NEW e \in hooks, Receive(e) PROVE IndInv'
  BY Zenon, <1>7, CompletedEventInv, RefundEventInv, FailedEventInv DEF Receive
<1>8. CASE UNCHANGED vars  BY Zenon, <1>8, UnchangedInv
<1> QED  BY Zenon, <1>1, <1>2, <1>3, <1>4, <1>5, <1>6, <1>7, <1>8 DEF Next

LEMMA Invariance ==
  ASSUME PaymentsAssumptions  PROVE Spec => []IndInv
<1>1. Init => IndInv  BY Zenon, InitInv
<1>2. IndInv /\ [Next]_vars => IndInv'  BY Zenon, NextInv
<1> QED  BY <1>1, <1>2, PTL DEF Spec

(* A credit of p is a row of the customer that p belongs to.               *)
LEMMA CreditsMeans ==
  ASSUME NEW p \in Payments
  PROVE  /\ Credits(p) # {} <=> payment[p].status # "none" /\ Credited(p)
         /\ Credits(p)' # {} <=> payment'[p].status # "none" /\ Credited(p)'
<1>1. payment[p].status = "none" => Credits(p) = {}
  <2>1. payment[p].status = "none" => DOMAIN Rows(p) = {}  BY DEF Rows
  <2> QED  BY Zenon, <2>1 DEF Credits
<1>2. payment'[p].status = "none" => Credits(p)' = {}
  <2>1. payment'[p].status = "none" => DOMAIN Rows(p)' = {}  BY DEF Rows
  <2> QED  BY Zenon, <2>1 DEF Credits
<1>3. payment[p].status # "none" => (Credits(p) # {} <=> Credited(p))
  <2>1. payment[p].status # "none" => Rows(p) = ledger[payment[p].customer]  BY Zenon DEF Rows
  <2> QED  BY Zenon, <2>1 DEF Credits, Credited, IsCredit
<1>4. payment'[p].status # "none" => (Credits(p)' # {} <=> Credited(p)')
  <2>1. payment'[p].status # "none" => Rows(p)' = ledger'[payment'[p].customer]  BY Zenon DEF Rows
  <2> QED  BY Zenon, <2>1 DEF Credits, Credited, IsCredit
<1> QED  BY Zenon, <1>1, <1>2, <1>3, <1>4

(* The payments table and the ledger agree and no refund is booked twice,  *)
(* whatever requests and webhooks overlap, are repeated or break off.      *)
THEOREM TablesAgree ==
  ASSUME PaymentsAssumptions  PROVE Spec => []PaymentsMatchLedger
<1>1. IndInv => PaymentsMatchLedger
  <2> SUFFICES ASSUME IndInv PROVE PaymentsMatchLedger  BY Zenon
  <2>1. RowMatchesLedger
    <3> SUFFICES ASSUME NEW p \in Payments
                 PROVE  /\ payment[p].status \in {"completed", "refunded"} => Credits(p) # {}
                        /\ payment[p].status = "pending" => Credits(p) = {}
      BY Zenon DEF RowMatchesLedger
    <3>1. RowIsSound(p)  BY Zenon DEF IndInv
    <3>2. payment[p].status = "completed" => Credited(p)
      <4> SUFFICES ASSUME payment[p].status = "completed" PROVE Credited(p)  BY Zenon
      <4>1. PaidBy(p) # NoId /\ PaidBy(p)[1] = p
        BY Zenon, <3>1 DEF RowIsSound, PaidBy, PaymentsAssumptions, NoIdAssumption
      <4> QED  BY SMTT(30), <3>1, <4>1 DEF RowIsSound, Spent, Credited, IsCredit
    <3> QED  BY Zenon, <3>1, <3>2, CreditsMeans DEF RowIsSound
  <2>2. RefundsMatch
    <3> SUFFICES ASSUME NEW p \in Payments, NEW n \in Debits(p)
                 PROVE  /\ \E x \in refunds : /\ x.id[1] = p /\ x.amount = Rows(p)[n].amount
                                              /\ Rows(p)[n].key = <<"refund", <<p, x.seq>> >>
                        /\ \A m \in Debits(p) : Rows(p)[m].key = Rows(p)[n].key => m = n
      BY Zenon DEF RefundsMatch
    <3>1. payment[p].status # "none" /\ Rows(p) = ledger[payment[p].customer]
      BY SMTT(30) DEF Debits, Rows
    <3>2. PICK c \in Customers : c = payment[p].customer  BY Zenon, <3>1 DEF IndInv, RowIsSound
    <3>3. \A m \in Debits(p) :
            m \in DOMAIN ledger[c] /\ ledger[c][m].type = "debit" /\ ledger[c][m].ref = p
      BY Zenon, <3>1, <3>2 DEF Debits
    <3>4. EntryIsSound(c, n)  BY Zenon, <3>3 DEF IndInv
    <3>5. PICK x \in refunds : /\ x.id[1] = p /\ x.amount = ledger[c][n].amount
                              /\ ledger[c][n].key = <<"refund", <<p, x.seq>> >>
      BY Zenon, <3>3, <3>4 DEF EntryIsSound
    <3>6. ledger[c][n].key # NoKey
      <4>1. x \in Payouts  BY Zenon DEF IndInv, TypeOK, Payouts
      <4>2. <<p, x.seq>> \in Ids
        BY SMTT(30), <4>1 DEF Payouts, Ids, PaymentsAssumptions, BoundsAssumption
      <4> QED  BY Zenon, <3>5, <4>2, NoKeyAssumption DEF PaymentsAssumptions, PaymentKeysAssumption
    <3>7. ASSUME NEW m \in Debits(p), Rows(p)[m].key = Rows(p)[n].key PROVE m = n
      BY Zenon, <3>1, <3>2, <3>3, <3>6, <3>7 DEF IndInv, IdempotencyKeyUnique
    <3> QED  BY Zenon, <3>1, <3>2, <3>5, <3>7
  <2> QED  BY Zenon, <2>1, <2>2 DEF PaymentsMatchLedger, IndInv
<1> QED  BY <1>1, Invariance, PTL

-----------------------------------------------------------------------------
(* The refinement of TopUps.                                               *)

(* The row of p stays the order that it is.                                *)
Kept(p) ==
  /\ payment'[p].status = "none" <=> payment[p].status = "none"
  /\ payment[p].status # "none" => /\ payment'[p].customer = payment[p].customer
                                   /\ payment'[p].amount = payment[p].amount

LEMMA OrdersStay ==
  ASSUME \A p \in Payments : Kept(p)  PROVE Ordered' = Ordered
BY Zenon DEF Kept, Ordered

LEMMA AccountsStay ==
  ASSUME \A p \in Payments : Kept(p), ledger' = ledger  PROVE OnAccount' = OnAccount
<1>1. ASSUME NEW p \in Payments PROVE Credits(p)' # {} <=> Credits(p) # {}
  <2>1. Kept(p)  BY Zenon
  <2>2. payment[p].status # "none" => (Credited(p)' <=> Credited(p))
    BY Zenon, <2>1 DEF Kept, Credited, IsCredit
  <2> QED  BY Zenon, <2>1, <2>2, CreditsMeans DEF Kept
<1> QED  BY Zenon, <1>1 DEF OnAccount

LEMMA PromiseStutters ==
  ASSUME \A p \in Payments : Kept(p), UNCHANGED <<ledgerVars, charged>>
  PROVE  UNCHANGED Promise!topUpVars
<1>1. Ordered' = Ordered  BY Zenon, OrdersStay
<1>2. OnAccount' = OnAccount  BY Zenon, AccountsStay DEF ledgerVars
<1>3. PaidFor' = PaidFor /\ balance' = balance  BY Zenon DEF PaidFor, ledgerVars
<1> QED  BY Zenon, <1>1, <1>2, <1>3 DEF Promise!topUpVars

(* A step that writes neither rows nor the ledger and charges nothing.     *)
LEMMA QuietStutters ==
  ASSUME UNCHANGED <<ledgerVars, payment, charged>>  PROVE UNCHANGED Promise!topUpVars
BY Zenon, PromiseStutters DEF Kept

LEMMA UpdateKeeps ==
  ASSUME IndInv, NEW p \in Payments, payment[p].status # "none", NEW st, NEW id,
         UpdateStatus(p, st, id), st \in {"pending", "failed"}
  PROVE  \A q \in Payments : Kept(q)
<1>1. payment \in [Payments -> RowRecords]  BY Zenon DEF IndInv, TypeOK, RowRecords
<1>2. \A q \in Payments \ {p} : payment'[q] = payment[q]  BY Zenon, <1>1 DEF UpdateStatus
<1>3. /\ payment'[p].status = st /\ payment'[p].customer = payment[p].customer
      /\ payment'[p].amount = payment[p].amount
  BY SMTT(30), <1>1 DEF UpdateStatus, RowRecords
<1> QED  BY Zenon, <1>2, <1>3 DEF Kept

LEMMA InitiateOrders ==
  ASSUME IndInv, NEW r \in Requests, NEW p \in Payments, NEW c \in Customers,
         NEW g \in Gateways, NEW a \in PosAmounts, InitiateTopUp(r, p, c, g, a), IndInv'
  PROVE  Promise!Order(p)
<1>1. PICK w : w = [NoRow EXCEPT !.status = "pending", !.gateway = g, !.customer = c, !.amount = a]
  BY Zenon
<1>2. w.status = "pending" /\ w.customer = c /\ w.amount = a  BY Zenon, <1>1 DEF NoRow
<1>3. payment' = [payment EXCEPT ![p] = w] /\ payment[p].status = "none"
  BY Zenon, <1>1 DEF InitiateTopUp
<1>4. payment'[p] = w /\ \A q \in Payments \ {p} : payment'[q] = payment[q]
  BY Zenon, <1>3 DEF IndInv, TypeOK
<1>5. Ordered[p] = <<>> /\ Ordered' = [Ordered EXCEPT ![p] = <<c, a>>]
  <2>1. PICK o : o = <<c, a>>  BY Zenon
  <2>2. Ordered[p] = <<>>  BY Zenon, <1>3 DEF Ordered
  <2>3. Ordered'[p] = o  BY Zenon, <1>2, <1>4, <2>1 DEF Ordered
  <2>4. \A q \in Payments \ {p} : Ordered'[q] = Ordered[q]  BY Zenon, <1>4 DEF Ordered
  <2>5. /\ Ordered = [q \in Payments |-> Ordered[q]]
        /\ Ordered' = [q \in Payments |-> Ordered'[q]]
    BY Zenon DEF Ordered
  <2>6. Ordered' = [Ordered EXCEPT ![p] = o]  BY Zenon, <2>3, <2>4, <2>5
  <2> QED  BY Zenon, <2>1, <2>2, <2>6
<1>6. PaidFor' = PaidFor /\ balance' = balance /\ ledger' = ledger
  BY Zenon DEF InitiateTopUp, gatewayVars, ledgerVars, PaidFor
<1>7. OnAccount' = OnAccount
  <2>1. ASSUME NEW q \in Payments \ {p} PROVE Credits(q)' # {} <=> Credits(q) # {}
    <3>1. Credited(q)' <=> Credited(q)  BY Zenon, <1>4, <1>6 DEF Credited, IsCredit
    <3> QED  BY Zenon, <1>4, <3>1, CreditsMeans
  <2>2. ~(Credits(p) # {})  BY Zenon, <1>3, CreditsMeans
  <2>3. ~(Credits(p)' # {})
    <3>1. RowIsSound(p)'  BY Zenon DEF IndInv
    <3> QED  BY Zenon, <1>2, <1>4, <3>1, CreditsMeans DEF RowIsSound
  <2> QED  BY Zenon, <2>1, <2>2, <2>3 DEF OnAccount
<1> QED  BY Zenon, <1>5, <1>6, <1>7 DEF Promise!Order

(* A charge takes the money, or takes it once more for a paid order.       *)
LEMMA ChargeTakes ==
  ASSUME IndInv, UNCHANGED <<ledgerVars, payment>>, NEW p \in Payments, Shown(p),
         NEW id, id[1] = p, charged' = charged \cup {id}
  PROVE  Promise!Take(p) \/ UNCHANGED Promise!topUpVars
<1>1. \A q \in Payments : Kept(q)  BY Zenon DEF Kept
<1>2. Ordered' = Ordered /\ OnAccount' = OnAccount /\ balance' = balance
  BY Zenon, <1>1, OrdersStay, AccountsStay DEF ledgerVars
<1>3. PaidFor' = PaidFor \cup {p}  BY Zenon DEF PaidFor
<1>4. Ordered[p] # <<>>
  <2>1. payment[p].status # "none"  BY Zenon, ShownIsOrdered
  <2> QED  BY Zenon, <2>1 DEF Ordered
<1>5. CASE p \in PaidFor
  <2>1. PaidFor' = PaidFor  BY Zenon, <1>3, <1>5
  <2> QED  BY Zenon, <1>2, <2>1 DEF Promise!topUpVars
<1>6. CASE p \notin PaidFor  BY Zenon, <1>2, <1>3, <1>4, <1>6 DEF Promise!Take
<1> QED  BY Zenon, <1>5, <1>6

LEMMA RewriteKeeps ==
  ASSUME IndInv, NEW p \in Payments, NEW w, Rewrites(p, w)  PROVE \A q \in Payments : Kept(q)
BY Zenon DEF IndInv, TypeOK, Rewrites, Kept

(* A row of the ledger that p books credits no other payment, and a debit  *)
(* credits none.                                                           *)
LEMMA BooksCreditOnly ==
  ASSUME IndInv, UNCHANGED gatewayVars, NEW p \in Payments, NEW w, Rewrites(p, w),
         NEW type \in TxTypes, NEW amount \in PosAmounts, NEW ref, NEW key,
         Books(p, type, amount, ref, key), IsOf(p, type, amount, ref, key),
         NEW q \in Payments, q # p \/ type = "debit"
  PROVE  Credits(q)' # {} <=> Credits(q) # {}
<1>1. Kept(q) /\ Grows  BY Zenon, RewriteKeeps, BooksGrow
<1>2. CASE payment[q].status = "none"  BY Zenon, <1>1, <1>2, CreditsMeans DEF Kept
<1>3. CASE payment[q].status # "none"
  <2>1. PICK d \in Customers : d = payment[q].customer /\ d = payment'[q].customer
    BY Zenon, <1>1, <1>3 DEF Kept, IndInv, RowIsSound
  <2>2. Credited(q) => Credited(q)'  BY Zenon, <1>1, <1>3, CreditsStay
  <2>3. Credited(q)' => Credited(q)
    <3> SUFFICES ASSUME NEW n \in DOMAIN ledger'[d], ledger'[d][n].type = "credit",
                        ledger'[d][n].key[2][1] = q
                 PROVE  n \in DOMAIN ledger[d] /\ ledger'[d][n] = ledger[d][n]
      BY Zenon, <2>1 DEF Credited, IsCredit
    <3>1. CASE n \in DOMAIN ledger[d]  BY Zenon, <1>1, <3>1 DEF Grows
    <3>2. CASE n \notin DOMAIN ledger[d]
      <4>1. ledger'[d][n].type = type /\ ledger'[d][n].key = key
        BY SMTT(30), <3>2, BooksAppends DEF Rewrites
      <4>2. PICK id \in charged : id[1] = p /\ key = <<"credit", id>>  BY Zenon, <4>1 DEF IsOf
      <4>3. key[2] = id  BY Zenon, <4>2, SecondOf
      <4> QED  BY ZenonT(60), <4>1, <4>2, <4>3
    <3> QED  BY Zenon, <3>1, <3>2
  <2> QED  BY Zenon, <1>1, <1>3, <2>2, <2>3, CreditsMeans DEF Kept
<1> QED  BY Zenon, <1>2, <1>3

(* A settlement credits the payment, or did so already.                    *)
LEMMA CompleteCredits ==
  ASSUME IndInv, PaymentsAssumptions, NEW r \in Requests,
         \/ CompleteWithGatewayPaymentIDAndCredit(r)
         \/ CompletePayPalCaptureAndCredit(r)
  PROVE  Promise!TopUpNext \/ UNCHANGED Promise!topUpVars
<1>1. PICK id : id = request[r].id  BY Zenon
<1>2. request[r].pc = "credit" /\ CreditAccountTx(r) /\ UNCHANGED gatewayVars
  BY Zenon DEF CompleteWithGatewayPaymentIDAndCredit, CompletePayPalCaptureAndCredit
<1>3. PICK p \in Payments : p = request[r].payment /\ payment[p].status # "none"
  BY Zenon, <1>2 DEF IndInv, RequestIsSound
<1>4. id \in Ids /\ id \in charged /\ id[1] = p
  BY ZenonT(60), <1>1, <1>2, <1>3 DEF IndInv, TypeOK, RequestIsSound
<1>5. PICK w : Rewrites(p, w)  BY SMTT(30), <1>1, <1>3, <1>4, CompleteRewrites
<1>6. PICK key : key = <<"credit", id>>  BY Zenon
<1>7. PICK a : a = payment[p].amount  BY Zenon
<1>8. /\ Books(p, "credit", a, NoRef, key) /\ IsOf(p, "credit", a, NoRef, key)
      /\ key \in Keys /\ a \in PosAmounts /\ Spent(p, id)'
  BY Zenon, <1>1, <1>2, <1>3, <1>5, <1>6, <1>7, CreditSpends
<1>9. \A q \in Payments : Kept(q)  BY Zenon, <1>5, RewriteKeeps
<1>10. charged' = charged  BY Zenon, <1>2 DEF gatewayVars
<1>11. CASE UNCHANGED ledgerVars  BY Zenon, <1>9, <1>10, <1>11, PromiseStutters
<1>12. CASE Post(payment[p].customer, "credit", a, NoRef, key)
  <2>1. PICK c \in Customers : c = payment[p].customer  BY Zenon, <1>3 DEF IndInv, RowIsSound
  <2>2. KeyFree(c, key) /\ balance' = [balance EXCEPT ![c] = balance[c] + a]
    BY Zenon, <1>12, <2>1 DEF Post, Delta
  <2>3. key # NoKey  BY Zenon, <1>8, NoKeyAssumption
  <2>4. ~Spent(p, id)  BY Zenon, <1>6, <2>1, <2>2, <2>3 DEF KeyFree, Spent
  <2>5. ~Credited(p)
    <3>1. RequestIsSound(request[r]) /\ RowIsSound(p)  BY Zenon DEF IndInv
    <3> QED  BY Zenon, <1>1, <1>2, <1>3, <2>4, <3>1 DEF RequestIsSound, RowIsSound
  <2>6. p \notin OnAccount  BY Zenon, <2>5, CreditsMeans DEF OnAccount
  <2>7. Credits(p)' # {}
    <3>1. PICK n \in DOMAIN ledger'[payment'[p].customer] :
            /\ ledger'[payment'[p].customer][n].type = "credit"
            /\ ledger'[payment'[p].customer][n].key = <<"credit", id>>
      BY Zenon, <1>8 DEF Spent
    <3>2. ledger'[payment'[p].customer][n].key[2] = id  BY Zenon, <3>1, SecondOf
    <3>3. Credited(p)'  BY Zenon, <1>4, <3>1, <3>2 DEF Credited, IsCredit
    <3> QED  BY ZenonT(60), <1>3, <1>9, <3>3, CreditsMeans DEF Kept
  <2>8. \A q \in Payments \ {p} : Credits(q)' # {} <=> Credits(q) # {}
    BY Zenon, <1>2, <1>5, <1>8, BooksCreditOnly DEF TxTypes
  <2>9. OnAccount' = OnAccount \cup {p}  BY Zenon, <2>7, <2>8 DEF OnAccount
  <2>10. p \in PaidFor /\ PaidFor' = PaidFor  BY Zenon, <1>4, <1>10 DEF PaidFor
  <2>11. Ordered' = Ordered  BY Zenon, <1>9, OrdersStay
  <2>12. Ordered[p][1] = c /\ Ordered[p][2] = a  BY Zenon, <1>3, <1>7, <2>1 DEF Ordered
  <2>13. Promise!Credit(p)
    BY Zenon, <2>2, <2>6, <2>9, <2>10, <2>11, <2>12 DEF Promise!Credit
  <2> QED  BY Zenon, <2>13 DEF Promise!TopUpNext
<1> QED  BY Zenon, <1>8, <1>11, <1>12 DEF Books

(* A refund takes back what was credited, and no more than that.           *)
LEMMA RefundTakesBack ==
  ASSUME IndInv, PaymentsAssumptions, NEW r \in Requests, MarkRefundedAndDebit(r)
  PROVE  Promise!TopUpNext \/ UNCHANGED Promise!topUpVars
<1>1. PICK p \in Payments : p = request[r].payment
  BY Zenon DEF IndInv, RequestIsSound, MarkRefundedAndDebit
<1>2. PICK a : a = request[r].amount  BY Zenon
<1>3. PICK key : key = RefundKey(request[r].event)  BY Zenon
<1>4. /\ Books(p, "debit", a, p, key) /\ IsOf(p, "debit", a, p, key)
      /\ a \in PosAmounts /\ a <= payment[p].amount
      /\ payment[p].status # "none" /\ Credited(p)
  BY Zenon, <1>1, <1>2, <1>3, RefundIsOf
<1>5. PICK w : Rewrites(p, w)  BY Zenon, <1>1, <1>4, RefundedRewrites
<1>6. \A q \in Payments : Kept(q)  BY Zenon, <1>5, RewriteKeeps
<1>7. UNCHANGED gatewayVars /\ charged' = charged  BY Zenon DEF MarkRefundedAndDebit, gatewayVars
<1>8. CASE UNCHANGED ledgerVars  BY Zenon, <1>6, <1>7, <1>8, PromiseStutters
<1>9. CASE Post(payment[p].customer, "debit", a, p, key)
  <2>1. PICK c \in Customers : c = payment[p].customer  BY Zenon, <1>4 DEF IndInv, RowIsSound
  <2>2. balance[c] \in Int /\ a \in Int
    BY Zenon, <1>4, AmountsAssumption DEF IndInv, TypeOK, LedgerTypeOK, PosAmounts
  <2>3. balance' = [balance EXCEPT ![c] = balance[c] + (-a)]  BY Zenon, <1>9, <2>1 DEF Post, Delta
  <2>4. balance[c] + (-a) = balance[c] - a  BY Zenon, <2>2
  <2>5. balance' = [balance EXCEPT ![c] = balance[c] - a]  BY Zenon, <2>3, <2>4
  <2>6. \A q \in Payments : Credits(q)' # {} <=> Credits(q) # {}
    BY Zenon, <1>4, <1>5, <1>7, BooksCreditOnly DEF TxTypes
  <2>7. OnAccount' = OnAccount  BY Zenon, <2>6 DEF OnAccount
  <2>8. p \in OnAccount  BY Zenon, <1>4, CreditsMeans DEF OnAccount
  <2>9. PaidFor' = PaidFor /\ Ordered' = Ordered  BY Zenon, <1>6, <1>7, OrdersStay DEF PaidFor
  <2>10. Ordered[p][1] = c /\ Ordered[p][2] = payment[p].amount  BY Zenon, <1>4, <2>1 DEF Ordered
  <2>11. Promise!TakeBack(p)
    BY Zenon, <1>4, <2>5, <2>7, <2>8, <2>9, <2>10 DEF Promise!TakeBack
  <2> QED  BY Zenon, <2>11 DEF Promise!TopUpNext
<1> QED  BY Zenon, <1>4, <1>8, <1>9 DEF Books

LEMMA RequestStepMaps ==
  ASSUME IndInv, PaymentsAssumptions, NEW r \in Requests, RequestStep(r)
  PROVE  Promise!TopUpNext \/ UNCHANGED Promise!topUpVars
<1>1. CASE (\E g : OpenSession(r, g)) \/ PayOut(r) \/ CryptoRefund(r)
  BY Zenon, <1>1, QuietStutters DEF OpenSession, PayOut, CryptoRefund, gatewayVars
<1>2. CASE LockGatewayPaymentID(r) \/ ClaimGatewayPaymentTx(r) \/ ClaimPayPalCaptureTx(r)
  BY Zenon, <1>2, QuietStutters
     DEF LockGatewayPaymentID, ClaimGatewayPaymentTx, ClaimPayPalCaptureTx, ClaimIf, gatewayVars
<1>3. CASE StoreSessionID(r)
  <2>1. PICK p \in Payments : p = request[r].payment /\ payment[p].status # "none"
    BY Zenon, <1>3 DEF StoreSessionID, IndInv, RequestIsSound
  <2>2. UNCHANGED <<ledgerVars, charged>>  BY Zenon, <1>3 DEF StoreSessionID
  <2>3. UpdateStatus(p, "pending", <<p, 0>>) \/ UNCHANGED payment
    BY Zenon, <1>3, <2>1 DEF StoreSessionID
  <2>4. \A q \in Payments : Kept(q)
    <3>1. CASE UpdateStatus(p, "pending", <<p, 0>>)
      <4>1. PICK o : o = <<p, 0>>  BY Zenon
      <4>2. UpdateStatus(p, "pending", o)  BY Zenon, <3>1, <4>1
      <4> QED  BY Zenon, <2>1, <4>2, UpdateKeeps
    <3>2. CASE UNCHANGED payment  BY Zenon, <3>2 DEF Kept
    <3> QED  BY Zenon, <2>3, <3>1, <3>2
  <2> QED  BY Zenon, <2>2, <2>4, PromiseStutters
<1>4. CASE CompleteWithGatewayPaymentIDAndCredit(r) \/ CompletePayPalCaptureAndCredit(r)
  BY Zenon, <1>4, CompleteCredits
<1>5. CASE MarkRefundedAndDebit(r)  BY Zenon, <1>5, RefundTakesBack
<1>6. CASE CaptureOrder(r)
  <2>1. PICK p \in Payments : p = request[r].payment
    BY Zenon, <1>6 DEF CaptureOrder, IndInv, RequestIsSound
  <2>2. UNCHANGED <<ledgerVars, payment>>  BY Zenon, <1>6 DEF CaptureOrder
  <2>3. CASE charged' = charged  BY Zenon, <2>2, <2>3, QuietStutters
  <2>4. CASE charged' # charged
    <3>1. checkout[p] = "approved" /\ Charge(p, <<p, 1>>)  BY Zenon, <1>6, <2>1, <2>4 DEF CaptureOrder
    <3>2. PICK id : id = <<p, 1>>  BY Zenon
    <3>3. Shown(p) /\ charged' = charged \cup {id} /\ id[1] = p
      BY Zenon, <3>1, <3>2 DEF Shown, Charge
    <3> QED  BY Zenon, <2>2, <3>3, ChargeTakes DEF Promise!TopUpNext
  <2> QED  BY Zenon, <2>3, <2>4
<1> QED
  BY Zenon, <1>1, <1>2, <1>3, <1>4, <1>5, <1>6
     DEF RequestStep, CreateCheckoutSession, CreateOrder, CreateBTCPayInvoice,
         CreateNOWPaymentsInvoice, StripeRefund, PayPalRefund

LEMMA NextMaps ==
  ASSUME IndInv, IndInv', PaymentsAssumptions, [Next]_vars
  PROVE  [Promise!TopUpNext]_(Promise!topUpVars)
<1>1. ASSUME NEW r \in Requests, RequestStep(r)
      PROVE  Promise!TopUpNext \/ UNCHANGED Promise!topUpVars
  BY Zenon, <1>1, RequestStepMaps
<1>2. ASSUME NEW r \in Requests, NEW p \in Payments, NEW c \in Customers, NEW g \in Gateways,
             NEW a \in PosAmounts, InitiateTopUp(r, p, c, g, a)
      PROVE  Promise!TopUpNext
  BY Zenon, <1>2, InitiateOrders DEF Promise!TopUpNext
<1>3. ASSUME NEW r \in Requests, NEW p \in Payments, NEW a \in PosAmounts,
             RefundPayment(r, p, a)
      PROVE  UNCHANGED Promise!topUpVars
  BY Zenon, <1>3, QuietStutters DEF RefundPayment, gatewayVars
<1>4. ASSUME NEW r \in Requests, BreakOff(r) PROVE UNCHANGED Promise!topUpVars
  BY Zenon, <1>4, QuietStutters DEF BreakOff, gatewayVars
<1>5. ASSUME NEW p \in Payments, Pay(p) \/ ReleaseCapture(p)
      PROVE  Promise!TopUpNext \/ UNCHANGED Promise!topUpVars
  <2>1. PICK id : Charge(p, id) /\ id[1] = p
    <3>1. CASE Pay(p)
      <4>1. PICK n : Charge(p, IF payment[p].gateway = "btcpay" THEN <<p, 0>> ELSE <<p, n>>)
        BY Zenon, <3>1 DEF Pay
      <4>2. PICK id : id = IF payment[p].gateway = "btcpay" THEN <<p, 0>> ELSE <<p, n>>  BY Zenon
      <4>3. id[1] = p  BY Zenon, <4>2
      <4> QED  BY Zenon, <4>1, <4>2, <4>3
    <3>2. CASE ReleaseCapture(p)
      <4>1. PICK id : id = <<p, 1>>  BY Zenon
      <4>2. id[1] = p  BY Zenon, <4>1
      <4> QED  BY Zenon, <3>2, <4>1, <4>2 DEF ReleaseCapture
    <3> QED  BY Zenon, <1>5, <3>1, <3>2
  <2>2. UNCHANGED <<ledgerVars, payment>> /\ Shown(p)
    BY Zenon, <1>5 DEF Pay, ReleaseCapture, Shown
  <2>3. charged' = charged \cup {id}  BY Zenon, <2>1 DEF Charge
  <2> QED  BY Zenon, <2>1, <2>2, <2>3, ChargeTakes DEF Promise!TopUpNext
<1>6. ASSUME NEW p \in Payments, Approve(p) \/ Decline(p)
      PROVE  UNCHANGED Promise!topUpVars
  BY Zenon, <1>6, QuietStutters DEF Approve, Decline
<1>7. ASSUME NEW e \in hooks, Receive(e) PROVE UNCHANGED Promise!topUpVars
  <2>1. CASE HandlePaymentFailed(e)
    <3>1. EventIsSound(e) /\ e \in Events  BY Zenon DEF IndInv, TypeOK
    <3>2. PICK p \in Payments : p = e.id[1]  BY Zenon, <3>1 DEF Events, Ids
    <3>3. payment[p].status # "none"  BY Zenon, <3>1, <3>2, ShownIsOrdered DEF EventIsSound
    <3>4. PICK id : id = e.id  BY Zenon
    <3>5. UpdateStatus(p, "failed", id)  BY Zenon, <2>1, <3>2, <3>4 DEF HandlePaymentFailed
    <3>6. UNCHANGED <<ledgerVars, charged>>  BY Zenon, <2>1 DEF HandlePaymentFailed, gatewayVars
    <3>7. \A q \in Payments : Kept(q)  BY Zenon, <3>3, <3>5, UpdateKeeps
    <3> QED  BY Zenon, <3>6, <3>7, PromiseStutters
  <2>2. CASE ~HandlePaymentFailed(e)
    BY Zenon, <1>7, <2>2, QuietStutters
       DEF Receive, HandlePaymentCompleted, CreditFromPayment, HandleRefundCompleted, gatewayVars
  <2> QED  BY Zenon, <2>1, <2>2
<1>8. UNCHANGED vars => UNCHANGED Promise!topUpVars
  BY Zenon, QuietStutters DEF vars, ledgerVars, gatewayVars
<1>9. ASSUME NEW r \in Requests, NEW p \in Payments, CapturePayPalOrder(r, p)
      PROVE  UNCHANGED Promise!topUpVars
  BY Zenon, <1>9, QuietStutters DEF CapturePayPalOrder, gatewayVars
<1>10. CASE Next
  BY Zenon, <1>1, <1>2, <1>3, <1>4, <1>5, <1>6, <1>7, <1>9, <1>10 DEF Next
<1> QED  BY Zenon, <1>8, <1>10

(* Payments implement TopUps: a charge is credited once, with its amount,  *)
(* to the customer who ordered it, although several events report it, the  *)
(* customer captures it at the same time and requests break off; a refund  *)
(* takes back part of a credit; and nothing else moves a balance.          *)
THEOREM TopUpsAreKept ==
  ASSUME PaymentsAssumptions  PROVE Spec => ImplementsTopUps
<1>1. Init => Promise!TopUpInit
  <2> SUFFICES ASSUME Init PROVE Promise!TopUpInit  BY Zenon
  <2>1. \A p \in Payments : payment[p].status = "none"  BY Zenon DEF Init, NoRow
  <2>2. Ordered = [p \in Payments |-> <<>>]  BY Zenon, <2>1 DEF Ordered
  <2>3. PaidFor = {}  BY Zenon DEF Init, PaidFor
  <2>4. OnAccount = {}  BY Zenon, <2>1, CreditsMeans DEF OnAccount
  <2>5. balance = [c \in Customers |-> 0]  BY Zenon DEF Init, LedgerInit
  <2> QED  BY Zenon, <2>2, <2>3, <2>4, <2>5 DEF Promise!TopUpInit
<1>2. IndInv /\ IndInv' /\ [Next]_vars => [Promise!TopUpNext]_(Promise!topUpVars)
  BY Zenon, NextMaps
<1> QED
  BY <1>1, <1>2, Invariance, PTL DEF Spec, ImplementsTopUps, Promise!TopUpSpec

=============================================================================
