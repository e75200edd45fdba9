---------------------------- MODULE BillingInvariant ----------------------------
(***************************************************************************)
(* The inductive invariant of Billing: what holds between the steps of the *)
(* handlers, while rows are half-written, that makes the safety properties *)
(* of Billing hold after every step.  BillingProofs proves it.             *)
(***************************************************************************)
EXTENDS Billing

\* The handler of w is about to insert the invoice it reserved.
Opening(w) ==
  task[w].step \in {"createSubscription", "createCharge", "createPurchase", "createInvoice"}

\* Rows that exist are filled in and refer to rows that exist.
RowsConsistent ==
  /\ \A s \in SubscriptionIds : subscriptions[s].status # "AUSENTE" =>
       subscriptions[s].user \in Professionals /\ subscriptions[s].plano \in Plans
  /\ \A i \in InvoiceIds : invoices[i].subscription # 0 =>
       subscriptions[invoices[i].subscription].status # "AUSENTE"
  /\ \A r \in RefundIds : refunds[r].status # "AUSENTE" => Confirmed(refunds[r].invoice)

\* What the handler of w remembers of the rows it read still holds when it
\* goes on.
HandlerConsistent(w) ==
  /\ task[w].subscription # 0 => subscriptions[task[w].subscription].status # "AUSENTE"
  /\ task[w].op = "subscribe" => task[w].user \in Professionals
  /\ task[w].op \in {"subscribe", "changePlan"} \/ task[w].step = "setProfessionalPlano"
       => task[w].plano \in Plans
  /\ Opening(w) =>
       task[w].invoice \in InvoiceIds /\ invoices[task[w].invoice].status = "AUSENTE"
  /\ task[w].op \in {"webhook", "requestRefund", "resolveRefund"} => Confirmed(task[w].invoice)
  /\ task[w].op = "webhook" => ~Opening(w)
  /\ task[w].op = "resolveRefund" =>
       task[w].refund \in RefundIds /\ refunds[task[w].refund].status # "AUSENTE"
  /\ task[w].op = "webhook" /\ task[w].step # "findInvoice" =>
       /\ invoices[task[w].invoice].status # "AUSENTE"
       /\ invoices[task[w].invoice].subscription = task[w].subscription
       /\ invoices[task[w].invoice].purchase = task[w].purchase
       /\ task[w].step # "markPaid" => Settled(task[w].invoice)
  /\ task[w].step \in {"activatePurchase", "setContractorPlano", "schedulePurchaseExpiry",
                       "schedulePurchaseRenewal"}
       => task[w].purchase # 0 /\ task[w].date >= PURCHASE_VALIDITY_DAYS

HandlersConsistent == \A w \in Workers : HandlerConsistent(w)

\* No two handlers are about to insert the same invoice.
OpeningsDistinct ==
  \A v, w \in Workers :
    Opening(v) /\ Opening(w) /\ task[v].invoice = task[w].invoice => v = w

\* TypeOK and the three above make the safety properties inductive.
BillingInv ==
  /\ TypeOK
  /\ RowsConsistent
  /\ HandlersConsistent
  /\ OpeningsDistinct
  /\ OneLiveSubscriptionPerUser
  /\ SettledOnlyIfConfirmed
  /\ ActivatedOnlyIfPaid

--------------------------------------------------------------------------------
(* Payments *)

\* What the handler k (a task) knows of the invoice in its hands.
PaymentOK(k) ==
  /\ k.op = "webhook" /\ k.step = "markPaid" /\ k.invoice \notin raced => ~Settled(k.invoice)
  /\ k.op = "requestRefund" =>
       /\ k.refund \in RefundIds /\ refunds[k.refund].status = "AUSENTE"
       /\ Settled(k.invoice)
  /\ k.op = "resolveRefund" =>
       /\ refunds[k.refund].invoice = k.invoice
       /\ k.step \in {"markReversed", "revokeOrigin", "revokePlano", "conclude"} =>
            reversals[k.invoice] > 0
       /\ k.step \in {"revokeOrigin", "revokePlano", "conclude"} /\ k.invoice \notin raced =>
            invoices[k.invoice].status = "ESTORNADA"

\* The handler k credits a confirmation that it found payable.
Crediting(k) == k.op = "webhook" /\ k.step # "findInvoice"

\* Two handlers credit the same invoice only if it is raced; a refund has one
\* handler that inserts it.
PaymentsDistinct ==
  \A v, w \in Workers : v # w =>
    /\ Crediting(task[v]) /\ Crediting(task[w]) /\ task[v].invoice = task[w].invoice =>
         task[v].invoice \in raced
    /\ task[v].op = "requestRefund" /\ task[w].op = "requestRefund" =>
         task[v].refund # task[w].refund

PaymentRowsOK ==
  /\ \A i \in raced : invoices[i].status # "AUSENTE"
  /\ \A r \in RefundIds : refunds[r].status # "AUSENTE" => Settled(refunds[r].invoice)

PaymentsInv ==
  /\ PaymentRowsOK
  /\ \A w \in Workers : PaymentOK(task[w])
  /\ PaymentsDistinct
  /\ ConcludedIsReversed

\* The settled invoices of p whose handler has read the end of the vigência.
Granted(p) ==
  {i \in SettledOf(p) :
     \A w \in Workers : ~(At(w, "webhook", "activateOrigin") /\ task[w].invoice = i)}

\* As long as the payments of p allow its vigência, or one about to be written,
\* to last.
PaidUntil(p) == now + PURCHASE_VALIDITY_DAYS * Cardinality(Granted(p))

AccessInv ==
  /\ \A p \in PurchaseIds : ~RacedPurchase(p) => purchases[p].expiraEm <= PaidUntil(p)
  /\ \A w \in Workers : At(w, "webhook", "activatePurchase") =>
       /\ task[w].purchase \in PurchaseIds
       /\ ~RacedPurchase(task[w].purchase) => task[w].date <= PaidUntil(task[w].purchase)

\* The job that is about to expire a purchase found it over; who revokes one
\* has sent back a payment of it.
ExpiryOK(k) ==
  /\ k.op = "expirePurchase" /\ k.step = "expire" =>
       /\ k.purchase \in PurchaseIds
       /\ k.purchase \in overtaken \/ purchases[k.purchase].expiraEm <= now
  /\ k.op = "resolveRefund" => invoices[k.invoice].purchase = k.purchase

ExpiryInv ==
  /\ \A i \in InvoiceIds : reversals[i] > 0 => Settled(i)
  /\ \A w \in Workers : ExpiryOK(task[w])
  /\ ExpiredOnlyWhenOver

--------------------------------------------------------------------------------
(* The cycles of a subscription *)

\* The handler k bills a cycle of the subscription in its hands and has still
\* to schedule the next one.
InCycle(k) ==
  \/ k.op = "renewSubscription"
  \/ /\ k.op = "subscribe"
     /\ k.step \in {"createCharge", "createInvoice", "scheduleInvoiceDue",
                    "scheduleSubscriptionRenewal"}

\* A subscription is either being billed or waits for its renewal.
CycleOK(k) ==
  /\ InCycle(k) =>
       /\ k.subscription \in SubscriptionIds
       /\ renewJobs[k.subscription].state = (IF k.op = "subscribe" THEN "absent" ELSE "active")
  /\ k.step \in {"createSubscription", "createCharge", "createPurchase", "createInvoice"}
       /\ k.subscription # 0 => InCycle(k)

CyclesDistinct ==
  \A v, w \in Workers : v # w /\ InCycle(task[v]) /\ InCycle(task[w]) =>
    task[v].subscription # task[w].subscription

\* No invoice of s falls due after t.
DueBy(s, t) ==
  \A i \in InvoiceIds : invoices[i].subscription = s => invoices[i].vencimentoEm <= t

\* The invoice that k issues, and the renewal it schedules, come a period after
\* the invoices there are.
CycleDates(k) ==
  InCycle(k) =>
    /\ k.step \in {"createCharge", "createInvoice"} =>
         DueBy(k.subscription, k.date - BILLING_PERIOD_DAYS)
    /\ k.op = "subscribe" => DueBy(k.subscription, k.date)

RenewalInv ==
  /\ \A s \in SubscriptionIds :
       renewJobs[s].state # "absent" => subscriptions[s].status # "AUSENTE"
  /\ \A w \in Workers : CycleOK(task[w])
  /\ CyclesDistinct
  /\ failures = 0 =>
       /\ \A w \in Workers : CycleDates(task[w])
       /\ \A s \in SubscriptionIds : renewJobs[s].state = "delayed" =>
            DueBy(s, renewJobs[s].at + TRIAL_DAYS - BILLING_PERIOD_DAYS)
  /\ NeverBilledTwiceAPeriod

--------------------------------------------------------------------------------
(* The paid time of a purchase, as long as nothing fails *)

\* The handler k is about to issue an invoice of its purchase, or credits one.
Turn(k) ==
  /\ k.purchase # 0
  /\ \/ k.step \in {"createSubscription", "createCharge", "createPurchase", "createInvoice"}
     \/ /\ k.op = "webhook"
        /\ k.step \in {"activateOrigin", "activatePurchase", "setContractorPlano",
                       "schedulePurchaseExpiry", "schedulePurchaseRenewal"}

\* Payments of a purchase that is not raced are credited one after the other:
\* it has one handler in its turn, or one open invoice, or a renewal to come.
TurnsExclude ==
  /\ \A v, w \in Workers :
       v # w /\ Turn(task[v]) /\ Turn(task[w]) /\ ~RacedPurchase(task[w].purchase) =>
         task[v].purchase # task[w].purchase
  /\ \A i, j \in InvoiceIds :
       /\ i # j /\ Open(i) /\ Open(j)
       /\ invoices[i].purchase # 0 /\ ~RacedPurchase(invoices[i].purchase)
       => invoices[i].purchase # invoices[j].purchase
  /\ \A w \in Workers : Turn(task[w]) /\ ~RacedPurchase(task[w].purchase) =>
       /\ \A i \in InvoiceIds : Open(i) => invoices[i].purchase # task[w].purchase
       /\ purchaseRenewJobs[task[w].purchase].state # "delayed"
  /\ \A i \in InvoiceIds :
       Open(i) /\ invoices[i].purchase # 0 /\ ~RacedPurchase(invoices[i].purchase) =>
         purchaseRenewJobs[invoices[i].purchase].state # "delayed"

\* The payment in the hands of k is not yet in the vigência.
Unwritten(k) == k.op = "webhook" /\ k.step \in {"activateOrigin", "activatePurchase"}

\* What the handler k knows of its purchase and of the payment it credits.
PurchaseOK(k) ==
  /\ k.op = "purchase" => k.purchase # 0
  /\ k.op = "purchase" /\ k.step \in {"createCharge", "createPurchase"} =>
       purchases[k.purchase].status = "AUSENTE"
  /\ \/ k.op = "purchase" /\ k.step = "createInvoice"
     \/ k.op \in {"webhook", "renewPurchase"} /\ k.purchase # 0
     => purchases[k.purchase].status # "AUSENTE"
  /\ k.step \in {"createSubscription", "createCharge", "createPurchase", "createInvoice"}
       /\ k.purchase # 0
     => k.op \in {"purchase", "renewPurchase"} /\ k.subscription = 0
  /\ k.op = "webhook" /\ k.step = "activatePurchase" =>
       /\ k.purchase # 0
       /\ ~RacedPurchase(k.purchase) =>
            k.date = renewedPurchaseExpiry(purchases[k.purchase].expiraEm, now)
  /\ Unwritten(k) => invoices[k.invoice].pagoEm = now

PurchaseRowsOK ==
  /\ \A p \in PurchaseIds : purchases[p].status = "AUSENTE" =>
       /\ purchaseRenewJobs[p].state = "absent" /\ purchases[p].expiraEm = 0
       /\ \A i \in InvoiceIds : invoices[i].purchase # p
  /\ \A i \in InvoiceIds :
       /\ invoices[i].subscription = 0 \/ invoices[i].purchase = 0
       /\ Settled(i) => invoices[i].pagoEm <= now

\* The settled invoices of p that are in its vigência.
Written(p) ==
  {i \in SettledOf(p) : \A w \in Workers : ~(Unwritten(task[w]) /\ task[w].invoice = i)}

WrittenSince(p, t) == {i \in Written(p) : invoices[i].pagoEm >= t}

PaidTimeIsWritten ==
  \A p \in PurchaseIds : ~RacedPurchase(p) => \A i \in Written(p) :
    purchases[p].expiraEm >=
      invoices[i].pagoEm +
        PURCHASE_VALIDITY_DAYS * Cardinality(WrittenSince(p, invoices[i].pagoEm))

GrantInv ==
  failures = 0 =>
    /\ TurnsExclude
    /\ \A w \in Workers : PurchaseOK(task[w])
    /\ PurchaseRowsOK
    /\ PaidTimeIsWritten

===============================================================================
