-------------------------------- MODULE Billing --------------------------------
(***************************************************************************)
(* Billing of ObraCerta: professionals hold recurring subscriptions,       *)
(* contractors buy access month by month, both are charged through         *)
(* invoices that a payment gateway confirms by webhook, and a paid invoice *)
(* can be refunded.                                                        *)
(*                                                                         *)
(* A request, a webhook delivery or a job is a handler run by one worker;  *)
(* each of its awaited calls is one step, so handlers interleave between   *)
(* calls exactly as the awaits of BillingService allow.  The handler's     *)
(* local variables are the record task[w].  Handlers whose whole effect is *)
(* one guarded UPDATE are one action.                                      *)
(*                                                                         *)
(* Time is counted in days.  A handler takes milliseconds, so a day ends   *)
(* only when no handler is running.                                        *)
(***************************************************************************)
EXTENDS JobQueue, FiniteSets

CONSTANTS
  Professionals, Contractors, \* user ids, by the type of the account
  Plans,                      \* plans of professionals
  Iniciante,                  \* the baseline plan, the one with a trial
  NoUser, NoPlan,             \* null
  Workers,                    \* handlers that may run at the same time
  Confirmations,              \* the events the gateway sends for a payment
  Announcements,              \* the events it sends for a new charge
  TRIAL_DAYS, FIRST_PAYMENT_WINDOW_DAYS, BILLING_PERIOD_DAYS,
  PURCHASE_VALIDITY_DAYS, PURCHASE_RENEWAL_LEAD_DAYS,
  MaxSubscriptions, MaxPurchases, MaxInvoices, MaxRefunds, \* bounds: rows
  MaxTime,                                                 \* bound: days
  MaxFailures                                              \* bound: failures

PAID_EVENT_TYPES == {"PAYMENT_CONFIRMED", "PAYMENT_RECEIVED"}
EventTypes == PAID_EVENT_TYPES \cup {"PAYMENT_CREATED"}

ASSUME UsersAssumption ==
  /\ NoUser \notin Professionals \cup Contractors
  /\ Professionals \cap Contractors = {}
ASSUME PlansAssumption == Iniciante \in Plans /\ NoPlan \notin Plans
ASSUME GatewayAssumption ==
  /\ Confirmations \subseteq PAID_EVENT_TYPES
  /\ Announcements \subseteq EventTypes \ PAID_EVENT_TYPES
ASSUME DaysAssumption ==
  /\ TRIAL_DAYS \in Nat /\ FIRST_PAYMENT_WINDOW_DAYS \in Nat
  /\ BILLING_PERIOD_DAYS \in Nat \ {0} /\ PURCHASE_VALIDITY_DAYS \in Nat \ {0}
  /\ PURCHASE_RENEWAL_LEAD_DAYS \in 0 .. PURCHASE_VALIDITY_DAYS
ASSUME BoundsAssumption ==
  /\ MaxSubscriptions \in Nat /\ MaxPurchases \in Nat /\ MaxInvoices \in Nat
  /\ MaxRefunds \in Nat /\ MaxTime \in Nat /\ MaxFailures \in Nat

Users == Professionals \cup Contractors
SubscriptionIds == 1 .. MaxSubscriptions
PurchaseIds == 1 .. MaxPurchases
InvoiceIds == 1 .. MaxInvoices
RefundIds == 1 .. MaxRefunds

VARIABLES
  subscriptions, purchases, invoices, refunds, \* tables; "AUSENTE" is no row
  events,             \* payment_events: <<invoice, type>> already recorded
  plano,              \* professional_profiles.plano, read by the search
  planoExpiraEm,      \* contractor_profiles.plano_expira_em
  dueJobs, renewJobs, expireJobs, purchaseRenewJobs, \* the billing-jobs queue
  charges,            \* gateway: charges it created
  sent,               \* gateway: events it sent, <<charge, type>>
  reversals,          \* gateway: number of reversals of each charge
  task,               \* the handler each worker runs
  now, failures,
  raced, overtaken    \* history, in no guard of the code; see Properties

tables == <<subscriptions, purchases, invoices, refunds, events>>
profiles == <<plano, planoExpiraEm>>
queue == <<dueJobs, renewJobs, expireJobs, purchaseRenewJobs>>
gateway == <<charges, sent, reversals>>
clock == <<now, failures, raced, overtaken>>
vars == <<tables, profiles, queue, gateway, task, clock>>

--------------------------------------------------------------------------------
(* Types *)

Subscription ==
  [user : Users \cup {NoUser}, plano : Plans \cup {NoPlan},
   status : {"AUSENTE", "EM_GRACA", "ATIVA", "CANCELADA"},
   proximaCobranca : Nat]

\* expiraEm = 0 is null: no vigência starts at day 0 or ends by it.
Purchase ==
  [user : Users \cup {NoUser},
   status : {"AUSENTE", "PENDENTE", "ATIVO", "EXPIRADO", "CANCELADO"},
   expiraEm : Nat]

\* Exactly one of subscription and purchase is not 0 in a row that exists.
Invoice ==
  [status : {"AUSENTE", "PENDENTE", "VENCIDA", "PAGA", "ESTORNADA"},
   subscription : SubscriptionIds \cup {0}, purchase : PurchaseIds \cup {0},
   vencimentoEm : Nat, pagoEm : Nat]

Refund ==
  [invoice : InvoiceIds \cup {0},
   status : {"AUSENTE", "SOLICITADO", "CONCLUIDO", "RECUSADO"}]

Ops == {"idle", "subscribe", "changePlan", "renewSubscription", "purchase",
        "renewPurchase", "expirePurchase", "cancelPurchase", "webhook",
        "requestRefund", "resolveRefund"}

Steps ==
  {"idle", "createSubscription", "createCharge", "createPurchase",
   "createInvoice", "scheduleInvoiceDue", "setProximaCobranca",
   "scheduleSubscriptionRenewal", "setProfessionalPlano", "updatePlan",
   "findInvoice", "markPaid", "activateOrigin", "activatePurchase",
   "setContractorPlano", "schedulePurchaseExpiry", "schedulePurchaseRenewal",
   "cancel", "createRefund", "refuse", "gatewayRefund", "markReversed",
   "revokeOrigin", "revokePlano", "conclude", "rescheduleExpiry", "expire",
   "completeJob"}

\* The local variables of a handler.
Task ==
  [op : Ops, step : Steps, user : Users \cup {NoUser},
   subscription : SubscriptionIds \cup {0}, purchase : PurchaseIds \cup {0},
   invoice : InvoiceIds \cup {0}, refund : RefundIds \cup {0},
   plano : Plans \cup {NoPlan}, date : Nat]

TypeOK ==
  /\ subscriptions \in [SubscriptionIds -> Subscription]
  /\ purchases \in [PurchaseIds -> Purchase]
  /\ invoices \in [InvoiceIds -> Invoice]
  /\ refunds \in [RefundIds -> Refund]
  /\ events \subseteq InvoiceIds \X EventTypes
  /\ plano \in [Professionals -> Plans]
  /\ planoExpiraEm \in [Contractors -> Nat]
  /\ dueJobs \in Queue(InvoiceIds)
  /\ renewJobs \in Queue(SubscriptionIds)
  /\ expireJobs \in Queue(PurchaseIds)
  /\ purchaseRenewJobs \in Queue(PurchaseIds)
  /\ charges \subseteq InvoiceIds
  /\ sent \subseteq InvoiceIds \X EventTypes
  /\ reversals \in [InvoiceIds -> Nat]
  /\ task \in [Workers -> Task]
  /\ now \in Nat
  /\ failures \in Nat
  /\ raced \subseteq InvoiceIds
  /\ overtaken \subseteq PurchaseIds

Idle ==
  [op |-> "idle", step |-> "idle", user |-> NoUser, subscription |-> 0,
   purchase |-> 0, invoice |-> 0, refund |-> 0, plano |-> NoPlan, date |-> 0]

Init ==
  /\ subscriptions = [s \in SubscriptionIds |->
       [user |-> NoUser, plano |-> NoPlan, status |-> "AUSENTE", proximaCobranca |-> 0]]
  /\ purchases = [p \in PurchaseIds |->
       [user |-> NoUser, status |-> "AUSENTE", expiraEm |-> 0]]
  /\ invoices = [i \in InvoiceIds |->
       [status |-> "AUSENTE", subscription |-> 0, purchase |-> 0,
        vencimentoEm |-> 0, pagoEm |-> 0]]
  /\ refunds = [r \in RefundIds |-> [invoice |-> 0, status |-> "AUSENTE"]]
  /\ events = {}
  /\ plano = [u \in Professionals |-> Iniciante]
  /\ planoExpiraEm = [u \in Contractors |-> 0]
  /\ dueJobs = EmptyQueue(InvoiceIds)
  /\ renewJobs = EmptyQueue(SubscriptionIds)
  /\ expireJobs = EmptyQueue(PurchaseIds)
  /\ purchaseRenewJobs = EmptyQueue(PurchaseIds)
  /\ charges = {}
  /\ sent = {}
  /\ reversals = [i \in InvoiceIds |-> 0]
  /\ task = [w \in Workers |-> Idle]
  /\ now = 0
  /\ failures = 0
  /\ raced = {}
  /\ overtaken = {}

--------------------------------------------------------------------------------
(* Rules of the domain *)

\* Mutated: a late payment (VENCIDA) is not accepted.
canTransitionInvoiceNoLate(from, to) ==
  <<from, to>> \in {<<"PENDENTE", "PAGA">>, <<"PENDENTE", "VENCIDA">>,
                    <<"PAGA", "ESTORNADA">>}

\* INVOICE_TRANSITIONS without CANCELADA, which no code writes.
canTransitionInvoice(from, to) ==
  <<from, to>> \in {<<"PENDENTE", "PAGA">>, <<"PENDENTE", "VENCIDA">>,
                    <<"VENCIDA", "PAGA">>, <<"PAGA", "ESTORNADA">>}

isPaymentConfirmed(tipo) == tipo \in PAID_EVENT_TYPES

canRenew(status) == status \in {"EM_GRACA", "ATIVA"}

graceUntil(t) == t + TRIAL_DAYS

firstInvoiceDue(p, t) ==
  IF p = Iniciante THEN graceUntil(t) ELSE t + FIRST_PAYMENT_WINDOW_DAYS

nextCharge(t) == t + BILLING_PERIOD_DAYS

renewedPurchaseExpiry(expiraEm, t) ==
  (IF expiraEm > t THEN expiraEm ELSE t) + PURCHASE_VALIDITY_DAYS

purchaseRenewalDate(expiraEm) == expiraEm - PURCHASE_RENEWAL_LEAD_DAYS

--------------------------------------------------------------------------------
(* Queries *)

\* findActiveByUser: every status but CANCELADA.
LiveSubscriptions(u) ==
  {s \in SubscriptionIds : /\ subscriptions[s].user = u
                           /\ subscriptions[s].status \notin {"AUSENTE", "CANCELADA"}}

\* Mutated: the table without its unique index.
noUniqueIndex(u, s) == s \in SubscriptionIds

\* subscriptions_one_active_per_user_idx lets the row s of u be live.
uniqueActive(u, s) == LiveSubscriptions(u) \subseteq {s}

\* purchases.findActiveByUser: the one that lasts longest.
ActivePurchases(u) ==
  {p \in PurchaseIds : purchases[p].user = u /\ purchases[p].status \in {"ATIVO", "CANCELADO"}}

LongestPurchase(u) ==
  {p \in ActivePurchases(u) :
     \A q \in ActivePurchases(u) : purchases[q].expiraEm <= purchases[p].expiraEm}

\* Ids of rows still to be inserted; rows get ids in the order of insertion.
FreeSubscriptions == {s \in SubscriptionIds : subscriptions[s].status = "AUSENTE"}
FreeRefunds ==
  {r \in RefundIds : /\ refunds[r].status = "AUSENTE"
                     /\ \A w \in Workers : task[w].refund # r}
FreePurchases ==
  {p \in PurchaseIds : /\ purchases[p].status = "AUSENTE"
                       /\ \A w \in Workers : task[w].purchase # p}
FreeInvoices ==
  {i \in InvoiceIds : /\ invoices[i].status = "AUSENTE"
                      /\ i \notin charges
                      /\ \A w \in Workers : task[w].invoice # i}

First(n, S) == n \in S /\ \A m \in S : n <= m

--------------------------------------------------------------------------------
(* Handlers: one awaited call after the other *)

At(w, op, step) == task[w].op = op /\ task[w].step = step
Goto(w, step) == task' = [task EXCEPT ![w].step = step]
Finish(w) == task' = [task EXCEPT ![w] = Idle]
Free(w) == task[w] = Idle

\* subscribe, up to the ConflictException: no live subscription was found.
Subscribe(w, u, p) ==
  /\ Free(w)
  /\ LiveSubscriptions(u) = {}
  /\ FreeSubscriptions # {}
  /\ \E i \in InvoiceIds :
       /\ First(i, FreeInvoices)
       /\ task' = [task EXCEPT ![w] =
            [Idle EXCEPT !.op = "subscribe", !.step = "createSubscription", !.user = u,
                         !.plano = p, !.invoice = i, !.date = firstInvoiceDue(p, now)]]
  /\ UNCHANGED <<tables, profiles, queue, gateway, clock>>

\* subscriptions.create: the unique index refuses a second live row.
CreateSubscription(w) ==
  LET u == task[w].user IN
  /\ At(w, "subscribe", "createSubscription")
  /\ \/ \E s \in SubscriptionIds :
          /\ First(s, FreeSubscriptions)
          /\ uniqueActive(u, s)
          /\ subscriptions' = [subscriptions EXCEPT ![s] =
               [user |-> u, plano |-> task[w].plano, status |-> "EM_GRACA",
                proximaCobranca |-> task[w].date]]
          /\ task' = [task EXCEPT ![w].subscription = s, ![w].step = "createCharge"]
     \/ /\ \A s \in FreeSubscriptions : ~uniqueActive(u, s)
        /\ Finish(w)
        /\ UNCHANGED subscriptions
  /\ UNCHANGED <<purchases, invoices, refunds, events, profiles, queue, gateway, clock>>

\* purchase, up to its first call: nothing limits how many a user may open.
StartPurchase(w, u) ==
  /\ Free(w)
  /\ \E i \in InvoiceIds, p \in PurchaseIds :
       /\ First(i, FreeInvoices)
       /\ First(p, FreePurchases)
       /\ task' = [task EXCEPT ![w] =
            [Idle EXCEPT !.op = "purchase", !.step = "createCharge", !.user = u,
                         !.purchase = p, !.invoice = i, !.date = nextCharge(now)]]
  /\ UNCHANGED <<tables, profiles, queue, gateway, clock>>

\* gateway.createCharge, in every handler that bills; the gateway announces
\* the charge, which is no confirmation.
CreateCharge(w) ==
  /\ task[w].step = "createCharge"
  /\ charges' = charges \cup {task[w].invoice}
  /\ Goto(w, IF task[w].op = "purchase" THEN "createPurchase" ELSE "createInvoice")
  /\ sent' = sent \cup {<<task[w].invoice, t>> : t \in Announcements}
  /\ UNCHANGED <<tables, profiles, queue, reversals, clock>>

CreatePurchase(w) ==
  /\ At(w, "purchase", "createPurchase")
  /\ purchases' = [purchases EXCEPT ![task[w].purchase] =
       [user |-> task[w].user, status |-> "PENDENTE", expiraEm |-> 0]]
  /\ Goto(w, "createInvoice")
  /\ UNCHANGED <<subscriptions, invoices, refunds, events, profiles, queue, gateway, clock>>

CreateInvoice(w) ==
  /\ task[w].step = "createInvoice"
  /\ invoices' = [invoices EXCEPT ![task[w].invoice] =
       [status |-> "PENDENTE", subscription |-> task[w].subscription,
        purchase |-> task[w].purchase, vencimentoEm |-> task[w].date, pagoEm |-> 0]]
  /\ Goto(w, "scheduleInvoiceDue")
  /\ UNCHANGED <<subscriptions, purchases, refunds, events, profiles, queue, gateway, clock>>

ScheduleInvoiceDue(w) ==
  /\ task[w].step = "scheduleInvoiceDue"
  /\ dueJobs' = Add(dueJobs, task[w].invoice, task[w].date)
  /\ \/ task[w].op = "subscribe" /\ Goto(w, "scheduleSubscriptionRenewal")
     \/ task[w].op = "renewSubscription" /\ Goto(w, "setProximaCobranca")
     \/ task[w].op = "purchase" /\ Finish(w)
     \/ task[w].op = "renewPurchase" /\ Goto(w, "completeJob")
  /\ UNCHANGED <<tables, profiles, renewJobs, expireJobs, purchaseRenewJobs, gateway, clock>>

SetProximaCobranca(w) ==
  /\ At(w, "renewSubscription", "setProximaCobranca")
  /\ subscriptions' =
       [subscriptions EXCEPT ![task[w].subscription].proximaCobranca = nextCharge(now)]
  /\ Goto(w, "scheduleSubscriptionRenewal")
  /\ UNCHANGED <<purchases, invoices, refunds, events, profiles, queue, gateway, clock>>

\* Mutated: the first renewal when the first invoice is due.
ScheduleRenewalAtDueDate(w) ==
  /\ task[w].step = "scheduleSubscriptionRenewal"
  /\ renewJobs' = Add(renewJobs, task[w].subscription, task[w].date)
  /\ Goto(w, IF task[w].op = "subscribe" THEN "setProfessionalPlano" ELSE "completeJob")
  /\ UNCHANGED <<tables, profiles, dueJobs, expireJobs, purchaseRenewJobs, gateway, clock>>

\* The first renewal is a period after the first invoice is due, the next one
\* a period after this renewal.
ScheduleSubscriptionRenewal(w) ==
  /\ task[w].step = "scheduleSubscriptionRenewal"
  /\ \/ /\ task[w].op = "subscribe"
        /\ renewJobs' = Add(renewJobs, task[w].subscription, nextCharge(task[w].date))
        /\ Goto(w, "setProfessionalPlano")
     \/ /\ task[w].op = "renewSubscription"
        /\ renewJobs' = Add(renewJobs, task[w].subscription, nextCharge(now))
        /\ Goto(w, "completeJob")
  /\ UNCHANGED <<tables, profiles, dueJobs, expireJobs, purchaseRenewJobs, gateway, clock>>

\* planSync.setProfessionalPlano, the last call of subscribe, changePlan and
\* the activation of a subscription.
SetProfessionalPlano(w) ==
  /\ task[w].step = "setProfessionalPlano"
  /\ plano' = [plano EXCEPT ![task[w].user] = task[w].plano]
  /\ Finish(w)
  /\ UNCHANGED <<tables, planoExpiraEm, queue, gateway, clock>>

\* changePlan: the live subscription is read, then updated by its id.
ChangePlan(w, u, p) ==
  /\ Free(w)
  /\ p # Iniciante
  /\ \E s \in LiveSubscriptions(u) :
       /\ subscriptions[s].plano # p
       /\ task' = [task EXCEPT ![w] =
            [Idle EXCEPT !.op = "changePlan", !.step = "updatePlan", !.user = u,
                         !.subscription = s, !.plano = p]]
  /\ UNCHANGED <<tables, profiles, queue, gateway, clock>>

UpdatePlan(w) ==
  /\ At(w, "changePlan", "updatePlan")
  /\ subscriptions' = [subscriptions EXCEPT ![task[w].subscription].plano = task[w].plano]
  /\ Goto(w, "setProfessionalPlano")
  /\ UNCHANGED <<purchases, invoices, refunds, events, profiles, queue, gateway, clock>>

\* cancelSubscription: jobs, invoices and the profile are left as they are.
\* The live subscription is read, then cancelled by its id whatever its status;
\* as nothing but a cancellation ends a live one, both calls are one action.
CancelSubscription(u) ==
  /\ \E s \in LiveSubscriptions(u) :
       subscriptions' = [subscriptions EXCEPT ![s].status = "CANCELADA"]
  /\ UNCHANGED <<purchases, invoices, refunds, events, profiles, queue, gateway, task, clock>>

\* cancelPurchase: only the purchase that lasts longest can be cancelled.
StartCancelPurchase(w, u) ==
  /\ Free(w)
  /\ \E p \in LongestPurchase(u) :
       /\ purchases[p].status = "ATIVO"
       /\ task' = [task EXCEPT ![w] =
            [Idle EXCEPT !.op = "cancelPurchase", !.step = "cancel", !.purchase = p]]
  /\ UNCHANGED <<tables, profiles, queue, gateway, clock>>

\* purchases.cancel: guarded on ATIVO.
CancelPurchase(w) ==
  LET p == task[w].purchase IN
  /\ At(w, "cancelPurchase", "cancel")
  /\ purchases' = IF purchases[p].status = "ATIVO"
                    THEN [purchases EXCEPT ![p].status = "CANCELADO"]
                    ELSE purchases
  /\ Finish(w)
  /\ UNCHANGED <<subscriptions, invoices, refunds, events, profiles, queue, gateway, clock>>

--------------------------------------------------------------------------------
(* Webhook *)

\* The gateway delivers an event, any number of times; events.record inserts
\* it once and only that delivery goes on ("duplicado" otherwise).
Webhook(w, i, tipo) ==
  /\ Free(w)
  /\ <<i, tipo>> \in sent \ events
  /\ events' = events \cup {<<i, tipo>>}
  /\ task' = IF isPaymentConfirmed(tipo)
               THEN [task EXCEPT ![w] =
                      [Idle EXCEPT !.op = "webhook", !.step = "findInvoice", !.invoice = i]]
               ELSE task
  /\ UNCHANGED <<subscriptions, purchases, invoices, refunds, profiles, queue, gateway, clock>>

\* Mutated: the origin is activated before the invoice is marked.
FindInvoiceActivateFirst(w) ==
  LET inv == invoices[task[w].invoice] IN
  /\ At(w, "webhook", "findInvoice")
  /\ canTransitionInvoice(inv.status, "PAGA")
  /\ task' = [task EXCEPT ![w].step = "activateOrigin", ![w].subscription = inv.subscription,
                          ![w].purchase = inv.purchase]
  /\ UNCHANGED <<tables, profiles, queue, gateway, clock>>

\* Another handler found the invoice i payable and has not marked it yet.
AboutToMark(w, i) ==
  \E v \in Workers \ {w} : At(v, "webhook", "markPaid") /\ task[v].invoice = i

\* Mutated: an invoice is marked paid whatever its status.
FindInvoiceUnguarded(w) ==
  LET i == task[w].invoice IN
  /\ At(w, "webhook", "findInvoice")
  /\ \/ /\ invoices[i].status # "AUSENTE"
        /\ task' = [task EXCEPT ![w].step = "markPaid",
                                ![w].subscription = invoices[i].subscription,
                                ![w].purchase = invoices[i].purchase]
        /\ raced' = IF AboutToMark(w, i) THEN raced \cup {i} ELSE raced
     \/ /\ invoices[i].status = "AUSENTE"
        /\ Finish(w)
        /\ UNCHANGED raced
  /\ UNCHANGED <<tables, profiles, queue, gateway, now, failures, overtaken>>

\* invoices.findByGatewayCharge, then "sem_fatura", "ja_processada" or on.
FindInvoice(w) ==
  LET i == task[w].invoice IN
  /\ At(w, "webhook", "findInvoice")
  /\ \/ /\ canTransitionInvoice(invoices[i].status, "PAGA")
        /\ task' = [task EXCEPT ![w].step = "markPaid",
                                ![w].subscription = invoices[i].subscription,
                                ![w].purchase = invoices[i].purchase]
        /\ raced' = IF AboutToMark(w, i) THEN raced \cup {i} ELSE raced
     \/ /\ ~canTransitionInvoice(invoices[i].status, "PAGA")
        /\ Finish(w)
        /\ UNCHANGED raced
  /\ UNCHANGED <<tables, profiles, queue, gateway, now, failures, overtaken>>

\* invoices.markPaid: whatever the status is by now.
MarkPaid(w) ==
  /\ At(w, "webhook", "markPaid")
  /\ invoices' = [invoices EXCEPT ![task[w].invoice].status = "PAGA",
                                  ![task[w].invoice].pagoEm = now]
  /\ Goto(w, "activateOrigin")
  /\ UNCHANGED <<subscriptions, purchases, refunds, events, profiles, queue, gateway, clock>>

\* subscriptions.activate: whatever the status is, unless the unique index
\* refuses it (the handler throws).
ActivateSubscription(w) ==
  LET s == task[w].subscription IN
  /\ At(w, "webhook", "activateOrigin")
  /\ s # 0
  /\ \/ /\ uniqueActive(subscriptions[s].user, s)
        /\ subscriptions' = [subscriptions EXCEPT ![s].status = "ATIVA"]
        /\ task' = [task EXCEPT ![w].step = "setProfessionalPlano",
                                ![w].user = subscriptions[s].user,
                                ![w].plano = subscriptions[s].plano]
     \/ /\ ~uniqueActive(subscriptions[s].user, s)
        /\ Finish(w)
        /\ UNCHANGED subscriptions
  /\ UNCHANGED <<purchases, invoices, refunds, events, profiles, queue, gateway, clock>>

\* purchases.findById: the new end of the vigência is computed from this read.
ReadPurchase(w) ==
  LET p == task[w].purchase IN
  /\ At(w, "webhook", "activateOrigin")
  /\ p # 0
  /\ task' = [task EXCEPT ![w].step = "activatePurchase",
                          ![w].user = purchases[p].user,
                          ![w].date = renewedPurchaseExpiry(purchases[p].expiraEm, now)]
  /\ UNCHANGED <<tables, profiles, queue, gateway, clock>>

\* The expiry job has found p over and has not expired it yet.
AboutToExpire(p) == \E w \in Workers : At(w, "expirePurchase", "expire") /\ task[w].purchase = p

\* purchases.activate: whatever the status is.
ActivatePurchase(w) ==
  LET p == task[w].purchase IN
  /\ At(w, "webhook", "activatePurchase")
  /\ purchases' = [purchases EXCEPT ![p].status = "ATIVO", ![p].expiraEm = task[w].date]
  /\ overtaken' = IF AboutToExpire(p) THEN overtaken \cup {p} ELSE overtaken
  /\ Goto(w, "setContractorPlano")
  /\ UNCHANGED <<subscriptions, invoices, refunds, events, profiles, queue, gateway, now,
                 failures, raced>>

SetContractorPlano(w) ==
  /\ At(w, "webhook", "setContractorPlano")
  /\ planoExpiraEm' = [planoExpiraEm EXCEPT ![task[w].user] = task[w].date]
  /\ Goto(w, "schedulePurchaseExpiry")
  /\ UNCHANGED <<tables, plano, queue, gateway, clock>>

SchedulePurchaseExpiry(w) ==
  /\ At(w, "webhook", "schedulePurchaseExpiry")
  /\ expireJobs' = Add(expireJobs, task[w].purchase, task[w].date)
  /\ Goto(w, "schedulePurchaseRenewal")
  /\ UNCHANGED <<tables, profiles, dueJobs, renewJobs, purchaseRenewJobs, gateway, clock>>

SchedulePurchaseRenewal(w) ==
  /\ At(w, "webhook", "schedulePurchaseRenewal")
  /\ purchaseRenewJobs' =
       Add(purchaseRenewJobs, task[w].purchase, purchaseRenewalDate(task[w].date))
  /\ Finish(w)
  /\ UNCHANGED <<tables, profiles, dueJobs, renewJobs, expireJobs, gateway, clock>>

--------------------------------------------------------------------------------
(* Refunds *)

\* requestRefund, up to its insert: the invoice is read as paid; any reason
\* that grants a positive amount.
RequestRefund(w, i) ==
  /\ Free(w)
  /\ canTransitionInvoice(invoices[i].status, "ESTORNADA")
  /\ \E r \in RefundIds :
       /\ First(r, FreeRefunds)
       /\ task' = [task EXCEPT ![w] =
            [Idle EXCEPT !.op = "requestRefund", !.step = "createRefund",
                         !.invoice = i, !.refund = r]]
  /\ UNCHANGED <<tables, profiles, queue, gateway, clock>>

CreateRefund(w) ==
  /\ At(w, "requestRefund", "createRefund")
  /\ refunds' = [refunds EXCEPT ![task[w].refund] =
       [invoice |-> task[w].invoice, status |-> "SOLICITADO"]]
  /\ Finish(w)
  /\ UNCHANGED <<subscriptions, purchases, invoices, events, profiles, queue, gateway, clock>>

\* resolveRefund: the refund (and, to approve, its invoice) is read.
ResolveRefund(w, r, aprovar) ==
  LET i == refunds[r].invoice IN
  /\ Free(w)
  /\ refunds[r].status = "SOLICITADO"
  /\ task' = [task EXCEPT ![w] =
       [Idle EXCEPT !.op = "resolveRefund",
                    !.step = IF aprovar THEN "gatewayRefund" ELSE "refuse",
                    !.refund = r, !.invoice = i,
                    !.subscription = invoices[i].subscription,
                    !.purchase = invoices[i].purchase]]
  /\ UNCHANGED <<tables, profiles, queue, gateway, clock>>

RefuseRefund(w) ==
  /\ At(w, "resolveRefund", "refuse")
  /\ refunds' = [refunds EXCEPT ![task[w].refund].status = "RECUSADO"]
  /\ Finish(w)
  /\ UNCHANGED <<subscriptions, purchases, invoices, events, profiles, queue, gateway, clock>>

\* Mutated: the transition of the invoice is left out.
GatewayRefundUnmarked(w) ==
  /\ At(w, "resolveRefund", "gatewayRefund")
  /\ reversals' = [reversals EXCEPT ![task[w].invoice] = @ + 1]
  /\ Goto(w, "revokeOrigin")
  /\ UNCHANGED <<tables, profiles, queue, charges, sent, clock>>

\* gateway.refund: money goes back.
GatewayRefund(w) ==
  /\ At(w, "resolveRefund", "gatewayRefund")
  /\ reversals' = [reversals EXCEPT ![task[w].invoice] = @ + 1]
  /\ Goto(w, "markReversed")
  /\ UNCHANGED <<tables, profiles, queue, charges, sent, clock>>

\* invoices.transition(PAGA -> ESTORNADA): its result is not looked at.
MarkReversed(w) ==
  LET i == task[w].invoice IN
  /\ At(w, "resolveRefund", "markReversed")
  /\ invoices' = IF invoices[i].status = "PAGA"
                   THEN [invoices EXCEPT ![i].status = "ESTORNADA"]
                   ELSE invoices
  /\ Goto(w, "revokeOrigin")
  /\ UNCHANGED <<subscriptions, purchases, refunds, events, profiles, queue, gateway, clock>>

\* purchases.expire (guarded on ATIVO) or subscriptions.cancel (not guarded).
RevokeOrigin(w) ==
  LET p == task[w].purchase
      s == task[w].subscription IN
  /\ At(w, "resolveRefund", "revokeOrigin")
  /\ \/ /\ p # 0
        /\ purchases' = IF purchases[p].status = "ATIVO"
                          THEN [purchases EXCEPT ![p].status = "EXPIRADO"]
                          ELSE purchases
        /\ task' = [task EXCEPT ![w].step = "revokePlano", ![w].user = purchases[p].user]
        /\ UNCHANGED subscriptions
     \/ /\ p = 0 /\ s # 0
        /\ subscriptions' = [subscriptions EXCEPT ![s].status = "CANCELADA"]
        /\ task' = [task EXCEPT ![w].step = "revokePlano", ![w].user = subscriptions[s].user]
        /\ UNCHANGED purchases
  /\ UNCHANGED <<invoices, refunds, events, profiles, queue, gateway, clock>>

\* planSync.resetProfessionalPlano or planSync.expireContractorPlano: of the
\* user, whatever else that user holds.
RevokePlano(w) ==
  LET u == task[w].user IN
  /\ task[w].step = "revokePlano"
  /\ \/ u \in Professionals /\ plano' = [plano EXCEPT ![u] = Iniciante]
                             /\ UNCHANGED planoExpiraEm
     \/ u \in Contractors /\ planoExpiraEm' = [planoExpiraEm EXCEPT ![u] = now]
                           /\ UNCHANGED plano
  /\ Goto(w, IF task[w].op = "resolveRefund" THEN "conclude" ELSE "completeJob")
  /\ UNCHANGED <<tables, queue, gateway, clock>>

ConcludeRefund(w) ==
  /\ At(w, "resolveRefund", "conclude")
  /\ refunds' = [refunds EXCEPT ![task[w].refund].status = "CONCLUIDO"]
  /\ Finish(w)
  /\ UNCHANGED <<subscriptions, purchases, invoices, events, profiles, queue, gateway, clock>>

--------------------------------------------------------------------------------
(* Jobs *)

\* Mutated: the UPDATE without its guard.
ExpireInvoiceAlways(i) ==
  /\ Due(dueJobs, i, now)
  /\ dueJobs' = Complete(dueJobs, i)
  /\ invoices' = [invoices EXCEPT ![i].status = "VENCIDA"]
  /\ UNCHANGED <<subscriptions, purchases, refunds, events, profiles, renewJobs,
                 expireJobs, purchaseRenewJobs, gateway, task, clock>>

\* Mutated: off by one, an invoice due right now is left for a job that never
\* comes.
ExpireInvoiceOverdue(i) ==
  /\ Due(dueJobs, i, now)
  /\ dueJobs' = Complete(dueJobs, i)
  /\ invoices' = IF invoices[i].status = "PENDENTE" /\ invoices[i].vencimentoEm < now
                   THEN [invoices EXCEPT ![i].status = "VENCIDA"]
                   ELSE invoices
  /\ UNCHANGED <<subscriptions, purchases, refunds, events, profiles, renewJobs,
                 expireJobs, purchaseRenewJobs, gateway, task, clock>>

\* expireInvoiceIfPending: one guarded UPDATE.
ExpireInvoice(i) ==
  /\ Due(dueJobs, i, now)
  /\ dueJobs' = Complete(dueJobs, i)
  /\ invoices' = IF invoices[i].status = "PENDENTE"
                   THEN [invoices EXCEPT ![i].status = "VENCIDA"]
                   ELSE invoices
  /\ UNCHANGED <<subscriptions, purchases, refunds, events, profiles, renewJobs,
                 expireJobs, purchaseRenewJobs, gateway, task, clock>>

\* renewSubscriptionIfDue: a cancelled subscription takes the plan of the
\* profile away, a live one is billed for the next cycle.
RenewSubscription(w, s) ==
  /\ Free(w)
  /\ Due(renewJobs, s, now)
  /\ renewJobs' = Take(renewJobs, s)
  /\ \/ /\ subscriptions[s].status = "CANCELADA"
        /\ task' = [task EXCEPT ![w] =
             [Idle EXCEPT !.op = "renewSubscription", !.step = "revokePlano",
                          !.user = subscriptions[s].user, !.subscription = s]]
     \/ /\ canRenew(subscriptions[s].status)
        /\ \E i \in InvoiceIds :
             /\ First(i, FreeInvoices)
             /\ task' = [task EXCEPT ![w] =
                  [Idle EXCEPT !.op = "renewSubscription", !.step = "createCharge",
                               !.user = subscriptions[s].user, !.subscription = s,
                               !.invoice = i, !.date = graceUntil(now)]]
  /\ UNCHANGED <<tables, profiles, dueJobs, expireJobs, purchaseRenewJobs, gateway, clock>>

\* renewPurchaseIfDue: the invoice is due when the current vigência ends.
RenewPurchase(w, p) ==
  /\ Free(w)
  /\ Due(purchaseRenewJobs, p, now)
  /\ purchaseRenewJobs' = Take(purchaseRenewJobs, p)
  /\ \/ /\ purchases[p].status # "ATIVO"
        /\ task' = [task EXCEPT ![w] =
             [Idle EXCEPT !.op = "renewPurchase", !.step = "completeJob", !.purchase = p]]
     \/ /\ purchases[p].status = "ATIVO"
        /\ \E i \in InvoiceIds :
             /\ First(i, FreeInvoices)
             /\ task' = [task EXCEPT ![w] =
                  [Idle EXCEPT !.op = "renewPurchase", !.step = "createCharge",
                               !.user = purchases[p].user, !.purchase = p,
                               !.invoice = i, !.date = purchases[p].expiraEm]]
  /\ UNCHANGED <<tables, profiles, dueJobs, renewJobs, expireJobs, gateway, clock>>

\* Mutated: the end of the vigência is not looked at.
ExpirePurchaseAnyway(w, p) ==
  /\ Free(w)
  /\ Due(expireJobs, p, now)
  /\ expireJobs' = Take(expireJobs, p)
  /\ task' = [task EXCEPT ![w] =
       [Idle EXCEPT !.op = "expirePurchase", !.step = "expire",
                    !.purchase = p, !.date = purchases[p].expiraEm]]
  /\ UNCHANGED <<tables, profiles, dueJobs, renewJobs, purchaseRenewJobs, gateway, clock>>

\* expirePurchaseIfActive: the end of the vigência is read first.
ExpirePurchase(w, p) ==
  /\ Free(w)
  /\ Due(expireJobs, p, now)
  /\ expireJobs' = Take(expireJobs, p)
  /\ task' = [task EXCEPT ![w] =
       [Idle EXCEPT !.op = "expirePurchase",
                    !.step = IF purchases[p].expiraEm > now THEN "rescheduleExpiry" ELSE "expire",
                    !.purchase = p, !.date = purchases[p].expiraEm]]
  /\ UNCHANGED <<tables, profiles, dueJobs, renewJobs, purchaseRenewJobs, gateway, clock>>

\* The job adds itself again while it is still running.
RescheduleExpiry(w) ==
  /\ At(w, "expirePurchase", "rescheduleExpiry")
  /\ expireJobs' = Add(expireJobs, task[w].purchase, task[w].date)
  /\ Goto(w, "completeJob")
  /\ UNCHANGED <<tables, profiles, dueJobs, renewJobs, purchaseRenewJobs, gateway, clock>>

\* purchases.expire: guarded on ATIVO, not on the date that was read.
Expire(w) ==
  LET p == task[w].purchase IN
  /\ At(w, "expirePurchase", "expire")
  /\ purchases' = IF purchases[p].status = "ATIVO"
                    THEN [purchases EXCEPT ![p].status = "EXPIRADO"]
                    ELSE purchases
  /\ Goto(w, "completeJob")
  /\ UNCHANGED <<subscriptions, invoices, refunds, events, profiles, queue, gateway, clock>>

\* The processor returned: removeOnComplete frees the id of its job.
CompleteJob(w) ==
  /\ task[w].step = "completeJob"
  /\ \/ /\ task[w].op = "renewSubscription"
        /\ renewJobs' = Complete(renewJobs, task[w].subscription)
        /\ UNCHANGED <<expireJobs, purchaseRenewJobs>>
     \/ /\ task[w].op = "renewPurchase"
        /\ purchaseRenewJobs' = Complete(purchaseRenewJobs, task[w].purchase)
        /\ UNCHANGED <<renewJobs, expireJobs>>
     \/ /\ task[w].op = "expirePurchase"
        /\ expireJobs' = Complete(expireJobs, task[w].purchase)
        /\ UNCHANGED <<renewJobs, purchaseRenewJobs>>
  /\ Finish(w)
  /\ UNCHANGED <<tables, profiles, dueJobs, gateway, clock>>

--------------------------------------------------------------------------------
(* The environment: the gateway, time, failures *)

Confirmed(i) == \E t \in PAID_EVENT_TYPES : <<i, t>> \in sent

\* A charge is paid; the gateway says so with one event or with several.
ConfirmPayment(i) ==
  /\ i \in charges /\ ~Confirmed(i)
  /\ sent' = sent \cup {<<i, t>> : t \in Confirmations}
  /\ UNCHANGED <<tables, profiles, queue, charges, reversals, task, clock>>

Tick ==
  /\ now < MaxTime
  /\ \A w \in Workers : Free(w)
  /\ now' = now + 1
  /\ UNCHANGED <<tables, profiles, queue, gateway, task, failures, raced, overtaken>>

\* The job of a handler that stops before it returns: one that threw stays
\* failed, one whose worker died is run again.
Abandon(q, id, isJob) ==
  IF isJob THEN {Fail(q, id), Stall(q, id)} ELSE {q}

\* The awaited call of a handler throws, or the process dies: the steps done
\* remain done, nothing is rolled back.
Failure(w) ==
  /\ ~Free(w)
  /\ failures < MaxFailures
  /\ failures' = failures + 1
  /\ renewJobs' \in Abandon(renewJobs, task[w].subscription, task[w].op = "renewSubscription")
  /\ purchaseRenewJobs' \in
       Abandon(purchaseRenewJobs, task[w].purchase, task[w].op = "renewPurchase")
  /\ expireJobs' \in Abandon(expireJobs, task[w].purchase, task[w].op = "expirePurchase")
  /\ Finish(w)
  /\ UNCHANGED <<tables, profiles, dueJobs, gateway, now, raced, overtaken>>

\* The UPDATE of an invoice-due job throws.
FailDueJob(i) ==
  /\ Due(dueJobs, i, now)
  /\ failures < MaxFailures
  /\ failures' = failures + 1
  /\ dueJobs' = Fail(dueJobs, i)
  /\ UNCHANGED <<tables, profiles, renewJobs, expireJobs, purchaseRenewJobs, gateway, task,
                 now, raced, overtaken>>

--------------------------------------------------------------------------------
(* Specification *)

\* The next awaited call of the handler worker w runs.
Step(w) ==
  \/ CreateSubscription(w) \/ CreateCharge(w) \/ CreatePurchase(w) \/ CreateInvoice(w)
  \/ ScheduleInvoiceDue(w) \/ SetProximaCobranca(w) \/ ScheduleSubscriptionRenewal(w)
  \/ SetProfessionalPlano(w) \/ UpdatePlan(w)
  \/ FindInvoice(w) \/ MarkPaid(w) \/ ActivateSubscription(w) \/ ReadPurchase(w)
  \/ ActivatePurchase(w) \/ SetContractorPlano(w) \/ SchedulePurchaseExpiry(w)
  \/ SchedulePurchaseRenewal(w)
  \/ CancelPurchase(w)
  \/ CreateRefund(w) \/ RefuseRefund(w) \/ GatewayRefund(w) \/ MarkReversed(w) \/ RevokeOrigin(w)
  \/ RevokePlano(w) \/ ConcludeRefund(w)
  \/ RescheduleExpiry(w) \/ Expire(w) \/ CompleteJob(w)

\* What users and moderators may ask for.
Request ==
  \/ \E w \in Workers, u \in Professionals, p \in Plans : Subscribe(w, u, p) \/ ChangePlan(w, u, p)
  \/ \E w \in Workers, u \in Contractors : StartPurchase(w, u)
  \/ \E u \in Professionals : CancelSubscription(u)
  \/ \E w \in Workers, u \in Contractors : StartCancelPurchase(w, u)
  \/ \E w \in Workers, i \in InvoiceIds : RequestRefund(w, i)
  \/ \E w \in Workers, r \in RefundIds, aprovar \in BOOLEAN : ResolveRefund(w, r, aprovar)

StartRenewSubscription(s) == \E w \in Workers : RenewSubscription(w, s)
StartRenewPurchase(p) == \E w \in Workers : RenewPurchase(w, p)
StartExpirePurchase(p) == \E w \in Workers : ExpirePurchase(w, p)
Deliver(i, tipo) == \E w \in Workers : Webhook(w, i, tipo)

Next ==
  \/ Request
  \/ \E w \in Workers : Step(w) \/ Failure(w)
  \/ \E i \in InvoiceIds : ExpireInvoice(i) \/ FailDueJob(i)
  \/ \E s \in SubscriptionIds : StartRenewSubscription(s)
  \/ \E p \in PurchaseIds : StartRenewPurchase(p) \/ StartExpirePurchase(p)
  \/ \E i \in InvoiceIds, tipo \in EventTypes : Deliver(i, tipo)
  \/ \E i \in InvoiceIds : ConfirmPayment(i)
  \/ Tick

Spec == Init /\ [][Next]_vars

\* Handlers that started finish, due jobs are picked up, the gateway goes on
\* redelivering, days pass.  Users, payers and failures owe nothing.  Strong
\* fairness where the action waits for a free worker: the bound on Workers is
\* the model's, the API has none.
Fairness ==
  /\ \A w \in Workers : WF_vars(Step(w))
  /\ \A i \in InvoiceIds : WF_vars(ExpireInvoice(i))
  /\ \A s \in SubscriptionIds : SF_vars(StartRenewSubscription(s))
  /\ \A p \in PurchaseIds : SF_vars(StartRenewPurchase(p)) /\ SF_vars(StartExpirePurchase(p))
  /\ \A i \in InvoiceIds, tipo \in EventTypes : SF_vars(Deliver(i, tipo))
  /\ WF_vars(Tick)

FairSpec == Spec /\ Fairness

--------------------------------------------------------------------------------
(* Properties *)

Quiet == \A w \in Workers : Free(w)
Open(i) == invoices[i].status \in {"PENDENTE", "VENCIDA"}
Settled(i) == invoices[i].status \in {"PAGA", "ESTORNADA"}
SettledOf(p) == {i \in InvoiceIds : invoices[i].purchase = p /\ Settled(i)}

\* What the calls of two handlers, in an unlucky order, do not keep is said of
\* the rest, which the history variables tell apart: raced holds the invoices
\* that two confirmations found payable before either marked it paid, overtaken
\* the purchases that a payment extended between the two calls of the job that
\* expires them.  The end of this module says what becomes of those.
RacedPurchase(p) == \E i \in raced : invoices[i].purchase = p
Reversed(p) == \E i \in InvoiceIds : invoices[i].purchase = p /\ reversals[i] > 0

\* findLastByUser
LastSubscription(u) ==
  {s \in SubscriptionIds :
     /\ subscriptions[s].user = u
     /\ \A t \in SubscriptionIds : subscriptions[t].user = u => t <= s}

\* activePlan of a professional: the last subscription, while it is live or
\* cancelled with vigência left; else the baseline.
activePlan(u) ==
  LET granting == {s \in LastSubscription(u) :
                     \/ canRenew(subscriptions[s].status)
                     \/ /\ subscriptions[s].status = "CANCELADA"
                        /\ subscriptions[s].proximaCobranca > now}
  IN IF granting = {} THEN Iniciante ELSE subscriptions[CHOOSE s \in granting : TRUE].plano

\* A professional never holds two subscriptions at once, however two subscribe
\* calls, a late payment of a cancelled subscription and a refund interleave
\* (billing.service.ts subscribe and activateOrigin; schema/subscriptions.ts).
OneLiveSubscriptionPerUser ==
  \A s, t \in SubscriptionIds :
    /\ canRenew(subscriptions[s].status) /\ canRenew(subscriptions[t].status)
    /\ subscriptions[s].user = subscriptions[t].user
    => s = t

\* No invoice is settled, and no money is sent back, unless the gateway
\* confirmed that very charge (handleWebhook, resolveRefund).
SettledOnlyIfConfirmed ==
  \A i \in InvoiceIds : Settled(i) \/ reversals[i] > 0 => Confirmed(i)

\* Nothing is activated before an invoice of it was settled: a handler that
\* dies half-way leaves a paid invoice without access, never access without a
\* paid invoice (handleWebhook marks the invoice, then activates its origin).
ActivatedOnlyIfPaid ==
  /\ \A s \in SubscriptionIds : subscriptions[s].status = "ATIVA" =>
       \E i \in InvoiceIds : invoices[i].subscription = s /\ Settled(i)
  /\ \A p \in PurchaseIds : purchases[p].expiraEm > 0 => SettledOf(p) # {}

\* The access to p lasts no longer than one validity per settled invoice.
AccessPaidFor(p) ==
  purchases[p].expiraEm <= now + PURCHASE_VALIDITY_DAYS * Cardinality(SettledOf(p))

\* Access never outlasts what was paid: one validity per settled invoice,
\* whatever is redelivered, confirmed by a second event ("ja_processada"),
\* cancelled, refunded or crashes in between (handleWebhook, events.record).
AccessWithinPayments == \A p \in PurchaseIds : ~RacedPurchase(p) => AccessPaidFor(p)

\* From any payment of p on, one validity for it and one for each payment since.
PaidTimeIsAdded(p) ==
  \A i \in SettledOf(p) :
    purchases[p].expiraEm >= invoices[i].pagoEm + PURCHASE_VALIDITY_DAYS *
      Cardinality({j \in SettledOf(p) : invoices[j].pagoEm >= invoices[i].pagoEm})

\* An expired purchase is over, or was refunded.
ExpiredOnlyWhenOver ==
  \A p \in PurchaseIds :
    purchases[p].status = "EXPIRADO" /\ p \notin overtaken =>
      purchases[p].expiraEm <= now \/ Reversed(p)

\* Access lasts as long as was paid.  Each payment adds its validity to those
\* before, so paying a renewal early loses no day (renewedPurchaseExpiry); and
\* the job of an earlier end does not take away the access that a payment
\* extended since (expirePurchaseIfActive), not even after a crash.
PaidTimeIsGranted ==
  /\ Quiet /\ failures = 0 =>
       \A p \in PurchaseIds : ~RacedPurchase(p) => PaidTimeIsAdded(p)
  /\ ExpiredOnlyWhenOver

\* A subscription is never billed twice within a period (subscribe schedules
\* the first renewal a period after the first invoice is due).
NeverBilledTwiceAPeriod ==
  failures = 0 =>
    \A i, j \in InvoiceIds :
      /\ i # j /\ invoices[i].subscription = invoices[j].subscription
      /\ invoices[i].subscription # 0
      /\ invoices[i].vencimentoEm <= invoices[j].vencimentoEm
      => invoices[i].vencimentoEm + BILLING_PERIOD_DAYS <= invoices[j].vencimentoEm

\* A concluded refund's invoice is reversed, and stays so: confirmations that
\* come after the first are too late (resolveRefund concludes the refund last).
ConcludedIsReversed ==
  \A r \in RefundIds : refunds[r].status = "CONCLUIDO" /\ refunds[r].invoice \notin raced =>
    invoices[refunds[r].invoice].status = "ESTORNADA" /\ reversals[refunds[r].invoice] > 0

\* The life of an invoice: every step follows INVOICE_TRANSITIONS
\* (billing-rules.ts), although markPaid does not look at the status.
InvoiceMachine ==
  [][\A i \in InvoiceIds \ raced :
       \/ invoices'[i].status = invoices[i].status
       \/ invoices[i].status = "AUSENTE" /\ invoices'[i].status = "PENDENTE"
       \/ canTransitionInvoice(invoices[i].status, invoices'[i].status)]_vars

\* An invoice that is not paid falls due (VENCIDA) or is paid.
PendingIsResolved ==
  \A i \in InvoiceIds :
    invoices[i].status = "PENDENTE" /\ invoices[i].vencimentoEm <= MaxTime
      ~> invoices[i].status # "PENDENTE"

\* A payment that the gateway confirms after the invoice was issued, on time
\* or late, is credited.
Unseen(i) == \A t \in PAID_EVENT_TYPES : <<i, t>> \notin events
ConfirmedIsCredited ==
  \A i \in InvoiceIds : Open(i) /\ Confirmed(i) /\ Unseen(i) ~> Settled(i)

--------------------------------------------------------------------------------
(* What the documentation says and the code does not keep *)

\* "Processa um webhook de pagamento de forma IDEMPOTENTE" (billing.service.ts:393)
\* and "novo evento, mas a fatura já está PAGA" is 'ja_processada'
\* (billing.flow.int-spec.ts:131): a payment is credited once, however many
\* events confirm it.
CreditedOnce == \A p \in PurchaseIds : AccessPaidFor(p)

\* "Transições válidas da fatura (máquina de estados)" (billing-rules.ts:122)
\* has none from ESTORNADA.
ReversedForGood ==
  [][\A i \in InvoiceIds :
       invoices[i].status = "ESTORNADA" => invoices'[i].status = "ESTORNADA"]_vars

\* "um job agendado para a data antiga reagenda em vez de expirar acesso vigente"
\* (billing.service.ts:633).
NeverExpiredEarly ==
  \A p \in PurchaseIds :
    purchases[p].status = "EXPIRADO" => purchases[p].expiraEm <= now \/ Reversed(p)

\* "Só faturas pagas podem ser estornadas" (billing.service.ts:544): money is
\* sent back only for an invoice that is PAGA.
OnlyPaidIsReversed ==
  [][\A i \in InvoiceIds :
       reversals'[i] > reversals[i] => invoices[i].status = "PAGA"]_vars

\* "ao fim de cada período de 30 dias, uma nova cobrança é gerada" (terms of
\* use): a live subscription always has its next renewal scheduled.
RenewalGoesOn ==
  Quiet /\ failures = 0 =>
    \A s \in SubscriptionIds :
      canRenew(subscriptions[s].status) => renewJobs[s].state = "delayed"

\* "o acesso aos recursos do plano continua até o fim do período já pago"
\* (terms of use, on cancelling): the month of a payment is not lost.
CancelKeepsPaidPeriod ==
  Quiet /\ failures = 0 =>
    \A u \in Professionals, s \in SubscriptionIds, i \in InvoiceIds :
      /\ s \in LastSubscription(u) /\ subscriptions[s].status = "CANCELADA"
      /\ invoices[i].subscription = s /\ invoices[i].status = "PAGA"
      /\ now < invoices[i].pagoEm + BILLING_PERIOD_DAYS
      => activePlan(u) = subscriptions[s].plano

\* "Em pagamento confirmado, marca a fatura PAGA" (billing.service.ts:394):
\* once a confirmation was taken in and its handler is gone, the invoice is
\* settled.
RecordedPaymentIsCredited ==
  Quiet => \A i \in InvoiceIds : Open(i) => Unseen(i)

================================================================================
