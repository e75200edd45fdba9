----------------------------- MODULE BillingProofs -----------------------------
(***************************************************************************)
(* Proofs about Billing for any number of users, workers, rows, days and   *)
(* failures.  BillingInv (see BillingInvariant) is inductive:              *)
(*                                                                         *)
(*   - a step of the handler w lets rows only grow (RowsGrow), so what any *)
(*     other handler remembers stays true (OthersStayConsistent);          *)
(*   - HandlerStep reduces the invariant to what the step of w itself must *)
(*     keep; there is one lemma per action;                                *)
(*   - BillingStep joins them, and the first theorems follow.              *)
(*                                                                         *)
(* Above BillingInv five more invariants, each a layer of its own: the     *)
(* payments (PaymentsInv), the access they give (AccessInv), the cycles of *)
(* a subscription (RenewalInv), the paid time of a purchase (GrantInv) and *)
(* its end (ExpiryInv).                                                    *)
(* Their lemmas share a few that say what any step does to one task        *)
(* (GoesOn, Movers), to one invoice (InvoiceColumns), to one purchase      *)
(* (PurchaseSteps) and to one job (RenewalJobSteps, PurchaseJobSteps).     *)
(***************************************************************************)
EXTENDS BillingInvariant, FiniteSetTheorems, TLAPS

\* What the properties and RowsConsistent are about.
rows == <<subscriptions, purchases, invoices, refunds, sent, reversals>>

\* A step of the handler w disturbs no other handler: rows are only added to,
\* and the only invoice it may insert is the one it reserved.
RowsGrow(w) ==
  /\ \A s \in SubscriptionIds :
       subscriptions[s].status # "AUSENTE" => subscriptions'[s].status # "AUSENTE"
  /\ \A i \in InvoiceIds :
       /\ Confirmed(i) => Confirmed(i)'
       /\ Settled(i) => Settled(i)'
       /\ invoices[i].status # "AUSENTE" =>
            /\ invoices'[i].status # "AUSENTE"
            /\ invoices'[i].subscription = invoices[i].subscription
            /\ invoices'[i].purchase = invoices[i].purchase
       /\ invoices[i].status = "AUSENTE" =>
            invoices'[i].status = "AUSENTE" \/ (Opening(w) /\ i = task[w].invoice)
  /\ \A r \in RefundIds : refunds[r].status # "AUSENTE" => refunds'[r].status # "AUSENTE"

OthersWait(w) == \A v \in Workers \ {w} : task'[v] = task[v]

\* The gateway sends events only about charges, and a charge is an invoice id.
LEMMA ConfirmedIsInvoice ==
  ASSUME TypeOK, NEW i, Confirmed(i)
  PROVE i \in InvoiceIds
BY DEF TypeOK, Confirmed

\* A step that leaves the rows alone disturbs no property of them.
LEMMA RowsUnchanged ==
  ASSUME BillingInv, UNCHANGED rows, NEW w \in Workers
  PROVE  /\ RowsConsistent' /\ RowsGrow(w)
         /\ OneLiveSubscriptionPerUser' /\ SettledOnlyIfConfirmed' /\ ActivatedOnlyIfPaid'
<1>1. UNCHANGED <<subscriptions, purchases, invoices, refunds, sent, reversals>>
  BY DEF rows
<1>2. RowsConsistent'
  BY <1>1 DEF BillingInv, RowsConsistent, Confirmed
<1>3. RowsGrow(w)
  BY <1>1 DEF RowsGrow, Confirmed, Settled
<1>4. OneLiveSubscriptionPerUser' /\ SettledOnlyIfConfirmed'
  BY <1>1 DEF BillingInv, OneLiveSubscriptionPerUser, SettledOnlyIfConfirmed, Confirmed, Settled
<1>5. ActivatedOnlyIfPaid'
  BY <1>1 DEF BillingInv, ActivatedOnlyIfPaid, SettledOf, Settled
<1> QED
  BY <1>2, <1>3, <1>4, <1>5

\* What a handler remembers of rows stays true however rows grow.  (i is a
\* constant here: Settled(task[v].invoice)' would be about task'.)
LEMMA Remembered ==
  ASSUME BillingInv, NEW w \in Workers, RowsGrow(w), NEW v \in Workers,
         NEW i, i = task[v].invoice
  PROVE  /\ task[v] \in Task /\ HandlerConsistent(v)
         /\ task[v].subscription # 0 => subscriptions'[task[v].subscription].status # "AUSENTE"
         /\ task[v].op \in {"webhook", "requestRefund", "resolveRefund"} =>
              i \in InvoiceIds /\ Confirmed(i)'
         /\ task[v].op = "resolveRefund" =>
              task[v].refund \in RefundIds /\ refunds'[task[v].refund].status # "AUSENTE"
         /\ task[v].op = "webhook" /\ task[v].step # "findInvoice" =>
              /\ invoices'[i].status # "AUSENTE"
              /\ invoices'[i].subscription = task[v].subscription
              /\ invoices'[i].purchase = task[v].purchase
              /\ task[v].step # "markPaid" => Settled(i)'
<1>1. TypeOK /\ task[v] \in Task /\ HandlerConsistent(v)
  BY DEF BillingInv, TypeOK, HandlersConsistent
<1>2. task[v].subscription # 0 => subscriptions'[task[v].subscription].status # "AUSENTE"
  BY <1>1 DEF Task, RowsGrow, HandlerConsistent
<1>3. ASSUME task[v].op \in {"webhook", "requestRefund", "resolveRefund"}
      PROVE  i \in InvoiceIds /\ Confirmed(i)'
  <2>1. Confirmed(i)
    BY <1>1, <1>3 DEF HandlerConsistent
  <2>2. i \in InvoiceIds
    BY <1>1, <2>1, ConfirmedIsInvoice
  <2> QED
    BY <2>1, <2>2 DEF RowsGrow
<1>4. task[v].op = "resolveRefund" =>
         task[v].refund \in RefundIds /\ refunds'[task[v].refund].status # "AUSENTE"
  BY <1>1 DEF RowsGrow, HandlerConsistent
<1>5. ASSUME task[v].op = "webhook", task[v].step # "findInvoice"
      PROVE  /\ invoices'[i].status # "AUSENTE"
             /\ invoices'[i].subscription = task[v].subscription
             /\ invoices'[i].purchase = task[v].purchase
             /\ task[v].step # "markPaid" => Settled(i)'
  <2>1. /\ invoices[i].status # "AUSENTE"
        /\ invoices[i].subscription = task[v].subscription
        /\ invoices[i].purchase = task[v].purchase
        /\ task[v].step # "markPaid" => Settled(i)
    BY <1>1, <1>5 DEF HandlerConsistent
  <2>2. i \in InvoiceIds
    BY <1>3, <1>5
  <2> QED
    BY <2>1, <2>2 DEF RowsGrow
<1> QED
  BY <1>1, <1>2, <1>3, <1>4, <1>5

\* Whatever rows w adds, what another handler v read before still holds.
LEMMA OthersStayConsistent ==
  ASSUME BillingInv, NEW w \in Workers, OthersWait(w), RowsGrow(w), NEW v \in Workers, v # w
  PROVE  HandlerConsistent(v)'
<1> SUFFICES ASSUME NEW i, i = task[v].invoice
             PROVE  HandlerConsistent(v)'
  OBVIOUS
<1>1. task'[v] = task[v] /\ HandlerConsistent(v)
  BY DEF OthersWait, BillingInv, HandlersConsistent
<1>2. Opening(v)' = Opening(v)
  BY <1>1 DEF Opening
<1>3. Opening(v) => i \in InvoiceIds /\ invoices'[i].status = "AUSENTE"
  BY <1>1 DEF RowsGrow, HandlerConsistent, OpeningsDistinct, BillingInv
<1>4. i = task'[v].invoice
  BY <1>1
<1> QED
  BY <1>1, <1>2, <1>3, <1>4, Remembered DEF HandlerConsistent, Confirmed, Settled

\* What remains to be shown of a step of the handler w.
LEMMA HandlerStep ==
  ASSUME BillingInv, NEW w \in Workers, OthersWait(w), RowsGrow(w),
         TypeOK', RowsConsistent', HandlerConsistent(w)',
         Opening(w)' => \/ Opening(w) /\ task'[w].invoice = task[w].invoice
                        \/ \A v \in Workers : task[v].invoice # task'[w].invoice,
         OneLiveSubscriptionPerUser', SettledOnlyIfConfirmed', ActivatedOnlyIfPaid'
  PROVE  BillingInv'
<1>1. HandlersConsistent'
  BY OthersStayConsistent DEF HandlersConsistent
<1>2. ASSUME NEW v \in Workers, v # w
      PROVE  task'[v].invoice = task[v].invoice /\ (Opening(v)' => Opening(v))
  <2>1. task'[v] = task[v]
    BY <1>2 DEF OthersWait
  <2> QED
    BY <2>1 DEF Opening
<1>3. OpeningsDistinct'
  BY <1>2 DEF OpeningsDistinct, BillingInv
<1> QED
  BY <1>1, <1>3 DEF BillingInv

--------------------------------------------------------------------------------
(* How a handler goes on *)

\* A worker takes up a handler with the local variables t.
LEMMA TaskSet ==
  ASSUME BillingInv, NEW w \in Workers, NEW t \in Task, task' = [task EXCEPT ![w] = t]
  PROVE  task' \in [Workers -> Task] /\ OthersWait(w) /\ task'[w] = t
BY DEF BillingInv, TypeOK, OthersWait

\* A handler goes on to its next call.
LEMMA TaskGoto ==
  ASSUME BillingInv, NEW w \in Workers, NEW step \in Steps, Goto(w, step)
  PROVE  /\ task' \in [Workers -> Task] /\ OthersWait(w)
         /\ task'[w] = [task[w] EXCEPT !.step = step]
BY SMTT(30) DEF BillingInv, TypeOK, OthersWait, Goto, Task

\* A handler that returns or throws remembers nothing.
LEMMA TaskFinish ==
  ASSUME BillingInv, NEW w \in Workers, Finish(w)
  PROVE  /\ task' \in [Workers -> Task] /\ OthersWait(w) /\ task'[w] = Idle
         /\ HandlerConsistent(w)' /\ ~Opening(w)'
<1>1. Idle \in Task
  BY DEF Idle, Task, Ops, Steps
<1>2. task' \in [Workers -> Task] /\ OthersWait(w) /\ task'[w] = Idle
  BY <1>1, TaskSet DEF Finish
<1>3. HandlerConsistent(w)' /\ ~Opening(w)'
  BY <1>2 DEF HandlerConsistent, Opening, Idle
<1> QED
  BY <1>2, <1>3

\* A handler that goes on to a step that needs nothing more than it remembers.
PlainSteps ==
  Steps \ {"createSubscription", "createCharge", "createPurchase", "createInvoice",
           "findInvoice", "markPaid", "setProfessionalPlano", "activatePurchase",
           "setContractorPlano", "schedulePurchaseExpiry", "schedulePurchaseRenewal"}

\* Such a handler stays consistent.
LEMMA GotoPlain ==
  ASSUME BillingInv, NEW w \in Workers, NEW step \in PlainSteps, RowsGrow(w),
         task'[w] = [task[w] EXCEPT !.step = step], NEW i, i = task[w].invoice,
         task[w].op = "webhook" => task[w].step # "findInvoice" /\ Settled(i)'
  PROVE  HandlerConsistent(w)' /\ ~Opening(w)'
<1>1. /\ task'[w].step = step
      /\ task'[w].op = task[w].op /\ task'[w].user = task[w].user
      /\ task'[w].subscription = task[w].subscription /\ task'[w].purchase = task[w].purchase
      /\ task'[w].invoice = i /\ task'[w].plano = task[w].plano
      /\ task'[w].refund = task[w].refund
  BY Remembered DEF Task
<1>2. ~Opening(w)'
  BY <1>1 DEF Opening, PlainSteps
<1>3. /\ task'[w].step # "setProfessionalPlano"
      /\ task'[w].step \notin {"activatePurchase", "setContractorPlano",
                              "schedulePurchaseExpiry", "schedulePurchaseRenewal"}
  BY <1>1 DEF PlainSteps
<1>4. /\ task'[w].subscription # 0 => subscriptions'[task'[w].subscription].status # "AUSENTE"
      /\ task'[w].op = "subscribe" => task'[w].user \in Professionals
      /\ task'[w].op \in {"subscribe", "changePlan"} => task'[w].plano \in Plans
  BY <1>1, Remembered DEF HandlerConsistent
<1>5. task'[w].op \in {"webhook", "requestRefund", "resolveRefund"} => Confirmed(i)'
  BY <1>1, Remembered
<1>6. task'[w].op = "resolveRefund" =>
         task'[w].refund \in RefundIds /\ refunds'[task'[w].refund].status # "AUSENTE"
  BY <1>1, Remembered
<1>7. task'[w].op = "webhook" =>
         /\ invoices'[i].status # "AUSENTE"
         /\ invoices'[i].subscription = task'[w].subscription
         /\ invoices'[i].purchase = task'[w].purchase
         /\ Settled(i)'
  BY <1>1, Remembered
<1> QED
  BY <1>1, <1>2, <1>3, <1>4, <1>5, <1>6, <1>7 DEF HandlerConsistent, Confirmed, Settled

\* Scheduling a job keeps the type of the queue.
LEMMA AddType ==
  ASSUME NEW Ids, NEW q \in Queue(Ids), NEW id, NEW t \in Nat
  PROVE  Add(q, id, t) \in Queue(Ids)
BY DEF Queue, Job, Add, JobStates

\* So does running, completing, failing and repeating one.
LEMMA QueueTypes ==
  ASSUME NEW Ids, NEW q \in Queue(Ids), NEW id
  PROVE  /\ Take(q, id) \in Queue(Ids) /\ Complete(q, id) \in Queue(Ids)
         /\ Fail(q, id) \in Queue(Ids) /\ Stall(q, id) \in Queue(Ids)
BY DEF Queue, Job, Take, Complete, Fail, Stall, NoJob, JobStates

\* Steps that change no row.
LEMMA QuietStep ==
  ASSUME BillingInv, NEW w \in Workers, OthersWait(w), UNCHANGED rows, TypeOK',
         HandlerConsistent(w)',
         Opening(w)' => \A v \in Workers : task[v].invoice # task'[w].invoice
  PROVE  BillingInv'
BY HandlerStep, RowsUnchanged

\* ... of a handler that returns.
LEMMA QuietFinish ==
  ASSUME BillingInv, NEW w \in Workers, Finish(w), UNCHANGED rows, TypeOK'
  PROVE  BillingInv'
BY TaskFinish, QuietStep

\* ... of a handler that goes on to a plain step.
LEMMA QuietGoto ==
  ASSUME BillingInv, NEW w \in Workers, NEW step \in PlainSteps, Goto(w, step),
         UNCHANGED rows, TypeOK',
         task[w].op = "webhook" => task[w].step \notin {"findInvoice", "markPaid"}
  PROVE  BillingInv'
<1>1. OthersWait(w) /\ task'[w] = [task[w] EXCEPT !.step = step]
  BY TaskGoto DEF PlainSteps
<1>2. RowsGrow(w)
  BY RowsUnchanged
<1>3. ASSUME NEW i, i = task[w].invoice
      PROVE  HandlerConsistent(w)' /\ ~Opening(w)'
  BY <1>1, <1>2, <1>3, GotoPlain, Remembered
<1> QED
  BY <1>1, <1>3, QuietStep

--------------------------------------------------------------------------------
(* Steps that change no row *)

\* scheduler.scheduleInvoiceDue only adds a job.
LEMMA ScheduleInvoiceDueStep ==
  ASSUME BillingInv, NEW w \in Workers, ScheduleInvoiceDue(w)
  PROVE  BillingInv'
<1>1. UNCHANGED rows
  BY DEF ScheduleInvoiceDue, rows, tables, gateway
<1>2. task' \in [Workers -> Task]
  BY TaskGoto, TaskFinish DEF ScheduleInvoiceDue, Steps
<1>3. dueJobs' \in Queue(InvoiceIds)
  <2>1. dueJobs \in Queue(InvoiceIds) /\ task[w].date \in Nat
    BY DEF BillingInv, TypeOK, Task
  <2> QED
    BY <2>1, AddType DEF ScheduleInvoiceDue
<1>4. TypeOK'
  BY <1>2, <1>3, Zenon DEF ScheduleInvoiceDue, BillingInv, TypeOK, tables, profiles, gateway, clock
<1>5. \/ Finish(w)
      \/ \E step \in PlainSteps : Goto(w, step) /\ task[w].op # "webhook"
  BY DEF ScheduleInvoiceDue, PlainSteps, Steps
<1> QED
  BY <1>1, <1>4, <1>5, QuietFinish, QuietGoto

\* scheduler.scheduleSubscriptionRenewal only adds a job.
LEMMA ScheduleSubscriptionRenewalStep ==
  ASSUME BillingInv, NEW w \in Workers, ScheduleSubscriptionRenewal(w)
  PROVE  BillingInv'
<1>1. UNCHANGED rows
  BY DEF ScheduleSubscriptionRenewal, rows, tables, gateway
<1>2. PICK step \in {"setProfessionalPlano", "completeJob"} :
        /\ Goto(w, step)
        /\ task[w].op # "webhook"
        /\ step = "setProfessionalPlano" => task[w].op = "subscribe"
  BY DEF ScheduleSubscriptionRenewal
<1>3. /\ task' \in [Workers -> Task] /\ OthersWait(w)
      /\ task'[w] = [task[w] EXCEPT !.step = step]
  BY <1>2, TaskGoto, ZenonT(40) DEF Steps
<1>4. renewJobs' \in Queue(SubscriptionIds)
  <2>1. /\ renewJobs \in Queue(SubscriptionIds)
        /\ nextCharge(task[w].date) \in Nat /\ nextCharge(now) \in Nat
    BY DaysAssumption DEF BillingInv, TypeOK, Task, nextCharge
  <2> QED
    BY <2>1, AddType DEF ScheduleSubscriptionRenewal
<1>5. TypeOK'
  BY <1>3, <1>4, Zenon
  DEF ScheduleSubscriptionRenewal, BillingInv, TypeOK, tables, profiles, gateway, clock
<1>6. HandlerConsistent(w)' /\ ~Opening(w)'
  BY <1>1, <1>2, <1>3, Remembered, RowsUnchanged DEF HandlerConsistent, Opening, Task
<1> QED
  BY <1>1, <1>3, <1>5, <1>6, QuietStep

\* planSync.setProfessionalPlano writes a plan, never null.
LEMMA SetProfessionalPlanoStep ==
  ASSUME BillingInv, NEW w \in Workers, SetProfessionalPlano(w)
  PROVE  BillingInv'
<1>1. UNCHANGED rows /\ Finish(w)
  BY DEF SetProfessionalPlano, rows, tables, gateway
<1>2. plano' \in [Professionals -> Plans]
  <2>1. plano \in [Professionals -> Plans] /\ task[w].plano \in Plans
    BY DEF BillingInv, TypeOK, HandlersConsistent, HandlerConsistent, SetProfessionalPlano
  <2> QED
    BY <2>1 DEF SetProfessionalPlano
<1>3. TypeOK'
  BY <1>1, <1>2, TaskFinish, Zenon
  DEF SetProfessionalPlano, BillingInv, TypeOK, tables, queue, gateway, clock
<1> QED
  BY <1>1, <1>3, QuietFinish

\* handleWebhook goes on only with an invoice that exists, and with its origin.
LEMMA FindInvoiceStep ==
  ASSUME BillingInv, NEW w \in Workers, FindInvoice(w)
  PROVE  BillingInv'
<1> DEFINE i == task[w].invoice
<1>1. UNCHANGED rows
  BY DEF FindInvoice, rows, tables, gateway
<1>4. raced' \subseteq InvoiceIds
  <2>1. i \in InvoiceIds /\ raced \subseteq InvoiceIds
    BY ConfirmedIsInvoice
    DEF FindInvoice, At, BillingInv, TypeOK, HandlersConsistent, HandlerConsistent
  <2> QED
    BY <2>1 DEF FindInvoice
<1>2. CASE Finish(w)
  <2>1. TypeOK'
    BY <1>2, <1>4, TaskFinish, Zenon
    DEF FindInvoice, BillingInv, TypeOK, tables, profiles, queue, gateway
  <2> QED
    BY <1>1, <1>2, <2>1, QuietFinish
<1>3. CASE ~Finish(w)
  <2> DEFINE t == [task[w] EXCEPT !.step = "markPaid",
                                  !.subscription = invoices[i].subscription,
                                  !.purchase = invoices[i].purchase]
  <2>1. /\ task[w].op = "webhook" /\ canTransitionInvoice(invoices[i].status, "PAGA")
        /\ task' = [task EXCEPT ![w] = t]
    BY <1>3 DEF FindInvoice, At, BillingInv, TypeOK
  <2>2. task[w] \in Task /\ i \in InvoiceIds /\ Confirmed(i)
    BY <2>1, ConfirmedIsInvoice DEF BillingInv, TypeOK, HandlersConsistent, HandlerConsistent
  <2>3. invoices[i] \in Invoice
    BY <2>2 DEF BillingInv, TypeOK
  <2>4. t \in Task
    BY <2>2, <2>3 DEF Task, Invoice, Steps
  <2>5. task' \in [Workers -> Task] /\ OthersWait(w) /\ task'[w] = t
    BY <2>1, <2>4, TaskSet
  <2>6. TypeOK'
    BY <1>4, <2>5, Zenon DEF FindInvoice, BillingInv, TypeOK, tables, profiles, queue, gateway
  <2>7. invoices[i].subscription # 0 => subscriptions[invoices[i].subscription].status # "AUSENTE"
    BY <2>2 DEF BillingInv, RowsConsistent
  <2>8. HandlerConsistent(w)' /\ ~Opening(w)'
    <3>1. /\ t.op = "webhook" /\ t.step = "markPaid" /\ t.invoice = i
          /\ t.subscription = invoices[i].subscription /\ t.purchase = invoices[i].purchase
      BY <2>1, <2>2 DEF Task
    <3>2. invoices[i].status # "AUSENTE"
      BY <2>1 DEF canTransitionInvoice
    <3> QED
      BY <1>1, <2>2, <2>5, <2>7, <3>1, <3>2 DEF HandlerConsistent, Opening, Confirmed, rows
  <2> QED
    BY <1>1, <2>5, <2>6, <2>8, QuietStep
<1> QED
  BY <1>2, <1>3

\* activateOrigin computes an end of the vigência a validity or more ahead.
LEMMA ReadPurchaseStep ==
  ASSUME BillingInv, NEW w \in Workers, ReadPurchase(w)
  PROVE  BillingInv'
<1> DEFINE p == task[w].purchase
           d == renewedPurchaseExpiry(purchases[p].expiraEm, now)
           t == [task[w] EXCEPT !.step = "activatePurchase", !.user = purchases[p].user,
                                !.date = d]
<1>1. UNCHANGED rows
  BY DEF ReadPurchase, rows, tables, gateway
<1>2. /\ task[w] \in Task /\ task[w].op = "webhook" /\ task[w].step = "activateOrigin"
      /\ p \in PurchaseIds /\ p # 0
  BY DEF ReadPurchase, At, BillingInv, TypeOK, Task
<1>3. purchases[p] \in Purchase /\ now \in Nat
  BY <1>2 DEF BillingInv, TypeOK
<1>4. d \in Nat /\ d >= PURCHASE_VALIDITY_DAYS
  BY <1>3, DaysAssumption DEF Purchase, renewedPurchaseExpiry
<1>5. t \in Task
  BY <1>2, <1>3, <1>4 DEF Task, Purchase, Steps
<1>6. task' = [task EXCEPT ![w] = t]
  BY DEF ReadPurchase, BillingInv, TypeOK
<1>7. task' \in [Workers -> Task] /\ OthersWait(w) /\ task'[w] = t
  BY <1>5, <1>6, TaskSet
<1>8. TypeOK'
  BY <1>7, Zenon DEF ReadPurchase, BillingInv, TypeOK, tables, profiles, queue, gateway, clock
<1>9. HandlerConsistent(w)' /\ ~Opening(w)'
  <2>1. /\ t.op = "webhook" /\ t.step = "activatePurchase" /\ t.date = d
        /\ t.invoice = task[w].invoice /\ t.subscription = task[w].subscription
        /\ t.purchase = task[w].purchase
    BY <1>2 DEF Task
  <2> QED
    BY <1>1, <1>2, <1>4, <1>7, <2>1, Remembered, RowsUnchanged, SMTT(60)
    DEF HandlerConsistent, Opening, Confirmed, Settled
<1> QED
  BY <1>1, <1>7, <1>8, <1>9, QuietStep

\* planSync.setContractorPlano writes the profile only.
LEMMA SetContractorPlanoStep ==
  ASSUME BillingInv, NEW w \in Workers, SetContractorPlano(w)
  PROVE  BillingInv'
<1>1. /\ task' \in [Workers -> Task] /\ OthersWait(w)
      /\ task'[w] = [task[w] EXCEPT !.step = "schedulePurchaseExpiry"]
  BY TaskGoto DEF SetContractorPlano, Steps
<1>2. TypeOK'
  <2>1. planoExpiraEm' \in [Contractors -> Nat]
    BY DEF SetContractorPlano, BillingInv, TypeOK, Task
  <2> QED
    BY <1>1, <2>1, Zenon DEF SetContractorPlano, BillingInv, TypeOK, tables, queue, gateway, clock
<1>3. UNCHANGED rows /\ RowsGrow(w)
  BY RowsUnchanged DEF SetContractorPlano, tables, gateway, rows
<1>4. HandlerConsistent(w)' /\ ~Opening(w)'
  BY <1>1, <1>3, Remembered DEF HandlerConsistent, SetContractorPlano, At, Opening, Task
<1> QED
  BY <1>1, <1>2, <1>3, <1>4, QuietStep

\* scheduler.schedulePurchaseExpiry only adds a job.
LEMMA SchedulePurchaseExpiryStep ==
  ASSUME BillingInv, NEW w \in Workers, SchedulePurchaseExpiry(w)
  PROVE  BillingInv'
<1>1. /\ task' \in [Workers -> Task] /\ OthersWait(w)
      /\ task'[w] = [task[w] EXCEPT !.step = "schedulePurchaseRenewal"]
  BY TaskGoto DEF SchedulePurchaseExpiry, Steps
<1>2. TypeOK'
  <2>1. expireJobs \in Queue(PurchaseIds) /\ task[w].date \in Nat
    BY DEF BillingInv, TypeOK, Task
  <2>2. expireJobs' \in Queue(PurchaseIds)
    BY <2>1, AddType DEF SchedulePurchaseExpiry
  <2> QED
    BY <1>1, <2>2, Zenon
    DEF SchedulePurchaseExpiry, BillingInv, TypeOK, tables, profiles, gateway, clock
<1>3. UNCHANGED rows /\ RowsGrow(w)
  BY RowsUnchanged DEF SchedulePurchaseExpiry, tables, gateway, rows
<1>4. HandlerConsistent(w)' /\ ~Opening(w)'
  BY <1>1, <1>3, Remembered DEF HandlerConsistent, SchedulePurchaseExpiry, At, Opening, Task
<1> QED
  BY <1>1, <1>2, <1>3, <1>4, QuietStep

\* The renewal is scheduled a lead before the end: never before day 0.
LEMMA SchedulePurchaseRenewalStep ==
  ASSUME BillingInv, NEW w \in Workers, SchedulePurchaseRenewal(w)
  PROVE  BillingInv'
<1>1. UNCHANGED rows /\ Finish(w)
  BY DEF SchedulePurchaseRenewal, rows, tables, gateway
<1>2. purchaseRenewJobs \in Queue(PurchaseIds) /\ task[w].date \in Nat
  BY DEF BillingInv, TypeOK, Task
<1>3. task[w].date >= PURCHASE_VALIDITY_DAYS
  BY DEF BillingInv, HandlersConsistent, HandlerConsistent, SchedulePurchaseRenewal, At
<1>4. purchaseRenewalDate(task[w].date) \in Nat
  BY <1>2, <1>3, DaysAssumption DEF purchaseRenewalDate
<1>5. purchaseRenewJobs' \in Queue(PurchaseIds)
  BY <1>2, <1>4, AddType DEF SchedulePurchaseRenewal
<1>6. TypeOK'
  BY <1>1, <1>5, TaskFinish, Zenon
  DEF SchedulePurchaseRenewal, BillingInv, TypeOK, tables, profiles, gateway, clock
<1> QED
  BY <1>1, <1>6, QuietFinish

\* resetProfessionalPlano and expireContractorPlano write the profile only.
LEMMA RevokePlanoStep ==
  ASSUME BillingInv, NEW w \in Workers, RevokePlano(w)
  PROVE  BillingInv'
<1>1. UNCHANGED rows
  BY DEF RevokePlano, rows, tables, gateway
<1>2. PICK step \in {"conclude", "completeJob"} : Goto(w, step)
  BY DEF RevokePlano
<1>3. step \in PlainSteps /\ step \in Steps
  BY <1>2 DEF PlainSteps, Steps
<1>4. task[w].step = "revokePlano"
  BY DEF RevokePlano
<1>5. TypeOK'
  <2>1. plano' \in [Professionals -> Plans]
    BY PlansAssumption DEF RevokePlano, BillingInv, TypeOK
  <2>2. planoExpiraEm' \in [Contractors -> Nat]
    BY DEF RevokePlano, BillingInv, TypeOK
  <2>3. task' \in [Workers -> Task]
    BY <1>2, <1>3, TaskGoto
  <2> QED
    BY <2>1, <2>2, <2>3, Zenon DEF RevokePlano, BillingInv, TypeOK, tables, queue, gateway, clock
<1> QED
  BY <1>1, <1>2, <1>3, <1>4, <1>5, QuietGoto

\* expirePurchaseIfActive reschedules itself: only a job is added.
LEMMA RescheduleExpiryStep ==
  ASSUME BillingInv, NEW w \in Workers, RescheduleExpiry(w)
  PROVE  BillingInv'
<1>1. UNCHANGED rows /\ Goto(w, "completeJob") /\ task[w].op # "webhook"
  BY DEF RescheduleExpiry, At, rows, tables, gateway
<1>2. "completeJob" \in PlainSteps /\ "completeJob" \in Steps
  BY DEF PlainSteps, Steps
<1>3. expireJobs \in Queue(PurchaseIds) /\ task[w].date \in Nat
  BY DEF BillingInv, TypeOK, Task
<1>4. expireJobs' \in Queue(PurchaseIds)
  BY <1>3, AddType DEF RescheduleExpiry
<1>5. TypeOK'
  BY <1>1, <1>2, <1>4, TaskGoto, Zenon
  DEF RescheduleExpiry, BillingInv, TypeOK, tables, profiles, gateway, clock
<1> QED
  BY <1>1, <1>2, <1>5, QuietGoto

\* A job that is done leaves the queue and nothing else.
LEMMA CompleteJobStep ==
  ASSUME BillingInv, NEW w \in Workers, CompleteJob(w)
  PROVE  BillingInv'
<1>1. UNCHANGED rows /\ Finish(w)
  BY DEF CompleteJob, rows, tables, gateway
<1>2. /\ renewJobs \in Queue(SubscriptionIds) /\ expireJobs \in Queue(PurchaseIds)
      /\ purchaseRenewJobs \in Queue(PurchaseIds)
  BY DEF BillingInv, TypeOK
<1>3. /\ renewJobs' \in Queue(SubscriptionIds) /\ expireJobs' \in Queue(PurchaseIds)
      /\ purchaseRenewJobs' \in Queue(PurchaseIds)
  BY <1>2, QueueTypes DEF CompleteJob
<1>4. TypeOK'
  BY <1>1, <1>3, TaskFinish, Zenon
  DEF CompleteJob, BillingInv, TypeOK, tables, profiles, gateway, clock
<1> QED
  BY <1>1, <1>4, QuietFinish

--------------------------------------------------------------------------------
(* Handlers that start *)

\* subscribe starts with an invoice id of its own.
LEMMA SubscribeStep ==
  ASSUME BillingInv, NEW w \in Workers, NEW u \in Professionals, NEW p \in Plans,
         Subscribe(w, u, p)
  PROVE  BillingInv'
<1>1. UNCHANGED rows
  BY DEF Subscribe, rows, tables, gateway
<1>2. PICK i \in InvoiceIds :
        /\ First(i, FreeInvoices)
        /\ task' = [task EXCEPT ![w] =
             [Idle EXCEPT !.op = "subscribe", !.step = "createSubscription", !.user = u,
                          !.plano = p, !.invoice = i, !.date = firstInvoiceDue(p, now)]]
  BY DEF Subscribe
<1> DEFINE t == [Idle EXCEPT !.op = "subscribe", !.step = "createSubscription", !.user = u,
                             !.plano = p, !.invoice = i, !.date = firstInvoiceDue(p, now)]
<1>3. firstInvoiceDue(p, now) \in Nat
  BY DaysAssumption DEF firstInvoiceDue, graceUntil, BillingInv, TypeOK
<1>4. t \in Task
  BY <1>3 DEF Task, Idle, Ops, Steps, Users
<1>5. task' \in [Workers -> Task] /\ OthersWait(w) /\ task'[w] = t
  BY <1>2, <1>4, TaskSet
<1>6. TypeOK'
  BY <1>5, Zenon DEF Subscribe, BillingInv, TypeOK, tables, profiles, queue, gateway, clock
<1>7. invoices[i].status = "AUSENTE" /\ \A v \in Workers : task[v].invoice # i
  BY <1>2 DEF First, FreeInvoices
<1>8. HandlerConsistent(w)' /\ task'[w].invoice = i
  BY <1>1, <1>5, <1>7 DEF HandlerConsistent, Opening, Idle, rows
<1> QED
  BY <1>1, <1>5, <1>6, <1>7, <1>8, QuietStep

\* purchase starts with an invoice id and a purchase id of its own.
LEMMA StartPurchaseStep ==
  ASSUME BillingInv, NEW w \in Workers, NEW u \in Contractors, StartPurchase(w, u)
  PROVE  BillingInv'
<1>1. UNCHANGED rows
  BY DEF StartPurchase, rows, tables, gateway
<1>2. PICK i \in InvoiceIds, p \in PurchaseIds :
        /\ First(i, FreeInvoices)
        /\ task' = [task EXCEPT ![w] =
             [Idle EXCEPT !.op = "purchase", !.step = "createCharge", !.user = u,
                          !.purchase = p, !.invoice = i, !.date = nextCharge(now)]]
  BY DEF StartPurchase
<1> DEFINE t == [Idle EXCEPT !.op = "purchase", !.step = "createCharge", !.user = u,
                             !.purchase = p, !.invoice = i, !.date = nextCharge(now)]
<1>3. nextCharge(now) \in Nat
  BY DaysAssumption DEF nextCharge, BillingInv, TypeOK
<1>4. t \in Task
  BY <1>3 DEF Task, Idle, Ops, Steps, Users
<1>5. task' \in [Workers -> Task] /\ OthersWait(w) /\ task'[w] = t
  BY <1>2, <1>4, TaskSet
<1>6. TypeOK'
  BY <1>5, Zenon DEF StartPurchase, BillingInv, TypeOK, tables, profiles, queue, gateway, clock
<1>7. invoices[i].status = "AUSENTE" /\ \A v \in Workers : task[v].invoice # i
  BY <1>2 DEF First, FreeInvoices
<1>8. HandlerConsistent(w)' /\ task'[w].invoice = i
  BY <1>1, <1>5, <1>7 DEF HandlerConsistent, Opening, Idle, rows
<1> QED
  BY <1>1, <1>5, <1>6, <1>7, <1>8, QuietStep

\* changePlan starts from a subscription that exists.
LEMMA ChangePlanStep ==
  ASSUME BillingInv, NEW w \in Workers, NEW u \in Professionals, NEW p \in Plans,
         ChangePlan(w, u, p)
  PROVE  BillingInv'
<1>1. UNCHANGED rows
  BY DEF ChangePlan, rows, tables, gateway
<1>2. PICK s \in LiveSubscriptions(u) :
        task' = [task EXCEPT ![w] =
          [Idle EXCEPT !.op = "changePlan", !.step = "updatePlan", !.user = u,
                       !.subscription = s, !.plano = p]]
  BY DEF ChangePlan
<1> DEFINE t == [Idle EXCEPT !.op = "changePlan", !.step = "updatePlan", !.user = u,
                             !.subscription = s, !.plano = p]
<1>3. s \in SubscriptionIds /\ subscriptions[s].status # "AUSENTE"
  BY DEF LiveSubscriptions
<1>4. t \in Task
  BY <1>3 DEF Task, Idle, Ops, Steps, Users
<1>5. task' \in [Workers -> Task] /\ OthersWait(w) /\ task'[w] = t
  BY <1>2, <1>4, TaskSet
<1>6. TypeOK'
  BY <1>5, Zenon DEF ChangePlan, BillingInv, TypeOK, tables, profiles, queue, gateway, clock
<1>7. HandlerConsistent(w)' /\ ~Opening(w)'
  BY <1>1, <1>3, <1>5 DEF HandlerConsistent, Opening, Idle, rows
<1> QED
  BY <1>1, <1>5, <1>6, <1>7, QuietStep

\* cancelPurchase starts from a purchase that exists.
LEMMA StartCancelPurchaseStep ==
  ASSUME BillingInv, NEW w \in Workers, NEW u \in Contractors, StartCancelPurchase(w, u)
  PROVE  BillingInv'
<1>1. UNCHANGED rows
  BY DEF StartCancelPurchase, rows, tables, gateway
<1>2. PICK p \in PurchaseIds :
        task' = [task EXCEPT ![w] =
          [Idle EXCEPT !.op = "cancelPurchase", !.step = "cancel", !.purchase = p]]
  BY DEF StartCancelPurchase, LongestPurchase, ActivePurchases
<1> DEFINE t == [Idle EXCEPT !.op = "cancelPurchase", !.step = "cancel", !.purchase = p]
<1>3. t \in Task
  BY DEF Task, Idle, Ops, Steps, Users
<1>4. task' \in [Workers -> Task] /\ OthersWait(w) /\ task'[w] = t
  BY <1>2, <1>3, TaskSet
<1>5. TypeOK'
  BY <1>4, Zenon
  DEF StartCancelPurchase, BillingInv, TypeOK, tables, profiles, queue, gateway, clock
<1>6. HandlerConsistent(w)' /\ ~Opening(w)'
  BY <1>4 DEF HandlerConsistent, Opening, Idle
<1> QED
  BY <1>1, <1>4, <1>5, <1>6, QuietStep

\* A delivered event is one the gateway sent: handleWebhook starts confirmed.
LEMMA WebhookStep ==
  ASSUME BillingInv, NEW w \in Workers, NEW i \in InvoiceIds, NEW tipo \in EventTypes,
         Webhook(w, i, tipo)
  PROVE  BillingInv'
<1> DEFINE t == [Idle EXCEPT !.op = "webhook", !.step = "findInvoice", !.invoice = i]
           t2 == IF isPaymentConfirmed(tipo) THEN t ELSE Idle
<1>1. UNCHANGED rows
  BY DEF Webhook, rows, gateway
<1>2. t \in Task /\ Idle \in Task
  BY DEF Task, Idle, Ops, Steps, Users
<1>3. task' = [task EXCEPT ![w] = t2]
  BY DEF Webhook, Free, BillingInv, TypeOK
<1>4. task' \in [Workers -> Task] /\ OthersWait(w) /\ task'[w] = t2
  BY <1>2, <1>3, TaskSet
<1>5. TypeOK'
  <2>1. events' \subseteq InvoiceIds \X EventTypes
    BY DEF Webhook, BillingInv, TypeOK
  <2> QED
    BY <1>4, <2>1, Zenon DEF Webhook, BillingInv, TypeOK, profiles, queue, gateway, clock
<1>6. isPaymentConfirmed(tipo) => Confirmed(i) /\ \E x \in PAID_EVENT_TYPES : <<i, x>> \in sent'
  BY DEF Webhook, isPaymentConfirmed, Confirmed, gateway
<1>7. HandlerConsistent(w)' /\ ~Opening(w)'
  BY <1>4, <1>6, SMTT(30) DEF HandlerConsistent, Opening, Idle, Confirmed
<1> QED
  BY <1>1, <1>4, <1>5, <1>7, QuietStep

\* requestRefund starts from a paid invoice, so from a confirmed one.
LEMMA RequestRefundStep ==
  ASSUME BillingInv, NEW w \in Workers, NEW i \in InvoiceIds, RequestRefund(w, i)
  PROVE  BillingInv'
<1>1. UNCHANGED rows
  BY DEF RequestRefund, rows, tables, gateway
<1>2. PICK r \in RefundIds :
        task' = [task EXCEPT ![w] =
          [Idle EXCEPT !.op = "requestRefund", !.step = "createRefund",
                       !.invoice = i, !.refund = r]]
  BY DEF RequestRefund
<1> DEFINE t == [Idle EXCEPT !.op = "requestRefund", !.step = "createRefund",
                             !.invoice = i, !.refund = r]
<1>3. t \in Task
  BY DEF Task, Idle, Ops, Steps, Users
<1>4. task' \in [Workers -> Task] /\ OthersWait(w) /\ task'[w] = t
  BY <1>2, <1>3, TaskSet
<1>5. TypeOK'
  BY <1>4, Zenon DEF RequestRefund, BillingInv, TypeOK, tables, profiles, queue, gateway, clock
<1>6. Confirmed(i)
  BY DEF RequestRefund, canTransitionInvoice, BillingInv, SettledOnlyIfConfirmed, Settled
<1>7. HandlerConsistent(w)' /\ ~Opening(w)'
  BY <1>1, <1>4, <1>6 DEF HandlerConsistent, Opening, Idle, Confirmed, rows
<1> QED
  BY <1>1, <1>4, <1>5, <1>7, QuietStep

\* resolveRefund starts from a refund that exists and its invoice.
LEMMA ResolveRefundStep ==
  ASSUME BillingInv, NEW w \in Workers, NEW r \in RefundIds, NEW aprovar \in BOOLEAN,
         ResolveRefund(w, r, aprovar)
  PROVE  BillingInv'
<1> DEFINE i == refunds[r].invoice
           t == [Idle EXCEPT !.op = "resolveRefund",
                             !.step = IF aprovar THEN "gatewayRefund" ELSE "refuse",
                             !.refund = r, !.invoice = i,
                             !.subscription = invoices[i].subscription,
                             !.purchase = invoices[i].purchase]
<1>1. UNCHANGED rows /\ task' = [task EXCEPT ![w] = t]
  BY DEF ResolveRefund, rows, tables, gateway
<1>2. Confirmed(i) /\ i \in InvoiceIds
  BY ConfirmedIsInvoice DEF ResolveRefund, BillingInv, RowsConsistent
<1>3. invoices[i] \in Invoice
  BY <1>2 DEF BillingInv, TypeOK
<1>4. t \in Task
  BY <1>2, <1>3 DEF Task, Idle, Ops, Steps, Users, Invoice
<1>5. task' \in [Workers -> Task] /\ OthersWait(w) /\ task'[w] = t
  BY <1>1, <1>4, TaskSet
<1>6. TypeOK'
  BY <1>5, Zenon DEF ResolveRefund, BillingInv, TypeOK, tables, profiles, queue, gateway, clock
<1>7. HandlerConsistent(w)' /\ ~Opening(w)'
  <2>1. t.subscription # 0 => subscriptions[t.subscription].status # "AUSENTE"
    BY <1>2 DEF BillingInv, RowsConsistent, Idle
  <2>2. /\ t.op = "resolveRefund" /\ t.step \in {"gatewayRefund", "refuse"} /\ t.invoice = i
        /\ t.refund = r
    BY DEF Idle
  <2>3. refunds[r].status # "AUSENTE"
    BY DEF ResolveRefund
  <2> QED
    BY <1>1, <1>2, <1>5, <2>1, <2>2, <2>3, SMTT(60) DEF HandlerConsistent, Opening, Confirmed, rows
<1> QED
  BY <1>1, <1>5, <1>6, <1>7, QuietStep

\* renewSubscriptionIfDue starts with an invoice id of its own.
LEMMA RenewSubscriptionStep ==
  ASSUME BillingInv, NEW w \in Workers, NEW s \in SubscriptionIds, RenewSubscription(w, s)
  PROVE  BillingInv'
<1>1. UNCHANGED rows
  BY DEF RenewSubscription, rows, tables, gateway
<1>2. renewJobs' \in Queue(SubscriptionIds)
  BY QueueTypes DEF RenewSubscription, BillingInv, TypeOK
<1>3. subscriptions[s] \in Subscription
  BY DEF BillingInv, TypeOK
<1>4. CASE subscriptions[s].status = "CANCELADA"
  <2> DEFINE t == [Idle EXCEPT !.op = "renewSubscription", !.step = "revokePlano",
                               !.user = subscriptions[s].user, !.subscription = s]
  <2>1. task' = [task EXCEPT ![w] = t]
    BY <1>4 DEF RenewSubscription, canRenew
  <2>2. t \in Task
    BY <1>3 DEF Task, Idle, Ops, Steps, Users, Subscription
  <2>3. task' \in [Workers -> Task] /\ OthersWait(w) /\ task'[w] = t
    BY <2>1, <2>2, TaskSet
  <2>4. TypeOK'
    BY <1>2, <2>3, Zenon
    DEF RenewSubscription, BillingInv, TypeOK, tables, profiles, gateway, clock
  <2>5. HandlerConsistent(w)' /\ ~Opening(w)'
    BY <1>1, <1>4, <2>3 DEF HandlerConsistent, Opening, Idle, rows
  <2> QED
    BY <1>1, <2>3, <2>4, <2>5, QuietStep
<1>5. CASE canRenew(subscriptions[s].status)
  <2>1. PICK i \in InvoiceIds :
          /\ First(i, FreeInvoices)
          /\ task' = [task EXCEPT ![w] =
               [Idle EXCEPT !.op = "renewSubscription", !.step = "createCharge",
                            !.user = subscriptions[s].user, !.subscription = s,
                            !.invoice = i, !.date = graceUntil(now)]]
    BY <1>5 DEF RenewSubscription, canRenew
  <2> DEFINE t == [Idle EXCEPT !.op = "renewSubscription", !.step = "createCharge",
                               !.user = subscriptions[s].user, !.subscription = s,
                               !.invoice = i, !.date = graceUntil(now)]
  <2>2. graceUntil(now) \in Nat
    BY DaysAssumption DEF graceUntil, BillingInv, TypeOK
  <2>3. t \in Task
    BY <1>3, <2>2 DEF Task, Idle, Ops, Steps, Users, Subscription
  <2>4. task' \in [Workers -> Task] /\ OthersWait(w) /\ task'[w] = t
    BY <2>1, <2>3, TaskSet
  <2>5. TypeOK'
    BY <1>2, <2>4, Zenon
    DEF RenewSubscription, BillingInv, TypeOK, tables, profiles, gateway, clock
  <2>6. invoices[i].status = "AUSENTE" /\ \A v \in Workers : task[v].invoice # i
    BY <2>1 DEF First, FreeInvoices
  <2>7. HandlerConsistent(w)' /\ task'[w].invoice = i
    BY <1>1, <1>5, <2>4, <2>6 DEF HandlerConsistent, Opening, Idle, rows, canRenew
  <2> QED
    BY <1>1, <2>4, <2>5, <2>6, <2>7, QuietStep
<1> QED
  BY <1>4, <1>5 DEF RenewSubscription

\* renewPurchaseIfDue starts with an invoice id of its own.
LEMMA RenewPurchaseStep ==
  ASSUME BillingInv, NEW w \in Workers, NEW p \in PurchaseIds, RenewPurchase(w, p)
  PROVE  BillingInv'
<1>1. UNCHANGED rows
  BY DEF RenewPurchase, rows, tables, gateway
<1>2. purchaseRenewJobs' \in Queue(PurchaseIds)
  BY QueueTypes DEF RenewPurchase, BillingInv, TypeOK
<1>3. purchases[p] \in Purchase
  BY DEF BillingInv, TypeOK
<1>4. CASE purchases[p].status # "ATIVO"
  <2> DEFINE t == [Idle EXCEPT !.op = "renewPurchase", !.step = "completeJob", !.purchase = p]
  <2>1. task' = [task EXCEPT ![w] = t]
    BY <1>4 DEF RenewPurchase
  <2>2. t \in Task
    BY DEF Task, Idle, Ops, Steps, Users
  <2>3. task' \in [Workers -> Task] /\ OthersWait(w) /\ task'[w] = t
    BY <2>1, <2>2, TaskSet
  <2>4. TypeOK'
    BY <1>2, <2>3, Zenon
    DEF RenewPurchase, BillingInv, TypeOK, tables, profiles, gateway, clock
  <2>5. HandlerConsistent(w)' /\ ~Opening(w)'
    BY <2>3 DEF HandlerConsistent, Opening, Idle
  <2> QED
    BY <1>1, <2>3, <2>4, <2>5, QuietStep
<1>5. CASE purchases[p].status = "ATIVO"
  <2>1. PICK i \in InvoiceIds :
          /\ First(i, FreeInvoices)
          /\ task' = [task EXCEPT ![w] =
               [Idle EXCEPT !.op = "renewPurchase", !.step = "createCharge",
                            !.user = purchases[p].user, !.purchase = p,
                            !.invoice = i, !.date = purchases[p].expiraEm]]
    BY <1>5 DEF RenewPurchase
  <2> DEFINE t == [Idle EXCEPT !.op = "renewPurchase", !.step = "createCharge",
                               !.user = purchases[p].user, !.purchase = p,
                               !.invoice = i, !.date = purchases[p].expiraEm]
  <2>2. t \in Task
    BY <1>3 DEF Task, Idle, Ops, Steps, Users, Purchase
  <2>3. task' \in [Workers -> Task] /\ OthersWait(w) /\ task'[w] = t
    BY <2>1, <2>2, TaskSet
  <2>4. TypeOK'
    BY <1>2, <2>3, Zenon
    DEF RenewPurchase, BillingInv, TypeOK, tables, profiles, gateway, clock
  <2>5. invoices[i].status = "AUSENTE" /\ \A v \in Workers : task[v].invoice # i
    BY <2>1 DEF First, FreeInvoices
  <2>6. HandlerConsistent(w)' /\ task'[w].invoice = i
    BY <1>1, <2>3, <2>5 DEF HandlerConsistent, Opening, Idle, rows
  <2> QED
    BY <1>1, <2>3, <2>4, <2>5, <2>6, QuietStep
<1> QED
  BY <1>4, <1>5

\* expirePurchaseIfActive starts by reading only.
LEMMA ExpirePurchaseStep ==
  ASSUME BillingInv, NEW w \in Workers, NEW p \in PurchaseIds, ExpirePurchase(w, p)
  PROVE  BillingInv'
<1> DEFINE t == [Idle EXCEPT !.op = "expirePurchase",
                             !.step = IF purchases[p].expiraEm > now
                                        THEN "rescheduleExpiry" ELSE "expire",
                             !.purchase = p, !.date = purchases[p].expiraEm]
<1>1. UNCHANGED rows /\ task' = [task EXCEPT ![w] = t]
  BY DEF ExpirePurchase, rows, tables, gateway
<1>2. expireJobs' \in Queue(PurchaseIds)
  BY QueueTypes DEF ExpirePurchase, BillingInv, TypeOK
<1>3. purchases[p] \in Purchase
  BY DEF BillingInv, TypeOK
<1>4. t \in Task
  BY <1>3 DEF Task, Idle, Ops, Steps, Users, Purchase
<1>5. task' \in [Workers -> Task] /\ OthersWait(w) /\ task'[w] = t
  BY <1>1, <1>4, TaskSet
<1>6. TypeOK'
  BY <1>2, <1>5, Zenon DEF ExpirePurchase, BillingInv, TypeOK, tables, profiles, gateway, clock
<1>7. HandlerConsistent(w)' /\ ~Opening(w)'
  BY <1>5 DEF HandlerConsistent, Opening, Idle
<1> QED
  BY <1>1, <1>5, <1>6, <1>7, QuietStep

--------------------------------------------------------------------------------
(* Steps that change rows *)

\* The insert of a subscription respects the unique index; nothing is active yet.
LEMMA CreateSubscriptionStep ==
  ASSUME BillingInv, NEW w \in Workers, CreateSubscription(w)
  PROVE  BillingInv'
<1> DEFINE u == task[w].user
<1>1. /\ UNCHANGED <<purchases, invoices, refunds, events, profiles, queue, gateway, clock>>
      /\ task[w].op = "subscribe" /\ task[w].step = "createSubscription"
  BY DEF CreateSubscription, At
<1>2. /\ task[w] \in Task /\ HandlerConsistent(w)
      /\ subscriptions \in [SubscriptionIds -> Subscription]
  BY DEF BillingInv, TypeOK, HandlersConsistent
<1>3. CASE UNCHANGED subscriptions /\ Finish(w)
  <2>1. UNCHANGED rows
    BY <1>1, <1>3 DEF rows, gateway
  <2>2. TypeOK'
    BY <1>1, <1>3, TaskFinish, Zenon DEF BillingInv, TypeOK, profiles, queue, gateway, clock
  <2> QED
    BY <1>3, <2>1, <2>2, QuietFinish
<1>4. ASSUME NEW s \in SubscriptionIds, s \in FreeSubscriptions, uniqueActive(u, s),
             subscriptions' = [subscriptions EXCEPT ![s] =
               [user |-> u, plano |-> task[w].plano, status |-> "EM_GRACA",
                proximaCobranca |-> task[w].date]],
             task' = [task EXCEPT ![w].subscription = s, ![w].step = "createCharge"]
      PROVE  BillingInv'
  <2> DEFINE t == [task[w] EXCEPT !.subscription = s, !.step = "createCharge"]
  <2>1. t \in Task /\ t.op = "subscribe" /\ t.step = "createCharge" /\ t.subscription = s
        /\ t.invoice = task[w].invoice /\ t.user = u /\ t.plano = task[w].plano
    BY <1>1, <1>2 DEF Task, Steps
  <2>2. task' = [task EXCEPT ![w] = t]
    BY <1>4 DEF BillingInv, TypeOK
  <2>3. task' \in [Workers -> Task] /\ OthersWait(w) /\ task'[w] = t
    BY <2>1, <2>2, TaskSet
  <2>4. u \in Professionals /\ task[w].plano \in Plans
    BY <1>1, <1>2 DEF HandlerConsistent
  <2>5. subscriptions[s].status = "AUSENTE"
    BY <1>4 DEF FreeSubscriptions
  <2>6. TypeOK'
    <3>1. subscriptions' \in [SubscriptionIds -> Subscription]
      BY <1>2, <1>4, <2>4 DEF Subscription, Users, Task
    <3> QED
      BY <1>1, <2>3, <3>1, Zenon DEF BillingInv, TypeOK, profiles, queue, gateway, clock
  <2>7. RowsConsistent'
    BY <1>1, <1>2, <1>4, <2>4 DEF BillingInv, RowsConsistent, Confirmed, gateway
  <2>8. RowsGrow(w)
    BY <1>1, <1>2, <1>4 DEF RowsGrow, Confirmed, Settled, gateway
  <2>9. HandlerConsistent(w)' /\ Opening(w) /\ task'[w].invoice = task[w].invoice
    BY <1>1, <1>2, <1>4, <2>1, <2>3, <2>4 DEF HandlerConsistent, Opening
  <2>10. OneLiveSubscriptionPerUser'
    BY <1>2, <1>4 DEF BillingInv, OneLiveSubscriptionPerUser, canRenew, uniqueActive,
                      LiveSubscriptions, Subscription
  <2>11. SettledOnlyIfConfirmed'
    BY <1>1 DEF BillingInv, SettledOnlyIfConfirmed, Settled, Confirmed, gateway
  <2>12. ActivatedOnlyIfPaid'
    BY <1>1, <1>2, <1>4 DEF BillingInv, ActivatedOnlyIfPaid, Settled, SettledOf
  <2> QED
    BY <2>3, <2>6, <2>7, <2>8, <2>9, <2>10, <2>11, <2>12, HandlerStep
<1> QED
  BY <1>3, <1>4 DEF CreateSubscription, First

\* gateway.createCharge confirms nothing: announcements are no confirmations.
LEMMA CreateChargeStep ==
  ASSUME BillingInv, NEW w \in Workers, CreateCharge(w)
  PROVE  BillingInv'
<1> DEFINE step == IF task[w].op = "purchase" THEN "createPurchase" ELSE "createInvoice"
<1>1. /\ task' \in [Workers -> Task] /\ OthersWait(w)
      /\ task'[w] = [task[w] EXCEPT !.step = step]
  BY TaskGoto DEF CreateCharge, Steps
<1>2. task[w] \in Task /\ HandlerConsistent(w) /\ Opening(w) /\ task[w].invoice \in InvoiceIds
  BY DEF CreateCharge, HandlerConsistent, HandlersConsistent, Opening, BillingInv, TypeOK
<1>3. TypeOK'
  <2>1. charges' \subseteq InvoiceIds /\ sent' \subseteq InvoiceIds \X EventTypes
    BY <1>2, GatewayAssumption DEF CreateCharge, BillingInv, TypeOK
  <2> QED
    BY <1>1, <2>1, Zenon DEF CreateCharge, BillingInv, TypeOK, tables, profiles, queue, clock
<1>4. RowsConsistent' /\ SettledOnlyIfConfirmed'
  BY DEF RowsConsistent, SettledOnlyIfConfirmed, CreateCharge, tables, Confirmed, Settled,
         BillingInv
<1>5. RowsGrow(w)
  BY DEF RowsGrow, CreateCharge, tables, Confirmed, Settled
<1>6. HandlerConsistent(w)' /\ task'[w].invoice = task[w].invoice
  <2>1. /\ task'[w].op = task[w].op /\ task'[w].step = step /\ task'[w].user = task[w].user
        /\ task'[w].subscription = task[w].subscription
        /\ task'[w].invoice = task[w].invoice /\ task'[w].plano = task[w].plano
        /\ task'[w].refund = task[w].refund
    BY <1>1, <1>2 DEF Task
  <2>2. UNCHANGED <<subscriptions, invoices>> /\ task[w].op # "webhook"
    BY <1>2 DEF CreateCharge, tables, HandlerConsistent
  <2>3. ASSUME NEW i, i = task[w].invoice
        PROVE  HandlerConsistent(w)'
    BY <1>2, <1>5, <2>1, <2>2, <2>3, Remembered DEF HandlerConsistent, Opening, Confirmed
  <2> QED
    BY <2>1, <2>3
<1>7. OneLiveSubscriptionPerUser' /\ ActivatedOnlyIfPaid'
  BY DEF OneLiveSubscriptionPerUser, ActivatedOnlyIfPaid, CreateCharge, tables, SettledOf,
         Settled, BillingInv
<1> QED
  BY <1>1, <1>2, <1>3, <1>4, <1>5, <1>6, <1>7, HandlerStep

\* A new purchase grants nothing.
LEMMA CreatePurchaseStep ==
  ASSUME BillingInv, NEW w \in Workers, CreatePurchase(w)
  PROVE  BillingInv'
<1> DEFINE p == task[w].purchase
<1>1. /\ UNCHANGED <<subscriptions, invoices, refunds, events, profiles, queue, gateway, clock>>
      /\ task[w].op = "purchase" /\ task[w].step = "createPurchase"
      /\ purchases' = [purchases EXCEPT ![p] =
           [user |-> task[w].user, status |-> "PENDENTE", expiraEm |-> 0]]
  BY DEF CreatePurchase, At
<1>2. /\ task' \in [Workers -> Task] /\ OthersWait(w)
      /\ task'[w] = [task[w] EXCEPT !.step = "createInvoice"]
  BY TaskGoto DEF CreatePurchase, Steps
<1>3. /\ task[w] \in Task /\ HandlerConsistent(w) /\ Opening(w)
      /\ purchases \in [PurchaseIds -> Purchase]
  BY <1>1 DEF BillingInv, TypeOK, HandlersConsistent, Opening
<1>4. TypeOK'
  <2>1. purchases' \in [PurchaseIds -> Purchase]
    BY <1>1, <1>3 DEF Purchase, Task
  <2> QED
    BY <1>1, <1>2, <2>1, Zenon DEF BillingInv, TypeOK, profiles, queue, gateway, clock
<1>5. RowsConsistent' /\ SettledOnlyIfConfirmed' /\ OneLiveSubscriptionPerUser'
  BY <1>1 DEF RowsConsistent, SettledOnlyIfConfirmed, OneLiveSubscriptionPerUser, Confirmed,
              Settled, BillingInv, gateway
<1>6. RowsGrow(w)
  BY <1>1 DEF RowsGrow, Confirmed, Settled, gateway
<1>7. HandlerConsistent(w)' /\ task'[w].invoice = task[w].invoice
  BY <1>1, <1>2, <1>3 DEF HandlerConsistent, Opening, Task
<1>8. ActivatedOnlyIfPaid'
  BY <1>1, <1>3 DEF BillingInv, ActivatedOnlyIfPaid, SettledOf, Settled
<1> QED
  BY <1>2, <1>3, <1>4, <1>5, <1>6, <1>7, <1>8, HandlerStep

\* A new invoice is not settled and takes the id its handler reserved.
LEMMA CreateInvoiceStep ==
  ASSUME BillingInv, NEW w \in Workers, CreateInvoice(w)
  PROVE  BillingInv'
<1> DEFINE i == task[w].invoice
<1>1. /\ UNCHANGED <<subscriptions, purchases, refunds, events, profiles, queue, gateway, clock>>
      /\ task[w].step = "createInvoice"
      /\ invoices' = [invoices EXCEPT ![i] =
           [status |-> "PENDENTE", subscription |-> task[w].subscription,
            purchase |-> task[w].purchase, vencimentoEm |-> task[w].date, pagoEm |-> 0]]
  BY DEF CreateInvoice
<1>2. /\ task' \in [Workers -> Task] /\ OthersWait(w)
      /\ task'[w] = [task[w] EXCEPT !.step = "scheduleInvoiceDue"]
  BY TaskGoto DEF CreateInvoice, Steps
<1>3. /\ task[w] \in Task /\ HandlerConsistent(w) /\ Opening(w)
      /\ invoices \in [InvoiceIds -> Invoice]
      /\ i \in InvoiceIds /\ invoices[i].status = "AUSENTE"
  BY <1>1 DEF BillingInv, TypeOK, HandlersConsistent, HandlerConsistent, Opening
<1>4. TypeOK'
  <2>1. invoices' \in [InvoiceIds -> Invoice]
    BY <1>1, <1>3 DEF Invoice, Task
  <2> QED
    BY <1>1, <1>2, <2>1, Zenon DEF BillingInv, TypeOK, profiles, queue, gateway, clock
<1>5. RowsConsistent'
  <2>1. task[w].subscription # 0 => subscriptions[task[w].subscription].status # "AUSENTE"
    BY <1>3 DEF HandlerConsistent
  <2> QED
    BY <1>1, <1>3, <2>1 DEF BillingInv, RowsConsistent, Confirmed, gateway
<1>6. RowsGrow(w)
  BY <1>1, <1>3 DEF RowsGrow, Confirmed, Settled, gateway
<1>7. HandlerConsistent(w)' /\ ~Opening(w)'
  <2>1. "scheduleInvoiceDue" \in PlainSteps /\ task[w].op # "webhook"
    BY <1>3 DEF PlainSteps, Steps, HandlerConsistent
  <2> QED
    BY <1>2, <1>6, <2>1, GotoPlain
<1>8. SettledOnlyIfConfirmed' /\ OneLiveSubscriptionPerUser'
  BY <1>1, <1>3 DEF BillingInv, SettledOnlyIfConfirmed, OneLiveSubscriptionPerUser, Settled,
                    Confirmed, gateway
<1>9. ActivatedOnlyIfPaid'
  BY <1>1, <1>3 DEF BillingInv, ActivatedOnlyIfPaid, SettledOf, Settled
<1> QED
  BY <1>2, <1>4, <1>5, <1>6, <1>7, <1>8, <1>9, HandlerStep

\* setProximaCobranca leaves status and owner alone.
LEMMA SetProximaCobrancaStep ==
  ASSUME BillingInv, NEW w \in Workers, SetProximaCobranca(w)
  PROVE  BillingInv'
<1> DEFINE s == task[w].subscription
<1>1. /\ UNCHANGED <<purchases, invoices, refunds, events, profiles, queue, gateway, clock>>
      /\ task[w].op = "renewSubscription"
      /\ subscriptions' = [subscriptions EXCEPT ![s].proximaCobranca = nextCharge(now)]
  BY DEF SetProximaCobranca, At
<1>2. /\ task' \in [Workers -> Task] /\ OthersWait(w)
      /\ task'[w] = [task[w] EXCEPT !.step = "scheduleSubscriptionRenewal"]
  BY TaskGoto DEF SetProximaCobranca, Steps
<1>3. subscriptions \in [SubscriptionIds -> Subscription] /\ nextCharge(now) \in Nat
  BY DaysAssumption DEF BillingInv, TypeOK, nextCharge
<1>4. TypeOK'
  <2>1. subscriptions' \in [SubscriptionIds -> Subscription]
    BY <1>1, <1>3 DEF Subscription
  <2> QED
    BY <1>1, <1>2, <2>1, Zenon DEF BillingInv, TypeOK, profiles, queue, gateway, clock
<1>5. RowsConsistent'
  BY <1>1, <1>3 DEF BillingInv, RowsConsistent, Confirmed, gateway, Subscription, TypeOK, Invoice
<1>6. RowsGrow(w)
  BY <1>1, <1>3 DEF RowsGrow, Confirmed, Settled, gateway, Subscription
<1>7. HandlerConsistent(w)' /\ ~Opening(w)'
  <2>1. "scheduleSubscriptionRenewal" \in PlainSteps
    BY DEF PlainSteps, Steps
  <2> QED
    BY <1>1, <1>2, <1>6, <2>1, GotoPlain
<1>8. SettledOnlyIfConfirmed' /\ OneLiveSubscriptionPerUser'
  BY <1>1, <1>3 DEF BillingInv, SettledOnlyIfConfirmed, OneLiveSubscriptionPerUser, Settled,
                    Confirmed, gateway, canRenew, Subscription
<1>9. ActivatedOnlyIfPaid'
  BY <1>1, <1>3 DEF BillingInv, ActivatedOnlyIfPaid, SettledOf, Settled, Subscription
<1> QED
  BY <1>2, <1>4, <1>5, <1>6, <1>7, <1>8, <1>9, HandlerStep

\* changePlan writes a plan, never null, and leaves the status alone.
LEMMA UpdatePlanStep ==
  ASSUME BillingInv, NEW w \in Workers, UpdatePlan(w)
  PROVE  BillingInv'
<1> DEFINE s == task[w].subscription
<1>1. /\ UNCHANGED <<purchases, invoices, refunds, events, profiles, queue, gateway, clock>>
      /\ task[w].op = "changePlan"
      /\ subscriptions' = [subscriptions EXCEPT ![s].plano = task[w].plano]
  BY DEF UpdatePlan, At
<1>2. /\ task' \in [Workers -> Task] /\ OthersWait(w)
      /\ task'[w] = [task[w] EXCEPT !.step = "setProfessionalPlano"]
  BY TaskGoto DEF UpdatePlan, Steps
<1>3. /\ subscriptions \in [SubscriptionIds -> Subscription] /\ task[w] \in Task
      /\ HandlerConsistent(w) /\ task[w].plano \in Plans
  BY <1>1 DEF BillingInv, TypeOK, HandlersConsistent, HandlerConsistent
<1>4. TypeOK'
  <2>1. subscriptions' \in [SubscriptionIds -> Subscription]
    BY <1>1, <1>3 DEF Subscription
  <2> QED
    BY <1>1, <1>2, <2>1, Zenon DEF BillingInv, TypeOK, profiles, queue, gateway, clock
<1>5. RowsConsistent'
  BY <1>1, <1>3, SMTT(30) DEF BillingInv, RowsConsistent, Confirmed, gateway, Subscription, TypeOK, Invoice
<1>6. RowsGrow(w)
  BY <1>1, <1>3 DEF RowsGrow, Confirmed, Settled, gateway, Subscription
<1>7. HandlerConsistent(w)' /\ ~Opening(w)'
  BY <1>1, <1>2, <1>3, <1>6, Remembered DEF HandlerConsistent, Opening, Task
<1>8. SettledOnlyIfConfirmed' /\ OneLiveSubscriptionPerUser'
  BY <1>1, <1>3 DEF BillingInv, SettledOnlyIfConfirmed, OneLiveSubscriptionPerUser, Settled,
                    Confirmed, gateway, canRenew, Subscription
<1>9. ActivatedOnlyIfPaid'
  BY <1>1, <1>3 DEF BillingInv, ActivatedOnlyIfPaid, SettledOf, Settled, Subscription
<1> QED
  BY <1>2, <1>4, <1>5, <1>6, <1>7, <1>8, <1>9, HandlerStep

\* Paid invoices stay so: what they activated is still paid for.
LEMMA SettledStays ==
  ASSUME BillingInv, UNCHANGED <<subscriptions, purchases>>,
         \A j \in InvoiceIds : Settled(j) =>
           /\ Settled(j)' /\ invoices'[j].subscription = invoices[j].subscription
           /\ invoices'[j].purchase = invoices[j].purchase
  PROVE  ActivatedOnlyIfPaid'
<1>1. ASSUME NEW s \in SubscriptionIds, subscriptions'[s].status = "ATIVA"
      PROVE  \E j \in InvoiceIds : invoices'[j].subscription = s /\ Settled(j)'
  BY <1>1 DEF BillingInv, ActivatedOnlyIfPaid
<1>2. ASSUME NEW p \in PurchaseIds, purchases'[p].expiraEm > 0
      PROVE  (SettledOf(p) # {})'
  BY <1>2 DEF BillingInv, ActivatedOnlyIfPaid, SettledOf
<1> QED
  BY <1>1, <1>2 DEF ActivatedOnlyIfPaid

\* markPaid settles a confirmed invoice.
LEMMA MarkPaidStep ==
  ASSUME BillingInv, NEW w \in Workers, MarkPaid(w)
  PROVE  BillingInv'
<1> SUFFICES ASSUME NEW i, i = task[w].invoice
             PROVE  BillingInv'
  OBVIOUS
<1>1. /\ UNCHANGED <<subscriptions, purchases, refunds, events, profiles, queue, gateway, clock>>
      /\ task[w].op = "webhook" /\ task[w].step = "markPaid"
      /\ invoices' = [invoices EXCEPT ![i].status = "PAGA", ![i].pagoEm = now]
  BY DEF MarkPaid, At
<1>2. /\ task' \in [Workers -> Task] /\ OthersWait(w)
      /\ task'[w] = [task[w] EXCEPT !.step = "activateOrigin"]
  BY TaskGoto DEF MarkPaid, Steps
<1>3. /\ task[w] \in Task /\ HandlerConsistent(w) /\ invoices \in [InvoiceIds -> Invoice]
      /\ now \in Nat
  BY DEF BillingInv, TypeOK, HandlersConsistent
<1>4. Confirmed(i) /\ i \in InvoiceIds /\ invoices[i].status # "AUSENTE"
  BY <1>1, <1>3, ConfirmedIsInvoice DEF HandlerConsistent, BillingInv
<1>5. /\ \A j \in InvoiceIds : /\ invoices'[j].subscription = invoices[j].subscription
                               /\ invoices'[j].purchase = invoices[j].purchase
                               /\ j # i => invoices'[j] = invoices[j]
      /\ invoices'[i].status = "PAGA"
  BY <1>1, <1>3, <1>4 DEF Invoice
<1>6. TypeOK'
  <2>1. invoices' \in [InvoiceIds -> Invoice]
    <3>1. [invoices[i] EXCEPT !.status = "PAGA", !.pagoEm = now] \in Invoice
      BY <1>3, <1>4 DEF Invoice
    <3>2. invoices' = [invoices EXCEPT ![i] =
            [invoices[i] EXCEPT !.status = "PAGA", !.pagoEm = now]]
      BY <1>1, <1>3, <1>4
    <3> QED
      BY <1>3, <1>4, <3>1, <3>2
  <2> QED
    BY <1>1, <1>2, <2>1, Zenon DEF BillingInv, TypeOK, profiles, queue, gateway, clock
<1>7. RowsConsistent'
  BY <1>1, <1>5 DEF BillingInv, RowsConsistent, Confirmed, gateway
<1>8. RowsGrow(w)
  BY <1>1, <1>4, <1>5 DEF RowsGrow, Confirmed, Settled, gateway
<1>9. HandlerConsistent(w)' /\ ~Opening(w)'
  <2>1. "activateOrigin" \in PlainSteps /\ Settled(i)'
    BY <1>5 DEF PlainSteps, Steps, Settled
  <2> QED
    BY <1>1, <1>2, <1>8, <2>1, GotoPlain
<1>10. SettledOnlyIfConfirmed' /\ OneLiveSubscriptionPerUser'
  BY <1>1, <1>4, <1>5 DEF BillingInv, SettledOnlyIfConfirmed, OneLiveSubscriptionPerUser,
                          Settled, Confirmed, gateway
<1>11. ActivatedOnlyIfPaid'
  <2>1. \A j \in InvoiceIds : Settled(j) =>
          /\ Settled(j)' /\ invoices'[j].subscription = invoices[j].subscription
          /\ invoices'[j].purchase = invoices[j].purchase
    BY <1>5, <1>8 DEF RowsGrow
  <2> QED
    BY <1>1, <2>1, SettledStays
<1> QED
  BY <1>2, <1>6, <1>7, <1>8, <1>9, <1>10, <1>11, HandlerStep

\* subscriptions.activate respects the unique index and follows markPaid.
LEMMA ActivateSubscriptionStep ==
  ASSUME BillingInv, NEW w \in Workers, ActivateSubscription(w)
  PROVE  BillingInv'
<1> SUFFICES ASSUME NEW i, i = task[w].invoice
             PROVE  BillingInv'
  OBVIOUS
<1> DEFINE s == task[w].subscription
<1>1. /\ UNCHANGED <<purchases, invoices, refunds, events, profiles, queue, gateway, clock>>
      /\ task[w].op = "webhook" /\ task[w].step = "activateOrigin" /\ s # 0
  BY DEF ActivateSubscription, At
<1>2. /\ task[w] \in Task /\ HandlerConsistent(w)
      /\ subscriptions \in [SubscriptionIds -> Subscription]
      /\ s \in SubscriptionIds /\ subscriptions[s].status # "AUSENTE"
  BY <1>1 DEF BillingInv, TypeOK, HandlersConsistent, HandlerConsistent, Task
<1>3. CASE UNCHANGED subscriptions /\ Finish(w)
  <2>1. UNCHANGED rows
    BY <1>1, <1>3 DEF rows, gateway
  <2>2. TypeOK'
    BY <1>1, <1>3, TaskFinish, Zenon DEF BillingInv, TypeOK, profiles, queue, gateway, clock
  <2> QED
    BY <1>3, <2>1, <2>2, QuietFinish
<1>4. ASSUME uniqueActive(subscriptions[s].user, s),
             subscriptions' = [subscriptions EXCEPT ![s].status = "ATIVA"],
             task' = [task EXCEPT ![w].step = "setProfessionalPlano",
                                  ![w].user = subscriptions[s].user,
                                  ![w].plano = subscriptions[s].plano]
      PROVE  BillingInv'
  <2> DEFINE t == [task[w] EXCEPT !.step = "setProfessionalPlano",
                                  !.user = subscriptions[s].user,
                                  !.plano = subscriptions[s].plano]
  <2>1. subscriptions[s] \in Subscription /\ subscriptions[s].plano \in Plans
    BY <1>2 DEF BillingInv, RowsConsistent
  <2>2. /\ t \in Task /\ t.op = "webhook" /\ t.step = "setProfessionalPlano"
        /\ t.subscription = s /\ t.purchase = task[w].purchase
        /\ t.invoice = i /\ t.plano = subscriptions[s].plano
    BY <1>1, <1>2, <2>1, ZenonT(40) DEF Task, Steps, Subscription
  <2>3. task' = [task EXCEPT ![w] = t]
    BY <1>4 DEF BillingInv, TypeOK
  <2>4. task' \in [Workers -> Task] /\ OthersWait(w) /\ task'[w] = t
    BY <2>2, <2>3, TaskSet
  <2>5. /\ \A r \in SubscriptionIds : /\ subscriptions'[r].user = subscriptions[r].user
                                      /\ subscriptions'[r].plano = subscriptions[r].plano
                                      /\ r # s => subscriptions'[r] = subscriptions[r]
        /\ subscriptions'[s].status = "ATIVA"
    BY <1>2, <1>4 DEF Subscription
  <2>6. TypeOK'
    <3>1. subscriptions' \in [SubscriptionIds -> Subscription]
      BY <1>2, <1>4 DEF Subscription
    <3> QED
      BY <1>1, <2>4, <3>1, Zenon DEF BillingInv, TypeOK, profiles, queue, gateway, clock
  <2>7. RowsConsistent'
    BY <1>1, <1>2, <2>5 DEF BillingInv, RowsConsistent, Confirmed, gateway, TypeOK, Invoice
  <2>8. RowsGrow(w)
    BY <1>1, <2>5 DEF RowsGrow, Confirmed, Settled, gateway
  <2>9. HandlerConsistent(w)' /\ ~Opening(w)'
    BY <1>1, <2>1, <2>2, <2>4, <2>5, <2>8, Remembered, SMTT(60)
    DEF HandlerConsistent, Opening, Confirmed, Settled
  <2>10. OneLiveSubscriptionPerUser'
    BY <1>2, <1>4, <2>5, SMTT(30) DEF BillingInv, OneLiveSubscriptionPerUser, canRenew, uniqueActive,
                            LiveSubscriptions
  <2>11. SettledOnlyIfConfirmed'
    BY <1>1 DEF BillingInv, SettledOnlyIfConfirmed, Settled, Confirmed, gateway
  <2>12. ActivatedOnlyIfPaid'
    <3>1. i \in InvoiceIds /\ invoices'[i].subscription = s /\ Settled(i)'
      BY <1>1, <2>8, Remembered
    <3> QED
      BY <1>1, <2>5, <3>1 DEF BillingInv, ActivatedOnlyIfPaid, Settled, SettledOf
  <2> QED
    BY <2>4, <2>6, <2>7, <2>8, <2>9, <2>10, <2>11, <2>12, HandlerStep
<1> QED
  BY <1>3, <1>4 DEF ActivateSubscription

\* purchases.activate follows markPaid.
LEMMA ActivatePurchaseStep ==
  ASSUME BillingInv, NEW w \in Workers, ActivatePurchase(w)
  PROVE  BillingInv'
<1> SUFFICES ASSUME NEW i, i = task[w].invoice
             PROVE  BillingInv'
  OBVIOUS
<1> DEFINE p == task[w].purchase
<1>1. /\ UNCHANGED <<subscriptions, invoices, refunds, events, profiles, queue, gateway,
                      now, failures, raced>>
      /\ task[w].op = "webhook" /\ task[w].step = "activatePurchase"
      /\ purchases' = [purchases EXCEPT ![p].status = "ATIVO", ![p].expiraEm = task[w].date]
  BY DEF ActivatePurchase, At
<1>2. /\ task' \in [Workers -> Task] /\ OthersWait(w)
      /\ task'[w] = [task[w] EXCEPT !.step = "setContractorPlano"]
  BY TaskGoto DEF ActivatePurchase, Steps
<1>3. /\ task[w] \in Task /\ HandlerConsistent(w)
      /\ purchases \in [PurchaseIds -> Purchase]
  BY DEF BillingInv, TypeOK, HandlersConsistent
<1>4. \A q \in PurchaseIds : q # p => purchases'[q] = purchases[q]
  BY <1>1, <1>3
<1>5. TypeOK'
  <2>1. purchases' \in [PurchaseIds -> Purchase]
    BY <1>1, <1>3, ZenonT(40) DEF Purchase, Task
  <2>2. p \in PurchaseIds
    <3> SUFFICES p # 0
      BY <1>3 DEF Task
    <3> QED
      BY <1>1, <1>3 DEF HandlerConsistent
  <2>3. overtaken' \subseteq PurchaseIds
    BY <2>2 DEF ActivatePurchase, BillingInv, TypeOK
  <2> QED
    BY <1>1, <1>2, <2>1, <2>3, Zenon DEF BillingInv, TypeOK, profiles, queue, gateway
<1>6. RowsConsistent' /\ SettledOnlyIfConfirmed' /\ OneLiveSubscriptionPerUser'
  BY <1>1 DEF RowsConsistent, SettledOnlyIfConfirmed, OneLiveSubscriptionPerUser, Confirmed,
              Settled, BillingInv, gateway
<1>7. RowsGrow(w)
  BY <1>1 DEF RowsGrow, Confirmed, Settled, gateway
<1>8. HandlerConsistent(w)' /\ ~Opening(w)'
  BY <1>1, <1>2, <1>3, <1>7, Remembered DEF HandlerConsistent, Opening, Task, Confirmed, Settled
<1>9. ActivatedOnlyIfPaid'
  <2>1. i \in InvoiceIds /\ invoices'[i].purchase = p /\ Settled(i)'
    BY <1>1, <1>7, Remembered
  <2>2. ASSUME NEW q \in PurchaseIds, purchases'[q].expiraEm > 0
        PROVE  (SettledOf(q) # {})'
    <3>1. CASE q = p
      BY <2>1, <3>1 DEF SettledOf
    <3>2. CASE q # p
      BY <1>1, <1>4, <2>2, <3>2 DEF BillingInv, ActivatedOnlyIfPaid, SettledOf, Settled
    <3> QED
      BY <3>1, <3>2
  <2>3. ASSUME NEW s \in SubscriptionIds, subscriptions'[s].status = "ATIVA"
        PROVE  \E j \in InvoiceIds : invoices'[j].subscription = s /\ Settled(j)'
    BY <1>1, <2>3 DEF BillingInv, ActivatedOnlyIfPaid, Settled
  <2> QED
    BY <2>2, <2>3 DEF ActivatedOnlyIfPaid
<1> QED
  BY <1>2, <1>5, <1>6, <1>7, <1>8, <1>9, HandlerStep

\* Steps that give a purchase another status and nothing else.
LEMMA PurchaseStatusKeepsRest ==
  ASSUME BillingInv, NEW w \in Workers, NEW p, NEW status,
         purchases' = IF purchases[p].status = "ATIVO"
                        THEN [purchases EXCEPT ![p].status = status]
                        ELSE purchases,
         status \in {"EXPIRADO", "CANCELADO"},
         UNCHANGED <<subscriptions, invoices, refunds, sent, reversals>>
  PROVE  /\ purchases' \in [PurchaseIds -> Purchase]
         /\ RowsConsistent' /\ RowsGrow(w)
         /\ OneLiveSubscriptionPerUser' /\ SettledOnlyIfConfirmed' /\ ActivatedOnlyIfPaid'
<1>1. purchases \in [PurchaseIds -> Purchase]
  BY DEF BillingInv, TypeOK
<1>2. /\ purchases' \in [PurchaseIds -> Purchase]
      /\ \A q \in PurchaseIds : purchases'[q].expiraEm = purchases[q].expiraEm
  BY <1>1 DEF Purchase
<1>3. RowsConsistent' /\ RowsGrow(w)
  BY DEF BillingInv, RowsConsistent, RowsGrow, Confirmed, Settled
<1>4. OneLiveSubscriptionPerUser' /\ SettledOnlyIfConfirmed'
  BY DEF BillingInv, OneLiveSubscriptionPerUser, SettledOnlyIfConfirmed, Confirmed, Settled
<1>5. ActivatedOnlyIfPaid'
  BY <1>2 DEF BillingInv, ActivatedOnlyIfPaid, SettledOf, Settled
<1> QED
  BY <1>2, <1>3, <1>4, <1>5

\* purchases.cancel changes no date.
LEMMA CancelPurchaseStep ==
  ASSUME BillingInv, NEW w \in Workers, CancelPurchase(w)
  PROVE  BillingInv'
<1>1. /\ UNCHANGED <<subscriptions, invoices, refunds, events, profiles, queue, gateway, clock>>
      /\ Finish(w)
  BY DEF CancelPurchase
<1>2. /\ purchases' \in [PurchaseIds -> Purchase]
      /\ RowsConsistent' /\ RowsGrow(w)
      /\ OneLiveSubscriptionPerUser' /\ SettledOnlyIfConfirmed' /\ ActivatedOnlyIfPaid'
  BY <1>1, PurchaseStatusKeepsRest DEF CancelPurchase, gateway
<1>3. TypeOK'
  BY <1>1, <1>2, TaskFinish, Zenon DEF BillingInv, TypeOK, profiles, queue, gateway, clock
<1> QED
  BY <1>1, <1>2, <1>3, TaskFinish, HandlerStep

\* purchases.expire changes no date.
LEMMA ExpireStep ==
  ASSUME BillingInv, NEW w \in Workers, Expire(w)
  PROVE  BillingInv'
<1>1. /\ UNCHANGED <<subscriptions, invoices, refunds, events, profiles, queue, gateway, clock>>
      /\ Goto(w, "completeJob") /\ task[w].op = "expirePurchase"
  BY DEF Expire, At
<1>2. /\ purchases' \in [PurchaseIds -> Purchase]
      /\ RowsConsistent' /\ RowsGrow(w)
      /\ OneLiveSubscriptionPerUser' /\ SettledOnlyIfConfirmed' /\ ActivatedOnlyIfPaid'
  BY <1>1, PurchaseStatusKeepsRest DEF Expire, gateway
<1>3. /\ task' \in [Workers -> Task] /\ OthersWait(w)
      /\ task'[w] = [task[w] EXCEPT !.step = "completeJob"]
  BY <1>1, TaskGoto DEF Steps
<1>4. TypeOK'
  BY <1>1, <1>2, <1>3, Zenon DEF BillingInv, TypeOK, profiles, queue, gateway, clock
<1>5. "completeJob" \in PlainSteps
  BY DEF PlainSteps, Steps
<1> QED
  BY <1>1, <1>2, <1>3, <1>4, <1>5, GotoPlain, HandlerStep

--------------------------------------------------------------------------------
(* Refunds *)

\* A refund that is being resolved is of a confirmed invoice (resolveRefund).
LEMMA ResolvingKnowsInvoice ==
  ASSUME BillingInv, NEW w \in Workers, NEW step, At(w, "resolveRefund", step)
  PROVE  /\ task[w].invoice \in InvoiceIds /\ Confirmed(task[w].invoice)
         /\ task[w].refund \in RefundIds /\ refunds[task[w].refund].status # "AUSENTE"
BY ConfirmedIsInvoice DEF BillingInv, HandlersConsistent, HandlerConsistent, At

\* gateway.refund sends back money of a confirmed charge (resolveRefund).
LEMMA GatewayRefundStep ==
  ASSUME BillingInv, NEW w \in Workers, GatewayRefund(w)
  PROVE  BillingInv'
<1>1. /\ task' \in [Workers -> Task] /\ OthersWait(w)
      /\ task'[w] = [task[w] EXCEPT !.step = "markReversed"]
  BY TaskGoto DEF GatewayRefund, Steps
<1>2. TypeOK'
  <2>1. reversals \in [InvoiceIds -> Nat]
    BY DEF BillingInv, TypeOK
  <2>2. task[w].invoice \in InvoiceIds
    BY ResolvingKnowsInvoice DEF GatewayRefund
  <2>3. reversals' \in [InvoiceIds -> Nat]
    BY <2>1, <2>2 DEF GatewayRefund
  <2> QED
    BY <1>1, <2>3, Zenon DEF GatewayRefund, BillingInv, TypeOK, tables, profiles, queue, clock
<1>3. RowsConsistent'
  BY DEF RowsConsistent, GatewayRefund, tables, Confirmed, BillingInv
<1>4. RowsGrow(w)
  BY DEF RowsGrow, GatewayRefund, tables, Confirmed, Settled
<1>5. HandlerConsistent(w)' /\ ~Opening(w)'
  BY <1>1, <1>4, GotoPlain DEF GatewayRefund, At, PlainSteps, Steps
<1>6. SettledOnlyIfConfirmed'
  BY DEF SettledOnlyIfConfirmed, GatewayRefund, At, HandlersConsistent, HandlerConsistent,
         BillingInv, TypeOK, tables, Confirmed, Settled
<1>7. OneLiveSubscriptionPerUser' /\ ActivatedOnlyIfPaid'
  BY DEF OneLiveSubscriptionPerUser, ActivatedOnlyIfPaid, GatewayRefund, tables, SettledOf,
         Settled, BillingInv
<1> QED
  BY <1>1, <1>2, <1>3, <1>4, <1>5, <1>6, <1>7, HandlerStep

\* Steps that write one refund and nothing else.
LEMMA RefundWritten ==
  ASSUME BillingInv, NEW w \in Workers, NEW r, NEW row \in Refund,
         refunds' = [refunds EXCEPT ![r] = row],
         row.status # "AUSENTE", Confirmed(row.invoice),
         UNCHANGED <<subscriptions, purchases, invoices, sent, reversals>>
  PROVE  /\ refunds' \in [RefundIds -> Refund]
         /\ RowsConsistent' /\ RowsGrow(w)
         /\ OneLiveSubscriptionPerUser' /\ SettledOnlyIfConfirmed' /\ ActivatedOnlyIfPaid'
<1>1. refunds \in [RefundIds -> Refund]
  BY DEF BillingInv, TypeOK
<1>2. refunds' \in [RefundIds -> Refund]
  BY <1>1
<1>3. RowsConsistent'
  <2>1. \A q \in RefundIds : refunds'[q].status # "AUSENTE" =>
          \E t \in PAID_EVENT_TYPES : <<refunds'[q].invoice, t>> \in sent
    BY <1>1 DEF BillingInv, RowsConsistent, Confirmed
  <2> QED
    BY <2>1 DEF BillingInv, RowsConsistent, Confirmed
<1>4. RowsGrow(w)
  BY <1>1 DEF RowsGrow, Confirmed, Settled
<1>5. OneLiveSubscriptionPerUser' /\ SettledOnlyIfConfirmed'
  BY DEF BillingInv, OneLiveSubscriptionPerUser, SettledOnlyIfConfirmed, Confirmed, Settled
<1>6. ActivatedOnlyIfPaid'
  BY SettledStays DEF Settled
<1> QED
  BY <1>2, <1>3, <1>4, <1>5, <1>6

\* A refund is inserted for an invoice that was paid.
LEMMA CreateRefundStep ==
  ASSUME BillingInv, NEW w \in Workers, CreateRefund(w)
  PROVE  BillingInv'
<1> DEFINE row == [invoice |-> task[w].invoice, status |-> "SOLICITADO"]
<1>1. /\ UNCHANGED <<subscriptions, purchases, invoices, events, profiles, queue, gateway, clock>>
      /\ Finish(w) /\ refunds' = [refunds EXCEPT ![task[w].refund] = row]
  BY DEF CreateRefund
<1>2. Confirmed(task[w].invoice) /\ row \in Refund
  BY DEF CreateRefund, At, BillingInv, TypeOK, Task, Refund, HandlersConsistent, HandlerConsistent
<1>3. /\ refunds' \in [RefundIds -> Refund]
      /\ RowsConsistent' /\ RowsGrow(w)
      /\ OneLiveSubscriptionPerUser' /\ SettledOnlyIfConfirmed' /\ ActivatedOnlyIfPaid'
  BY <1>1, <1>2, RefundWritten DEF gateway
<1>4. TypeOK'
  BY <1>1, <1>3, TaskFinish, Zenon DEF BillingInv, TypeOK, profiles, queue, gateway, clock
<1> QED
  BY <1>1, <1>3, <1>4, TaskFinish, HandlerStep

\* ... and the steps that only give it another status.
LEMMA RefundStatusWritten ==
  ASSUME BillingInv, NEW w \in Workers, NEW r, NEW status \in {"CONCLUIDO", "RECUSADO"},
         refunds' = [refunds EXCEPT ![r].status = status], Finish(w),
         r \in RefundIds => refunds[r].status # "AUSENTE",
         UNCHANGED <<subscriptions, purchases, invoices, events, profiles, queue, gateway, clock>>
  PROVE  BillingInv'
<1>1. refunds \in [RefundIds -> Refund]
  BY DEF BillingInv, TypeOK
<1>2. UNCHANGED <<sent, reversals>>
  BY DEF gateway
<1>3. CASE r \in RefundIds
  <2> DEFINE row == [refunds[r] EXCEPT !.status = status]
  <2>1. /\ row \in Refund /\ row.invoice = refunds[r].invoice /\ row.status # "AUSENTE"
        /\ refunds' = [refunds EXCEPT ![r] = row]
    BY <1>1, <1>3 DEF Refund
  <2>2. Confirmed(row.invoice)
    BY <1>3, <2>1 DEF BillingInv, RowsConsistent
  <2>3. /\ refunds' \in [RefundIds -> Refund]
        /\ RowsConsistent' /\ RowsGrow(w)
        /\ OneLiveSubscriptionPerUser' /\ SettledOnlyIfConfirmed' /\ ActivatedOnlyIfPaid'
    BY <1>2, <2>1, <2>2, RefundWritten
  <2>4. TypeOK'
    BY <2>3, TaskFinish, Zenon DEF BillingInv, TypeOK, profiles, queue, gateway, clock
  <2> QED
    BY <2>3, <2>4, TaskFinish, HandlerStep
<1>4. CASE r \notin RefundIds
  <2>1. refunds' = refunds
    BY <1>1, <1>4
  <2>2. UNCHANGED rows
    BY <1>2, <2>1 DEF rows
  <2>3. TypeOK'
    BY <2>1, TaskFinish, Zenon DEF BillingInv, TypeOK, profiles, queue, gateway, clock
  <2> QED
    BY <2>2, <2>3, QuietFinish
<1> QED
  BY <1>3, <1>4

\* Refusing a refund writes its status only.
LEMMA RefuseRefundStep ==
  ASSUME BillingInv, NEW w \in Workers, RefuseRefund(w)
  PROVE  BillingInv'
BY RefundStatusWritten, ResolvingKnowsInvoice DEF RefuseRefund, At

\* Concluding a refund writes its status only.
LEMMA ConcludeRefundStep ==
  ASSUME BillingInv, NEW w \in Workers, ConcludeRefund(w)
  PROVE  BillingInv'
BY RefundStatusWritten, ResolvingKnowsInvoice DEF ConcludeRefund, At

\* A reversed invoice is still a settled one.
LEMMA MarkReversedStep ==
  ASSUME BillingInv, NEW w \in Workers, MarkReversed(w)
  PROVE  BillingInv'
<1> SUFFICES ASSUME NEW i, i = task[w].invoice
             PROVE  BillingInv'
  OBVIOUS
<1>1. /\ UNCHANGED <<subscriptions, purchases, refunds, events, profiles, queue, gateway, clock>>
      /\ task[w].op = "resolveRefund" /\ Goto(w, "revokeOrigin")
      /\ invoices' = IF invoices[i].status = "PAGA"
                       THEN [invoices EXCEPT ![i].status = "ESTORNADA"]
                       ELSE invoices
  BY DEF MarkReversed, At
<1>2. /\ task' \in [Workers -> Task] /\ OthersWait(w)
      /\ task'[w] = [task[w] EXCEPT !.step = "revokeOrigin"]
  BY <1>1, TaskGoto DEF Steps
<1>3. invoices \in [InvoiceIds -> Invoice] /\ i \in InvoiceIds
  BY ResolvingKnowsInvoice DEF MarkReversed, BillingInv, TypeOK
<1>4. /\ invoices' \in [InvoiceIds -> Invoice]
      /\ \A j \in InvoiceIds :
           /\ invoices'[j].subscription = invoices[j].subscription
           /\ invoices'[j].purchase = invoices[j].purchase
           /\ \/ invoices'[j].status = invoices[j].status
              \/ invoices[j].status = "PAGA" /\ invoices'[j].status = "ESTORNADA"
  BY <1>1, <1>3 DEF Invoice
<1>5. TypeOK'
  BY <1>1, <1>2, <1>4, Zenon DEF BillingInv, TypeOK, profiles, queue, gateway, clock
<1>6. RowsConsistent'
  <2>1. \A j \in InvoiceIds : invoices'[j].subscription # 0 =>
          subscriptions'[invoices'[j].subscription].status # "AUSENTE"
    BY <1>1, <1>4 DEF BillingInv, RowsConsistent
  <2>2. \A s \in SubscriptionIds : subscriptions'[s].status # "AUSENTE" =>
          subscriptions'[s].user \in Professionals /\ subscriptions'[s].plano \in Plans
    BY <1>1 DEF BillingInv, RowsConsistent
  <2>3. \A r \in RefundIds : refunds'[r].status # "AUSENTE" => Confirmed(refunds[r].invoice)'
    BY <1>1 DEF BillingInv, RowsConsistent, Confirmed, gateway
  <2> QED
    BY <1>1, <2>1, <2>2, <2>3 DEF RowsConsistent
<1>7. RowsGrow(w)
  BY <1>1, <1>4 DEF RowsGrow, Confirmed, Settled, gateway
<1>8. HandlerConsistent(w)' /\ ~Opening(w)'
  <2>1. "revokeOrigin" \in PlainSteps
    BY DEF PlainSteps, Steps
  <2> QED
    BY <1>1, <1>2, <1>7, <2>1, GotoPlain
<1>9. SettledOnlyIfConfirmed' /\ OneLiveSubscriptionPerUser'
  BY <1>1, <1>4 DEF BillingInv, SettledOnlyIfConfirmed, OneLiveSubscriptionPerUser, Settled,
                    Confirmed, gateway
<1>10. ActivatedOnlyIfPaid'
  BY <1>1, <1>4, <1>7, SettledStays DEF RowsGrow
<1> QED
  BY <1>2, <1>5, <1>6, <1>7, <1>8, <1>9, <1>10, HandlerStep

\* A subscription that is cancelled, by its owner or by a refund.
LEMMA SubscriptionCancelled ==
  ASSUME BillingInv, NEW s,
         subscriptions' = [subscriptions EXCEPT ![s].status = "CANCELADA"],
         s \in SubscriptionIds => subscriptions[s].status # "AUSENTE",
         UNCHANGED <<purchases, invoices, refunds, sent, reversals>>
  PROVE  /\ subscriptions' \in [SubscriptionIds -> Subscription]
         /\ RowsConsistent' /\ \A w \in Workers : RowsGrow(w)
         /\ OneLiveSubscriptionPerUser' /\ SettledOnlyIfConfirmed' /\ ActivatedOnlyIfPaid'
<1>1. subscriptions \in [SubscriptionIds -> Subscription]
  BY DEF BillingInv, TypeOK
<1>2. /\ subscriptions' \in [SubscriptionIds -> Subscription]
      /\ \A r \in SubscriptionIds :
           /\ subscriptions'[r].user = subscriptions[r].user
           /\ subscriptions'[r].plano = subscriptions[r].plano
           /\ \/ subscriptions'[r].status = subscriptions[r].status
              \/ subscriptions[r].status # "AUSENTE" /\ subscriptions'[r].status = "CANCELADA"
  BY <1>1 DEF Subscription
<1>3. RowsConsistent'
  <2>1. \A j \in InvoiceIds : invoices'[j].subscription # 0 =>
          subscriptions'[invoices'[j].subscription].status # "AUSENTE"
    BY <1>2 DEF BillingInv, RowsConsistent, TypeOK, Invoice
  <2>2. \A r \in SubscriptionIds : subscriptions'[r].status # "AUSENTE" =>
          subscriptions'[r].user \in Professionals /\ subscriptions'[r].plano \in Plans
    BY <1>2 DEF BillingInv, RowsConsistent
  <2>3. \A r \in RefundIds : refunds'[r].status # "AUSENTE" => Confirmed(refunds[r].invoice)'
    BY DEF BillingInv, RowsConsistent, Confirmed
  <2> QED
    BY <2>1, <2>2, <2>3 DEF RowsConsistent
<1>4. \A w \in Workers : RowsGrow(w)
  BY <1>2 DEF RowsGrow, Confirmed, Settled
<1>5. OneLiveSubscriptionPerUser' /\ SettledOnlyIfConfirmed'
  BY <1>2 DEF BillingInv, OneLiveSubscriptionPerUser, SettledOnlyIfConfirmed, Confirmed,
              Settled, canRenew
<1>6. ActivatedOnlyIfPaid'
  BY <1>2 DEF BillingInv, ActivatedOnlyIfPaid, SettledOf, Settled
<1> QED
  BY <1>2, <1>3, <1>4, <1>5, <1>6

\* Revoking the origin of a refund activates nothing.
LEMMA RevokeOriginStep ==
  ASSUME BillingInv, NEW w \in Workers, RevokeOrigin(w)
  PROVE  BillingInv'
<1> DEFINE p == task[w].purchase
           s == task[w].subscription
<1>1. /\ UNCHANGED <<invoices, refunds, events, profiles, queue, gateway, clock>>
      /\ task[w].op = "resolveRefund"
  BY DEF RevokeOrigin, At
<1>2. task[w] \in Task /\ HandlerConsistent(w)
  BY DEF BillingInv, TypeOK, HandlersConsistent
<1>3. ASSUME NEW u \in Users \cup {NoUser},
             task' = [task EXCEPT ![w].step = "revokePlano", ![w].user = u],
             RowsGrow(w)
      PROVE  /\ task' \in [Workers -> Task] /\ OthersWait(w)
             /\ HandlerConsistent(w)' /\ ~Opening(w)'
  <2> DEFINE t == [task[w] EXCEPT !.step = "revokePlano", !.user = u]
  <2>1. /\ t \in Task /\ t.op = "resolveRefund" /\ t.step = "revokePlano"
        /\ t.subscription = s /\ t.invoice = task[w].invoice
    BY <1>1, <1>2, ZenonT(40) DEF Task, Steps
  <2>2. task' = [task EXCEPT ![w] = t]
    BY <1>3 DEF BillingInv, TypeOK
  <2>3. task' \in [Workers -> Task] /\ OthersWait(w) /\ task'[w] = t
    BY <2>1, <2>2, TaskSet
  <2>4. ASSUME NEW i, i = task[w].invoice
        PROVE  HandlerConsistent(w)' /\ ~Opening(w)'
    BY <1>1, <1>3, <2>1, <2>3, <2>4, Remembered, SMTT(30) DEF HandlerConsistent, Opening, Confirmed
  <2> QED
    BY <2>3, <2>4
<1>4. CASE p # 0
  <2>1. /\ UNCHANGED subscriptions
        /\ task' = [task EXCEPT ![w].step = "revokePlano", ![w].user = purchases[p].user]
        /\ purchases' = IF purchases[p].status = "ATIVO"
                          THEN [purchases EXCEPT ![p].status = "EXPIRADO"]
                          ELSE purchases
    BY <1>4 DEF RevokeOrigin
  <2>2. purchases[p].user \in Users \cup {NoUser}
    BY <1>2, <1>4 DEF BillingInv, TypeOK, Task, Purchase
  <2>3. /\ purchases' \in [PurchaseIds -> Purchase]
        /\ RowsConsistent' /\ RowsGrow(w)
        /\ OneLiveSubscriptionPerUser' /\ SettledOnlyIfConfirmed' /\ ActivatedOnlyIfPaid'
    BY <1>1, <2>1, PurchaseStatusKeepsRest DEF gateway
  <2>4. /\ task' \in [Workers -> Task] /\ OthersWait(w)
        /\ HandlerConsistent(w)' /\ ~Opening(w)'
    BY <1>3, <2>1, <2>2, <2>3
  <2>5. TypeOK'
    BY <1>1, <2>1, <2>3, <2>4, Zenon DEF BillingInv, TypeOK, profiles, queue, gateway, clock
  <2> QED
    BY <2>3, <2>4, <2>5, HandlerStep
<1>5. CASE p = 0
  <2>1. /\ UNCHANGED purchases /\ s # 0
        /\ task' = [task EXCEPT ![w].step = "revokePlano", ![w].user = subscriptions[s].user]
        /\ subscriptions' = [subscriptions EXCEPT ![s].status = "CANCELADA"]
    BY <1>5 DEF RevokeOrigin
  <2>2. /\ subscriptions[s].user \in Users \cup {NoUser} /\ subscriptions[s].status # "AUSENTE"
    BY <1>2, <2>1 DEF BillingInv, TypeOK, Task, Subscription, HandlerConsistent
  <2>3. /\ subscriptions' \in [SubscriptionIds -> Subscription]
        /\ RowsConsistent' /\ RowsGrow(w)
        /\ OneLiveSubscriptionPerUser' /\ SettledOnlyIfConfirmed' /\ ActivatedOnlyIfPaid'
    BY <1>1, <2>1, <2>2, SubscriptionCancelled DEF gateway
  <2>4. /\ task' \in [Workers -> Task] /\ OthersWait(w)
        /\ HandlerConsistent(w)' /\ ~Opening(w)'
    BY <1>3, <2>1, <2>2, <2>3
  <2>5. TypeOK'
    BY <1>1, <2>1, <2>3, <2>4, Zenon DEF BillingInv, TypeOK, profiles, queue, gateway, clock
  <2> QED
    BY <2>3, <2>4, <2>5, HandlerStep
<1> QED
  BY <1>4, <1>5

--------------------------------------------------------------------------------
(* Steps of no handler: requests and jobs that are one UPDATE, and the        *)
(* environment                                                                *)

\* A step that no handler takes keeps the invariant if it keeps the rows consistent.
LEMMA EnvironmentStep ==
  ASSUME BillingInv, UNCHANGED task, TypeOK', RowsConsistent',
         \A w \in Workers : RowsGrow(w),
         \A i \in InvoiceIds : invoices[i].status = "AUSENTE" => invoices'[i].status = "AUSENTE",
         OneLiveSubscriptionPerUser', SettledOnlyIfConfirmed', ActivatedOnlyIfPaid'
  PROVE  BillingInv'
<1>1. ASSUME NEW w \in Workers, NEW i, i = task[w].invoice
      PROVE  HandlerConsistent(w)'
  <2>1. Opening(w)' => Opening(w)
    BY DEF Opening
  <2>2. Opening(w) => i \in InvoiceIds /\ invoices'[i].status = "AUSENTE"
    BY <1>1, Remembered DEF HandlerConsistent
  <2> QED
    BY <1>1, <2>1, <2>2, Remembered DEF HandlerConsistent, Opening, Confirmed, Settled
<1>2. HandlersConsistent'
  BY <1>1 DEF HandlersConsistent
<1>3. OpeningsDistinct'
  BY DEF BillingInv, OpeningsDistinct, Opening
<1> QED
  BY <1>2, <1>3 DEF BillingInv

\* ... and always, if it changes no row.
LEMMA QuietEnvironmentStep ==
  ASSUME BillingInv, UNCHANGED <<task, rows>>, TypeOK'
  PROVE  BillingInv'
<1>1. RowsConsistent'
  BY DEF BillingInv, RowsConsistent, Confirmed, rows
<1>2. OneLiveSubscriptionPerUser' /\ SettledOnlyIfConfirmed'
  BY DEF BillingInv, OneLiveSubscriptionPerUser, SettledOnlyIfConfirmed, Confirmed, Settled, rows
<1>3. ActivatedOnlyIfPaid'
  BY DEF BillingInv, ActivatedOnlyIfPaid, SettledOf, Settled, rows
<1> QED
  BY <1>1, <1>2, <1>3, RowsUnchanged, EnvironmentStep DEF rows

\* cancelSubscription only ends a live subscription.
LEMMA CancelSubscriptionStep ==
  ASSUME BillingInv, NEW u \in Professionals, CancelSubscription(u)
  PROVE  BillingInv'
<1>1. PICK s \in LiveSubscriptions(u) :
        subscriptions' = [subscriptions EXCEPT ![s].status = "CANCELADA"]
  BY DEF CancelSubscription
<1>2. /\ UNCHANGED <<purchases, invoices, refunds, events, profiles, queue, gateway, task, clock>>
      /\ subscriptions[s].status # "AUSENTE"
  BY DEF CancelSubscription, LiveSubscriptions
<1>3. /\ subscriptions' \in [SubscriptionIds -> Subscription]
      /\ RowsConsistent' /\ \A w \in Workers : RowsGrow(w)
      /\ OneLiveSubscriptionPerUser' /\ SettledOnlyIfConfirmed' /\ ActivatedOnlyIfPaid'
  BY <1>1, <1>2, SubscriptionCancelled DEF gateway
<1>4. TypeOK'
  BY <1>2, <1>3, Zenon DEF BillingInv, TypeOK, profiles, queue, gateway, clock
<1> QED
  BY <1>2, <1>3, <1>4, EnvironmentStep

\* expireInvoiceIfPending never touches a settled invoice.
LEMMA ExpireInvoiceStep ==
  ASSUME BillingInv, NEW i \in InvoiceIds, ExpireInvoice(i)
  PROVE  BillingInv'
<1>1. /\ UNCHANGED <<subscriptions, purchases, refunds, events, profiles, renewJobs,
                     expireJobs, purchaseRenewJobs, gateway, task, clock>>
      /\ dueJobs' = Complete(dueJobs, i)
      /\ invoices' = IF invoices[i].status = "PENDENTE"
                       THEN [invoices EXCEPT ![i].status = "VENCIDA"]
                       ELSE invoices
  BY DEF ExpireInvoice
<1>2. invoices \in [InvoiceIds -> Invoice] /\ dueJobs \in Queue(InvoiceIds)
  BY DEF BillingInv, TypeOK
<1>3. /\ invoices' \in [InvoiceIds -> Invoice]
      /\ \A j \in InvoiceIds :
           /\ invoices'[j].subscription = invoices[j].subscription
           /\ invoices'[j].purchase = invoices[j].purchase
           /\ \/ invoices'[j].status = invoices[j].status
              \/ invoices[j].status = "PENDENTE" /\ invoices'[j].status = "VENCIDA"
  BY <1>1, <1>2 DEF Invoice
<1>4. TypeOK'
  <2>1. dueJobs' \in Queue(InvoiceIds)
    BY <1>1, <1>2, QueueTypes
  <2> QED
    BY <1>1, <1>3, <2>1, Zenon DEF BillingInv, TypeOK, profiles, gateway, clock
<1>5. RowsConsistent'
  <2>1. \A j \in InvoiceIds : invoices'[j].subscription # 0 =>
          subscriptions'[invoices'[j].subscription].status # "AUSENTE"
    BY <1>1, <1>3 DEF BillingInv, RowsConsistent
  <2>2. \A s \in SubscriptionIds : subscriptions'[s].status # "AUSENTE" =>
          subscriptions'[s].user \in Professionals /\ subscriptions'[s].plano \in Plans
    BY <1>1 DEF BillingInv, RowsConsistent
  <2>3. \A r \in RefundIds : refunds'[r].status # "AUSENTE" => Confirmed(refunds[r].invoice)'
    BY <1>1 DEF BillingInv, RowsConsistent, Confirmed, gateway
  <2> QED
    BY <1>1, <2>1, <2>2, <2>3 DEF RowsConsistent
<1>6. \A w \in Workers : RowsGrow(w)
  BY <1>1, <1>3 DEF RowsGrow, Confirmed, Settled, gateway
<1>7. SettledOnlyIfConfirmed' /\ OneLiveSubscriptionPerUser'
  BY <1>1, <1>3 DEF BillingInv, SettledOnlyIfConfirmed, OneLiveSubscriptionPerUser, Settled,
                    Confirmed, gateway
<1>8. ActivatedOnlyIfPaid'
  <2>1. \A j \in InvoiceIds : Settled(j) => Settled(j)'
    BY <1>3 DEF Settled
  <2> QED
    BY <1>1, <1>3, <2>1, SettledStays
<1> QED
  BY <1>1, <1>3, <1>4, <1>5, <1>6, <1>7, <1>8, EnvironmentStep

\* The gateway confirms a charge: confirmations only grow.
LEMMA ConfirmPaymentStep ==
  ASSUME BillingInv, NEW i \in InvoiceIds, ConfirmPayment(i)
  PROVE  BillingInv'
<1>1. /\ UNCHANGED <<tables, profiles, queue, charges, reversals, task, clock>>
      /\ sent' = sent \cup {<<i, t>> : t \in Confirmations}
  BY DEF ConfirmPayment
<1>2. TypeOK'
  <2>1. sent' \subseteq InvoiceIds \X EventTypes
    BY <1>1, GatewayAssumption DEF BillingInv, TypeOK, EventTypes
  <2> QED
    BY <1>1, <2>1, Zenon DEF BillingInv, TypeOK, tables, profiles, queue, clock
<1>3. RowsConsistent' /\ SettledOnlyIfConfirmed' /\ OneLiveSubscriptionPerUser'
  BY <1>1 DEF BillingInv, RowsConsistent, SettledOnlyIfConfirmed, OneLiveSubscriptionPerUser,
              Confirmed, Settled, tables
<1>4. \A w \in Workers : RowsGrow(w)
  BY <1>1 DEF RowsGrow, Confirmed, Settled, tables
<1>5. ActivatedOnlyIfPaid'
  BY <1>1, SettledStays DEF Settled, tables
<1> QED
  BY <1>1, <1>2, <1>3, <1>4, <1>5, EnvironmentStep DEF tables

\* A day passes.
LEMMA TickStep ==
  ASSUME BillingInv, Tick
  PROVE  BillingInv'
<1>1. now' \in Nat
  BY DEF Tick, BillingInv, TypeOK
<1>2. TypeOK'
  BY <1>1, Zenon DEF Tick, BillingInv, TypeOK, tables, profiles, queue, gateway
<1>3. UNCHANGED <<task, rows>>
  BY DEF Tick, tables, gateway, rows
<1> QED
  BY <1>2, <1>3, QuietEnvironmentStep

\* An invoice-due job fails: no row changes.
LEMMA FailDueJobStep ==
  ASSUME BillingInv, NEW i \in InvoiceIds, FailDueJob(i)
  PROVE  BillingInv'
<1>1. failures' \in Nat
  BY DEF FailDueJob, BillingInv, TypeOK
<1>2. dueJobs' \in Queue(InvoiceIds)
  BY QueueTypes DEF FailDueJob, BillingInv, TypeOK
<1>3. TypeOK'
  BY <1>1, <1>2, Zenon DEF FailDueJob, BillingInv, TypeOK, tables, profiles, gateway
<1>4. UNCHANGED <<task, rows>>
  BY DEF FailDueJob, tables, gateway, rows
<1> QED
  BY <1>3, <1>4, QuietEnvironmentStep

\* A handler stops half-way: rows keep what was written, the job fails or repeats.
LEMMA FailureStep ==
  ASSUME BillingInv, NEW w \in Workers, Failure(w)
  PROVE  BillingInv'
<1>1. UNCHANGED rows /\ Finish(w)
  BY DEF Failure, rows, tables, gateway
<1>2. /\ renewJobs \in Queue(SubscriptionIds) /\ purchaseRenewJobs \in Queue(PurchaseIds)
      /\ expireJobs \in Queue(PurchaseIds) /\ failures \in Nat
  BY DEF BillingInv, TypeOK
<1>3. /\ renewJobs' \in Queue(SubscriptionIds) /\ purchaseRenewJobs' \in Queue(PurchaseIds)
      /\ expireJobs' \in Queue(PurchaseIds) /\ failures' \in Nat
  BY <1>2, QueueTypes DEF Failure, Abandon
<1>4. TypeOK'
  BY <1>1, <1>3, TaskFinish, Zenon DEF Failure, BillingInv, TypeOK, tables, profiles, gateway
<1> QED
  BY <1>1, <1>4, QuietFinish

--------------------------------------------------------------------------------
(* The invariant *)

\* The empty tables satisfy the invariant.
LEMMA BillingInit == Init => BillingInv
<1> SUFFICES ASSUME Init
             PROVE  BillingInv
  OBVIOUS
<1>1. TypeOK
  <2>1. /\ subscriptions \in [SubscriptionIds -> Subscription]
        /\ purchases \in [PurchaseIds -> Purchase]
    BY DEF Init, Subscription, Purchase
  <2>2. invoices \in [InvoiceIds -> Invoice] /\ refunds \in [RefundIds -> Refund]
    BY DEF Init, Invoice, Refund
  <2>3. plano \in [Professionals -> Plans] /\ planoExpiraEm \in [Contractors -> Nat]
    BY PlansAssumption DEF Init
  <2>4. /\ dueJobs \in Queue(InvoiceIds) /\ renewJobs \in Queue(SubscriptionIds)
        /\ expireJobs \in Queue(PurchaseIds) /\ purchaseRenewJobs \in Queue(PurchaseIds)
    BY DEF Init, EmptyQueue, Queue, Job, JobStates, NoJob
  <2>5. task \in [Workers -> Task]
    BY DEF Init, Idle, Task, Ops, Steps
  <2>6. /\ events = {} /\ charges = {} /\ sent = {} /\ now = 0 /\ failures = 0
        /\ raced = {} /\ overtaken = {}
        /\ reversals \in [InvoiceIds -> Nat]
    BY DEF Init
  <2> QED
    BY <2>1, <2>2, <2>3, <2>4, <2>5, <2>6 DEF TypeOK
<1>2. RowsConsistent
  BY DEF Init, RowsConsistent
<1>3. HandlersConsistent /\ OpeningsDistinct
  BY DEF Init, HandlersConsistent, HandlerConsistent, OpeningsDistinct, Opening, Idle
<1>4. OneLiveSubscriptionPerUser /\ SettledOnlyIfConfirmed /\ ActivatedOnlyIfPaid
  BY DEF Init, OneLiveSubscriptionPerUser, SettledOnlyIfConfirmed, ActivatedOnlyIfPaid,
         Settled, canRenew
<1> QED
  BY <1>1, <1>2, <1>3, <1>4 DEF BillingInv

\* Every step keeps the invariant, one lemma per action.
LEMMA BillingStep == BillingInv /\ [Next]_vars => BillingInv'
<1> SUFFICES ASSUME BillingInv, [Next]_vars
             PROVE  BillingInv'
  OBVIOUS
<1>1. CASE Request
  BY <1>1, SubscribeStep, ChangePlanStep, StartPurchaseStep, CancelSubscriptionStep,
     StartCancelPurchaseStep, RequestRefundStep, ResolveRefundStep
  DEF Request
<1>2. ASSUME NEW w \in Workers, Step(w)
      PROVE  BillingInv'
  BY <1>2, CreateSubscriptionStep, CreateChargeStep, CreatePurchaseStep, CreateInvoiceStep,
     ScheduleInvoiceDueStep, SetProximaCobrancaStep, ScheduleSubscriptionRenewalStep,
     SetProfessionalPlanoStep, UpdatePlanStep, FindInvoiceStep, MarkPaidStep,
     ActivateSubscriptionStep, ReadPurchaseStep, ActivatePurchaseStep, SetContractorPlanoStep,
     SchedulePurchaseExpiryStep, SchedulePurchaseRenewalStep, CancelPurchaseStep,
     CreateRefundStep, RefuseRefundStep, GatewayRefundStep, MarkReversedStep,
     RevokeOriginStep, RevokePlanoStep, ConcludeRefundStep, RescheduleExpiryStep, ExpireStep,
     CompleteJobStep
  DEF Step
<1>3. ASSUME NEW w \in Workers, Failure(w)
      PROVE  BillingInv'
  BY <1>3, FailureStep
<1>4. ASSUME NEW i \in InvoiceIds, ExpireInvoice(i) \/ FailDueJob(i) \/ ConfirmPayment(i)
      PROVE  BillingInv'
  BY <1>4, ExpireInvoiceStep, FailDueJobStep, ConfirmPaymentStep
<1>5. ASSUME NEW s \in SubscriptionIds, StartRenewSubscription(s)
      PROVE  BillingInv'
  BY <1>5, RenewSubscriptionStep DEF StartRenewSubscription
<1>6. ASSUME NEW p \in PurchaseIds, StartRenewPurchase(p) \/ StartExpirePurchase(p)
      PROVE  BillingInv'
  BY <1>6, RenewPurchaseStep, ExpirePurchaseStep DEF StartRenewPurchase, StartExpirePurchase
<1>7. ASSUME NEW i \in InvoiceIds, NEW tipo \in EventTypes, Deliver(i, tipo)
      PROVE  BillingInv'
  BY <1>7, WebhookStep DEF Deliver
<1>8. CASE Tick
  BY <1>8, TickStep
<1>9. CASE UNCHANGED vars
  <2>1. UNCHANGED <<task, rows>>
    BY <1>9 DEF vars, tables, gateway, rows
  <2>2. TypeOK'
    BY <1>9, Zenon DEF BillingInv, TypeOK, vars, tables, profiles, queue, gateway, clock
  <2> QED
    BY <2>1, <2>2, QuietEnvironmentStep
<1> QED
  BY <1>1, <1>2, <1>3, <1>4, <1>5, <1>6, <1>7, <1>8, <1>9 DEF Next

\* The invariant holds of every behaviour: what a handler remembers stays true
\* whatever the other handlers do between two of its calls.
THEOREM BillingInvariance == Spec => []BillingInv
<1>1. Init => BillingInv
  BY BillingInit
<1>2. BillingInv /\ [Next]_vars => BillingInv'
  BY BillingStep
<1> QED
  BY <1>1, <1>2, PTL DEF Spec

\* Every variable keeps its type, for any number of users, handlers and rows.
THEOREM TypeCorrect == Spec => []TypeOK
<1>1. BillingInv => TypeOK
  BY DEF BillingInv
<1> QED
  BY <1>1, BillingInvariance, PTL

\* A professional never holds two subscriptions at once (subscribe,
\* activateOrigin and the unique index of schema/subscriptions.ts).
THEOREM OneLiveSubscription == Spec => []OneLiveSubscriptionPerUser
<1>1. BillingInv => OneLiveSubscriptionPerUser
  BY DEF BillingInv
<1> QED
  BY <1>1, BillingInvariance, PTL

\* No invoice is settled and no money goes back unless the gateway confirmed
\* the charge (handleWebhook, resolveRefund).
THEOREM NothingSettledUnconfirmed == Spec => []SettledOnlyIfConfirmed
<1>1. BillingInv => SettledOnlyIfConfirmed
  BY DEF BillingInv
<1> QED
  BY <1>1, BillingInvariance, PTL

\* Nothing is activated unless an invoice of it was settled, wherever handlers
\* fail (handleWebhook, activateOrigin).
THEOREM NothingActivatedUnpaid == Spec => []ActivatedOnlyIfPaid
<1>1. BillingInv => ActivatedOnlyIfPaid
  BY DEF BillingInv
<1> QED
  BY <1>1, BillingInvariance, PTL

--------------------------------------------------------------------------------
(* The local variables of a handler, step by step *)

\* The handler of w goes on to step with the rows it has in hand.
Advances(w, step) ==
  /\ OthersWait(w) /\ task'[w].step = step
  /\ task'[w].op = task[w].op /\ task'[w].invoice = task[w].invoice
  /\ task'[w].refund = task[w].refund /\ task'[w].date = task[w].date
  /\ task'[w].subscription = task[w].subscription /\ task'[w].purchase = task[w].purchase

\* It goes on with the origin of its invoice, or with a date it computed.
Turns(w, step) ==
  /\ OthersWait(w) /\ task'[w].step = step
  /\ task'[w].op = task[w].op /\ task'[w].invoice = task[w].invoice
  /\ task'[w].refund = task[w].refund

\* It returns.
Ends(w) ==
  /\ OthersWait(w) /\ task'[w].step = "idle" /\ task'[w].op = "idle"
  /\ task'[w].invoice = 0 /\ task'[w].refund = 0
  /\ task'[w].subscription = 0 /\ task'[w].purchase = 0

\* The call after which a handler arrives at step.
ArrivesBy(w, step) ==
  /\ step = "createCharge" => CreateSubscription(w)
  /\ step = "createPurchase" => CreateCharge(w)
  /\ step = "createInvoice" => CreateCharge(w) \/ CreatePurchase(w)
  /\ step = "scheduleInvoiceDue" => CreateInvoice(w)
  /\ step = "scheduleSubscriptionRenewal" => ScheduleInvoiceDue(w) \/ SetProximaCobranca(w)
  /\ step = "markPaid" => FindInvoice(w)
  /\ step = "activateOrigin" => MarkPaid(w)
  /\ step = "activatePurchase" => ReadPurchase(w)
  /\ step = "setContractorPlano" => ActivatePurchase(w)
  /\ step = "schedulePurchaseExpiry" => SetContractorPlano(w)
  /\ step = "schedulePurchaseRenewal" => SchedulePurchaseExpiry(w)
  /\ step \notin {"idle", "createSubscription", "findInvoice", "expire"}

\* A call that returned: the handler goes on with what it had in hand.
LEMMA GotoAdvances ==
  ASSUME BillingInv, NEW w \in Workers, NEW step \in Steps, Goto(w, step)
  PROVE  Advances(w, step)
<1>1. task[w] \in Task /\ OthersWait(w) /\ task'[w] = [task[w] EXCEPT !.step = step]
  BY TaskGoto DEF BillingInv, TypeOK
<1> DEFINE t == [task[w] EXCEPT !.step = step]
<1>2. /\ t.step = step /\ t.op = task[w].op /\ t.invoice = task[w].invoice
      /\ t.refund = task[w].refund /\ t.date = task[w].date
      /\ t.subscription = task[w].subscription /\ t.purchase = task[w].purchase
  BY <1>1 DEF Task
<1>3. task'[w] = t
  BY <1>1
<1> HIDE DEF t
<1> QED
  BY <1>1, <1>2, <1>3 DEF Advances

\* The last call of a handler.
LEMMA FinishEnds ==
  ASSUME BillingInv, NEW w \in Workers, Finish(w)
  PROVE  Ends(w)
BY TaskFinish DEF Ends, Idle

\* The local variables t of a handler that takes up a request, an event or a job.
LEMMA Begins ==
  ASSUME BillingInv, NEW w \in Workers, NEW t, task' = [task EXCEPT ![w] = t]
  PROVE  OthersWait(w) /\ task'[w] = t
BY DEF BillingInv, TypeOK, OthersWait

\* What BillingInv says of the handler of one worker.
LEMMA WorkerTask ==
  ASSUME BillingInv, NEW w \in Workers
  PROVE  /\ task[w] \in Task /\ HandlerConsistent(w)
         /\ task[w].op \in {"webhook", "requestRefund", "resolveRefund"} =>
              task[w].invoice \in InvoiceIds
<1>1. TypeOK /\ task[w] \in Task /\ HandlerConsistent(w)
  BY DEF BillingInv, TypeOK, HandlersConsistent
<1> QED
  BY <1>1, ConfirmedIsInvoice DEF HandlerConsistent

\* findByGatewayCharge takes the origin from the invoice.
LEMMA FindInvoiceTurns ==
  ASSUME BillingInv, NEW w \in Workers, FindInvoice(w), ~Finish(w)
  PROVE  /\ Turns(w, "markPaid")
         /\ canTransitionInvoice(invoices[task[w].invoice].status, "PAGA")
<1>1. /\ task' = [task EXCEPT ![w].step = "markPaid",
                              ![w].subscription = invoices[task[w].invoice].subscription,
                              ![w].purchase = invoices[task[w].invoice].purchase]
      /\ canTransitionInvoice(invoices[task[w].invoice].status, "PAGA")
  BY DEF FindInvoice
<1>2. task \in [Workers -> Task]
  BY DEF BillingInv, TypeOK
<1> QED
  BY <1>1, <1>2 DEF Turns, OthersWait, Task

\* purchases.findById gives the end of the vigência the payment is credited to.
LEMMA ReadPurchaseTurns ==
  ASSUME BillingInv, NEW w \in Workers, ReadPurchase(w)
  PROVE  /\ Turns(w, "activatePurchase") /\ task'[w].purchase = task[w].purchase
         /\ task'[w].date = renewedPurchaseExpiry(purchases[task[w].purchase].expiraEm, now)
<1>1. task \in [Workers -> Task]
  BY DEF BillingInv, TypeOK
<1> QED
  BY <1>1 DEF ReadPurchase, Turns, OthersWait, Task

\* subscriptions.activate: on to the profile, or refused by the index.
LEMMA ActivateSubscriptionTurns ==
  ASSUME BillingInv, NEW w \in Workers, ActivateSubscription(w)
  PROVE  Ends(w) \/ (Turns(w, "setProfessionalPlano") /\ task'[w].purchase = task[w].purchase)
<1>1. task \in [Workers -> Task]
  BY DEF BillingInv, TypeOK
<1>2. CASE Finish(w)
  BY <1>2, FinishEnds
<1>3. CASE task' = [task EXCEPT ![w].step = "setProfessionalPlano",
                                ![w].user = subscriptions[task[w].subscription].user,
                                ![w].plano = subscriptions[task[w].subscription].plano]
  BY <1>1, <1>3 DEF Turns, OthersWait, Task
<1> QED
  BY <1>2, <1>3 DEF ActivateSubscription

\* The origin is revoked; the handler goes on with the user it read.
LEMMA RevokeOriginAdvances ==
  ASSUME BillingInv, NEW w \in Workers, RevokeOrigin(w)
  PROVE  Advances(w, "revokePlano")
<1>1. task \in [Workers -> Task]
  BY DEF BillingInv, TypeOK
<1>2. PICK u : task' = [task EXCEPT ![w].step = "revokePlano", ![w].user = u]
  BY DEF RevokeOrigin
<1> QED
  BY <1>1, <1>2 DEF Advances, OthersWait, Task

\* subscriptions.create inserts a row, or is refused by the index.
LEMMA CreateSubscriptionAdvances ==
  ASSUME BillingInv, NEW w \in Workers, CreateSubscription(w)
  PROVE  \/ Ends(w) /\ UNCHANGED subscriptions
         \/ /\ Turns(w, "createCharge") /\ task'[w].date = task[w].date
            /\ task'[w].purchase = task[w].purchase
            /\ \E s \in FreeSubscriptions :
                 /\ task'[w].subscription = s
                 /\ subscriptions'[s].status = "EM_GRACA"
                 /\ \A r \in SubscriptionIds \ {s} : subscriptions'[r] = subscriptions[r]
<1>1. task \in [Workers -> Task] /\ subscriptions \in [SubscriptionIds -> Subscription]
  BY DEF BillingInv, TypeOK
<1>2. CASE Finish(w) /\ UNCHANGED subscriptions
  BY <1>2, FinishEnds
<1>3. ASSUME NEW s \in FreeSubscriptions,
             subscriptions' = [subscriptions EXCEPT ![s] =
               [user |-> task[w].user, plano |-> task[w].plano, status |-> "EM_GRACA",
                proximaCobranca |-> task[w].date]],
             task' = [task EXCEPT ![w].subscription = s, ![w].step = "createCharge"]
      PROVE  /\ Turns(w, "createCharge") /\ task'[w].date = task[w].date
             /\ task'[w].purchase = task[w].purchase
             /\ task'[w].subscription = s
             /\ subscriptions'[s].status = "EM_GRACA"
             /\ \A r \in SubscriptionIds \ {s} : subscriptions'[r] = subscriptions[r]
  <2>1. s \in SubscriptionIds
    BY DEF FreeSubscriptions
  <2>2. Turns(w, "createCharge") /\ task'[w].date = task[w].date
        /\ task'[w].purchase = task[w].purchase /\ task'[w].subscription = s
    BY <1>1, <1>3 DEF Turns, OthersWait, Task
  <2> QED
    BY <1>1, <1>3, <2>1, <2>2
<1> QED
  BY <1>2, <1>3 DEF CreateSubscription, First, FreeSubscriptions

--------------------------------------------------------------------------------
(* Payments: what a step may do to the rows others go on with *)

payments == <<invoices, refunds, reversals, raced>>

\* Only markPaid settles, only the insert of its own refund adds one.
PaymentsGrow(w) ==
  /\ raced \subseteq raced'
  /\ \A i \in InvoiceIds :
       /\ Settled(i) => Settled(i)'
       /\ Settled(i)' => Settled(i) \/ (At(w, "webhook", "markPaid") /\ i = task[w].invoice)
       /\ invoices[i].status = "ESTORNADA" /\ i \notin raced' =>
            invoices'[i].status = "ESTORNADA"
       /\ reversals[i] > 0 => reversals'[i] > 0
  /\ \A r \in RefundIds :
       /\ refunds[r].status # "AUSENTE" =>
            refunds'[r].status # "AUSENTE" /\ refunds'[r].invoice = refunds[r].invoice
       /\ refunds[r].status = "AUSENTE" =>
            refunds'[r].status = "AUSENTE" \/ (task[w].op = "requestRefund" /\ r = task[w].refund)

\* A step that writes none of them.
LEMMA PaymentsUnchanged ==
  ASSUME BillingInv, PaymentsInv, NEW w \in Workers, UNCHANGED payments
  PROVE  PaymentsGrow(w) /\ PaymentRowsOK' /\ ConcludedIsReversed'
<1>1. UNCHANGED <<invoices, refunds, reversals, raced>>
  BY DEF payments
<1>2. PaymentsGrow(w)
  BY <1>1 DEF PaymentsGrow, Settled
<1>3. PaymentRowsOK'
  BY <1>1 DEF PaymentsInv, PaymentRowsOK, Settled
<1>4. ConcludedIsReversed'
  BY <1>1 DEF PaymentsInv, ConcludedIsReversed
<1> QED
  BY <1>2, <1>3, <1>4

\* What another handler knows of its invoice stays true.
LEMMA PaymentRemembered ==
  ASSUME BillingInv, PaymentsInv, NEW w \in Workers, PaymentsGrow(w),
         NEW v \in Workers, v # w, NEW d, d = task[v]
  PROVE  PaymentOK(d)'
<1>1. /\ PaymentOK(d) /\ HandlerConsistent(v)
      /\ d.op \in {"webhook", "requestRefund", "resolveRefund"} => d.invoice \in InvoiceIds
  BY WorkerTask DEF PaymentsInv
<1>2. ASSUME d.op = "webhook", d.step = "markPaid", d.invoice \notin raced'
      PROVE  ~Settled(d.invoice)'
  <2>0. d.invoice \notin raced
    BY <1>2 DEF PaymentsGrow
  <2>1. At(w, "webhook", "markPaid") => task[w].invoice # d.invoice
    BY <1>2, <2>0 DEF PaymentsInv, PaymentsDistinct, Crediting, At
  <2> QED
    BY <1>1, <1>2, <2>0, <2>1 DEF PaymentsGrow, PaymentOK
<1>3. ASSUME d.op = "requestRefund"
      PROVE  /\ d.refund \in RefundIds /\ refunds'[d.refund].status = "AUSENTE"
             /\ Settled(d.invoice)'
  <2>1. task[w].op = "requestRefund" => task[w].refund # d.refund
    BY <1>3 DEF PaymentsInv, PaymentsDistinct
  <2> QED
    BY <1>1, <1>3, <2>1 DEF PaymentsGrow, PaymentOK
<1>4. ASSUME d.op = "resolveRefund"
      PROVE  /\ refunds'[d.refund].invoice = d.invoice
             /\ d.step \in {"markReversed", "revokeOrigin", "revokePlano", "conclude"} =>
                  reversals'[d.invoice] > 0
             /\ d.step \in {"revokeOrigin", "revokePlano", "conclude"}
                  /\ d.invoice \notin raced' =>
                  invoices'[d.invoice].status = "ESTORNADA"
  <2>1. d.refund \in RefundIds /\ refunds[d.refund].status # "AUSENTE"
    BY <1>1, <1>4 DEF HandlerConsistent
  <2>2. d.invoice \notin raced' => d.invoice \notin raced
    BY DEF PaymentsGrow
  <2> QED
    BY <1>1, <1>4, <2>1, <2>2 DEF PaymentsGrow, PaymentOK
<1> QED
  BY <1>2, <1>3, <1>4 DEF PaymentOK

\* What remains to be shown of a step of the handler w.
LEMMA PaymentStep ==
  ASSUME BillingInv, PaymentsInv, NEW w \in Workers, OthersWait(w), PaymentsGrow(w),
         PaymentRowsOK', ConcludedIsReversed', NEW d, d = task'[w], PaymentOK(d)',
         Crediting(d) => \/ Crediting(task[w]) /\ task[w].invoice = d.invoice
                         \/ \A v \in Workers \ {w} :
                              Crediting(task[v]) /\ task[v].invoice = d.invoice =>
                                d.invoice \in raced',
         d.op = "requestRefund" => \/ task[w].op = "requestRefund" /\ task[w].refund = d.refund
                                   \/ \A v \in Workers : task[v].refund # d.refund
  PROVE  PaymentsInv'
<1>1. ASSUME NEW v \in Workers PROVE PaymentOK(task[v])'
  <2>1. CASE v = w
    BY <2>1 DEF PaymentOK, Settled
  <2>2. CASE v # w
    <3>1. task'[v] = task[v]
      BY <2>2 DEF OthersWait
    <3>2. PICK k : k = task[v]
      OBVIOUS
    <3>3. PaymentOK(k)'
      BY <2>2, <3>2, PaymentRemembered
    <3> QED
      BY <3>1, <3>2, <3>3 DEF PaymentOK, Settled
  <2> QED
    BY <2>1, <2>2
<1>2. \A v \in Workers : v # w => task'[v] = task[v]
  BY DEF OthersWait
<1>3. PaymentsDistinct'
  <2> SUFFICES ASSUME NEW v \in Workers, NEW u \in Workers, v # u
               PROVE  /\ Crediting(task'[v]) /\ Crediting(task'[u])
                           /\ task'[v].invoice = task'[u].invoice =>
                           task'[v].invoice \in raced'
                      /\ task'[v].op = "requestRefund" /\ task'[u].op = "requestRefund" =>
                           task'[v].refund # task'[u].refund
    BY DEF PaymentsDistinct, Crediting
  <2>1. /\ Crediting(task[v]) /\ Crediting(task[u]) /\ task[v].invoice = task[u].invoice =>
             task[v].invoice \in raced
        /\ task[v].op = "requestRefund" /\ task[u].op = "requestRefund" =>
             task[v].refund # task[u].refund
    BY DEF PaymentsInv, PaymentsDistinct
  <2>2. raced \subseteq raced'
    BY DEF PaymentsGrow
  <2>3. CASE v # w /\ u # w
    BY <1>2, <2>1, <2>2, <2>3
  <2>4. CASE v = w
    BY <1>2, <2>1, <2>2, <2>4
  <2>5. CASE u = w
    BY <1>2, <2>1, <2>2, <2>5
  <2> QED
    BY <2>3, <2>4, <2>5
<1> QED
  BY <1>1, <1>3 DEF PaymentsInv

\* Steps to which no payment matters.
LEMMA PaymentEnds ==
  ASSUME BillingInv, PaymentsInv, NEW w \in Workers, Ends(w), PaymentsGrow(w),
         PaymentRowsOK', ConcludedIsReversed'
  PROVE  PaymentsInv'
<1>1. PICK d : d = task'[w]
  OBVIOUS
<1>2. d.op = "idle" /\ OthersWait(w)
  BY <1>1 DEF Ends
<1>3. PaymentOK(d)'
  BY <1>2 DEF PaymentOK
<1>4. ~Crediting(d) /\ d.op # "requestRefund"
  BY <1>2 DEF Crediting
<1> QED
  BY <1>1, <1>2, <1>3, <1>4, PaymentStep

PlainPayment ==
  Steps \ {"findInvoice", "markPaid", "markReversed", "revokeOrigin", "revokePlano", "conclude"}

\* A handler that goes on with its invoice, to a step that needs no more than that.
LEMMA PaymentTurns ==
  ASSUME BillingInv, PaymentsInv, NEW w \in Workers, NEW step \in PlainPayment,
         Turns(w, step), PaymentsGrow(w), PaymentRowsOK', ConcludedIsReversed',
         task[w].step # "findInvoice",
         task[w].op = "requestRefund" => UNCHANGED refunds
  PROVE  PaymentsInv'
<1>1. PICK d : d = task'[w]
  OBVIOUS
<1>2. /\ OthersWait(w) /\ d.step = step /\ d.op = task[w].op /\ d.invoice = task[w].invoice
      /\ d.refund = task[w].refund
  BY <1>1 DEF Turns
<1>3. /\ PaymentOK(task[w]) /\ HandlerConsistent(w)
      /\ d.op \in {"webhook", "requestRefund", "resolveRefund"} => d.invoice \in InvoiceIds
  BY <1>2, WorkerTask DEF PaymentsInv
<1>4. PaymentOK(d)'
  <2>2. d.op = "resolveRefund" => refunds'[d.refund].invoice = d.invoice
    BY <1>2, <1>3 DEF PaymentOK, PaymentsGrow, HandlerConsistent
  <2>3. d.step \notin {"findInvoice", "markPaid", "markReversed", "revokeOrigin", "revokePlano", "conclude"}
    BY <1>2 DEF PlainPayment
  <2>4. d.op = "requestRefund" =>
          d.refund \in RefundIds /\ refunds'[d.refund].status = "AUSENTE" /\ Settled(d.invoice)'
    BY <1>2, <1>3 DEF PaymentOK, PaymentsGrow
  <2> QED
    BY <1>2, <2>2, <2>3, <2>4 DEF PaymentOK
<1>5. Crediting(d) => Crediting(task[w])
  BY <1>2 DEF Crediting
<1> QED
  BY <1>1, <1>2, <1>4, <1>5, PaymentStep

\* PaymentTurns, for a call that only moves the handler on.
LEMMA PaymentGoto ==
  ASSUME BillingInv, PaymentsInv, NEW w \in Workers, NEW step \in PlainPayment,
         Goto(w, step), PaymentsGrow(w), PaymentRowsOK', ConcludedIsReversed',
         task[w].step # "findInvoice",
         task[w].op = "requestRefund" => UNCHANGED refunds
  PROVE  PaymentsInv'
<1>1. Turns(w, step)
  BY GotoAdvances DEF PlainPayment, Advances, Turns
<1> QED
  BY <1>1, PaymentTurns

\* A handler that opens an invoice has no other in hand.
LEMMA OpeningIsNoPayment ==
  ASSUME BillingInv, PaymentsInv, NEW w \in Workers, Opening(w)
  PROVE  task[w].op \notin {"webhook", "requestRefund", "resolveRefund"}
<1>1. /\ HandlerConsistent(w) /\ PaymentOK(task[w])
  BY WorkerTask DEF PaymentsInv
<1>2. invoices[task[w].invoice].status = "AUSENTE" /\ task[w].op # "webhook"
  BY <1>1 DEF HandlerConsistent
<1>3. task[w].op # "requestRefund"
  BY <1>1, <1>2 DEF PaymentOK, Settled
<1>4. task[w].op # "resolveRefund"
  <2> SUFFICES ASSUME task[w].op = "resolveRefund" PROVE FALSE
    OBVIOUS
  <2>1. /\ task[w].refund \in RefundIds /\ refunds[task[w].refund].status # "AUSENTE"
        /\ refunds[task[w].refund].invoice = task[w].invoice
    BY <1>1 DEF HandlerConsistent, PaymentOK
  <2> QED
    BY <1>2, <2>1 DEF PaymentsInv, PaymentRowsOK, Settled
<1> QED
  BY <1>2, <1>3, <1>4

--------------------------------------------------------------------------------
(* Payments: the steps *)

\* Handlers and jobs that write neither invoices nor refunds.
LEMMA PaymentPlainStep ==
  ASSUME BillingInv, PaymentsInv, NEW w \in Workers,
         \/ CreateSubscription(w) \/ CreatePurchase(w) \/ ScheduleInvoiceDue(w)
         \/ SetProximaCobranca(w) \/ ScheduleSubscriptionRenewal(w) \/ SetProfessionalPlano(w)
         \/ UpdatePlan(w) \/ ActivateSubscription(w) \/ ReadPurchase(w) \/ ActivatePurchase(w)
         \/ SetContractorPlano(w) \/ SchedulePurchaseExpiry(w) \/ SchedulePurchaseRenewal(w)
         \/ CancelPurchase(w) \/ RescheduleExpiry(w) \/ Expire(w) \/ CompleteJob(w) \/ Failure(w)
  PROVE  PaymentsInv'
<1>1. UNCHANGED payments
  BY DEF payments, CreateSubscription, CreatePurchase, ScheduleInvoiceDue, SetProximaCobranca,
         ScheduleSubscriptionRenewal, SetProfessionalPlano, UpdatePlan, ActivateSubscription,
         ReadPurchase, ActivatePurchase, SetContractorPlano, SchedulePurchaseExpiry,
         SchedulePurchaseRenewal, CancelPurchase, RescheduleExpiry, Expire, CompleteJob, Failure,
         tables, gateway, clock
<1>2. /\ PaymentsGrow(w) /\ PaymentRowsOK' /\ ConcludedIsReversed'
      /\ UNCHANGED refunds
  BY <1>1, PaymentsUnchanged DEF payments
<1>3. CASE Ends(w)
  BY <1>2, <1>3, PaymentEnds
<1>4. CASE Finish(w)
  BY <1>2, <1>4, FinishEnds, PaymentEnds
<1>5. ASSUME NEW step \in PlainPayment, Turns(w, step), task[w].step # "findInvoice"
      PROVE  PaymentsInv'
  BY <1>2, <1>5, PaymentTurns
<1>6. ASSUME NEW step \in PlainPayment, Goto(w, step), task[w].step # "findInvoice"
      PROVE  PaymentsInv'
  BY <1>2, <1>6, PaymentGoto
<1>7. \A step \in {"createCharge", "createInvoice", "setProximaCobranca",
                   "scheduleSubscriptionRenewal", "setProfessionalPlano", "activatePurchase",
                   "setContractorPlano", "schedulePurchaseExpiry", "schedulePurchaseRenewal",
                   "completeJob"} : step \in PlainPayment
  BY DEF PlainPayment, Steps
<1>8. CASE CreateSubscription(w) \/ ActivateSubscription(w) \/ ReadPurchase(w)
  <2>1. task[w].step # "findInvoice"
    BY <1>8 DEF CreateSubscription, ActivateSubscription, ReadPurchase, At
  <2> QED
    BY <1>3, <1>5, <1>7, <1>8, <2>1, CreateSubscriptionAdvances, ActivateSubscriptionTurns,
       ReadPurchaseTurns
<1>9. CASE \/ CreatePurchase(w) \/ ScheduleInvoiceDue(w) \/ SetProximaCobranca(w)
           \/ ScheduleSubscriptionRenewal(w) \/ UpdatePlan(w) \/ ActivatePurchase(w)
  BY <1>4, <1>6, <1>7, <1>9
  DEF CreatePurchase, ScheduleInvoiceDue, SetProximaCobranca, ScheduleSubscriptionRenewal,
      UpdatePlan, ActivatePurchase, At
<1>10. CASE \/ SetContractorPlano(w) \/ SchedulePurchaseExpiry(w) \/ RescheduleExpiry(w)
            \/ Expire(w)
  BY <1>6, <1>7, <1>10
  DEF SetContractorPlano, SchedulePurchaseExpiry, RescheduleExpiry, Expire, At
<1>11. CASE \/ SetProfessionalPlano(w) \/ SchedulePurchaseRenewal(w) \/ CancelPurchase(w)
            \/ CompleteJob(w) \/ Failure(w)
  BY <1>4, <1>11
  DEF SetProfessionalPlano, SchedulePurchaseRenewal, CancelPurchase, CompleteJob, Failure
<1> QED
  BY <1>8, <1>9, <1>10, <1>11

\* Requests and jobs that start without a payment in hand.
LEMMA PaymentStarts ==
  ASSUME BillingInv, PaymentsInv, NEW w \in Workers, UNCHANGED payments,
         NEW t, task' = [task EXCEPT ![w] = t],
         t.op \notin {"webhook", "requestRefund", "resolveRefund"}
  PROVE  PaymentsInv'
<1>1. OthersWait(w) /\ task'[w] = t
  BY Begins
<1>2. PaymentsGrow(w) /\ PaymentRowsOK' /\ ConcludedIsReversed'
  BY PaymentsUnchanged
<1>3. PaymentOK(t)'
  BY DEF PaymentOK
<1>4. ~Crediting(t)
  BY DEF Crediting
<1> QED
  BY <1>1, <1>2, <1>3, <1>4, PaymentStep

\* Requests and jobs that touch no payment.
LEMMA PaymentRequests ==
  ASSUME BillingInv, PaymentsInv, NEW w \in Workers,
         \/ \E u \in Professionals, p \in Plans : Subscribe(w, u, p) \/ ChangePlan(w, u, p)
         \/ \E u \in Contractors : StartPurchase(w, u) \/ StartCancelPurchase(w, u)
         \/ \E s \in SubscriptionIds : RenewSubscription(w, s)
         \/ \E p \in PurchaseIds : RenewPurchase(w, p) \/ ExpirePurchase(w, p)
  PROVE  PaymentsInv'
<1>1. UNCHANGED payments
  BY DEF payments, Subscribe, ChangePlan, StartPurchase, StartCancelPurchase, RenewSubscription,
         RenewPurchase, ExpirePurchase, tables, gateway, clock
<1>2. ASSUME NEW t, task' = [task EXCEPT ![w] = t],
             t.op \in {"subscribe", "changePlan", "purchase", "cancelPurchase",
                       "renewSubscription", "renewPurchase", "expirePurchase"}
      PROVE  PaymentsInv'
  BY <1>1, <1>2, PaymentStarts
<1>3. CASE \E u \in Professionals, p \in Plans : Subscribe(w, u, p) \/ ChangePlan(w, u, p)
  BY <1>2, <1>3 DEF Subscribe, ChangePlan, Idle
<1>4. CASE \E u \in Contractors : StartPurchase(w, u) \/ StartCancelPurchase(w, u)
  BY <1>2, <1>4 DEF StartPurchase, StartCancelPurchase, Idle
<1>5. CASE \E s \in SubscriptionIds : RenewSubscription(w, s)
  BY <1>2, <1>5 DEF RenewSubscription, Idle
<1>6. CASE \E p \in PurchaseIds : RenewPurchase(w, p) \/ ExpirePurchase(w, p)
  BY <1>2, <1>6 DEF RenewPurchase, ExpirePurchase, Idle
<1> QED
  BY <1>3, <1>4, <1>5, <1>6

\* gateway.createCharge writes no row.
LEMMA PaymentCreateCharge ==
  ASSUME BillingInv, PaymentsInv, NEW w \in Workers, CreateCharge(w)
  PROVE  PaymentsInv'
<1>1. UNCHANGED payments /\ UNCHANGED refunds /\ task[w].step # "findInvoice"
  BY DEF CreateCharge, payments, tables, clock
<1>2. PICK step \in {"createPurchase", "createInvoice"} : Goto(w, step)
  BY DEF CreateCharge
<1>3. step \in PlainPayment
  BY <1>2 DEF PlainPayment, Steps
<1> QED
  BY <1>1, <1>2, <1>3, PaymentsUnchanged, PaymentGoto

\* An invoice that is inserted is not settled, and was not there.
LEMMA PaymentCreateInvoice ==
  ASSUME BillingInv, PaymentsInv, NEW w \in Workers, CreateInvoice(w)
  PROVE  PaymentsInv'
<1> DEFINE i == task[w].invoice
<1>1. /\ UNCHANGED <<refunds, reversals, raced>> /\ Goto(w, "scheduleInvoiceDue")
      /\ task[w].step # "findInvoice"
  BY DEF CreateInvoice, gateway, clock
<1>2. i \in InvoiceIds /\ invoices[i].status = "AUSENTE" /\ ~Settled(i)
  BY WorkerTask DEF CreateInvoice, Opening, HandlerConsistent, Settled
<1>3. /\ invoices'[i].status = "PENDENTE"
      /\ \A j \in InvoiceIds \ {i} : invoices'[j] = invoices[j]
  BY <1>2 DEF CreateInvoice, BillingInv, TypeOK
<1>4. \A j \in InvoiceIds : Settled(j)' = Settled(j)
  BY <1>1, <1>2, <1>3 DEF Settled
<1>5. \A j \in InvoiceIds : invoices[j].status = "ESTORNADA" => invoices'[j].status = "ESTORNADA"
  BY <1>2, <1>3
<1>6. PaymentsGrow(w)
  BY <1>1, <1>4, <1>5 DEF PaymentsGrow
<1>7. \A r \in RefundIds : refunds[r].status # "AUSENTE" => refunds[r].invoice \in InvoiceIds
  BY ConfirmedIsInvoice DEF BillingInv, RowsConsistent
<1>8. PaymentRowsOK'
  <2>1. \A r \in RefundIds : refunds[r].status # "AUSENTE" => Settled(refunds[r].invoice)'
    BY <1>1, <1>4, <1>7 DEF PaymentsInv, PaymentRowsOK
  <2>2. \A j \in raced' : j \in InvoiceIds /\ invoices'[j].status # "AUSENTE"
    BY <1>1, <1>3 DEF PaymentsInv, PaymentRowsOK, BillingInv, TypeOK
  <2> QED
    BY <1>1, <2>1, <2>2 DEF PaymentRowsOK, Settled
<1>9. ConcludedIsReversed'
  BY <1>1, <1>5, <1>7 DEF PaymentsInv, ConcludedIsReversed
<1>10. "scheduleInvoiceDue" \in PlainPayment
  BY DEF PlainPayment, Steps
<1> QED
  BY <1>1, <1>6, <1>8, <1>9, <1>10, PaymentGoto

\* A delivery starts without knowing what other deliveries do with its invoice.
LEMMA PaymentWebhook ==
  ASSUME BillingInv, PaymentsInv, NEW w \in Workers,
         NEW i \in InvoiceIds, NEW tipo \in EventTypes, Webhook(w, i, tipo)
  PROVE  PaymentsInv'
<1> DEFINE t == [Idle EXCEPT !.op = "webhook", !.step = "findInvoice", !.invoice = i]
           t2 == IF isPaymentConfirmed(tipo) THEN t ELSE Idle
<1>1. UNCHANGED payments
  BY DEF Webhook, payments, gateway, clock
<1>2. task' = [task EXCEPT ![w] = t2]
  BY DEF Webhook, Free, BillingInv, TypeOK
<1>3. OthersWait(w) /\ task'[w] = t2
  BY <1>2, Begins
<1>4. PaymentsGrow(w) /\ PaymentRowsOK' /\ ConcludedIsReversed'
  BY <1>1, PaymentsUnchanged
<1>5. ~Crediting(t2) /\ t2.op # "requestRefund" /\ PaymentOK(t2)'
  BY DEF Crediting, PaymentOK, Idle
<1> HIDE DEF t2
<1> QED
  BY <1>3, <1>4, <1>5, PaymentStep

\* The invoice is open when it is found; if another handler is about to mark it
\* paid, it is raced.
LEMMA PaymentFindInvoice ==
  ASSUME BillingInv, PaymentsInv, NEW w \in Workers, FindInvoice(w)
  PROVE  PaymentsInv'
<1>1. UNCHANGED <<invoices, refunds, reversals>> /\ raced \subseteq raced'
  BY DEF FindInvoice, tables, gateway
<1>2. PaymentsGrow(w)
  BY <1>1 DEF PaymentsGrow, Settled
<1>3. CASE Finish(w)
  <2>1. UNCHANGED raced \/ canTransitionInvoice(invoices[task[w].invoice].status, "PAGA")
    BY DEF FindInvoice
  <2>2. PaymentRowsOK'
    BY <1>1, <2>1
    DEF PaymentsInv, PaymentRowsOK, Settled, canTransitionInvoice, FindInvoice
  <2>3. ConcludedIsReversed'
    BY <1>1 DEF PaymentsInv, ConcludedIsReversed
  <2> QED
    BY <1>2, <1>3, <2>2, <2>3, FinishEnds, PaymentEnds
<1>4. CASE ~Finish(w)
  <2>1. PICK d : d = task'[w]
    OBVIOUS
  <2>2. /\ OthersWait(w) /\ d.step = "markPaid" /\ d.op = "webhook"
        /\ task[w].op = "webhook" /\ task[w].step = "findInvoice"
        /\ d.invoice = task[w].invoice
        /\ canTransitionInvoice(invoices[d.invoice].status, "PAGA")
    BY <1>4, <2>1, FindInvoiceTurns DEF Turns, FindInvoice, At
  <2>3. raced' = IF AboutToMark(w, d.invoice) THEN raced \cup {d.invoice} ELSE raced
    BY <1>4, <2>2 DEF FindInvoice
  <2>4. ~Settled(d.invoice) /\ invoices[d.invoice].status # "AUSENTE"
    BY <2>2 DEF canTransitionInvoice, Settled
  <2>5. PaymentOK(d)'
    BY <1>1, <2>2, <2>4 DEF PaymentOK, Settled
  <2>6. PaymentRowsOK'
    BY <1>1, <2>3, <2>4 DEF PaymentsInv, PaymentRowsOK, Settled
  <2>7. ConcludedIsReversed'
    BY <1>1 DEF PaymentsInv, ConcludedIsReversed
  <2>8. ASSUME NEW v \in Workers \ {w}, Crediting(task[v]), task[v].invoice = d.invoice
        PROVE  d.invoice \in raced'
    <3>1. task[v].step = "markPaid"
      BY <2>4, <2>8, WorkerTask DEF Crediting, HandlerConsistent
    <3> QED
      BY <2>3, <2>8, <3>1 DEF AboutToMark, At, Crediting
  <2> QED
    BY <1>2, <2>1, <2>2, <2>5, <2>6, <2>7, <2>8, PaymentStep
<1> QED
  BY <1>3, <1>4

\* markPaid does not look at the status, but no other handler credits this
\* invoice unless it is raced.
LEMMA PaymentMarkPaid ==
  ASSUME BillingInv, PaymentsInv, NEW w \in Workers, MarkPaid(w)
  PROVE  PaymentsInv'
<1> DEFINE i == task[w].invoice
<1>1. /\ UNCHANGED <<refunds, reversals, raced>> /\ Goto(w, "activateOrigin")
      /\ task[w].op = "webhook" /\ task[w].step = "markPaid"
  BY DEF MarkPaid, gateway, clock, At
<1>2. i \in InvoiceIds /\ (i \notin raced => ~Settled(i))
  BY <1>1, WorkerTask DEF PaymentsInv, PaymentOK
<1>3. /\ invoices'[i].status = "PAGA"
      /\ \A j \in InvoiceIds \ {i} : invoices'[j] = invoices[j]
  BY <1>2 DEF MarkPaid, BillingInv, TypeOK, Invoice
<1>4. \A j \in InvoiceIds : Settled(j)' = (Settled(j) \/ j = i)
  BY <1>1, <1>2, <1>3 DEF Settled
<1>5. \A j \in InvoiceIds : invoices[j].status = "ESTORNADA" /\ j \notin raced =>
        invoices'[j].status = "ESTORNADA"
  BY <1>2, <1>3 DEF Settled
<1>6. PaymentsGrow(w)
  BY <1>1, <1>4, <1>5 DEF PaymentsGrow, At
<1>7. \A r \in RefundIds : refunds[r].status # "AUSENTE" => refunds[r].invoice \in InvoiceIds
  BY ConfirmedIsInvoice DEF BillingInv, RowsConsistent
<1>8. PaymentRowsOK'
  <2>1. \A r \in RefundIds : refunds[r].status # "AUSENTE" => Settled(refunds[r].invoice)'
    BY <1>1, <1>4, <1>7 DEF PaymentsInv, PaymentRowsOK
  <2>2. \A j \in raced' : j \in InvoiceIds /\ invoices'[j].status # "AUSENTE"
    BY <1>1, <1>3 DEF PaymentsInv, PaymentRowsOK, BillingInv, TypeOK
  <2> QED
    BY <1>1, <2>1, <2>2 DEF PaymentRowsOK, Settled
<1>9. ConcludedIsReversed'
  BY <1>1, <1>5, <1>7 DEF PaymentsInv, ConcludedIsReversed
<1>10. "activateOrigin" \in PlainPayment
  BY DEF PlainPayment, Steps
<1> QED
  BY <1>1, <1>6, <1>8, <1>9, <1>10, PaymentGoto

\* requestRefund starts from an invoice that is paid, with a refund of its own.
LEMMA PaymentRequestRefund ==
  ASSUME BillingInv, PaymentsInv, NEW w \in Workers, NEW i \in InvoiceIds, RequestRefund(w, i)
  PROVE  PaymentsInv'
<1>1. UNCHANGED <<invoices, refunds, reversals, raced>>
  BY DEF RequestRefund, tables, gateway, clock
<1>2. PICK r \in RefundIds :
        /\ First(r, FreeRefunds)
        /\ task' = [task EXCEPT ![w] =
             [Idle EXCEPT !.op = "requestRefund", !.step = "createRefund",
                          !.invoice = i, !.refund = r]]
  BY DEF RequestRefund
<1> DEFINE t == [Idle EXCEPT !.op = "requestRefund", !.step = "createRefund",
                             !.invoice = i, !.refund = r]
<1>3. OthersWait(w) /\ task'[w] = t
  BY <1>2, Begins
<1>4. t.op = "requestRefund" /\ t.invoice = i /\ t.refund = r
  BY DEF Idle
<1>5. refunds[r].status = "AUSENTE" /\ \A v \in Workers : task[v].refund # r
  BY <1>2 DEF First, FreeRefunds
<1>6. Settled(i)
  BY DEF RequestRefund, canTransitionInvoice, Settled
<1>7. PaymentOK(t)'
  BY <1>1, <1>4, <1>5, <1>6 DEF PaymentOK, Settled
<1>8. PaymentsGrow(w) /\ PaymentRowsOK' /\ ConcludedIsReversed'
  BY <1>1, PaymentsUnchanged DEF payments
<1>9. ~Crediting(t)
  BY <1>4 DEF Crediting
<1> HIDE DEF t
<1> QED
  BY <1>3, <1>4, <1>5, <1>7, <1>8, <1>9, PaymentStep

\* refunds.create: the refund that requestRefund reserved, of a settled invoice.
LEMMA PaymentCreateRefund ==
  ASSUME BillingInv, PaymentsInv, NEW w \in Workers, CreateRefund(w)
  PROVE  PaymentsInv'
<1> DEFINE r == task[w].refund
<1>1. /\ UNCHANGED <<invoices, reversals, raced>> /\ Finish(w)
      /\ task[w].op = "requestRefund"
  BY DEF CreateRefund, gateway, clock, At
<1>2. r \in RefundIds /\ refunds[r].status = "AUSENTE" /\ Settled(task[w].invoice)
  BY <1>1 DEF PaymentsInv, PaymentOK
<1>3. /\ refunds'[r].status = "SOLICITADO" /\ refunds'[r].invoice = task[w].invoice
      /\ \A q \in RefundIds \ {r} : refunds'[q] = refunds[q]
  BY <1>2 DEF CreateRefund, BillingInv, TypeOK
<1>4. PaymentsGrow(w)
  BY <1>1, <1>2, <1>3 DEF PaymentsGrow, Settled
<1>5. PaymentRowsOK'
  <2> SUFFICES ASSUME NEW q \in RefundIds, refunds'[q].status # "AUSENTE"
               PROVE  invoices[refunds'[q].invoice].status \in {"PAGA", "ESTORNADA"}
    BY <1>1 DEF PaymentsInv, PaymentRowsOK, Settled
  <2>1. CASE q = r
    BY <1>2, <1>3, <2>1 DEF Settled
  <2>2. CASE q # r
    BY <1>3, <2>2 DEF PaymentsInv, PaymentRowsOK, Settled
  <2> QED
    BY <2>1, <2>2
<1>6. ConcludedIsReversed'
  BY <1>1, <1>2, <1>3 DEF PaymentsInv, ConcludedIsReversed
<1> QED
  BY <1>1, <1>4, <1>5, <1>6, FinishEnds, PaymentEnds

\* resolveRefund takes the invoice of the refund.
LEMMA PaymentResolveRefund ==
  ASSUME BillingInv, PaymentsInv, NEW w \in Workers, NEW r \in RefundIds,
         NEW aprovar \in BOOLEAN, ResolveRefund(w, r, aprovar)
  PROVE  PaymentsInv'
<1> DEFINE i == refunds[r].invoice
           t == [Idle EXCEPT !.op = "resolveRefund",
                             !.step = IF aprovar THEN "gatewayRefund" ELSE "refuse",
                             !.refund = r, !.invoice = i,
                             !.subscription = invoices[i].subscription,
                             !.purchase = invoices[i].purchase]
<1>1. /\ UNCHANGED <<invoices, refunds, reversals, raced>>
      /\ task' = [task EXCEPT ![w] = t]
  BY DEF ResolveRefund, tables, gateway, clock
<1>2. PICK d : d = t
  OBVIOUS
<1>3. OthersWait(w) /\ task'[w] = d
  BY <1>1, <1>2, Begins
<1>4. /\ d.op = "resolveRefund" /\ d.invoice = i /\ d.refund = r
      /\ d.step \in {"gatewayRefund", "refuse"}
  BY <1>2 DEF Idle
<1>5. PaymentOK(d)'
  BY <1>1, <1>4 DEF PaymentOK
<1>6. PaymentsGrow(w) /\ PaymentRowsOK' /\ ConcludedIsReversed'
  BY <1>1, PaymentsUnchanged DEF payments
<1>7. ~Crediting(d)
  BY <1>4 DEF Crediting
<1> QED
  BY <1>3, <1>4, <1>5, <1>6, <1>7, PaymentStep

\* A refund is resolved: concluded only when its invoice is reversed.
LEMMA PaymentRefundResolved ==
  ASSUME BillingInv, PaymentsInv, NEW w \in Workers, RefuseRefund(w) \/ ConcludeRefund(w)
  PROVE  PaymentsInv'
<1> DEFINE r == task[w].refund
<1>1. UNCHANGED <<invoices, reversals, raced>> /\ Finish(w) /\ task[w].op = "resolveRefund"
  BY DEF RefuseRefund, ConcludeRefund, gateway, clock, At
<1>2. /\ r \in RefundIds /\ refunds[r].status # "AUSENTE" /\ refunds[r].invoice = task[w].invoice
      /\ PaymentOK(task[w])
  BY <1>1, WorkerTask DEF HandlerConsistent, PaymentsInv, PaymentOK
<1>3. /\ refunds'[r].status \in {"RECUSADO", "CONCLUIDO"}
      /\ refunds'[r].status = "CONCLUIDO" => task[w].step = "conclude"
      /\ refunds'[r].invoice = refunds[r].invoice
      /\ \A q \in RefundIds \ {r} : refunds'[q] = refunds[q]
  BY <1>2 DEF RefuseRefund, ConcludeRefund, BillingInv, TypeOK, Refund, At
<1>4. PaymentsGrow(w)
  BY <1>1, <1>2, <1>3 DEF PaymentsGrow, Settled
<1>5. PaymentRowsOK'
  <2> SUFFICES ASSUME NEW q \in RefundIds, refunds'[q].status # "AUSENTE"
               PROVE  invoices[refunds'[q].invoice].status \in {"PAGA", "ESTORNADA"}
    BY <1>1 DEF PaymentsInv, PaymentRowsOK, Settled
  <2>1. refunds[q].status # "AUSENTE" /\ refunds'[q].invoice = refunds[q].invoice
    BY <1>2, <1>3
  <2> QED
    BY <2>1 DEF PaymentsInv, PaymentRowsOK, Settled
<1>6. ConcludedIsReversed'
  <2> SUFFICES ASSUME NEW q \in RefundIds, refunds'[q].status = "CONCLUIDO",
                      refunds'[q].invoice \notin raced
               PROVE  /\ invoices[refunds'[q].invoice].status = "ESTORNADA"
                      /\ reversals[refunds'[q].invoice] > 0
    BY <1>1 DEF ConcludedIsReversed
  <2>1. CASE q = r
    BY <1>1, <1>2, <1>3, <2>1 DEF PaymentOK
  <2>2. CASE q # r
    BY <1>3, <2>2 DEF PaymentsInv, ConcludedIsReversed
  <2> QED
    BY <2>1, <2>2
<1> QED
  BY <1>1, <1>4, <1>5, <1>6, FinishEnds, PaymentEnds

\* What a handler that resolves a refund knows.
LEMMA Resolving ==
  ASSUME BillingInv, PaymentsInv, NEW w \in Workers, task[w].op = "resolveRefund"
  PROVE  /\ task[w].invoice \in InvoiceIds /\ Settled(task[w].invoice)
         /\ PaymentOK(task[w])
         /\ task[w].refund \in RefundIds /\ refunds[task[w].refund].status # "AUSENTE"
         /\ refunds[task[w].refund].invoice = task[w].invoice
BY WorkerTask DEF HandlerConsistent, PaymentsInv, PaymentOK, PaymentRowsOK

\* gateway.refund: from here on the invoice has a reversal.
LEMMA PaymentGatewayRefund ==
  ASSUME BillingInv, PaymentsInv, NEW w \in Workers, GatewayRefund(w)
  PROVE  PaymentsInv'
<1> DEFINE i == task[w].invoice
<1>1. /\ UNCHANGED <<invoices, refunds, raced>> /\ Goto(w, "markReversed")
      /\ task[w].op = "resolveRefund" /\ reversals' = [reversals EXCEPT ![i] = @ + 1]
  BY DEF GatewayRefund, tables, clock, At
<1>2. i \in InvoiceIds /\ reversals \in [InvoiceIds -> Nat]
  BY <1>1, Resolving DEF BillingInv, TypeOK
<1>3. reversals'[i] > 0 /\ \A j \in InvoiceIds \ {i} : reversals'[j] = reversals[j]
  BY <1>1, <1>2
<1>4. \A j \in InvoiceIds : reversals[j] > 0 => reversals'[j] > 0
  BY <1>3
<1>5. PaymentsGrow(w)
  BY <1>1, <1>4 DEF PaymentsGrow, Settled
<1>6. PaymentRowsOK'
  BY <1>1 DEF PaymentsInv, PaymentRowsOK, Settled
<1>7. \A r \in RefundIds : refunds[r].status # "AUSENTE" => refunds[r].invoice \in InvoiceIds
  BY ConfirmedIsInvoice DEF BillingInv, RowsConsistent
<1>8. ConcludedIsReversed'
  BY <1>1, <1>4, <1>7 DEF PaymentsInv, ConcludedIsReversed
<1>9. PICK d : d = task'[w]
  OBVIOUS
<1>10. /\ OthersWait(w) /\ d.step = "markReversed" /\ d.op = "resolveRefund"
       /\ d.invoice = i /\ d.refund = task[w].refund
  BY <1>1, <1>9, GotoAdvances DEF Advances, Steps
<1>11. PaymentOK(d)'
  BY <1>1, <1>3, <1>10, Resolving DEF PaymentOK
<1>12. ~Crediting(d)
  BY <1>10 DEF Crediting
<1> QED
  BY <1>1, <1>5, <1>6, <1>8, <1>9, <1>10, <1>11, <1>12, PaymentStep

\* invoices.transition(PAGA -> ESTORNADA) of an invoice that is settled.
LEMMA PaymentMarkReversed ==
  ASSUME BillingInv, PaymentsInv, NEW w \in Workers, MarkReversed(w)
  PROVE  PaymentsInv'
<1> DEFINE i == task[w].invoice
<1>1. /\ UNCHANGED <<refunds, reversals, raced>> /\ Goto(w, "revokeOrigin")
      /\ task[w].op = "resolveRefund" /\ task[w].step = "markReversed"
  BY DEF MarkReversed, gateway, clock, At
<1>2. i \in InvoiceIds /\ Settled(i)
  BY <1>1, Resolving
<1>3. /\ invoices'[i].status = "ESTORNADA"
      /\ \A j \in InvoiceIds \ {i} : invoices'[j] = invoices[j]
  BY <1>2 DEF MarkReversed, BillingInv, TypeOK, Invoice, Settled
<1>4. \A j \in InvoiceIds : Settled(j)' = Settled(j)
  BY <1>1, <1>2, <1>3 DEF Settled
<1>5. \A j \in InvoiceIds : invoices[j].status = "ESTORNADA" => invoices'[j].status = "ESTORNADA"
  BY <1>2, <1>3
<1>6. PaymentsGrow(w)
  BY <1>1, <1>4, <1>5 DEF PaymentsGrow
<1>7. \A r \in RefundIds : refunds[r].status # "AUSENTE" => refunds[r].invoice \in InvoiceIds
  BY ConfirmedIsInvoice DEF BillingInv, RowsConsistent
<1>8. PaymentRowsOK'
  <2>1. \A r \in RefundIds : refunds[r].status # "AUSENTE" => Settled(refunds[r].invoice)'
    BY <1>1, <1>4, <1>7 DEF PaymentsInv, PaymentRowsOK
  <2>2. \A j \in raced' : j \in InvoiceIds /\ invoices'[j].status # "AUSENTE"
    BY <1>1, <1>3 DEF PaymentsInv, PaymentRowsOK, BillingInv, TypeOK
  <2> QED
    BY <1>1, <2>1, <2>2 DEF PaymentRowsOK, Settled
<1>9. ConcludedIsReversed'
  BY <1>1, <1>5, <1>7 DEF PaymentsInv, ConcludedIsReversed
<1>10. PICK d : d = task'[w]
  OBVIOUS
<1>11. /\ OthersWait(w) /\ d.step = "revokeOrigin" /\ d.op = "resolveRefund"
       /\ d.invoice = i /\ d.refund = task[w].refund
  BY <1>1, <1>10, GotoAdvances DEF Advances, Steps
<1>12. PaymentOK(d)'
  BY <1>1, <1>3, <1>11, Resolving DEF PaymentOK
<1>13. ~Crediting(d)
  BY <1>11 DEF Crediting
<1> QED
  BY <1>1, <1>6, <1>8, <1>9, <1>10, <1>11, <1>12, <1>13, PaymentStep

\* The origin and the plan go after the invoice is reversed.
LEMMA PaymentRevokes ==
  ASSUME BillingInv, PaymentsInv, NEW w \in Workers, RevokeOrigin(w) \/ RevokePlano(w)
  PROVE  PaymentsInv'
<1>1. UNCHANGED <<invoices, refunds, reversals, raced>>
  BY DEF RevokeOrigin, RevokePlano, tables, gateway, clock
<1>2. PaymentsGrow(w) /\ PaymentRowsOK' /\ ConcludedIsReversed'
  BY <1>1, PaymentsUnchanged DEF payments
<1>3. CASE RevokePlano(w) /\ task[w].op # "resolveRefund"
  <2>1. /\ Goto(w, "completeJob") /\ "completeJob" \in PlainPayment
        /\ task[w].step # "findInvoice"
    BY <1>3 DEF RevokePlano, PlainPayment, Steps
  <2> QED
    BY <1>1, <1>2, <2>1, PaymentGoto
<1>4. CASE RevokeOrigin(w) \/ task[w].op = "resolveRefund"
  <2>1. PICK d : d = task'[w]
    OBVIOUS
  <2>2. /\ task[w].op = "resolveRefund" /\ task[w].step \in {"revokeOrigin", "revokePlano"}
        /\ \E step \in Steps : Advances(w, step)
    BY <1>4, RevokeOriginAdvances, GotoAdvances DEF RevokeOrigin, RevokePlano, At, Steps
  <2>3. /\ OthersWait(w) /\ d.op = "resolveRefund" /\ d.invoice = task[w].invoice
        /\ d.refund = task[w].refund
    BY <2>1, <2>2 DEF Advances
  <2>4. PaymentOK(d)'
    <3>1. d.step \in {"revokePlano", "conclude"}
      BY <1>4, <2>1, <2>2, RevokeOriginAdvances, GotoAdvances
      DEF RevokeOrigin, RevokePlano, At, Steps, Advances
    <3> QED
      BY <1>1, <2>2, <2>3, <3>1, Resolving DEF PaymentOK
  <2>5. ~Crediting(d)
    BY <2>3 DEF Crediting
  <2> QED
    BY <1>2, <2>1, <2>3, <2>4, <2>5, PaymentStep
<1> QED
  BY <1>3, <1>4

\* Steps of the gateway, of jobs that are one call, of time: no handler moves.
LEMMA PaymentAround ==
  ASSUME BillingInv, PaymentsInv, UNCHANGED <<refunds, reversals, raced, task>>,
         \A j \in InvoiceIds : /\ Settled(j)' = Settled(j)
                               /\ invoices[j].status # "AUSENTE" =>
                                    invoices'[j].status # "AUSENTE"
                               /\ invoices[j].status = "ESTORNADA" =>
                                    invoices'[j].status = "ESTORNADA"
  PROVE  PaymentsInv'
<1>1. \A r \in RefundIds : refunds[r].status # "AUSENTE" => refunds[r].invoice \in InvoiceIds
  BY ConfirmedIsInvoice DEF BillingInv, RowsConsistent
<1>2. PaymentRowsOK'
  <2>1. \A r \in RefundIds : refunds[r].status # "AUSENTE" => Settled(refunds[r].invoice)'
    BY <1>1 DEF PaymentsInv, PaymentRowsOK
  <2>2. \A i \in raced : invoices'[i].status # "AUSENTE"
    BY DEF PaymentsInv, PaymentRowsOK, BillingInv, TypeOK
  <2> QED
    BY <2>1, <2>2 DEF PaymentRowsOK, Settled
<1>3. ConcludedIsReversed'
  BY <1>1 DEF PaymentsInv, ConcludedIsReversed
<1>4. ASSUME NEW v \in Workers, NEW d, d = task[v] PROVE PaymentOK(d)'
  <2>1. /\ PaymentOK(d)
        /\ d.op \in {"webhook", "requestRefund", "resolveRefund"} => d.invoice \in InvoiceIds
    BY <1>4, WorkerTask DEF PaymentsInv
  <2> QED
    BY <2>1 DEF PaymentOK
<1>5. ASSUME NEW v \in Workers PROVE PaymentOK(task[v])'
  <2>1. PICK d : d = task[v]
    OBVIOUS
  <2>2. PaymentOK(d)'
    BY <1>4, <2>1
  <2> QED
    BY <2>1, <2>2 DEF PaymentOK, Settled
<1>6. PaymentsDistinct'
  BY DEF PaymentsInv, PaymentsDistinct, Crediting
<1> QED
  BY <1>2, <1>3, <1>5, <1>6 DEF PaymentsInv

\* The gateway, the jobs that are one call, time.
LEMMA PaymentEnvironment ==
  ASSUME BillingInv, PaymentsInv,
         \/ \E u \in Professionals : CancelSubscription(u)
         \/ \E i \in InvoiceIds : ExpireInvoice(i) \/ FailDueJob(i) \/ ConfirmPayment(i)
         \/ Tick \/ UNCHANGED vars
  PROVE  PaymentsInv'
<1>1. UNCHANGED <<refunds, reversals, raced, task>>
  BY DEF CancelSubscription, ExpireInvoice, FailDueJob, ConfirmPayment, Tick, vars, tables,
         gateway, clock
<1>2. \A j \in InvoiceIds : /\ Settled(j)' = Settled(j)
                            /\ invoices[j].status # "AUSENTE" => invoices'[j].status # "AUSENTE"
                            /\ invoices[j].status = "ESTORNADA" => invoices'[j].status = "ESTORNADA"
  <2>1. CASE UNCHANGED invoices
    BY <2>1 DEF Settled
  <2>2. ASSUME NEW i \in InvoiceIds, ExpireInvoice(i), invoices[i].status = "PENDENTE"
        PROVE  \A j \in InvoiceIds : /\ Settled(j)' = Settled(j)
                                     /\ invoices[j].status # "AUSENTE" =>
                                          invoices'[j].status # "AUSENTE"
                                     /\ invoices[j].status = "ESTORNADA" =>
                                          invoices'[j].status = "ESTORNADA"
    <3>1. /\ invoices'[i].status = "VENCIDA"
          /\ \A j \in InvoiceIds \ {i} : invoices'[j] = invoices[j]
      BY <2>2 DEF ExpireInvoice, BillingInv, TypeOK, Invoice
    <3> QED
      BY <2>2, <3>1 DEF Settled
  <2> QED
    BY <2>1, <2>2 DEF ExpireInvoice, CancelSubscription, FailDueJob, ConfirmPayment, Tick, vars, tables
<1> QED
  BY <1>1, <1>2, PaymentAround

\* No payment, no handler at first.
LEMMA PaymentsInit == Init => PaymentsInv
<1> SUFFICES ASSUME Init PROVE PaymentsInv
  OBVIOUS
<1>1. PaymentRowsOK /\ ConcludedIsReversed
  BY DEF Init, PaymentRowsOK, ConcludedIsReversed, Settled
<1>2. \A w \in Workers : task[w].op = "idle"
  BY DEF Init, Idle
<1> QED
  BY <1>1, <1>2 DEF PaymentsInv, PaymentOK, PaymentsDistinct, Crediting

\* PaymentsInv after every step.
LEMMA PaymentsKept ==
  ASSUME BillingInv, PaymentsInv, [Next]_vars
  PROVE  PaymentsInv'
<1>1. CASE Request
  BY <1>1, PaymentRequests, PaymentRequestRefund, PaymentResolveRefund, PaymentEnvironment
  DEF Request
<1>2. ASSUME NEW w \in Workers, Step(w) \/ Failure(w)
      PROVE  PaymentsInv'
  BY <1>2, PaymentPlainStep, PaymentCreateCharge, PaymentCreateInvoice, PaymentFindInvoice,
     PaymentMarkPaid, PaymentCreateRefund, PaymentRefundResolved, PaymentGatewayRefund,
     PaymentMarkReversed, PaymentRevokes
  DEF Step
<1>3. CASE \/ \E s \in SubscriptionIds : StartRenewSubscription(s)
           \/ \E p \in PurchaseIds : StartRenewPurchase(p) \/ StartExpirePurchase(p)
  BY <1>3, PaymentRequests DEF StartRenewSubscription, StartRenewPurchase, StartExpirePurchase
<1>4. ASSUME NEW i \in InvoiceIds, NEW tipo \in EventTypes, Deliver(i, tipo)
      PROVE  PaymentsInv'
  BY <1>4, PaymentWebhook DEF Deliver
<1>5. CASE \/ \E i \in InvoiceIds : ExpireInvoice(i) \/ FailDueJob(i) \/ ConfirmPayment(i)
           \/ Tick \/ UNCHANGED vars
  BY <1>5, PaymentEnvironment
<1> QED
  BY <1>1, <1>2, <1>3, <1>4, <1>5 DEF Next

\* invoices.transition is guarded, markPaid is not: unless the invoice is raced
\* it is the only handler that credits it, and found it open.
LEMMA InvoiceSteps ==
  ASSUME BillingInv, PaymentsInv, [Next]_vars, NEW i \in InvoiceIds
  PROVE  \/ invoices'[i].status = invoices[i].status
         \/ invoices[i].status = "AUSENTE" /\ invoices'[i].status = "PENDENTE"
         \/ canTransitionInvoice(invoices[i].status, invoices'[i].status)
         \/ i \in raced /\ invoices'[i].status = "PAGA"
<1> DEFINE Follows ==
      \/ invoices'[i].status = invoices[i].status
      \/ invoices[i].status = "AUSENTE" /\ invoices'[i].status = "PENDENTE"
      \/ canTransitionInvoice(invoices[i].status, invoices'[i].status)
      \/ i \in raced /\ invoices'[i].status = "PAGA"
<1>1. CASE UNCHANGED invoices
  BY <1>1
<1>2. ASSUME NEW w \in Workers, CreateInvoice(w) PROVE Follows
  <2>1. task[w].invoice \in InvoiceIds /\ invoices[task[w].invoice].status = "AUSENTE"
    BY <1>2, WorkerTask DEF CreateInvoice, Opening, HandlerConsistent
  <2> QED
    BY <1>2, <2>1 DEF CreateInvoice, BillingInv, TypeOK
<1>3. ASSUME NEW w \in Workers, MarkPaid(w) PROVE Follows
  <2>0. CASE task[w].invoice # i \/ i \in raced
    BY <1>3, <2>0 DEF MarkPaid, BillingInv, TypeOK, Invoice
  <2> SUFFICES ASSUME task[w].invoice = i, i \notin raced PROVE Follows
    BY <2>0
  <2>1. /\ task[w].op = "webhook" /\ task[w].step = "markPaid"
        /\ task[w].invoice \in InvoiceIds
    BY <1>3, WorkerTask DEF MarkPaid, At
  <2>2. ~Settled(task[w].invoice) /\ invoices[task[w].invoice].status # "AUSENTE"
    BY <2>1, WorkerTask DEF PaymentsInv, PaymentOK, HandlerConsistent
  <2>3. invoices[task[w].invoice].status \in {"PENDENTE", "VENCIDA"}
    BY <2>1, <2>2 DEF BillingInv, TypeOK, Invoice, Settled
  <2> QED
    BY <1>3, <2>1, <2>3 DEF MarkPaid, BillingInv, TypeOK, Invoice, canTransitionInvoice
<1>4. ASSUME NEW w \in Workers, MarkReversed(w) PROVE Follows
  BY <1>4 DEF MarkReversed, BillingInv, TypeOK, Invoice, canTransitionInvoice
<1>5. ASSUME NEW j \in InvoiceIds, ExpireInvoice(j) PROVE Follows
  BY <1>5 DEF ExpireInvoice, BillingInv, TypeOK, Invoice, canTransitionInvoice
<1>6. ASSUME NEW w \in Workers, Step(w) \/ Failure(w) PROVE Follows
  <2>1. CASE UNCHANGED invoices
    BY <2>1
  <2> QED
    BY <1>2, <1>3, <1>4, <1>6, <2>1
    DEF Step, CreateSubscription, CreateCharge, CreatePurchase, ScheduleInvoiceDue,
        SetProximaCobranca, ScheduleSubscriptionRenewal, SetProfessionalPlano, UpdatePlan,
        FindInvoice, ActivateSubscription, ReadPurchase, ActivatePurchase, SetContractorPlano,
        SchedulePurchaseExpiry, SchedulePurchaseRenewal, CancelPurchase, CreateRefund,
        RefuseRefund, GatewayRefund, RevokeOrigin, RevokePlano, ConcludeRefund,
        RescheduleExpiry, Expire, CompleteJob, Failure, tables
<1>7. CASE Request
  <2>1. UNCHANGED invoices
    BY <1>7 DEF Request, Subscribe, ChangePlan, StartPurchase, CancelSubscription,
      StartCancelPurchase, RequestRefund, ResolveRefund, tables
  <2> QED
    BY <2>1
<1>8. CASE \/ \E s \in SubscriptionIds : StartRenewSubscription(s)
           \/ \E p \in PurchaseIds : StartRenewPurchase(p) \/ StartExpirePurchase(p)
           \/ \E j \in InvoiceIds, tipo \in EventTypes : Deliver(j, tipo)
           \/ \E j \in InvoiceIds : FailDueJob(j) \/ ConfirmPayment(j)
           \/ Tick \/ UNCHANGED vars
  <2>1. UNCHANGED invoices
    BY <1>8 DEF StartRenewSubscription, RenewSubscription, StartRenewPurchase, RenewPurchase,
      StartExpirePurchase, ExpirePurchase, Deliver, Webhook, FailDueJob, ConfirmPayment, Tick,
      vars, tables
  <2> QED
    BY <2>1
<1> QED
  BY <1>5, <1>6, <1>7, <1>8 DEF Next

\* What PaymentsInv says of a payment holds between any two calls of its handler
\* (handleWebhook, requestRefund, resolveRefund).
THEOREM PaymentsInvariance == Spec => []PaymentsInv
<1>1. Init => PaymentsInv
  BY PaymentsInit
<1>2. BillingInv /\ PaymentsInv /\ [Next]_vars => PaymentsInv'
  BY PaymentsKept
<1> QED
  BY <1>1, <1>2, BillingInvariance, PTL DEF Spec

\* A concluded refund stays concluded on a reversed invoice, whatever payments
\* and other refunds are handled meanwhile, unless two confirmations found that
\* invoice payable at once (resolveRefund).
THEOREM ConcludedIsReversedAlways == Spec => []ConcludedIsReversed
<1>1. PaymentsInv => ConcludedIsReversed
  BY DEF PaymentsInv
<1>2. Spec => []PaymentsInv
  BY PaymentsInvariance
<1> QED
  BY <1>1, <1>2, PTL

\* Every step of an invoice is one of INVOICE_TRANSITIONS: markPaid does not look
\* at the status, but its invoice is open still, unless two confirmations found
\* it payable at once (handleWebhook, markPaid).
THEOREM InvoicesFollowTheirMachine == Spec => InvoiceMachine
<1>1. Spec => []PaymentsInv
  BY PaymentsInvariance
<1>2. BillingInv /\ PaymentsInv /\ [Next]_vars =>
        [\A i \in InvoiceIds \ raced :
           \/ invoices'[i].status = invoices[i].status
           \/ invoices[i].status = "AUSENTE" /\ invoices'[i].status = "PENDENTE"
           \/ canTransitionInvoice(invoices[i].status, invoices'[i].status)]_vars
  BY InvoiceSteps
<1> QED
  BY <1>1, <1>2, BillingInvariance, PTL DEF Spec, InvoiceMachine

--------------------------------------------------------------------------------
(* How every handler goes on, and what every step leaves of an invoice *)

\* A handler returns, or goes on with the rows it has in hand.
LEMMA GoesOn ==
  ASSUME BillingInv, NEW w \in Workers, Step(w) \/ Failure(w)
  PROVE  \/ Ends(w)
         \/ /\ Turns(w, task'[w].step)
            /\ ArrivesBy(w, task'[w].step)
            /\ FindInvoice(w) \/ CreateSubscription(w)
                 \/ task'[w].subscription = task[w].subscription
            /\ FindInvoice(w) \/ task'[w].purchase = task[w].purchase
            /\ FindInvoice(w) \/ ReadPurchase(w) \/ ActivateSubscription(w)
                 \/ task'[w].date = task[w].date
<1> DEFINE Goes(step) ==
      /\ Turns(w, step) /\ task'[w].step = step
      /\ task'[w].subscription = task[w].subscription
      /\ task'[w].purchase = task[w].purchase /\ task'[w].date = task[w].date
<1>1. ASSUME NEW step \in Steps, Goto(w, step), ArrivesBy(w, step)
      PROVE  Goes(step) /\ ArrivesBy(w, task'[w].step)
  BY <1>1, GotoAdvances DEF Advances, Turns
<1>2. CASE Finish(w)
  BY <1>2, FinishEnds
<1>3. CASE FindInvoice(w) \/ ReadPurchase(w) \/ ActivateSubscription(w) \/ CreateSubscription(w)
  <2>1. CASE FindInvoice(w) /\ ~Finish(w)
    BY <2>1, FindInvoiceTurns DEF Turns, ArrivesBy
  <2>2. CASE ReadPurchase(w)
    <3>1. task'[w].subscription = task[w].subscription
      BY <2>2 DEF ReadPurchase, BillingInv, TypeOK, Task
    <3> QED
      BY <2>2, <3>1, ReadPurchaseTurns DEF Turns, ArrivesBy
  <2>3. CASE ActivateSubscription(w)
    <3>1. CASE ~Finish(w)
      <4>1. task'[w].subscription = task[w].subscription
        BY <2>3, <3>1 DEF ActivateSubscription, BillingInv, TypeOK, Task
      <4> QED
        BY <2>3, <3>1, <4>1, ActivateSubscriptionTurns DEF Turns, ArrivesBy
    <3> QED
      BY <1>2, <3>1
  <2>4. CASE CreateSubscription(w)
    BY <2>4, CreateSubscriptionAdvances DEF Turns, ArrivesBy
  <2> QED
    BY <1>2, <1>3, <2>1, <2>2, <2>3, <2>4
<1> DEFINE Moves == Finish(w) \/ \E step \in Steps : Goto(w, step) /\ ArrivesBy(w, step)
<1>4. ASSUME \/ CreateCharge(w) \/ CreatePurchase(w) \/ CreateInvoice(w) \/ ScheduleInvoiceDue(w)
             \/ SetProximaCobranca(w) \/ ScheduleSubscriptionRenewal(w)
      PROVE  Moves
  <2>1. CASE CreateCharge(w) \/ CreatePurchase(w) \/ CreateInvoice(w)
    BY <2>1 DEF CreateCharge, CreatePurchase, CreateInvoice, Steps, ArrivesBy
  <2>2. CASE ScheduleInvoiceDue(w)
    BY <2>2 DEF ScheduleInvoiceDue, Steps, ArrivesBy
  <2>3. CASE SetProximaCobranca(w) \/ ScheduleSubscriptionRenewal(w)
    BY <2>3 DEF SetProximaCobranca, ScheduleSubscriptionRenewal, Steps, ArrivesBy
  <2> QED
    BY <1>4, <2>1, <2>2, <2>3
<1>5. ASSUME \/ SetProfessionalPlano(w) \/ UpdatePlan(w) \/ MarkPaid(w) \/ ActivatePurchase(w)
             \/ SetContractorPlano(w) \/ SchedulePurchaseExpiry(w) \/ SchedulePurchaseRenewal(w)
      PROVE  Moves
  <2>1. CASE SetProfessionalPlano(w) \/ UpdatePlan(w) \/ MarkPaid(w) \/ ActivatePurchase(w)
    BY <2>1 DEF SetProfessionalPlano, UpdatePlan, MarkPaid, ActivatePurchase, Steps, ArrivesBy
  <2>2. CASE SetContractorPlano(w) \/ SchedulePurchaseExpiry(w) \/ SchedulePurchaseRenewal(w)
    BY <2>2 DEF SetContractorPlano, SchedulePurchaseExpiry, SchedulePurchaseRenewal, Steps, ArrivesBy
  <2> QED
    BY <1>5, <2>1, <2>2
<1>6. ASSUME \/ CancelPurchase(w) \/ CreateRefund(w) \/ RefuseRefund(w) \/ GatewayRefund(w)
             \/ MarkReversed(w) \/ RevokePlano(w) \/ ConcludeRefund(w) \/ RescheduleExpiry(w)
             \/ Expire(w) \/ CompleteJob(w) \/ Failure(w)
      PROVE  Moves
  BY <1>6 DEF CancelPurchase, CreateRefund, RefuseRefund, GatewayRefund, MarkReversed,
    RevokePlano, ConcludeRefund, RescheduleExpiry, Expire, CompleteJob, Failure, Steps, ArrivesBy
<1>7. CASE RevokeOrigin(w)
  BY <1>7, RevokeOriginAdvances DEF Advances, Turns, ArrivesBy
<1>8. CASE Moves
  <2>1. ASSUME NEW step \in Steps, Goto(w, step), ArrivesBy(w, step)
        PROVE  Goes(task'[w].step) /\ ArrivesBy(w, task'[w].step)
    BY <1>1, <2>1
  <2> HIDE DEF Moves
  <2> QED
    BY <1>2, <1>8, <2>1 DEF Moves
<1> HIDE DEF Moves
<1> QED
  BY <1>3, <1>4, <1>5, <1>6, <1>7, <1>8 DEF Step

\* The columns of an invoice are written once, but for its status and its payment.
LEMMA InvoiceColumns ==
  ASSUME BillingInv, [Next]_vars, NEW i \in InvoiceIds
  PROVE  /\ invoices[i].status # "AUSENTE" =>
              /\ invoices'[i].status # "AUSENTE"
              /\ invoices'[i].subscription = invoices[i].subscription
              /\ invoices'[i].purchase = invoices[i].purchase
              /\ invoices'[i].vencimentoEm = invoices[i].vencimentoEm
         /\ \/ \E w \in Workers : CreateInvoice(w) /\ task[w].invoice = i
            \/ /\ invoices'[i].subscription = invoices[i].subscription
               /\ invoices'[i].purchase = invoices[i].purchase
               /\ invoices'[i].vencimentoEm = invoices[i].vencimentoEm
               /\ invoices[i].status = "AUSENTE" => invoices'[i].status = "AUSENTE"
               /\ \/ /\ invoices'[i].pagoEm = invoices[i].pagoEm
                     /\ Settled(i)' => Settled(i)
                  \/ \E w \in Workers : MarkPaid(w) /\ task[w].invoice = i
<1> DEFINE Issued == \E w \in Workers : CreateInvoice(w) /\ task[w].invoice = i
           Kept ==
             /\ invoices[i].status # "AUSENTE" <=> invoices'[i].status # "AUSENTE"
             /\ invoices'[i].subscription = invoices[i].subscription
             /\ invoices'[i].purchase = invoices[i].purchase
             /\ invoices'[i].vencimentoEm = invoices[i].vencimentoEm
             /\ \/ invoices'[i].pagoEm = invoices[i].pagoEm /\ (Settled(i)' => Settled(i))
                \/ \E w \in Workers : MarkPaid(w) /\ task[w].invoice = i
<1>1. ASSUME invoices'[i] = invoices[i] PROVE Kept
  BY <1>1 DEF Settled
<1>2. ASSUME NEW w \in Workers, CreateInvoice(w) PROVE Kept \/ Issued
  <2>1. CASE i # task[w].invoice
    BY <1>1, <1>2, <2>1 DEF CreateInvoice, BillingInv, TypeOK
  <2> QED
    BY <1>2, <2>1
<1>3. ASSUME NEW w \in Workers, MarkPaid(w) PROVE Kept
  <2>1. CASE i # task[w].invoice
    BY <1>1, <1>3, <2>1 DEF MarkPaid, BillingInv, TypeOK
  <2>2. CASE i = task[w].invoice
    <3>1. /\ invoices'[i].status = "PAGA" /\ invoices'[i].subscription = invoices[i].subscription
          /\ invoices'[i].purchase = invoices[i].purchase
          /\ invoices'[i].vencimentoEm = invoices[i].vencimentoEm
      BY <1>3, <2>2 DEF MarkPaid, BillingInv, TypeOK, Invoice
    <3>2. invoices[i].status # "AUSENTE"
      BY <1>3, <2>2, WorkerTask DEF MarkPaid, At, HandlerConsistent
    <3> QED
      BY <1>3, <2>2, <3>1, <3>2
  <2> QED
    BY <2>1, <2>2
<1>4. ASSUME NEW w \in Workers, MarkReversed(w) PROVE Kept
  BY <1>4 DEF MarkReversed, BillingInv, TypeOK, Invoice, Settled
<1>5. ASSUME NEW j \in InvoiceIds, ExpireInvoice(j) PROVE Kept
  BY <1>5 DEF ExpireInvoice, BillingInv, TypeOK, Invoice, Settled
<1>6. ASSUME NEW w \in Workers, Step(w) \/ Failure(w) PROVE Kept \/ Issued
  <2>1. CASE UNCHANGED invoices
    BY <1>1, <2>1
  <2> HIDE DEF Kept, Issued
  <2> QED
    BY <1>2, <1>3, <1>4, <1>6, <2>1
    DEF Step, CreateSubscription, CreateCharge, CreatePurchase, ScheduleInvoiceDue,
        SetProximaCobranca, ScheduleSubscriptionRenewal, SetProfessionalPlano, UpdatePlan,
        FindInvoice, ActivateSubscription, ReadPurchase, ActivatePurchase, SetContractorPlano,
        SchedulePurchaseExpiry, SchedulePurchaseRenewal, CancelPurchase, CreateRefund,
        RefuseRefund, GatewayRefund, RevokeOrigin, RevokePlano, ConcludeRefund,
        RescheduleExpiry, Expire, CompleteJob, Failure, tables
<1>7. ASSUME Request PROVE Kept
  <2>1. UNCHANGED invoices
    BY <1>7 DEF Request, Subscribe, ChangePlan, StartPurchase, CancelSubscription,
      StartCancelPurchase, RequestRefund, ResolveRefund, tables
  <2> QED
    BY <1>1, <2>1
<1>8. ASSUME \/ \E s \in SubscriptionIds : StartRenewSubscription(s)
             \/ \E p \in PurchaseIds : StartRenewPurchase(p) \/ StartExpirePurchase(p)
             \/ \E j \in InvoiceIds, tipo \in EventTypes : Deliver(j, tipo)
             \/ \E j \in InvoiceIds : FailDueJob(j) \/ ConfirmPayment(j)
             \/ Tick \/ UNCHANGED vars
      PROVE  Kept
  <2>1. UNCHANGED invoices
    BY <1>8 DEF StartRenewSubscription, RenewSubscription, StartRenewPurchase, RenewPurchase,
      StartExpirePurchase, ExpirePurchase, Deliver, Webhook, FailDueJob, ConfirmPayment, Tick,
      vars, tables
  <2> QED
    BY <1>1, <2>1
<1>9. Kept \/ Issued
  <2> HIDE DEF Kept, Issued
  <2> QED
    BY <1>5, <1>6, <1>7, <1>8 DEF Next
<1>10. Issued => invoices[i].status = "AUSENTE"
  BY WorkerTask DEF CreateInvoice, Opening, HandlerConsistent
<1> QED
  BY <1>9, <1>10

\* A settled invoice stays settled.
LEMMA SettledForGood ==
  ASSUME BillingInv, PaymentsInv, [Next]_vars, NEW i \in InvoiceIds, Settled(i)
  PROVE  Settled(i)'
BY InvoiceSteps, SMTT(30) DEF Settled, canTransitionInvoice

--------------------------------------------------------------------------------
(* Counting settled invoices *)

\* A set of invoices has at most as many as one that contains it.
LEMMA InvoiceSets ==
  ASSUME NEW T \in SUBSET InvoiceIds, NEW S \in SUBSET T
  PROVE  /\ Cardinality(S) \in Nat /\ Cardinality(T) \in Nat
         /\ Cardinality(S) <= Cardinality(T)
         /\ \A x \in T \ S : Cardinality(S) + 1 <= Cardinality(T)
<1>1. IsFiniteSet(InvoiceIds)
  BY FS_Interval, BoundsAssumption DEF InvoiceIds
<1>2. IsFiniteSet(T)
  BY <1>1, FS_Subset
<1>3. IsFiniteSet(S) /\ Cardinality(S) <= Cardinality(T)
  BY <1>2, FS_Subset
<1>4. Cardinality(S) \in Nat /\ Cardinality(T) \in Nat
  BY <1>2, <1>3, FS_CardinalityType
<1>5. ASSUME NEW x \in T \ S PROVE Cardinality(S) + 1 <= Cardinality(T)
  <2>1. S \cup {x} \in SUBSET T
    OBVIOUS
  <2>2. Cardinality(S \cup {x}) = Cardinality(S) + 1
    BY <1>3, <1>5, FS_AddElement
  <2>3. Cardinality(S \cup {x}) <= Cardinality(T)
    BY <1>2, <2>1, FS_Subset
  <2> QED
    BY <2>2, <2>3
<1> QED
  BY <1>3, <1>4, <1>5

\* More payments, more days.
LEMMA Validities ==
  ASSUME NEW m \in Nat, NEW n \in Nat
  PROVE  /\ PURCHASE_VALIDITY_DAYS * m \in Nat
         /\ m <= n => PURCHASE_VALIDITY_DAYS * m <= PURCHASE_VALIDITY_DAYS * n
         /\ m + 1 <= n => PURCHASE_VALIDITY_DAYS * m + PURCHASE_VALIDITY_DAYS
                            <= PURCHASE_VALIDITY_DAYS * n
<1>1. PICK V \in Nat : V = PURCHASE_VALIDITY_DAYS
  BY DaysAssumption
<1>2. \A k \in Nat : V * k \in Nat
  OBVIOUS
<1>3. \A k \in Nat : V * (m + k) = V * m + V * k
  OBVIOUS
<1>4. ASSUME m <= n PROVE V * m <= V * n
  <2>1. n - m \in Nat /\ n = m + (n - m)
    BY <1>4
  <2>2. V * n = V * m + V * (n - m)
    BY <1>3, <2>1
  <2> QED
    BY <1>2, <2>1, <2>2
<1>5. ASSUME m + 1 <= n PROVE V * m + V <= V * n
  <2>1. n - (m + 1) \in Nat /\ n = (m + 1) + (n - (m + 1))
    BY <1>5
  <2>2. V * n = V * (m + 1) + V * (n - (m + 1))
    BY <2>1
  <2>3. V * (m + 1) = V * m + V
    OBVIOUS
  <2> QED
    BY <1>2, <2>1, <2>2, <2>3
<1> QED
  BY <1>1, <1>2, <1>4, <1>5

--------------------------------------------------------------------------------
(* The end of the vigência *)

\* The worker w takes up a request, a job or an event.
Starts(w) ==
  \/ \E u \in Professionals, p \in Plans : Subscribe(w, u, p) \/ ChangePlan(w, u, p)
  \/ \E u \in Contractors : StartPurchase(w, u) \/ StartCancelPurchase(w, u)
  \/ \E i \in InvoiceIds : RequestRefund(w, i)
  \/ \E r \in RefundIds, aprovar \in BOOLEAN : ResolveRefund(w, r, aprovar)
  \/ \E s \in SubscriptionIds : RenewSubscription(w, s)
  \/ \E p \in PurchaseIds : RenewPurchase(w, p) \/ ExpirePurchase(w, p)
  \/ \E i \in InvoiceIds, tipo \in EventTypes : Webhook(w, i, tipo)

FirstSteps ==
  {"createSubscription", "createCharge", "updatePlan", "cancel", "findInvoice", "createRefund",
   "gatewayRefund", "refuse", "revokePlano", "completeJob", "rescheduleExpiry", "expire"}

\* A worker that takes something up is at its first call, or has nothing to do.
LEMMA StartsFresh ==
  ASSUME BillingInv, NEW w \in Workers, Starts(w)
  PROVE  OthersWait(w) /\ (UNCHANGED task \/ task'[w].step \in FirstSteps)
<1> DEFINE Fresh == OthersWait(w) /\ task'[w].step \in FirstSteps
<1>1. ASSUME NEW t, task' = [task EXCEPT ![w] = t], t.step \in FirstSteps
      PROVE  Fresh
  BY <1>1, Begins
<1>2. CASE UNCHANGED task
  BY <1>2 DEF OthersWait
<1>3. ASSUME NEW u, NEW p, Subscribe(w, u, p) \/ ChangePlan(w, u, p) PROVE Fresh
  BY <1>1, <1>3 DEF Subscribe, ChangePlan, Idle, FirstSteps
<1>4. ASSUME NEW u, StartPurchase(w, u) \/ StartCancelPurchase(w, u) PROVE Fresh
  BY <1>1, <1>4 DEF StartPurchase, StartCancelPurchase, Idle, FirstSteps
<1>5. ASSUME NEW i, RequestRefund(w, i) PROVE Fresh
  BY <1>1, <1>5 DEF RequestRefund, Idle, FirstSteps
<1>6. ASSUME NEW r, NEW aprovar \in BOOLEAN, ResolveRefund(w, r, aprovar) PROVE Fresh
  BY <1>1, <1>6 DEF ResolveRefund, Idle, FirstSteps
<1>7. ASSUME NEW s, RenewSubscription(w, s) PROVE Fresh
  BY <1>1, <1>7 DEF RenewSubscription, Idle, FirstSteps
<1>8. ASSUME NEW p, RenewPurchase(w, p) \/ ExpirePurchase(w, p) PROVE Fresh
  BY <1>1, <1>8 DEF RenewPurchase, ExpirePurchase, Idle, FirstSteps
<1>9. ASSUME NEW i, NEW tipo, Webhook(w, i, tipo) PROVE UNCHANGED task \/ Fresh
  BY <1>1, <1>9 DEF Webhook, Idle, FirstSteps
<1> HIDE DEF Fresh
<1>10. UNCHANGED task \/ Fresh
  BY <1>3, <1>4, <1>5, <1>6, <1>7, <1>8, <1>9 DEF Starts
<1> QED
  BY <1>2, <1>10 DEF Fresh

\* Who moves: the worker whose step it is, or one that takes something up.
LEMMA Movers ==
  ASSUME BillingInv, [Next]_vars, NEW w \in Workers
  PROVE  \/ task'[w] = task[w]
         \/ Step(w) \/ Failure(w)
         \/ Starts(w) /\ OthersWait(w) /\ task'[w].step \in FirstSteps
<1>1. ASSUME NEW v \in Workers, Starts(v)
      PROVE  task'[w] = task[w] \/ (Starts(w) /\ OthersWait(w) /\ task'[w].step \in FirstSteps)
  BY <1>1, StartsFresh DEF OthersWait
<1>2. ASSUME NEW v \in Workers, Step(v) \/ Failure(v)
      PROVE  task'[w] = task[w] \/ Step(w) \/ Failure(w)
  <2>1. OthersWait(v)
    BY <1>2, GoesOn DEF Ends, Turns
  <2> QED
    BY <1>2, <2>1 DEF OthersWait
<1>3. ASSUME Request PROVE UNCHANGED task \/ \E v \in Workers : Starts(v)
  BY <1>3 DEF Request, CancelSubscription, Starts
<1>4. ASSUME \/ \E s \in SubscriptionIds : StartRenewSubscription(s)
             \/ \E p \in PurchaseIds : StartRenewPurchase(p) \/ StartExpirePurchase(p)
             \/ \E i \in InvoiceIds, tipo \in EventTypes : Deliver(i, tipo)
      PROVE  \E v \in Workers : Starts(v)
  BY <1>4 DEF StartRenewSubscription, StartRenewPurchase, StartExpirePurchase, Deliver, Starts
<1>5. ASSUME \/ \E i \in InvoiceIds : ExpireInvoice(i) \/ FailDueJob(i) \/ ConfirmPayment(i)
             \/ Tick \/ UNCHANGED vars
      PROVE  UNCHANGED task
  BY <1>5 DEF ExpireInvoice, FailDueJob, ConfirmPayment, Tick, vars
<1> QED
  BY <1>1, <1>2, <1>3, <1>4, <1>5 DEF Next

\* Only a tick moves the clock; failures are counted, history is kept.
LEMMA ClockSteps ==
  ASSUME [Next]_vars
  PROVE  /\ UNCHANGED now \/ Tick
         /\ failures' \in {failures, failures + 1}
         /\ raced \subseteq raced' /\ overtaken \subseteq overtaken'
<1>1. CASE Request
  BY <1>1 DEF Request, Subscribe, ChangePlan, StartPurchase, CancelSubscription,
    StartCancelPurchase, RequestRefund, ResolveRefund, clock
<1>2. ASSUME NEW w \in Workers, Step(w) \/ Failure(w)
      PROVE  /\ UNCHANGED now /\ failures' \in {failures, failures + 1}
             /\ raced \subseteq raced' /\ overtaken \subseteq overtaken'
  BY <1>2
  DEF Step, CreateSubscription, CreateCharge, CreatePurchase, CreateInvoice, ScheduleInvoiceDue,
      SetProximaCobranca, ScheduleSubscriptionRenewal, SetProfessionalPlano, UpdatePlan,
      FindInvoice, MarkPaid, ActivateSubscription, ReadPurchase, ActivatePurchase,
      SetContractorPlano, SchedulePurchaseExpiry, SchedulePurchaseRenewal, CancelPurchase,
      CreateRefund, RefuseRefund, GatewayRefund, MarkReversed, RevokeOrigin, RevokePlano,
      ConcludeRefund, RescheduleExpiry, Expire, CompleteJob, Failure, clock
<1>3. CASE \/ \E s \in SubscriptionIds : StartRenewSubscription(s)
           \/ \E p \in PurchaseIds : StartRenewPurchase(p) \/ StartExpirePurchase(p)
           \/ \E i \in InvoiceIds, tipo \in EventTypes : Deliver(i, tipo)
  BY <1>3 DEF StartRenewSubscription, RenewSubscription, StartRenewPurchase, RenewPurchase,
    StartExpirePurchase, ExpirePurchase, Deliver, Webhook, clock
<1>4. CASE \/ \E i \in InvoiceIds : ExpireInvoice(i) \/ FailDueJob(i) \/ ConfirmPayment(i)
           \/ Tick \/ UNCHANGED vars
  BY <1>4 DEF ExpireInvoice, FailDueJob, ConfirmPayment, Tick, vars, clock
<1> QED
  BY <1>1, <1>2, <1>3, <1>4 DEF Next

\* A purchase that is raced stays so.
LEMMA RacedStays ==
  ASSUME BillingInv, PaymentsInv, [Next]_vars, NEW p, RacedPurchase(p)
  PROVE  RacedPurchase(p)'
<1>1. PICK i \in raced : invoices[i].purchase = p
  BY DEF RacedPurchase
<1>2. i \in InvoiceIds /\ invoices[i].status # "AUSENTE"
  BY DEF PaymentsInv, PaymentRowsOK, BillingInv, TypeOK
<1>3. i \in raced' /\ invoices'[i].purchase = p
  BY <1>1, <1>2, InvoiceColumns, ClockSteps
<1> QED
  BY <1>3 DEF RacedPurchase

\* An invoice that was granted stays so.
LEMMA GrantedStays ==
  ASSUME BillingInv, PaymentsInv, [Next]_vars, NEW p \in PurchaseIds, ~RacedPurchase(p)
  PROVE  Granted(p) \subseteq Granted(p)'
<1> SUFFICES ASSUME NEW i \in Granted(p) PROVE i \in Granted(p)'
  OBVIOUS
<1>1. i \in InvoiceIds /\ invoices[i].purchase = p /\ Settled(i)
  BY DEF Granted, SettledOf
<1>2. invoices'[i].purchase = p /\ Settled(i)'
  BY <1>1, InvoiceColumns, SettledForGood DEF Settled
<1>3. ASSUME NEW w \in Workers, At(w, "webhook", "activateOrigin")', task'[w].invoice = i
      PROVE  FALSE
  <2>1. task'[w].step = "activateOrigin"
    BY <1>3 DEF At
  <2>2. CASE task'[w] = task[w]
    BY <1>3, <2>2 DEF At, Granted
  <2>3. CASE Step(w) \/ Failure(w)
    <3>1. MarkPaid(w) /\ task[w].invoice = i
      BY <1>3, <2>1, <2>3, GoesOn DEF Ends, Turns, ArrivesBy
    <3>2. ~Settled(i)
      BY <1>1, <3>1 DEF MarkPaid, At, PaymentsInv, PaymentOK, RacedPurchase
    <3> QED
      BY <1>1, <3>2
  <2> QED
    BY <2>1, <2>2, <2>3, Movers DEF FirstSteps
<1> QED
  BY <1>1, <1>2, <1>3 DEF Granted, SettledOf

\* The days paid never shrink, and grow by a validity with each payment granted.
LEMMA PaidUntilGrows ==
  ASSUME BillingInv, PaymentsInv, [Next]_vars, NEW p \in PurchaseIds, ~RacedPurchase(p)
  PROVE  /\ PaidUntil(p) \in Nat /\ PaidUntil(p)' \in Nat
         /\ PaidUntil(p) <= PaidUntil(p)'
         /\ \A i \in Granted(p)' : i \notin Granted(p) =>
              PaidUntil(p) + PURCHASE_VALIDITY_DAYS <= PaidUntil(p)'
<1>1. PICK V \in Nat : V = PURCHASE_VALIDITY_DAYS
  BY DaysAssumption
<1>2. Granted(p)' \in SUBSET InvoiceIds /\ Granted(p) \in SUBSET (Granted(p)')
  BY GrantedStays DEF Granted, SettledOf
<1>3. now \in Nat /\ now' \in Nat /\ now <= now'
  <2>1. now' = now \/ now' = now + 1
    BY ClockSteps DEF Tick
  <2> QED
    BY <2>1 DEF BillingInv, TypeOK
<1>4. PICK m \in Nat, n \in Nat :
        /\ m = Cardinality(Granted(p)) /\ n = Cardinality(Granted(p)') /\ m <= n
        /\ \A i \in Granted(p)' : i \notin Granted(p) => m + 1 <= n
  BY <1>2, InvoiceSets
<1>5. PaidUntil(p) = now + V * m /\ PaidUntil(p)' = now' + V * n
  BY <1>1, <1>4 DEF PaidUntil
<1>6. V * m \in Nat /\ V * n \in Nat /\ V * m <= V * n /\ (m + 1 <= n => V * m + V <= V * n)
  BY <1>1, <1>4, Validities
<1> QED
  BY <1>1, <1>3, <1>4, <1>5, <1>6

\* Rows of purchases: inserted by one call, never deleted; only activate moves
\* the end of a vigência.
LEMMA PurchaseSteps ==
  ASSUME BillingInv, [Next]_vars, NEW p \in PurchaseIds
  PROVE  /\ purchases[p].status # "AUSENTE" => purchases'[p].status # "AUSENTE"
         /\ \/ /\ purchases[p].status = "AUSENTE" => purchases'[p].status = "AUSENTE"
               /\ purchases'[p].expiraEm = purchases[p].expiraEm
            \/ \E w \in Workers : /\ CreatePurchase(w) /\ task[w].purchase = p
                                  /\ purchases'[p].expiraEm = 0
            \/ \E w \in Workers : /\ ActivatePurchase(w) /\ task[w].purchase = p
                                  /\ purchases'[p].expiraEm = task[w].date
<1> DEFINE Kept ==
             /\ purchases[p].status = "AUSENTE" <=> purchases'[p].status = "AUSENTE"
             /\ purchases'[p].expiraEm = purchases[p].expiraEm
           Created == \E w \in Workers : /\ CreatePurchase(w) /\ task[w].purchase = p
                                         /\ purchases'[p].expiraEm = 0
           Activated == \E w \in Workers : /\ ActivatePurchase(w) /\ task[w].purchase = p
                                           /\ purchases'[p].expiraEm = task[w].date
<1>1. purchases \in [PurchaseIds -> Purchase]
  BY DEF BillingInv, TypeOK
<1>2. ASSUME UNCHANGED purchases PROVE Kept
  BY <1>2
<1>3. ASSUME NEW w \in Workers, CreatePurchase(w)
      PROVE  Kept \/ (Created /\ purchases'[p].status # "AUSENTE")
  <2>1. CASE task[w].purchase = p
    BY <1>1, <1>3, <2>1 DEF CreatePurchase
  <2>2. CASE task[w].purchase # p
    BY <1>1, <1>3, <2>2 DEF CreatePurchase
  <2> QED
    BY <2>1, <2>2
<1>4. ASSUME NEW w \in Workers, ActivatePurchase(w)
      PROVE  Kept \/ (Activated /\ purchases'[p].status # "AUSENTE")
  <2>1. CASE task[w].purchase = p
    <3>1. purchases'[p].expiraEm = task[w].date /\ purchases'[p].status = "ATIVO"
      BY <1>1, <1>4, <2>1 DEF ActivatePurchase, Purchase
    <3> QED
      BY <1>4, <2>1, <3>1
  <2>2. CASE task[w].purchase # p
    BY <1>1, <1>4, <2>2 DEF ActivatePurchase
  <2> QED
    BY <2>1, <2>2
<1>5. ASSUME NEW w \in Workers, CancelPurchase(w) \/ Expire(w) \/ RevokeOrigin(w) PROVE Kept
  <2>1. \/ UNCHANGED purchases
        \/ /\ purchases[task[w].purchase].status = "ATIVO"
           /\ \E s \in {"CANCELADO", "EXPIRADO"} :
                purchases' = [purchases EXCEPT ![task[w].purchase].status = s]
    BY <1>5 DEF CancelPurchase, Expire, RevokeOrigin
  <2>2. ASSUME NEW s \in {"CANCELADO", "EXPIRADO"}, purchases[task[w].purchase].status = "ATIVO",
               purchases' = [purchases EXCEPT ![task[w].purchase].status = s]
        PROVE  Kept
    BY <1>1, <2>2 DEF Purchase
  <2> QED
    BY <1>2, <2>1, <2>2
<1> HIDE DEF Kept, Created, Activated
<1>6. ASSUME NEW w \in Workers, Step(w) \/ Failure(w)
      PROVE  Kept \/ ((Created \/ Activated) /\ purchases'[p].status # "AUSENTE")
  BY <1>2, <1>3, <1>4, <1>5, <1>6
  DEF Step, CreateSubscription, CreateCharge, CreateInvoice, ScheduleInvoiceDue,
      SetProximaCobranca, ScheduleSubscriptionRenewal, SetProfessionalPlano, UpdatePlan,
      FindInvoice, MarkPaid, ActivateSubscription, ReadPurchase, SetContractorPlano,
      SchedulePurchaseExpiry, SchedulePurchaseRenewal, CreateRefund,
      RefuseRefund, GatewayRefund, MarkReversed, RevokePlano, ConcludeRefund,
      RescheduleExpiry, CompleteJob, Failure, tables
<1>7. ASSUME Request PROVE UNCHANGED purchases
  BY <1>7 DEF Request, Subscribe, ChangePlan, StartPurchase, CancelSubscription,
    StartCancelPurchase, RequestRefund, ResolveRefund, tables
<1>8. ASSUME \/ \E s \in SubscriptionIds : StartRenewSubscription(s)
             \/ \E q \in PurchaseIds : StartRenewPurchase(q) \/ StartExpirePurchase(q)
             \/ \E j \in InvoiceIds, tipo \in EventTypes : Deliver(j, tipo)
             \/ \E j \in InvoiceIds : ExpireInvoice(j) \/ FailDueJob(j) \/ ConfirmPayment(j)
             \/ Tick \/ UNCHANGED vars
      PROVE  UNCHANGED purchases
  BY <1>8 DEF StartRenewSubscription, RenewSubscription, StartRenewPurchase, RenewPurchase,
    StartExpirePurchase, ExpirePurchase, Deliver, Webhook, ExpireInvoice, FailDueJob,
    ConfirmPayment, Tick, vars, tables
<1>9. Kept \/ ((Created \/ Activated) /\ purchases'[p].status # "AUSENTE")
  BY <1>2, <1>6, <1>7, <1>8 DEF Next
<1> QED
  BY <1>9 DEF Kept, Created, Activated

\* purchases.findById: the invoice in hand is granted by this read.
LEMMA ReadGrants ==
  ASSUME BillingInv, PaymentsInv, AccessInv, NEW w \in Workers, ReadPurchase(w), [Next]_vars,
         NEW p, p = task[w].purchase, ~RacedPurchase(p)
  PROVE  task'[w].date <= PaidUntil(p)'
<1>1. p = task[w].purchase
  OBVIOUS
<1>2. PICK i : i = task[w].invoice
  OBVIOUS
<1>3. /\ At(w, "webhook", "activateOrigin") /\ p \in PurchaseIds /\ i \in InvoiceIds
      /\ invoices[i].purchase = p /\ Settled(i)
  BY <1>1, <1>2, WorkerTask DEF ReadPurchase, At, HandlerConsistent, Task
<1>4. /\ task'[w].step = "activatePurchase" /\ OthersWait(w)
      /\ task'[w].date = renewedPurchaseExpiry(purchases[p].expiraEm, now)
  BY <1>1, ReadPurchaseTurns DEF Turns
<1>5. i \notin Granted(p)
  BY <1>2, <1>3 DEF Granted
<1>6. i \in Granted(p)'
  <2>1. Settled(i)' /\ invoices'[i].purchase = p
    BY <1>3, InvoiceColumns, SettledForGood DEF Settled
  <2>2. ASSUME NEW v \in Workers, At(v, "webhook", "activateOrigin")', task'[v].invoice = i
        PROVE  FALSE
    <3>1. v # w
      BY <1>4, <2>2 DEF At
    <3>2. task[v].op = "webhook" /\ task[v].invoice = i
      BY <1>4, <2>2, <3>1 DEF OthersWait, At
    <3> QED
      BY <1>2, <1>3, <2>2, <3>1, <3>2, <1>4
      DEF PaymentsInv, PaymentsDistinct, Crediting, RacedPurchase, OthersWait, At
  <2> QED
    BY <1>3, <2>1, <2>2 DEF Granted, SettledOf
<1>7. PaidUntil(p) + PURCHASE_VALIDITY_DAYS <= PaidUntil(p)' /\ PaidUntil(p) \in Nat
      /\ PaidUntil(p)' \in Nat
  BY <1>3, <1>5, <1>6, PaidUntilGrows
<1>8. /\ purchases[p].expiraEm <= PaidUntil(p) /\ now <= PaidUntil(p)
      /\ purchases[p].expiraEm \in Nat /\ now \in Nat
  <2>1. PURCHASE_VALIDITY_DAYS * Cardinality(Granted(p)) \in Nat
    <3>1. Granted(p) \in SUBSET InvoiceIds
      BY DEF Granted, SettledOf
    <3> QED
      BY <3>1, InvoiceSets, Validities
  <2> QED
    BY <1>3, <2>1 DEF AccessInv, PaidUntil, BillingInv, TypeOK, Purchase
<1>9. task'[w].date <= PaidUntil(p)'
  BY <1>4, <1>7, <1>8, DaysAssumption DEF renewedPurchaseExpiry
<1> QED
  BY <1>9

\* No vigência at first.
LEMMA AccessInit == Init => AccessInv
<1> SUFFICES ASSUME Init PROVE AccessInv
  OBVIOUS
<1>1. ASSUME NEW p \in PurchaseIds PROVE purchases[p].expiraEm <= PaidUntil(p)
  <2>1. Granted(p) \in SUBSET InvoiceIds
    BY DEF Granted, SettledOf
  <2>2. PURCHASE_VALIDITY_DAYS * Cardinality(Granted(p)) \in Nat
    BY <2>1, InvoiceSets, Validities
  <2> QED
    BY <2>2 DEF Init, PaidUntil
<1>2. \A w \in Workers : ~At(w, "webhook", "activatePurchase")
  BY DEF Init, Idle, At
<1> QED
  BY <1>1, <1>2 DEF AccessInv

\* AccessInv after every step.
LEMMA AccessKept ==
  ASSUME BillingInv, PaymentsInv, AccessInv, [Next]_vars
  PROVE  AccessInv'
<1>1. ASSUME NEW p \in PurchaseIds, ~RacedPurchase(p)'
      PROVE  purchases'[p].expiraEm <= PaidUntil(p)'
  <2>0. ~RacedPurchase(p)
    BY <1>1, RacedStays
  <2>1. /\ PaidUntil(p) \in Nat /\ PaidUntil(p)' \in Nat /\ PaidUntil(p) <= PaidUntil(p)'
        /\ purchases[p].expiraEm <= PaidUntil(p) /\ purchases[p].expiraEm \in Nat
    BY <2>0, PaidUntilGrows DEF AccessInv, BillingInv, TypeOK, Purchase
  <2>2. ASSUME NEW w \in Workers, ActivatePurchase(w), task[w].purchase = p
        PROVE  task[w].date <= PaidUntil(p) /\ task[w].date \in Nat
    BY <2>0, <2>2, WorkerTask DEF ActivatePurchase, AccessInv, Task
  <2> QED
    BY <2>1, <2>2, PurchaseSteps
<1>2. ASSUME NEW w \in Workers, At(w, "webhook", "activatePurchase")', NEW p,
             p = task'[w].purchase
      PROVE  p \in PurchaseIds /\ (~RacedPurchase(p)' => task'[w].date <= PaidUntil(p)')
  <2>1. task'[w].step = "activatePurchase"
    BY <1>2 DEF At
  <2>2. CASE task'[w] = task[w]
    <3>1. /\ p \in PurchaseIds /\ task[w].date \in Nat
          /\ ~RacedPurchase(p) => task[w].date <= PaidUntil(p)
      BY <1>2, <2>2, WorkerTask DEF AccessInv, At, Task
    <3>2. ~RacedPurchase(p) =>
            PaidUntil(p) \in Nat /\ PaidUntil(p)' \in Nat /\ PaidUntil(p) <= PaidUntil(p)'
      BY <3>1, PaidUntilGrows
    <3>3. ~RacedPurchase(p)' => ~RacedPurchase(p)
      BY RacedStays
    <3> QED
      BY <2>2, <3>1, <3>2, <3>3
  <2>3. CASE Step(w) \/ Failure(w)
    <3>1. ReadPurchase(w)
      BY <2>1, <2>3, GoesOn DEF Ends, Turns, ArrivesBy
    <3>2. p = task[w].purchase /\ p \in PurchaseIds
      BY <1>2, <3>1, ReadPurchaseTurns, WorkerTask DEF ReadPurchase, Task
    <3>3. ~RacedPurchase(p)' => ~RacedPurchase(p)
      BY RacedStays
    <3> QED
      BY <3>1, <3>2, <3>3, ReadGrants
  <2> QED
    BY <2>1, <2>2, <2>3, Movers DEF FirstSteps
<1>3. ASSUME NEW w \in Workers, At(w, "webhook", "activatePurchase")'
      PROVE  /\ task'[w].purchase \in PurchaseIds
             /\ ~RacedPurchase(task[w].purchase)' =>
                  task'[w].date <= PaidUntil(task[w].purchase)'
  <2>1. PICK p : p = task'[w].purchase
    OBVIOUS
  <2>2. p \in PurchaseIds /\ (~RacedPurchase(p)' => task'[w].date <= PaidUntil(p)')
    BY <1>2, <1>3, <2>1
  <2>3. RacedPurchase(task[w].purchase)' <=> RacedPurchase(p)'
    BY <2>1 DEF RacedPurchase
  <2> QED
    BY <2>1, <2>2, <2>3 DEF PaidUntil, Granted, SettledOf
<1> QED
  BY <1>1, <1>3 DEF AccessInv

\* No vigência outlasts the payments of its purchase, with any number of handlers
\* and wherever they fail, unless two confirmations found an invoice of it payable
\* at once (handleWebhook, renewedPurchaseExpiry).
THEOREM AccessWithinPaymentsAlways == Spec => []AccessWithinPayments
<1>1. Init => AccessInv
  BY AccessInit
<1>2. BillingInv /\ PaymentsInv /\ AccessInv /\ [Next]_vars => AccessInv'
  BY AccessKept
<1>3. BillingInv /\ AccessInv => AccessWithinPayments
  <2> SUFFICES ASSUME BillingInv, AccessInv, NEW p \in PurchaseIds, ~RacedPurchase(p)
               PROVE  purchases[p].expiraEm
                        <= now + PURCHASE_VALIDITY_DAYS * Cardinality(SettledOf(p))
    BY DEF AccessWithinPayments, AccessPaidFor
  <2>1. SettledOf(p) \in SUBSET InvoiceIds /\ Granted(p) \in SUBSET SettledOf(p)
    BY DEF SettledOf, Granted
  <2>2. PICK m \in Nat, n \in Nat :
          m = Cardinality(Granted(p)) /\ n = Cardinality(SettledOf(p)) /\ m <= n
    BY <2>1, InvoiceSets
  <2>3. /\ PURCHASE_VALIDITY_DAYS * m \in Nat /\ PURCHASE_VALIDITY_DAYS * n \in Nat
        /\ PURCHASE_VALIDITY_DAYS * m <= PURCHASE_VALIDITY_DAYS * n
    BY <2>2, Validities
  <2>4. /\ purchases[p].expiraEm <= now + PURCHASE_VALIDITY_DAYS * m
        /\ purchases[p].expiraEm \in Nat /\ now \in Nat
    BY <2>2 DEF AccessInv, PaidUntil, BillingInv, TypeOK, Purchase
  <2> QED
    BY <2>2, <2>3, <2>4
<1>4. Spec => []PaymentsInv
  BY PaymentsInvariance
<1> QED
  BY <1>1, <1>2, <1>3, <1>4, BillingInvariance, PTL DEF Spec

--------------------------------------------------------------------------------
(* The cycles of a subscription *)

\* Rows of subscriptions are never deleted.
LEMMA SubscriptionStays ==
  ASSUME BillingInv, [Next]_vars, NEW s \in SubscriptionIds, subscriptions[s].status # "AUSENTE"
  PROVE  subscriptions'[s].status # "AUSENTE"
<1> DEFINE Stays == subscriptions'[s].status # "AUSENTE"
<1>1. subscriptions \in [SubscriptionIds -> Subscription]
  BY DEF BillingInv, TypeOK
<1>2. ASSUME UNCHANGED subscriptions PROVE Stays
  BY <1>2
<1>3. ASSUME NEW w \in Workers, CreateSubscription(w) PROVE Stays
  BY <1>2, <1>3, CreateSubscriptionAdvances DEF FreeSubscriptions
<1>4. ASSUME NEW w \in Workers, SetProximaCobranca(w) \/ UpdatePlan(w) PROVE Stays
  BY <1>1, <1>4 DEF SetProximaCobranca, UpdatePlan, Subscription
<1>5. ASSUME NEW w \in Workers, ActivateSubscription(w) PROVE Stays
  BY <1>1, <1>5 DEF ActivateSubscription, Subscription
<1>6. ASSUME NEW w \in Workers, RevokeOrigin(w) PROVE Stays
  BY <1>1, <1>6 DEF RevokeOrigin, Subscription
<1>7. ASSUME NEW u, CancelSubscription(u) PROVE Stays
  BY <1>1, <1>7 DEF CancelSubscription, Subscription
<1>8. ASSUME NEW w \in Workers, Step(w) \/ Failure(w) PROVE Stays
  <2> HIDE DEF Stays
  <2> QED
    BY <1>2, <1>3, <1>4, <1>5, <1>6, <1>8
    DEF Step, CreateCharge, CreatePurchase, CreateInvoice, ScheduleInvoiceDue,
        ScheduleSubscriptionRenewal, SetProfessionalPlano, FindInvoice, MarkPaid, ReadPurchase,
        ActivatePurchase, SetContractorPlano, SchedulePurchaseExpiry, SchedulePurchaseRenewal,
        CancelPurchase, CreateRefund, RefuseRefund, GatewayRefund, MarkReversed, RevokePlano,
        ConcludeRefund, RescheduleExpiry, Expire, CompleteJob, Failure, tables
<1>9. ASSUME Request PROVE Stays
  <2> HIDE DEF Stays
  <2> QED
    BY <1>2, <1>7, <1>9 DEF Request, Subscribe, ChangePlan, StartPurchase, StartCancelPurchase,
      RequestRefund, ResolveRefund, tables
<1>10. ASSUME \/ \E r \in SubscriptionIds : StartRenewSubscription(r)
              \/ \E p \in PurchaseIds : StartRenewPurchase(p) \/ StartExpirePurchase(p)
              \/ \E i \in InvoiceIds, tipo \in EventTypes : Deliver(i, tipo)
              \/ \E i \in InvoiceIds : ExpireInvoice(i) \/ FailDueJob(i) \/ ConfirmPayment(i)
              \/ Tick \/ UNCHANGED vars
       PROVE  UNCHANGED subscriptions
  BY <1>10 DEF StartRenewSubscription, RenewSubscription, StartRenewPurchase, RenewPurchase,
    StartExpirePurchase, ExpirePurchase, Deliver, Webhook, ExpireInvoice, FailDueJob,
    ConfirmPayment, Tick, vars, tables
<1> QED
  BY <1>2, <1>8, <1>9, <1>10 DEF Next

\* What becomes of the job that renews s.  The job that is being processed adds
\* the next one under its own id, which is taken: nothing is added.
LEMMA RenewalJobSteps ==
  ASSUME BillingInv, RenewalInv, [Next]_vars, NEW s \in SubscriptionIds
  PROVE  \/ renewJobs'[s] = renewJobs[s]
         \/ \E w \in Workers : RenewSubscription(w, s) /\ renewJobs'[s].state = "active"
         \/ \E w \in Workers :
              /\ ScheduleSubscriptionRenewal(w) /\ task[w].op = "subscribe"
              /\ task[w].subscription = s
              /\ renewJobs'[s] = [state |-> "delayed", at |-> nextCharge(task[w].date)]
         \/ \E w \in Workers :
              /\ task[w].op = "renewSubscription" /\ task[w].subscription = s
              /\ CompleteJob(w) /\ renewJobs'[s].state = "absent"
         \/ \E w \in Workers :
              task[w].op = "renewSubscription" /\ task[w].subscription = s /\ Failure(w)
<1> DEFINE Same == renewJobs'[s] = renewJobs[s]
           Scheduled == \E w \in Workers :
             /\ ScheduleSubscriptionRenewal(w) /\ task[w].op = "subscribe"
             /\ task[w].subscription = s
             /\ renewJobs'[s] = [state |-> "delayed", at |-> nextCharge(task[w].date)]
           Completed == \E w \in Workers :
             /\ task[w].op = "renewSubscription" /\ task[w].subscription = s
             /\ CompleteJob(w) /\ renewJobs'[s].state = "absent"
           Failed == \E w \in Workers :
             task[w].op = "renewSubscription" /\ task[w].subscription = s /\ Failure(w)
<1>1. renewJobs \in [SubscriptionIds -> Job]
  BY DEF BillingInv, TypeOK, Queue
<1>2. ASSUME UNCHANGED renewJobs PROVE Same
  BY <1>2
<1>3. ASSUME NEW w \in Workers, NEW r, RenewSubscription(w, r), r \in SubscriptionIds
      PROVE  Same \/ (r = s /\ renewJobs'[s].state = "active")
  BY <1>1, <1>3 DEF RenewSubscription, Take, Job
<1>4. ASSUME NEW w \in Workers, ScheduleSubscriptionRenewal(w) PROVE Same \/ Scheduled
  <2>1. CASE task[w].subscription # s
    BY <1>1, <1>4, <2>1 DEF ScheduleSubscriptionRenewal, Add
  <2>2. CASE task[w].subscription = s /\ task[w].op = "subscribe"
    BY <1>1, <1>4, <2>2 DEF ScheduleSubscriptionRenewal, Add
  <2>3. CASE task[w].subscription = s /\ task[w].op = "renewSubscription"
    <3>1. renewJobs[s].state = "active"
      BY <2>3 DEF RenewalInv, CycleOK, InCycle
    <3> QED
      BY <1>1, <1>4, <2>3, <3>1 DEF ScheduleSubscriptionRenewal, Add
  <2> QED
    BY <1>4, <2>1, <2>2, <2>3 DEF ScheduleSubscriptionRenewal
<1>5. ASSUME NEW w \in Workers, CompleteJob(w) PROVE Same \/ Completed
  <2>1. CASE task[w].op = "renewSubscription" /\ task[w].subscription = s
    BY <1>1, <1>5, <2>1 DEF CompleteJob, Complete, NoJob
  <2>2. CASE ~(task[w].op = "renewSubscription" /\ task[w].subscription = s)
    BY <1>1, <1>5, <2>2 DEF CompleteJob, Complete
  <2> QED
    BY <2>1, <2>2
<1>6. ASSUME NEW w \in Workers, Failure(w) PROVE Same \/ Failed
  <2>1. CASE ~(task[w].op = "renewSubscription" /\ task[w].subscription = s)
    BY <1>1, <1>6, <2>1 DEF Failure, Abandon, Fail, Stall
  <2> QED
    BY <1>6, <2>1
<1>7. ASSUME NEW w \in Workers, Step(w) \/ Failure(w)
      PROVE  Same \/ Scheduled \/ Completed \/ Failed
  <2> HIDE DEF Same, Scheduled, Completed, Failed
  <2> QED
    BY <1>2, <1>4, <1>5, <1>6, <1>7
    DEF Step, CreateSubscription, CreateCharge, CreatePurchase, CreateInvoice, ScheduleInvoiceDue,
        SetProximaCobranca, SetProfessionalPlano, UpdatePlan, FindInvoice, MarkPaid,
        ActivateSubscription, ReadPurchase, ActivatePurchase, SetContractorPlano,
        SchedulePurchaseExpiry, SchedulePurchaseRenewal, CancelPurchase, CreateRefund,
        RefuseRefund, GatewayRefund, MarkReversed, RevokeOrigin, RevokePlano, ConcludeRefund,
        RescheduleExpiry, Expire, queue
<1>8. ASSUME \/ Request
             \/ \E p \in PurchaseIds : StartRenewPurchase(p) \/ StartExpirePurchase(p)
             \/ \E i \in InvoiceIds, tipo \in EventTypes : Deliver(i, tipo)
             \/ \E i \in InvoiceIds : ExpireInvoice(i) \/ FailDueJob(i) \/ ConfirmPayment(i)
             \/ Tick \/ UNCHANGED vars
      PROVE  UNCHANGED renewJobs
  BY <1>8 DEF Request, Subscribe, ChangePlan, StartPurchase, CancelSubscription,
    StartCancelPurchase, RequestRefund, ResolveRefund, StartRenewPurchase, RenewPurchase,
    StartExpirePurchase, ExpirePurchase, Deliver, Webhook, ExpireInvoice, FailDueJob,
    ConfirmPayment, Tick, vars, queue
<1> HIDE DEF Same, Scheduled, Completed, Failed
<1>9. Same \/ Scheduled \/ Completed \/ Failed
        \/ \E w \in Workers : RenewSubscription(w, s) /\ renewJobs'[s].state = "active"
  BY <1>2, <1>3, <1>7, <1>8 DEF Next, StartRenewSubscription
<1> QED
  BY <1>9 DEF Same, Scheduled, Completed, Failed

\* How a handler comes to be in a cycle.
LEMMA CycleTurns ==
  ASSUME BillingInv, RenewalInv, [Next]_vars, NEW w \in Workers, InCycle(task'[w])
  PROVE  \/ task'[w] = task[w]
         \/ /\ Step(w) /\ InCycle(task[w]) /\ OthersWait(w)
            /\ task'[w].op = task[w].op /\ task'[w].subscription = task[w].subscription
            /\ task'[w].date = task[w].date /\ ArrivesBy(w, task'[w].step)
         \/ /\ CreateSubscription(w) /\ task'[w].op = "subscribe" /\ OthersWait(w)
            /\ task'[w].subscription \in FreeSubscriptions
         \/ \E s \in SubscriptionIds :
              /\ RenewSubscription(w, s) /\ task'[w].op = "renewSubscription" /\ OthersWait(w)
              /\ task'[w].subscription = s
              /\ task'[w].step \in {"createCharge", "createInvoice"} =>
                   task'[w].date = graceUntil(now)
<1>1. CASE task'[w] = task[w]
  BY <1>1
<1>2. CASE CreateSubscription(w)
  BY <1>2, CreateSubscriptionAdvances DEF Ends, Turns, CreateSubscription, At, InCycle
<1>3. CASE (Step(w) \/ Failure(w)) /\ ~CreateSubscription(w)
  <2>1. ~Ends(w)
    BY DEF Ends, InCycle
  <2>2. ~Failure(w)
    BY <2>1, FinishEnds DEF Failure
  <2>3. ~(FindInvoice(w) \/ ReadPurchase(w) \/ ActivateSubscription(w))
    BY <2>1, FindInvoiceTurns, ReadPurchaseTurns, ActivateSubscriptionTurns, FinishEnds
    DEF FindInvoice, ReadPurchase, ActivateSubscription, At, Turns, InCycle
  <2>4. /\ Turns(w, task'[w].step) /\ ArrivesBy(w, task'[w].step)
        /\ task'[w].subscription = task[w].subscription /\ task'[w].date = task[w].date
    BY <1>3, <2>1, <2>3, GoesOn
  <2>5. InCycle(task[w])
    <3>1. task'[w].step = "createInvoice" /\ task'[w].op = "subscribe" => task[w].step = "createCharge"
      BY <2>4 DEF ArrivesBy, CreateCharge, CreatePurchase, At, Turns
    <3>2. task'[w].step = "scheduleInvoiceDue" => task[w].step = "createInvoice"
      BY <2>4 DEF ArrivesBy, CreateInvoice
    <3>3. task'[w].step = "scheduleSubscriptionRenewal" /\ task'[w].op = "subscribe"
            => task[w].step = "scheduleInvoiceDue"
      BY <2>4 DEF ArrivesBy, ScheduleInvoiceDue, SetProximaCobranca, At, Turns
    <3>4. task'[w].step # "createCharge"
      BY <1>3, <2>4 DEF ArrivesBy
    <3> QED
      BY <2>4, <3>1, <3>2, <3>3, <3>4 DEF InCycle, Turns
  <2> QED
    BY <1>3, <2>2, <2>4, <2>5 DEF Turns
<1>4. CASE Starts(w) /\ OthersWait(w)
  <2>1. ASSUME NEW t, task' = [task EXCEPT ![w] = t],
               t.op \in {"changePlan", "purchase", "cancelPurchase", "requestRefund",
                         "resolveRefund", "renewPurchase", "expirePurchase", "webhook"}
        PROVE  ~InCycle(task'[w])
    BY <2>1, Begins DEF InCycle
  <2>2. ASSUME NEW u, NEW p, Subscribe(w, u, p) PROVE FALSE
    <3>1. ASSUME NEW t, task' = [task EXCEPT ![w] = t], t.op \in {"subscribe"},
                 t.step \in {"createSubscription"}
          PROVE  ~InCycle(task'[w])
      BY <3>1, Begins DEF InCycle
    <3>2. ~InCycle(task'[w])
      BY <2>2, <3>1 DEF Subscribe, Idle
    <3> QED
      BY <3>2
  <2>3. ASSUME NEW u, NEW p, \/ ChangePlan(w, u, p) \/ StartPurchase(w, u)
                             \/ StartCancelPurchase(w, u)
        PROVE  ~InCycle(task'[w])
    BY <2>1, <2>3 DEF ChangePlan, StartPurchase, StartCancelPurchase, Idle
  <2>4. ASSUME NEW i, RequestRefund(w, i) PROVE ~InCycle(task'[w])
    BY <2>1, <2>4 DEF RequestRefund, Idle
  <2>5. ASSUME NEW r, NEW aprovar \in BOOLEAN, ResolveRefund(w, r, aprovar)
        PROVE  ~InCycle(task'[w])
    BY <2>1, <2>5 DEF ResolveRefund, Idle
  <2>6. ASSUME NEW p, RenewPurchase(w, p) \/ ExpirePurchase(w, p) PROVE ~InCycle(task'[w])
    BY <2>1, <2>6 DEF RenewPurchase, ExpirePurchase, Idle
  <2>7. ASSUME NEW i, NEW tipo, Webhook(w, i, tipo)
        PROVE  UNCHANGED task \/ ~InCycle(task'[w])
    BY <2>1, <2>7 DEF Webhook, Idle
  <2>8. ASSUME NEW s \in SubscriptionIds, RenewSubscription(w, s)
        PROVE  /\ task'[w].op = "renewSubscription" /\ task'[w].subscription = s
               /\ task'[w].step \in {"createCharge", "createInvoice"} =>
                    task'[w].date = graceUntil(now)
    <3>1. ASSUME NEW t, task' = [task EXCEPT ![w] = t], t.op \in {"renewSubscription"},
                 t.subscription \in {s}
          PROVE  task'[w].op = "renewSubscription" /\ task'[w].subscription = s
      BY <3>1, Begins
    <3>2. task'[w].op = "renewSubscription" /\ task'[w].subscription = s
      BY <2>8, <3>1 DEF RenewSubscription, Idle
    <3>3. ASSUME NEW t, task' = [task EXCEPT ![w] = t], t.step \in {"revokePlano"}
          PROVE  task'[w].step = "revokePlano"
      BY <3>3, Begins
    <3>4. ASSUME NEW t, task' = [task EXCEPT ![w] = t], t.date \in {graceUntil(now)}
          PROVE  task'[w].date = graceUntil(now)
      BY <3>4, Begins
    <3>5. task'[w].step = "revokePlano" \/ task'[w].date = graceUntil(now)
      BY <2>8, <3>3, <3>4 DEF RenewSubscription, Idle
    <3> QED
      BY <3>2, <3>5
  <2> QED
    BY <1>1, <1>4, <2>2, <2>3, <2>4, <2>5, <2>6, <2>7, <2>8 DEF Starts
<1> QED
  BY <1>1, <1>2, <1>3, <1>4, Movers

\* An invoice of a subscription is issued by the handler of its cycle.
LEMMA BilledInCycle ==
  ASSUME BillingInv, RenewalInv, [Next]_vars, NEW s \in SubscriptionIds, NEW i \in InvoiceIds,
         invoices'[i].subscription = s
  PROVE  \/ /\ invoices[i].subscription = s
            /\ invoices'[i].vencimentoEm = invoices[i].vencimentoEm
         \/ \E w \in Workers :
              /\ CreateInvoice(w) /\ InCycle(task[w]) /\ task[w].subscription = s
              /\ task[w].invoice = i /\ invoices'[i].vencimentoEm = task[w].date
<1>1. ASSUME NEW w \in Workers, CreateInvoice(w), task[w].invoice = i
      PROVE  /\ InCycle(task[w]) /\ task[w].subscription = s
             /\ invoices'[i].vencimentoEm = task[w].date
  <2>1. invoices'[i].subscription = task[w].subscription /\ invoices'[i].vencimentoEm = task[w].date
    BY <1>1 DEF CreateInvoice, BillingInv, TypeOK
  <2>2. task[w].subscription # 0
    BY <2>1 DEF SubscriptionIds
  <2> QED
    BY <1>1, <2>1, <2>2 DEF RenewalInv, CycleOK, CreateInvoice
<1> QED
  BY <1>1, InvoiceColumns

\* Between its cycles a subscription is not billed.
LEMMA DueByStays ==
  ASSUME BillingInv, RenewalInv, [Next]_vars, NEW s \in SubscriptionIds, NEW t, DueBy(s, t),
         \A w \in Workers :
           CreateInvoice(w) /\ InCycle(task[w]) => task[w].subscription # s
  PROVE  DueBy(s, t)'
BY BilledInCycle DEF DueBy

\* A cycle holds the job of its subscription until it ends.
LEMMA CycleHoldsJob ==
  ASSUME BillingInv, RenewalInv, [Next]_vars, NEW w \in Workers, InCycle(task[w]),
         InCycle(task'[w]), Step(w) \/ task'[w] = task[w], task'[w].op = task[w].op
  PROVE  renewJobs'[task[w].subscription].state = renewJobs[task[w].subscription].state
<1> DEFINE s == task[w].subscription
<1>1. /\ s \in SubscriptionIds
      /\ renewJobs[s].state = (IF task[w].op = "subscribe" THEN "absent" ELSE "active")
  BY DEF RenewalInv, CycleOK
<1>2. ASSUME NEW v \in Workers, InCycle(task[v]), task[v].subscription = s PROVE v = w
  BY <1>2 DEF RenewalInv, CyclesDistinct
<1>3. ~Ends(w)
  BY DEF Ends, InCycle
<1>4. ~CompleteJob(w) /\ ~Failure(w)
  BY <1>3, FinishEnds DEF CompleteJob, Failure
<1>5. ~(ScheduleSubscriptionRenewal(w) /\ task[w].op = "subscribe")
  BY GotoAdvances DEF ScheduleSubscriptionRenewal, Advances, InCycle, Steps
<1>6. ASSUME NEW v \in Workers, RenewSubscription(v, s) PROVE FALSE
  BY <1>1, <1>6 DEF RenewSubscription, Due
<1>7. ASSUME NEW v \in Workers, ScheduleSubscriptionRenewal(v), task[v].op = "subscribe",
             task[v].subscription = s
      PROVE  FALSE
  <2>1. InCycle(task[v])
    BY <1>7 DEF ScheduleSubscriptionRenewal, InCycle
  <2> QED
    BY <1>2, <1>5, <1>7, <2>1
<1>8. ASSUME NEW v \in Workers, task[v].op = "renewSubscription", task[v].subscription = s,
             CompleteJob(v) \/ Failure(v)
      PROVE  FALSE
  BY <1>2, <1>4, <1>8 DEF InCycle
<1> HIDE DEF s
<1>9. renewJobs'[s].state = renewJobs[s].state
  BY <1>1, <1>6, <1>7, <1>8, RenewalJobSteps
<1> QED
  BY <1>9 DEF s

\* The handler of a cycle holds the job of its subscription after every step.
LEMMA CyclesKept ==
  ASSUME BillingInv, RenewalInv, [Next]_vars, NEW w \in Workers, NEW d, d = task'[w], InCycle(d)
  PROVE  /\ d.subscription \in SubscriptionIds
         /\ renewJobs'[d.subscription].state =
              (IF d.op = "subscribe" THEN "absent" ELSE "active")
<1>1. renewJobs \in [SubscriptionIds -> Job]
  BY DEF BillingInv, TypeOK, Queue
<1>2. CASE InCycle(task[w]) /\ (Step(w) \/ d = task[w]) /\ d.op = task[w].op
           /\ d.subscription = task[w].subscription
  BY <1>2, CycleHoldsJob DEF RenewalInv, CycleOK
<1>3. CASE CreateSubscription(w) /\ d.op = "subscribe" /\ d.subscription \in FreeSubscriptions
  <2>1. /\ d.subscription \in SubscriptionIds
        /\ renewJobs[d.subscription].state = "absent" /\ UNCHANGED renewJobs
    BY <1>3 DEF FreeSubscriptions, RenewalInv, CreateSubscription, queue
  <2> QED
    BY <1>3, <2>1
<1>4. ASSUME NEW s \in SubscriptionIds, RenewSubscription(w, s), d.op = "renewSubscription",
             d.subscription = s
      PROVE  renewJobs'[s].state = "active"
  BY <1>1, <1>4 DEF RenewSubscription, Take, Job
<1>5. InCycle(task'[w])
  OBVIOUS
<1> QED
  BY <1>2, <1>3, <1>4, <1>5, CycleTurns

\* Invoices of subscriptions are issued in cycles only.
LEMMA OpeningsInCycles ==
  ASSUME BillingInv, RenewalInv, [Next]_vars, NEW w \in Workers, NEW d, d = task'[w],
         d.step \in {"createSubscription", "createCharge", "createPurchase", "createInvoice"},
         d.subscription # 0
  PROVE  InCycle(d)
<1>1. CASE d = task[w]
  BY <1>1 DEF RenewalInv, CycleOK
<1>2. CASE Step(w) \/ Failure(w)
  <2>1. ~Ends(w)
    BY DEF Ends
  <2>2. Turns(w, d.step) /\ ArrivesBy(w, d.step)
    BY <1>2, <2>1, GoesOn
  <2>3. CASE CreateSubscription(w)
    BY <2>1, <2>3, CreateSubscriptionAdvances DEF Turns, CreateSubscription, At, InCycle
  <2>4. CASE (CreateCharge(w) \/ CreatePurchase(w)) /\ d.step \in {"createPurchase", "createInvoice"}
    <3>1. task[w].step \in {"createCharge", "createPurchase"}
      BY <2>4 DEF CreateCharge, CreatePurchase, At
    <3>2. d.subscription = task[w].subscription
      <4>1. ~FindInvoice(w) /\ ~CreateSubscription(w)
        BY <3>1 DEF FindInvoice, CreateSubscription, At
      <4> QED
        BY <1>2, <2>1, <4>1, GoesOn
    <3>3. InCycle(task[w]) /\ d.op = task[w].op
      BY <2>2, <3>1, <3>2 DEF RenewalInv, CycleOK, Turns
    <3>4. d.step = "createPurchase" => task[w].op = "purchase"
      BY <2>2 DEF ArrivesBy, CreateCharge, Goto, BillingInv, TypeOK, Task
    <3> QED
      BY <2>4, <3>3, <3>4 DEF InCycle
  <2> QED
    BY <2>2, <2>3, <2>4 DEF ArrivesBy
<1>3. CASE Starts(w) /\ OthersWait(w) /\ d.step \in FirstSteps
  <2>1. ASSUME NEW t, task' = [task EXCEPT ![w] = t], t.subscription \in {0} PROVE FALSE
    BY <2>1, Begins
  <2>2. ASSUME NEW t, task' = [task EXCEPT ![w] = t],
               t.step \in {"updatePlan", "cancel", "findInvoice", "createRefund", "gatewayRefund",
                           "refuse", "completeJob", "rescheduleExpiry", "expire"}
        PROVE  FALSE
    BY <2>2, Begins
  <2>3. ASSUME NEW t, task' = [task EXCEPT ![w] = t], t.op \in {"renewSubscription"}
        PROVE  InCycle(d)
    BY <2>3, Begins DEF InCycle
  <2>4. ASSUME NEW u, NEW p, Subscribe(w, u, p) \/ StartPurchase(w, u) PROVE FALSE
    BY <2>1, <2>4 DEF Subscribe, StartPurchase, Idle
  <2>5. ASSUME NEW u, NEW p, ChangePlan(w, u, p) \/ StartCancelPurchase(w, u) PROVE FALSE
    BY <2>2, <2>5 DEF ChangePlan, StartCancelPurchase, Idle
  <2>6. ASSUME NEW i, RequestRefund(w, i) PROVE FALSE
    BY <2>2, <2>6 DEF RequestRefund, Idle
  <2>7. ASSUME NEW r, NEW aprovar \in BOOLEAN, ResolveRefund(w, r, aprovar) PROVE FALSE
    BY <2>2, <2>7 DEF ResolveRefund, Idle
  <2>8. ASSUME NEW p, RenewPurchase(w, p) \/ ExpirePurchase(w, p) PROVE FALSE
    BY <2>1, <2>2, <2>8 DEF RenewPurchase, ExpirePurchase, Idle
  <2>9. ASSUME NEW i, NEW tipo, Webhook(w, i, tipo) PROVE UNCHANGED task
    BY <2>2, <2>9 DEF Webhook, Idle
  <2>10. ASSUME NEW s, RenewSubscription(w, s) PROVE InCycle(d)
    BY <2>3, <2>10 DEF RenewSubscription, Idle
  <2> QED
    BY <1>1, <1>3, <2>4, <2>5, <2>6, <2>7, <2>8, <2>9, <2>10 DEF Starts
<1> QED
  BY <1>1, <1>2, <1>3, Movers

\* A subscription has one cycle at a time.
LEMMA CyclesStayDistinct ==
  ASSUME BillingInv, RenewalInv, [Next]_vars
  PROVE  CyclesDistinct'
<1> SUFFICES ASSUME NEW v \in Workers, NEW w \in Workers, v # w,
                    InCycle(task'[v]), InCycle(task'[w]),
                    task'[v].subscription = task'[w].subscription
             PROVE  FALSE
  BY DEF CyclesDistinct, InCycle
<1> DEFINE Old(u) == InCycle(task[u]) /\ task'[u].subscription = task[u].subscription
           New(u) == /\ CreateSubscription(u) /\ OthersWait(u)
                     /\ task'[u].subscription \in FreeSubscriptions
           Renewed(u) == /\ OthersWait(u) /\ \E s \in SubscriptionIds :
                                RenewSubscription(u, s) /\ task'[u].subscription = s
<1>1. ASSUME NEW u \in Workers, InCycle(task'[u]) PROVE Old(u) \/ New(u) \/ Renewed(u)
  BY <1>1, CycleTurns
<1>2. ASSUME NEW u \in Workers, NEW x \in Workers, u # x, New(u) \/ Renewed(u),
             InCycle(task'[x]), task'[u].subscription = task'[x].subscription
      PROVE  FALSE
  <2>1. task'[x] = task[x]
    BY <1>2 DEF OthersWait
  <2>2. /\ InCycle(task[x]) /\ task[x].subscription \in SubscriptionIds
        /\ renewJobs[task[x].subscription].state \in {"absent", "active"}
    BY <1>2, <2>1 DEF RenewalInv, CycleOK
  <2>3. subscriptions[task[x].subscription].status # "AUSENTE"
    BY <2>2, WorkerTask DEF HandlerConsistent, SubscriptionIds
  <2>4. CASE New(u)
    BY <1>2, <2>1, <2>3, <2>4 DEF FreeSubscriptions
  <2>5. CASE Renewed(u)
    BY <1>2, <2>1, <2>2, <2>5 DEF RenewSubscription, Due
  <2> QED
    BY <1>2, <2>4, <2>5
<1>3. ~(Old(v) /\ Old(w))
  BY DEF RenewalInv, CyclesDistinct
<1> HIDE DEF Old, New, Renewed
<1> QED
  BY <1>1, <1>2, <1>3

\* A history without failures had none before its last step.
LEMMA NothingFailed ==
  ASSUME BillingInv, [Next]_vars, failures' = 0
  PROVE  failures = 0 /\ \A w \in Workers : ~Failure(w)
<1>1. failures \in Nat
  BY DEF BillingInv, TypeOK
<1> QED
  BY <1>1, ClockSteps DEF Failure

\* The dates of the handler of a cycle.
LEMMA CycleDatesKept ==
  ASSUME BillingInv, RenewalInv, [Next]_vars, failures = 0,
         NEW w \in Workers, NEW d, d = task'[w], InCycle(d)
  PROVE  /\ d.step \in {"createCharge", "createInvoice"} =>
              DueBy(d.subscription, d.date - BILLING_PERIOD_DAYS)'
         /\ d.op = "subscribe" => DueBy(d.subscription, d.date)'
<1> DEFINE s == d.subscription
<1>1. s \in SubscriptionIds
  BY CyclesKept
<1>2. \A v \in Workers : InCycle(task[v]) /\ InCycle(task[w]) /\ v # w =>
        task[v].subscription # task[w].subscription
  BY DEF RenewalInv, CyclesDistinct
<1>3. ASSUME InCycle(task[w]), task[w].subscription = s, task[w].date = d.date,
             task[w].op = d.op, ~CreateInvoice(w),
             d.step \in {"createCharge", "createInvoice"} =>
               task[w].step \in {"createCharge", "createInvoice"}
      PROVE  /\ d.step \in {"createCharge", "createInvoice"} =>
                  DueBy(s, d.date - BILLING_PERIOD_DAYS)'
             /\ d.op = "subscribe" => DueBy(s, d.date)'
  <2>1. /\ d.step \in {"createCharge", "createInvoice"} => DueBy(s, d.date - BILLING_PERIOD_DAYS)
        /\ d.op = "subscribe" => DueBy(s, d.date)
    BY <1>3 DEF RenewalInv, CycleDates
  <2>2. \A v \in Workers : CreateInvoice(v) /\ InCycle(task[v]) => task[v].subscription # s
    BY <1>2, <1>3
  <2>3. ASSUME NEW t, DueBy(s, t) PROVE DueBy(s, t)'
    BY <1>1, <2>2, <2>3, DueByStays
  <2> QED
    BY <2>1, <2>3
<1>4. CASE CreateInvoice(w) /\ InCycle(task[w]) /\ task[w].subscription = s
           /\ task[w].date = d.date /\ task[w].op = d.op
  <2>1. d.step = "scheduleInvoiceDue" /\ d.date \in Nat
    BY <1>4, GotoAdvances, WorkerTask DEF CreateInvoice, Advances, Steps, Task
  <2>2. ASSUME d.op = "subscribe" PROVE DueBy(s, d.date)'
    <3>1. DueBy(s, d.date)
      BY <1>4, <2>2 DEF RenewalInv, CycleDates
    <3> SUFFICES ASSUME NEW i \in InvoiceIds, invoices'[i].subscription = s
                 PROVE  invoices'[i].vencimentoEm <= d.date
      BY DEF DueBy
    <3>2. CASE invoices[i].subscription = s /\ invoices'[i].vencimentoEm = invoices[i].vencimentoEm
      BY <3>1, <3>2 DEF DueBy
    <3>3. ASSUME NEW v \in Workers, InCycle(task[v]), task[v].subscription = s,
                 invoices'[i].vencimentoEm = task[v].date
          PROVE  invoices'[i].vencimentoEm <= d.date
      BY <1>2, <1>4, <2>1, <3>3
    <3> QED
      BY <1>1, <3>2, <3>3, BilledInCycle
  <2> QED
    BY <2>1, <2>2
<1>5. CASE d = task[w]
  <2>1. ~CreateInvoice(w)
    BY <1>5, GotoAdvances DEF CreateInvoice, Advances, Steps
  <2> QED
    BY <1>3, <1>5, <2>1
<1>6. CASE /\ Step(w) /\ InCycle(task[w])
           /\ d.op = task[w].op /\ d.subscription = task[w].subscription
           /\ d.date = task[w].date /\ ArrivesBy(w, d.step)
  <2>1. d.step # "createCharge"
    BY <1>6 DEF ArrivesBy, CreateSubscription, At, InCycle
  <2>2. d.step = "createInvoice" => task[w].step = "createCharge"
    BY <1>6 DEF ArrivesBy, CreateCharge, CreatePurchase, At, InCycle
  <2> QED
    BY <1>3, <1>4, <1>6, <2>1, <2>2
<1>7. CASE CreateSubscription(w) /\ s \in FreeSubscriptions
  <2>1. UNCHANGED invoices /\ subscriptions[s].status = "AUSENTE"
    BY <1>7 DEF CreateSubscription, FreeSubscriptions
  <2>2. \A i \in InvoiceIds : invoices[i].subscription # s
    BY <1>1, <2>1 DEF BillingInv, RowsConsistent, SubscriptionIds
  <2>3. \A t : DueBy(s, t)'
    BY <2>1, <2>2 DEF DueBy
  <2> QED
    BY <2>3
<1>8. CASE /\ RenewSubscription(w, s) /\ d.op = "renewSubscription"
           /\ d.step \in {"createCharge", "createInvoice"} => d.date = graceUntil(now)
  <2>1. /\ UNCHANGED invoices /\ renewJobs[s].state = "delayed" /\ renewJobs[s].at <= now
        /\ DueBy(s, renewJobs[s].at + TRIAL_DAYS - BILLING_PERIOD_DAYS)
    BY <1>1, <1>8 DEF RenewSubscription, Due, RenewalInv, tables
  <2>2. renewJobs[s].at \in Nat /\ now \in Nat /\ \A i \in InvoiceIds : invoices[i].vencimentoEm \in Nat
    BY <1>1 DEF BillingInv, TypeOK, Queue, Job, Invoice
  <2>3. PICK e \in Nat, n \in Nat : e = renewJobs[s].at /\ n = now /\ e <= n
    BY <2>1, <2>2
  <2>4. \A i \in InvoiceIds : invoices[i].subscription = s =>
          invoices[i].vencimentoEm <= n + TRIAL_DAYS - BILLING_PERIOD_DAYS
    <3>1. e + TRIAL_DAYS - BILLING_PERIOD_DAYS <= n + TRIAL_DAYS - BILLING_PERIOD_DAYS
          /\ e + TRIAL_DAYS - BILLING_PERIOD_DAYS \in Int
          /\ n + TRIAL_DAYS - BILLING_PERIOD_DAYS \in Int
      BY <2>3, DaysAssumption
    <3>2. \A i \in InvoiceIds : invoices[i].subscription = s =>
            invoices[i].vencimentoEm <= e + TRIAL_DAYS - BILLING_PERIOD_DAYS
      BY <2>1, <2>3 DEF DueBy
    <3> QED
      BY <2>2, <3>1, <3>2
  <2>5. DueBy(s, n + TRIAL_DAYS - BILLING_PERIOD_DAYS)'
    BY <2>1, <2>4 DEF DueBy
  <2> QED
    <3>1. d.step \in {"createCharge", "createInvoice"} =>
            d.date - BILLING_PERIOD_DAYS = n + TRIAL_DAYS - BILLING_PERIOD_DAYS
      <4>1. d.step \in {"createCharge", "createInvoice"} => d.date = now + TRIAL_DAYS
        BY <1>8 DEF graceUntil
      <4>2. d.step \in {"createCharge", "createInvoice"} => d.date = n + TRIAL_DAYS
        BY <2>3, <4>1
      <4> QED
        BY <4>2, DaysAssumption
    <3> HIDE DEF s
    <3> QED
      BY <1>8, <2>5, <3>1 DEF s
<1>9. InCycle(task'[w])
  OBVIOUS
<1> QED
  BY <1>5, <1>6, <1>7, <1>8, <1>9, CycleTurns

\* The date of the next cycle.
LEMMA RenewalDatesKept ==
  ASSUME BillingInv, RenewalInv, [Next]_vars, failures' = 0,
         NEW s \in SubscriptionIds, renewJobs'[s].state = "delayed",
         NEW t, t = renewJobs'[s].at
  PROVE  DueBy(s, t + TRIAL_DAYS - BILLING_PERIOD_DAYS)'
<1>1. failures = 0 /\ \A w \in Workers : ~Failure(w)
  BY NothingFailed
<1>2. CASE renewJobs'[s] = renewJobs[s]
  <2>1. DueBy(s, t + TRIAL_DAYS - BILLING_PERIOD_DAYS)
    BY <1>1, <1>2 DEF RenewalInv
  <2>2. \A w \in Workers : InCycle(task[w]) => task[w].subscription # s
    BY <1>2 DEF RenewalInv, CycleOK
  <2> QED
    BY <2>1, <2>2, DueByStays
<1>3. ASSUME NEW w \in Workers, ScheduleSubscriptionRenewal(w), task[w].op = "subscribe",
             task[w].subscription = s, t = nextCharge(task[w].date)
      PROVE  DueBy(s, t + TRIAL_DAYS - BILLING_PERIOD_DAYS)'
  <2>1. DueBy(s, task[w].date) /\ UNCHANGED invoices
    BY <1>1, <1>3 DEF RenewalInv, CycleDates, InCycle, ScheduleSubscriptionRenewal, tables
  <2>2. task[w].date \in Nat /\ \A i \in InvoiceIds : invoices[i].vencimentoEm \in Nat
    BY DEF BillingInv, TypeOK, Task, Invoice
  <2>3. PICK e \in Nat : e = task[w].date
    BY <2>2
  <2>4. t + TRIAL_DAYS - BILLING_PERIOD_DAYS = e + TRIAL_DAYS
    BY <1>3, <2>3, DaysAssumption DEF nextCharge
  <2>5. \A i \in InvoiceIds : invoices[i].subscription = s => invoices[i].vencimentoEm <= e + TRIAL_DAYS
    BY <2>1, <2>2, <2>3, DaysAssumption DEF DueBy
  <2> QED
    BY <2>1, <2>4, <2>5 DEF DueBy
<1>4. ASSUME NEW w \in Workers, renewJobs'[s] = [state |-> "delayed", at |-> nextCharge(task[w].date)]
      PROVE  t = nextCharge(task[w].date)
  BY <1>4
<1> QED
  BY <1>1, <1>2, <1>3, <1>4, RenewalJobSteps

\* A new invoice of a subscription falls due a period after the last one.
LEMMA BilledOnceKept ==
  ASSUME BillingInv, BillingInv', RenewalInv, [Next]_vars, failures' = 0,
         NEW i \in InvoiceIds, NEW j \in InvoiceIds, i # j,
         invoices'[i].subscription = invoices'[j].subscription,
         invoices'[i].subscription # 0,
         invoices'[i].vencimentoEm <= invoices'[j].vencimentoEm
  PROVE  invoices'[i].vencimentoEm + BILLING_PERIOD_DAYS <= invoices'[j].vencimentoEm
<1>1. PICK s \in SubscriptionIds : s = invoices'[i].subscription
  BY DEF BillingInv, TypeOK, Invoice
<1>2. /\ failures = 0 /\ \A k \in InvoiceIds : invoices[k].vencimentoEm \in Nat
      /\ \A w \in Workers : task[w].date \in Nat
  BY NothingFailed DEF BillingInv, TypeOK, Invoice, Task
<1>3. ASSUME NEW k \in InvoiceIds, NEW o \in InvoiceIds, k # o,
             invoices'[k].subscription = s, invoices'[o].subscription = s,
             NEW w \in Workers, CreateInvoice(w), InCycle(task[w]), task[w].subscription = s,
             task[w].invoice = k, invoices'[k].vencimentoEm = task[w].date
      PROVE  invoices'[o].vencimentoEm + BILLING_PERIOD_DAYS <= invoices'[k].vencimentoEm
  <2>1. DueBy(s, task[w].date - BILLING_PERIOD_DAYS)
    BY <1>2, <1>3 DEF RenewalInv, CycleDates, CreateInvoice
  <2>2. invoices[o].subscription = s /\ invoices'[o].vencimentoEm = invoices[o].vencimentoEm
    <3>1. ASSUME NEW v \in Workers, InCycle(task[v]), task[v].subscription = s, task[v].invoice = o
          PROVE  FALSE
      <4>1. v = w
        BY <1>3, <3>1 DEF RenewalInv, CyclesDistinct
      <4> QED
        BY <1>3, <3>1, <4>1
    <3> QED
      BY <1>3, <3>1, BilledInCycle
  <2>3. invoices[o].vencimentoEm <= task[w].date - BILLING_PERIOD_DAYS
    BY <2>1, <2>2 DEF DueBy
  <2> QED
    BY <1>2, <1>3, <2>2, <2>3, DaysAssumption
<1>4. ASSUME NEW k \in InvoiceIds, invoices'[k].subscription = s,
             ~(/\ invoices[k].subscription = s
               /\ invoices'[k].vencimentoEm = invoices[k].vencimentoEm)
      PROVE  \E w \in Workers :
               /\ CreateInvoice(w) /\ InCycle(task[w]) /\ task[w].subscription = s
               /\ task[w].invoice = k /\ invoices'[k].vencimentoEm = task[w].date
  BY <1>4, BilledInCycle
<1>5. CASE /\ invoices[i].subscription = s /\ invoices'[i].vencimentoEm = invoices[i].vencimentoEm
           /\ invoices[j].subscription = s /\ invoices'[j].vencimentoEm = invoices[j].vencimentoEm
  BY <1>1, <1>2, <1>5 DEF RenewalInv, NeverBilledTwiceAPeriod, SubscriptionIds
<1>6. CASE ~(/\ invoices[j].subscription = s
             /\ invoices'[j].vencimentoEm = invoices[j].vencimentoEm)
  BY <1>1, <1>3, <1>4, <1>6
<1>7. CASE ~(/\ invoices[i].subscription = s
             /\ invoices'[i].vencimentoEm = invoices[i].vencimentoEm)
  <2>1. invoices'[j].vencimentoEm + BILLING_PERIOD_DAYS <= invoices'[i].vencimentoEm
    BY <1>1, <1>3, <1>4, <1>7
  <2>2. invoices'[i].vencimentoEm \in Nat /\ invoices'[j].vencimentoEm \in Nat
    BY DEF BillingInv, TypeOK, Invoice
  <2> QED
    BY <2>1, <2>2, DaysAssumption
<1> QED
  BY <1>5, <1>6, <1>7

\* No subscription, no job at first.
LEMMA RenewalInit == Init => RenewalInv
<1> SUFFICES ASSUME Init PROVE RenewalInv
  OBVIOUS
<1>1. \A s \in SubscriptionIds : renewJobs[s].state = "absent"
  BY DEF Init, EmptyQueue, NoJob
<1>2. ASSUME NEW w \in Workers
      PROVE  task[w].op = "idle" /\ task[w].step = "idle" /\ task[w].subscription = 0
  BY DEF Init, Idle
<1>3. \A w \in Workers : ~InCycle(task[w]) /\ CycleOK(task[w])
  BY <1>2 DEF InCycle, CycleOK
<1>4. NeverBilledTwiceAPeriod
  BY DEF Init, NeverBilledTwiceAPeriod
<1> QED
  BY <1>1, <1>3, <1>4 DEF RenewalInv, CyclesDistinct, CycleDates

\* RenewalInv after every step.
LEMMA RenewalKept ==
  ASSUME BillingInv, BillingInv', RenewalInv, [Next]_vars
  PROVE  RenewalInv'
<1>1. ASSUME NEW s \in SubscriptionIds, renewJobs'[s].state # "absent"
      PROVE  subscriptions'[s].status # "AUSENTE"
  <2>1. subscriptions[s].status # "AUSENTE"
    <3>1. CASE renewJobs[s].state # "absent"
      BY <3>1 DEF RenewalInv
    <3>2. ASSUME NEW w \in Workers, task[w].subscription = s
          PROVE  subscriptions[s].status # "AUSENTE"
      BY <3>2, WorkerTask DEF HandlerConsistent, SubscriptionIds
    <3>3. ASSUME NEW w \in Workers, RenewSubscription(w, s) PROVE renewJobs[s].state # "absent"
      BY <3>3 DEF RenewSubscription, Due
    <3>4. renewJobs'[s] = renewJobs[s] => renewJobs[s].state # "absent"
      BY <1>1
    <3> QED
      BY <3>1, <3>2, <3>3, <3>4, RenewalJobSteps
  <2> QED
    BY <2>1, SubscriptionStays
<1>2. ASSUME NEW w \in Workers PROVE CycleOK(task[w])'
  <2>1. PICK d : d = task'[w]
    OBVIOUS
  <2>2. /\ InCycle(d) =>
             /\ d.subscription \in SubscriptionIds
             /\ renewJobs'[d.subscription].state =
                  (IF d.op = "subscribe" THEN "absent" ELSE "active")
        /\ d.step \in {"createSubscription", "createCharge", "createPurchase", "createInvoice"}
             /\ d.subscription # 0 => InCycle(d)
    BY <2>1, CyclesKept, OpeningsInCycles
  <2> QED
    BY <2>1, <2>2 DEF CycleOK, InCycle
<1>3. CyclesDistinct'
  BY CyclesStayDistinct
<1>4. ASSUME failures' = 0, NEW w \in Workers PROVE CycleDates(task[w])'
  <2>1. PICK d : d = task'[w]
    OBVIOUS
  <2>2. InCycle(d) =>
          /\ d.step \in {"createCharge", "createInvoice"} =>
               DueBy(d.subscription, d.date - BILLING_PERIOD_DAYS)'
          /\ d.op = "subscribe" => DueBy(d.subscription, d.date)'
    BY <1>4, <2>1, NothingFailed, CycleDatesKept
  <2> QED
    BY <2>1, <2>2 DEF CycleDates, InCycle, DueBy
<1>5. ASSUME failures' = 0, NEW s \in SubscriptionIds, renewJobs'[s].state = "delayed"
      PROVE  DueBy(s, renewJobs[s].at + TRIAL_DAYS - BILLING_PERIOD_DAYS)'
  <2>1. PICK t : t = renewJobs'[s].at
    OBVIOUS
  <2>2. DueBy(s, t + TRIAL_DAYS - BILLING_PERIOD_DAYS)'
    BY <1>5, <2>1, RenewalDatesKept
  <2> QED
    BY <2>1, <2>2 DEF DueBy
<1>6. NeverBilledTwiceAPeriod'
  BY BilledOnceKept DEF NeverBilledTwiceAPeriod
<1> QED
  BY <1>1, <1>2, <1>3, <1>4, <1>5, <1>6 DEF RenewalInv

\* No two invoices of a subscription fall due within a period, as long as nothing
\* fails (subscribe, renewSubscriptionIfDue, the fixed ids of the jobs).
THEOREM NeverBilledTwice == Spec => []NeverBilledTwiceAPeriod
<1>1. Init => RenewalInv
  BY RenewalInit
<1>2. BillingInv /\ BillingInv' /\ RenewalInv /\ [Next]_vars => RenewalInv'
  BY RenewalKept
<1>3. RenewalInv => NeverBilledTwiceAPeriod
  BY DEF RenewalInv
<1> QED
  BY <1>1, <1>2, <1>3, BillingInvariance, PTL DEF Spec

--------------------------------------------------------------------------------
(* The turns of a purchase *)

\* What becomes of the job that renews p.
LEMMA PurchaseJobSteps ==
  ASSUME BillingInv, [Next]_vars, NEW p \in PurchaseIds
  PROVE  \/ purchaseRenewJobs'[p] = purchaseRenewJobs[p]
         \/ \E w \in Workers : RenewPurchase(w, p) /\ purchaseRenewJobs'[p].state = "active"
         \/ \E w \in Workers : SchedulePurchaseRenewal(w) /\ task[w].purchase = p
         \/ \E w \in Workers : CompleteJob(w) /\ purchaseRenewJobs'[p].state = "absent"
         \/ \E w \in Workers : Failure(w)
<1> DEFINE Same == purchaseRenewJobs'[p] = purchaseRenewJobs[p]
           Scheduled == \E w \in Workers : SchedulePurchaseRenewal(w) /\ task[w].purchase = p
           Completed == \E w \in Workers : CompleteJob(w) /\ purchaseRenewJobs'[p].state = "absent"
<1>1. purchaseRenewJobs \in [PurchaseIds -> Job]
  BY DEF BillingInv, TypeOK, Queue
<1>2. ASSUME UNCHANGED purchaseRenewJobs PROVE Same
  BY <1>2
<1>3. ASSUME NEW w \in Workers, NEW q \in PurchaseIds, RenewPurchase(w, q)
      PROVE  Same \/ (q = p /\ purchaseRenewJobs'[p].state = "active")
  BY <1>1, <1>3 DEF RenewPurchase, Take, Job
<1>4. ASSUME NEW w \in Workers, SchedulePurchaseRenewal(w) PROVE Same \/ Scheduled
  <2>1. CASE task[w].purchase # p
    BY <1>1, <1>4, <2>1 DEF SchedulePurchaseRenewal, Add
  <2> QED
    BY <1>4, <2>1
<1>5. ASSUME NEW w \in Workers, CompleteJob(w) PROVE Same \/ Completed
  <2>1. CASE task[w].op = "renewPurchase" /\ task[w].purchase = p
    BY <1>1, <1>5, <2>1 DEF CompleteJob, Complete, NoJob
  <2>2. CASE ~(task[w].op = "renewPurchase" /\ task[w].purchase = p)
    BY <1>1, <1>5, <2>2 DEF CompleteJob, Complete
  <2> QED
    BY <2>1, <2>2
<1> HIDE DEF Same, Scheduled, Completed
<1>6. ASSUME NEW w \in Workers, Step(w)
      PROVE  Same \/ Scheduled \/ Completed
  BY <1>2, <1>4, <1>5, <1>6
  DEF Step, CreateSubscription, CreateCharge, CreatePurchase, CreateInvoice, ScheduleInvoiceDue,
      SetProximaCobranca, ScheduleSubscriptionRenewal, SetProfessionalPlano, UpdatePlan,
      FindInvoice, MarkPaid, ActivateSubscription, ReadPurchase, ActivatePurchase,
      SetContractorPlano, SchedulePurchaseExpiry, CancelPurchase, CreateRefund, RefuseRefund,
      GatewayRefund, MarkReversed, RevokeOrigin, RevokePlano, ConcludeRefund, RescheduleExpiry,
      Expire, queue
<1>7. ASSUME \/ Request
             \/ \E s \in SubscriptionIds : StartRenewSubscription(s)
             \/ \E q \in PurchaseIds : StartExpirePurchase(q)
             \/ \E i \in InvoiceIds, tipo \in EventTypes : Deliver(i, tipo)
             \/ \E i \in InvoiceIds : ExpireInvoice(i) \/ FailDueJob(i) \/ ConfirmPayment(i)
             \/ Tick \/ UNCHANGED vars
      PROVE  UNCHANGED purchaseRenewJobs
  BY <1>7 DEF Request, Subscribe, ChangePlan, StartPurchase, CancelSubscription,
    StartCancelPurchase, RequestRefund, ResolveRefund, StartRenewSubscription, RenewSubscription,
    StartExpirePurchase, ExpirePurchase, Deliver, Webhook, ExpireInvoice, FailDueJob,
    ConfirmPayment, Tick, vars, queue
<1>8. \/ Same \/ Scheduled \/ Completed \/ \E w \in Workers : Failure(w)
      \/ \E w \in Workers : RenewPurchase(w, p) /\ purchaseRenewJobs'[p].state = "active"
  BY <1>2, <1>3, <1>6, <1>7 DEF Next, StartRenewPurchase
<1> QED
  BY <1>8 DEF Same, Scheduled, Completed

\* The calls of a turn, and what w has in hand in each of them.
LEMMA TurnCalls ==
  ASSUME BillingInv, NEW w \in Workers, task[w].purchase # 0,
         \/ CreatePurchase(w) \/ CreateInvoice(w) \/ ReadPurchase(w) \/ ActivatePurchase(w)
         \/ SchedulePurchaseRenewal(w)
  PROVE  Turn(task[w]) /\ task[w].purchase \in PurchaseIds
<1>1. task[w] \in Task
  BY WorkerTask
<1> QED
  BY <1>1 DEF CreatePurchase, CreateInvoice, ReadPurchase, ActivatePurchase,
    SchedulePurchaseRenewal, At, Turn, Task

\* How a handler comes to its turn.
LEMMA TurnSteps ==
  ASSUME BillingInv, [Next]_vars, NEW w \in Workers, Turn(task'[w])
  PROVE  \/ task'[w] = task[w]
         \/ /\ OthersWait(w) /\ task'[w].purchase = task[w].purchase
            /\ ArrivesBy(w, task'[w].step) /\ task'[w].op = task[w].op
            /\ Step(w) /\ (Turn(task[w]) \/ MarkPaid(w))
         \/ OthersWait(w) /\ task'[w].purchase \in FreePurchases /\ UNCHANGED purchaseRenewJobs
         \/ /\ OthersWait(w) /\ task'[w].purchase \in PurchaseIds
            /\ RenewPurchase(w, task'[w].purchase)
<1>1. CASE Step(w) \/ Failure(w)
  <2>1. ~Ends(w)
    BY DEF Ends, Turn
  <2>2. Step(w)
    BY <1>1, <2>1, FinishEnds DEF Failure
  <2>3. Turns(w, task'[w].step) /\ ArrivesBy(w, task'[w].step)
    BY <1>1, <2>1, GoesOn
  <2>4. task'[w].purchase = task[w].purchase
    <3>1. ~FindInvoice(w)
      BY <2>1, FindInvoiceTurns, FinishEnds DEF Turns, Turn
    <3> QED
      BY <1>1, <2>1, <3>1, GoesOn
  <2>5. Turn(task[w]) \/ MarkPaid(w)
    <3>1. CASE task'[w].step \in {"createCharge", "createPurchase", "createInvoice"}
      <4>1. task[w].step \in {"createSubscription", "createCharge", "createPurchase"}
        BY <2>3, <3>1 DEF ArrivesBy, CreateSubscription, CreateCharge, CreatePurchase, At
      <4> QED
        BY <2>4, <4>1 DEF Turn
    <3>2. CASE task'[w].step \in {"activateOrigin", "activatePurchase", "setContractorPlano",
                                  "schedulePurchaseExpiry", "schedulePurchaseRenewal"}
      <4>1. \/ MarkPaid(w)
            \/ /\ task[w].op = "webhook"
               /\ task[w].step \in {"activateOrigin", "activatePurchase", "setContractorPlano",
                                    "schedulePurchaseExpiry"}
        BY <2>3, <3>2 DEF ArrivesBy, ReadPurchase, ActivatePurchase, SetContractorPlano,
          SchedulePurchaseExpiry, At
      <4> QED
        BY <2>4, <4>1 DEF Turn
    <3> QED
      BY <2>3, <3>1, <3>2 DEF Turn, ArrivesBy
  <2> QED
    BY <2>2, <2>3, <2>4, <2>5 DEF Turns
<1>2. CASE Starts(w) /\ OthersWait(w)
  <2>1. ASSUME NEW t, task' = [task EXCEPT ![w] = t], t.purchase \in {0} PROVE FALSE
    BY <2>1, Begins DEF Turn
  <2>2. ASSUME NEW t, task' = [task EXCEPT ![w] = t],
               t.step \in {"updatePlan", "cancel", "findInvoice", "createRefund", "gatewayRefund",
                           "refuse", "completeJob", "rescheduleExpiry", "expire"}
        PROVE  FALSE
    BY <2>2, Begins DEF Turn
  <2>3. ASSUME NEW u, NEW p, Subscribe(w, u, p) \/ ChangePlan(w, u, p) PROVE FALSE
    BY <2>1, <2>3 DEF Subscribe, ChangePlan, Idle
  <2>4. ASSUME NEW u, StartCancelPurchase(w, u) PROVE FALSE
    BY <2>2, <2>4 DEF StartCancelPurchase, Idle
  <2>5. ASSUME NEW i, RequestRefund(w, i) PROVE FALSE
    BY <2>2, <2>5 DEF RequestRefund, Idle
  <2>6. ASSUME NEW r, NEW aprovar \in BOOLEAN, ResolveRefund(w, r, aprovar) PROVE FALSE
    BY <2>2, <2>6 DEF ResolveRefund, Idle
  <2>7. ASSUME NEW s, RenewSubscription(w, s) PROVE FALSE
    BY <2>1, <2>7 DEF RenewSubscription, Idle
  <2>8. ASSUME NEW p, ExpirePurchase(w, p) PROVE FALSE
    <3>1. CASE purchases[p].expiraEm > now
      BY <2>2, <2>8, <3>1 DEF ExpirePurchase, Idle
    <3>2. CASE ~(purchases[p].expiraEm > now)
      BY <2>2, <2>8, <3>2 DEF ExpirePurchase, Idle
    <3> QED
      BY <3>1, <3>2
  <2>9. ASSUME NEW i, NEW tipo, Webhook(w, i, tipo) PROVE UNCHANGED task
    BY <2>2, <2>9 DEF Webhook, Idle
  <2>10. ASSUME NEW u, StartPurchase(w, u)
         PROVE  task'[w].purchase \in FreePurchases /\ UNCHANGED purchaseRenewJobs
    <3>1. ASSUME NEW t, task' = [task EXCEPT ![w] = t], t.purchase \in FreePurchases
          PROVE  task'[w].purchase \in FreePurchases
      BY <3>1, Begins
    <3>2. UNCHANGED purchaseRenewJobs
      BY <2>10 DEF StartPurchase, queue
    <3>3. PICK i \in InvoiceIds, p \in FreePurchases :
            task' = [task EXCEPT ![w] =
              [Idle EXCEPT !.op = "purchase", !.step = "createCharge", !.user = u,
                           !.purchase = p, !.invoice = i, !.date = nextCharge(now)]]
      BY <2>10 DEF StartPurchase, First
    <3> DEFINE k == [Idle EXCEPT !.op = "purchase", !.step = "createCharge", !.user = u,
                                 !.purchase = p, !.invoice = i, !.date = nextCharge(now)]
    <3>5. task' = [task EXCEPT ![w] = k] /\ k.purchase = p
      BY <3>3 DEF Idle
    <3> HIDE DEF k
    <3>4. task'[w].purchase \in FreePurchases
      BY <3>1, <3>3, <3>5
    <3> QED
      BY <3>2, <3>4
  <2>11. ASSUME NEW p \in PurchaseIds, RenewPurchase(w, p) PROVE task'[w].purchase = p
    <3>1. ASSUME NEW t, task' = [task EXCEPT ![w] = t], t.purchase \in {p}
          PROVE  task'[w].purchase = p
      BY <3>1, Begins
    <3> QED
      BY <2>11, <3>1 DEF RenewPurchase, Idle
  <2> QED
    BY <1>2, <2>3, <2>4, <2>5, <2>6, <2>7, <2>8, <2>9, <2>10, <2>11 DEF Starts
<1> QED
  BY <1>1, <1>2, Movers

\* An invoice is open from its issue to its payment.
LEMMA OpenSteps ==
  ASSUME BillingInv, PaymentsInv, [Next]_vars, NEW i \in InvoiceIds, Open(i)'
  PROVE  \/ Open(i) /\ invoices'[i].purchase = invoices[i].purchase
         \/ \E w \in Workers :
              /\ CreateInvoice(w) /\ task[w].invoice = i
              /\ invoices'[i].purchase = task[w].purchase
<1>1. ASSUME NEW w \in Workers, CreateInvoice(w), task[w].invoice = i
      PROVE  invoices'[i].purchase = task[w].purchase
  BY <1>1 DEF CreateInvoice, BillingInv, TypeOK
<1>2. CASE ~\E w \in Workers : CreateInvoice(w) /\ task[w].invoice = i
  <2>1. invoices[i].status # "AUSENTE" /\ invoices'[i].purchase = invoices[i].purchase
    BY <1>2, InvoiceColumns DEF Open
  <2>2. ~Settled(i)
    BY SettledForGood DEF Open, Settled
  <2> QED
    BY <2>1, <2>2 DEF Open, Settled, BillingInv, TypeOK, Invoice
<1> QED
  BY <1>1, <1>2

\* A turn that starts finds neither another one, nor an open invoice, nor a
\* renewal to come.
LEMMA NewTurn ==
  ASSUME BillingInv, PaymentsInv, TurnsExclude, PurchaseRowsOK, [Next]_vars,
         NEW w \in Workers, Turn(task'[w]), NEW p, p = task'[w].purchase, ~RacedPurchase(p)
  PROVE  /\ p \in PurchaseIds
         /\ \/ Turn(task[w]) /\ task[w].purchase = p
            \/ /\ OthersWait(w) /\ task'[w] # task[w]
               /\ \A v \in Workers : Turn(task[v]) => task[v].purchase # p
               /\ \A i \in InvoiceIds : Open(i) /\ Open(i)' => invoices[i].purchase # p
               /\ purchaseRenewJobs'[p].state # "delayed"
<1> DEFINE Fresh ==
      /\ OthersWait(w) /\ task'[w] # task[w]
      /\ \A v \in Workers : Turn(task[v]) => task[v].purchase # p
      /\ \A i \in InvoiceIds : Open(i) /\ Open(i)' => invoices[i].purchase # p
      /\ purchaseRenewJobs'[p].state # "delayed"
<1>1. task[w] \in Task /\ purchaseRenewJobs \in [PurchaseIds -> Job]
  BY WorkerTask DEF BillingInv, TypeOK, Queue
<1>2. CASE task'[w] = task[w]
  BY <1>1, <1>2 DEF Turn, Task
<1>3. CASE OthersWait(w) /\ p = task[w].purchase /\ Turn(task[w])
  BY <1>1, <1>3 DEF Turn, Task
<1>4. CASE OthersWait(w) /\ p = task[w].purchase /\ MarkPaid(w)
  <2>1. PICK i : i = task[w].invoice
    OBVIOUS
  <2>2. /\ i \in InvoiceIds /\ Open(i) /\ invoices[i].purchase = p
    <3>1. /\ i \in InvoiceIds /\ invoices[i].status # "AUSENTE" /\ invoices[i].purchase = p
      BY <1>4, <2>1, WorkerTask DEF MarkPaid, At, HandlerConsistent
    <3>2. i \notin raced
      BY <3>1 DEF RacedPurchase
    <3> QED
      BY <1>4, <2>1, <3>1, <3>2 DEF MarkPaid, At, PaymentsInv, PaymentOK,
        Settled, Open, BillingInv, TypeOK, Invoice
  <2>3. p # 0 /\ p \in PurchaseIds
    BY <1>1, <1>4 DEF Turn, Task
  <2>4. purchaseRenewJobs[p].state # "delayed"
    BY <2>2, <2>3 DEF TurnsExclude
  <2>5. \A v \in Workers : Turn(task[v]) => task[v].purchase # p
    BY <2>2 DEF TurnsExclude
  <2>6. UNCHANGED purchaseRenewJobs /\ task[w].step = "markPaid"
    BY <1>4 DEF MarkPaid, queue, At
  <2>7. task'[w] # task[w]
    BY <2>6 DEF Turn
  <2>8. ~Open(i)'
    BY <1>4, <2>1, <2>2 DEF MarkPaid, Open, BillingInv, TypeOK, Invoice
  <2>9. \A j \in InvoiceIds : Open(j) /\ Open(j)' => invoices[j].purchase # p
    BY <2>2, <2>3, <2>8 DEF TurnsExclude
  <2> QED
    BY <1>4, <2>3, <2>4, <2>5, <2>6, <2>7, <2>9
<1>5. CASE OthersWait(w) /\ p \in FreePurchases /\ UNCHANGED purchaseRenewJobs
  <2>1. /\ p \in PurchaseIds /\ purchases[p].status = "AUSENTE"
        /\ \A v \in Workers : task[v].purchase # p
    BY <1>5 DEF FreePurchases
  <2>2. /\ \A i \in InvoiceIds : invoices[i].purchase # p
        /\ purchaseRenewJobs[p].state = "absent"
    BY <2>1 DEF PurchaseRowsOK
  <2>3. task'[w] # task[w]
    BY <2>1
  <2> QED
    BY <1>5, <2>1, <2>2, <2>3
<1>6. CASE OthersWait(w) /\ p \in PurchaseIds /\ RenewPurchase(w, p)
  <2>1. purchaseRenewJobs[p].state = "delayed" /\ purchaseRenewJobs'[p].state = "active"
    BY <1>1, <1>6 DEF RenewPurchase, Due, Take, Job
  <2>2. Free(w)
    BY <1>6 DEF RenewPurchase
  <2>3. ~Turn(task[w])
    BY <2>2 DEF Free, Idle, Turn
  <2>4. \A v \in Workers : Turn(task[v]) => task[v].purchase # p
    BY <2>1 DEF TurnsExclude
  <2>5. \A i \in InvoiceIds : Open(i) => invoices[i].purchase # p
    BY <1>6, <2>1, BoundsAssumption DEF TurnsExclude, PurchaseIds
  <2> QED
    BY <1>6, <2>1, <2>3, <2>4, <2>5
<1> QED
  BY <1>2, <1>3, <1>4, <1>5, <1>6, TurnSteps

\* An open invoice of a purchase was open before, or its handler has just issued it.
LEMMA OpenOfPurchase ==
  ASSUME BillingInv, PaymentsInv, [Next]_vars,
         NEW i \in InvoiceIds, NEW p \in PurchaseIds, Open(i)', invoices'[i].purchase = p
  PROVE  \/ Open(i) /\ invoices[i].purchase = p
         \/ \E w \in Workers :
              /\ CreateInvoice(w) /\ task[w].invoice = i
              /\ Turn(task[w]) /\ task[w].purchase = p /\ ~Turn(task'[w]) /\ OthersWait(w)
<1>1. ASSUME NEW w \in Workers, CreateInvoice(w), invoices'[i].purchase = task[w].purchase
      PROVE  Turn(task[w]) /\ task[w].purchase = p /\ ~Turn(task'[w]) /\ OthersWait(w)
  <2>1. task[w].purchase = p /\ p # 0 /\ Turn(task[w])
    BY <1>1, TurnCalls, BoundsAssumption DEF PurchaseIds
  <2>2. Advances(w, "scheduleInvoiceDue")
    BY <1>1, GotoAdvances DEF CreateInvoice, Steps
  <2> QED
    BY <2>1, <2>2 DEF Advances, Turn
<1> QED
  BY <1>1, OpenSteps

\* The renewal of a purchase is scheduled at the end of a turn.
LEMMA RenewalScheduled ==
  ASSUME BillingInv, [Next]_vars, \A w \in Workers : ~Failure(w),
         NEW p \in PurchaseIds, purchaseRenewJobs'[p].state = "delayed"
  PROVE  \/ purchaseRenewJobs[p].state = "delayed"
         \/ \E w \in Workers :
              /\ SchedulePurchaseRenewal(w) /\ OthersWait(w)
              /\ Turn(task[w]) /\ task[w].purchase = p /\ ~Turn(task'[w])
<1>1. ASSUME NEW w \in Workers, SchedulePurchaseRenewal(w), task[w].purchase = p
      PROVE  OthersWait(w) /\ Turn(task[w]) /\ ~Turn(task'[w])
  <2>1. p # 0 /\ Turn(task[w])
    BY <1>1, TurnCalls, BoundsAssumption DEF PurchaseIds
  <2>2. Ends(w)
    BY <1>1, FinishEnds DEF SchedulePurchaseRenewal
  <2> QED
    BY <2>1, <2>2 DEF Ends, Turn
<1> QED
  BY <1>1, PurchaseJobSteps

\* A purchase that is not raced has one turn at a time.
LEMMA TurnsExcludeKept ==
  ASSUME BillingInv, PaymentsInv, TurnsExclude, PurchaseRowsOK, [Next]_vars,
         \A w \in Workers : ~Failure(w)
  PROVE  TurnsExclude'
<1> DEFINE Fresh(w, p) ==
      /\ OthersWait(w) /\ task'[w] # task[w]
      /\ \A v \in Workers : Turn(task[v]) => task[v].purchase # p
      /\ \A i \in InvoiceIds : Open(i) /\ Open(i)' => invoices[i].purchase # p
      /\ purchaseRenewJobs'[p].state # "delayed"
    Old(w, p) == Turn(task[w]) /\ task[w].purchase = p
    Issued(w, i, p) ==
      /\ CreateInvoice(w) /\ task[w].invoice = i
      /\ Old(w, p) /\ ~Turn(task'[w]) /\ OthersWait(w)
    Scheduled(w, p) ==
      /\ SchedulePurchaseRenewal(w) /\ OthersWait(w) /\ Old(w, p) /\ ~Turn(task'[w])
<1>0. ASSUME NEW p, ~RacedPurchase(p)' PROVE ~RacedPurchase(p)
  BY <1>0, RacedStays
<1>1. ASSUME NEW w \in Workers, Turn(task'[w]), NEW p, p = task'[w].purchase, ~RacedPurchase(p)
      PROVE  p \in PurchaseIds /\ (Old(w, p) \/ Fresh(w, p))
  BY <1>1, NewTurn
<1>2. ASSUME NEW i \in InvoiceIds, NEW p \in PurchaseIds, Open(i)', invoices'[i].purchase = p
      PROVE  (Open(i) /\ invoices[i].purchase = p) \/ \E w \in Workers : Issued(w, i, p)
  BY <1>2, OpenOfPurchase
<1>3. ASSUME NEW p \in PurchaseIds, purchaseRenewJobs'[p].state = "delayed"
      PROVE  purchaseRenewJobs[p].state = "delayed" \/ \E w \in Workers : Scheduled(w, p)
  BY <1>3, RenewalScheduled
<1>4. ASSUME NEW v \in Workers, NEW w \in Workers, v # w, NEW p, Old(v, p), Old(w, p),
             ~RacedPurchase(p)
      PROVE  FALSE
  BY <1>4 DEF TurnsExclude
<1>5. ASSUME NEW v \in Workers, NEW w \in Workers, NEW i, NEW p, NEW q, Issued(v, i, p),
             Scheduled(w, q)
      PROVE  FALSE
  BY <1>5 DEF CreateInvoice, SchedulePurchaseRenewal, At, OthersWait
<1>6. \A i \in InvoiceIds : invoices'[i].purchase \in PurchaseIds \cup {0}
  BY BillingStep DEF BillingInv, TypeOK, Invoice
<1>7. ASSUME NEW v \in Workers, NEW w \in Workers, v # w, Turn(task'[v]), Turn(task'[w]),
             NEW p, p = task'[v].purchase, p = task'[w].purchase, ~RacedPurchase(p)
      PROVE  FALSE
  <2>1. (Old(v, p) \/ Fresh(v, p)) /\ (Old(w, p) \/ Fresh(w, p))
    BY <1>1, <1>7
  <2> QED
    BY <1>4, <1>7, <2>1 DEF OthersWait
<1>8. ASSUME NEW i \in InvoiceIds, NEW j \in InvoiceIds, i # j, Open(i)', Open(j)',
             NEW p \in PurchaseIds, invoices'[i].purchase = p, invoices'[j].purchase = p,
             ~RacedPurchase(p)
      PROVE  FALSE
  <2> HIDE DEF Issued
  <2>1. /\ (Open(i) /\ invoices[i].purchase = p) \/ \E w \in Workers : Issued(w, i, p)
        /\ (Open(j) /\ invoices[j].purchase = p) \/ \E w \in Workers : Issued(w, j, p)
    BY <1>2, <1>8
  <2>2. p # 0
    BY BoundsAssumption DEF PurchaseIds
  <2>3. CASE Open(i) /\ invoices[i].purchase = p /\ Open(j) /\ invoices[j].purchase = p
    BY <1>8, <2>2, <2>3 DEF TurnsExclude
  <2>4. ASSUME NEW w \in Workers, Issued(w, i, p), Open(j), invoices[j].purchase = p PROVE FALSE
    BY <1>8, <2>4 DEF TurnsExclude, Issued
  <2>5. ASSUME NEW w \in Workers, Issued(w, j, p), Open(i), invoices[i].purchase = p PROVE FALSE
    BY <1>8, <2>5 DEF TurnsExclude, Issued
  <2>6. ASSUME NEW v \in Workers, NEW w \in Workers, Issued(v, i, p), Issued(w, j, p) PROVE FALSE
    BY <1>4, <1>8, <2>6 DEF Issued
  <2> QED
    BY <2>1, <2>3, <2>4, <2>5, <2>6
<1>9. ASSUME NEW w \in Workers, Turn(task'[w]), NEW p, p = task'[w].purchase,
             NEW i \in InvoiceIds, Open(i)', invoices'[i].purchase = p, ~RacedPurchase(p)
      PROVE  FALSE
  <2>1. p \in PurchaseIds /\ (Old(w, p) \/ Fresh(w, p))
    BY <1>1, <1>9
  <2>2. ASSUME NEW v \in Workers, Issued(v, i, p) PROVE FALSE
    BY <1>4, <1>9, <2>1, <2>2
  <2>3. CASE Open(i) /\ invoices[i].purchase = p
    BY <1>9, <2>1, <2>3 DEF TurnsExclude
  <2> QED
    BY <1>2, <1>9, <2>1, <2>2, <2>3
<1>10. ASSUME NEW w \in Workers, Turn(task'[w]), NEW p, p = task'[w].purchase, ~RacedPurchase(p)
       PROVE  purchaseRenewJobs'[p].state # "delayed"
  <2>1. p \in PurchaseIds /\ (Old(w, p) \/ Fresh(w, p))
    BY <1>1, <1>10
  <2>2. ASSUME NEW v \in Workers, Scheduled(v, p), Old(w, p) PROVE FALSE
    BY <1>4, <1>10, <2>2
  <2>3. ASSUME purchaseRenewJobs[p].state = "delayed", Old(w, p) PROVE FALSE
    BY <1>10, <2>3 DEF TurnsExclude
  <2> QED
    BY <1>3, <2>1, <2>2, <2>3
<1>11. ASSUME NEW i \in InvoiceIds, Open(i)', NEW p \in PurchaseIds, invoices'[i].purchase = p,
              purchaseRenewJobs'[p].state = "delayed", ~RacedPurchase(p)
       PROVE  FALSE
  <2> HIDE DEF Issued, Scheduled
  <2>1. /\ (Open(i) /\ invoices[i].purchase = p) \/ \E w \in Workers : Issued(w, i, p)
        /\ purchaseRenewJobs[p].state = "delayed" \/ \E w \in Workers : Scheduled(w, p)
    BY <1>2, <1>3, <1>11
  <2>2. p # 0
    BY BoundsAssumption DEF PurchaseIds
  <2>3. CASE Open(i) /\ invoices[i].purchase = p /\ purchaseRenewJobs[p].state = "delayed"
    BY <1>11, <2>2, <2>3 DEF TurnsExclude
  <2>4. ASSUME NEW w \in Workers, Issued(w, i, p), purchaseRenewJobs[p].state = "delayed"
        PROVE  FALSE
    BY <1>11, <2>4 DEF TurnsExclude, Issued
  <2>5. ASSUME NEW w \in Workers, Scheduled(w, p), Open(i), invoices[i].purchase = p PROVE FALSE
    BY <1>11, <2>5 DEF TurnsExclude, Scheduled
  <2> QED
    BY <1>5, <2>1, <2>3, <2>4, <2>5
<1> HIDE DEF Fresh, Old, Issued, Scheduled
<1>12. ASSUME NEW v \in Workers, NEW w \in Workers, v # w, Turn(task'[v]), Turn(task'[w]),
              NEW p, p = task'[w].purchase, ~RacedPurchase(p)'
       PROVE  task'[v].purchase # p
  BY <1>0, <1>7, <1>12
<1>13. ASSUME NEW i \in InvoiceIds, NEW j \in InvoiceIds, i # j, Open(i)', Open(j)',
              NEW p, p = invoices'[i].purchase, p # 0, ~RacedPurchase(p)'
       PROVE  p # invoices'[j].purchase
  BY <1>0, <1>6, <1>8, <1>13
<1>14. ASSUME NEW w \in Workers, Turn(task'[w]), NEW p, p = task'[w].purchase, ~RacedPurchase(p)'
       PROVE  /\ \A i \in InvoiceIds : Open(i)' => invoices'[i].purchase # p
              /\ purchaseRenewJobs'[p].state # "delayed"
  BY <1>0, <1>9, <1>10, <1>14
<1>15. ASSUME NEW i \in InvoiceIds, Open(i)', NEW p, p = invoices'[i].purchase, p # 0,
              ~RacedPurchase(p)'
       PROVE  purchaseRenewJobs'[p].state # "delayed"
  BY <1>0, <1>6, <1>11, <1>15
<1>16. ASSUME NEW v \in Workers, NEW w \in Workers, v # w, Turn(task'[v]), Turn(task'[w]),
              ~RacedPurchase(task[w].purchase)'
       PROVE  task'[v].purchase # task'[w].purchase
  <2>1. PICK p : p = task'[w].purchase
    OBVIOUS
  <2>2. ~RacedPurchase(p)'
    BY <1>16, <2>1 DEF RacedPurchase
  <2> QED
    BY <1>12, <1>16, <2>1, <2>2
<1>17. ASSUME NEW i \in InvoiceIds, NEW j \in InvoiceIds, i # j, Open(i)', Open(j)',
              invoices'[i].purchase # 0, ~RacedPurchase(invoices[i].purchase)'
       PROVE  invoices'[i].purchase # invoices'[j].purchase
  <2>1. PICK p : p = invoices'[i].purchase
    OBVIOUS
  <2>2. ~RacedPurchase(p)'
    BY <1>17, <2>1 DEF RacedPurchase
  <2> QED
    BY <1>13, <1>17, <2>1, <2>2
<1>18. ASSUME NEW w \in Workers, Turn(task'[w]), ~RacedPurchase(task[w].purchase)'
       PROVE  /\ \A i \in InvoiceIds : Open(i)' => invoices'[i].purchase # task'[w].purchase
              /\ purchaseRenewJobs'[task'[w].purchase].state # "delayed"
  <2>1. PICK p : p = task'[w].purchase
    OBVIOUS
  <2>2. ~RacedPurchase(p)'
    BY <1>18, <2>1 DEF RacedPurchase
  <2> QED
    BY <1>14, <1>18, <2>1, <2>2
<1>19. ASSUME NEW i \in InvoiceIds, Open(i)', invoices'[i].purchase # 0,
              ~RacedPurchase(invoices[i].purchase)'
       PROVE  purchaseRenewJobs'[invoices'[i].purchase].state # "delayed"
  <2>1. PICK p : p = invoices'[i].purchase
    OBVIOUS
  <2>2. ~RacedPurchase(p)'
    BY <1>19, <2>1 DEF RacedPurchase
  <2> QED
    BY <1>15, <1>19, <2>1, <2>2
<1> QED
  BY <1>16, <1>17, <1>18, <1>19 DEF TurnsExclude, Turn

--------------------------------------------------------------------------------
(* The paid time of a purchase *)

\* A handler that has not written its payment goes on to write it.
LEMMA UnwrittenSteps ==
  ASSUME NEW w \in Workers, Step(w), Unwritten(task[w])
  PROVE  ActivateSubscription(w) \/ ReadPurchase(w) \/ ActivatePurchase(w)
<1>1. task[w].op = "webhook" /\ task[w].step \in {"activateOrigin", "activatePurchase"}
  BY DEF Unwritten
<1> QED
  BY <1>1
  DEF Step, At, CreateSubscription, CreateCharge, CreatePurchase, CreateInvoice,
      ScheduleInvoiceDue, SetProximaCobranca, ScheduleSubscriptionRenewal, SetProfessionalPlano,
      UpdatePlan, FindInvoice, MarkPaid, SetContractorPlano, SchedulePurchaseExpiry,
      SchedulePurchaseRenewal, CancelPurchase, CreateRefund, RefuseRefund, GatewayRefund,
      MarkReversed, RevokeOrigin, RevokePlano, ConcludeRefund, RescheduleExpiry, Expire,
      CompleteJob

\* A worker that takes something up was free.
LEMMA StartsFree ==
  ASSUME NEW w \in Workers, Starts(w)
  PROVE  task[w] = Idle
BY DEF Starts, Subscribe, ChangePlan, StartPurchase, StartCancelPurchase, RequestRefund,
  ResolveRefund, RenewSubscription, RenewPurchase, ExpirePurchase, Webhook, Free

\* What the handler of a purchase does next.
LEMMA PurchaseOKStays ==
  ASSUME BillingInv, PaymentsInv, TurnsExclude, PurchaseRowsOK, [Next]_vars,
         NEW w \in Workers, NEW d, d = task[w], task'[w] = d, PurchaseOK(d)
  PROVE  PurchaseOK(d)'
<1>1. d \in Task /\ HandlerConsistent(w)
  BY WorkerTask
<1>2. ASSUME NEW p \in PurchaseIds, NEW v \in Workers, CreatePurchase(v) \/ ActivatePurchase(v),
             task[v].purchase = p, Turn(d), d.purchase = p, ~RacedPurchase(p)
      PROVE  FALSE
  <2>1. Turn(task[v])
    BY <1>2, TurnCalls, BoundsAssumption DEF PurchaseIds
  <2>2. v = w
    BY <1>2, <2>1 DEF TurnsExclude
  <2>3. Advances(w, "createInvoice") \/ Advances(w, "setContractorPlano")
    BY <1>2, <2>2, GotoAdvances DEF CreatePurchase, ActivatePurchase, Steps
  <2>4. d.step \in {"createPurchase", "activatePurchase"}
    BY <1>2, <2>2 DEF CreatePurchase, ActivatePurchase, At
  <2> QED
    BY <2>3, <2>4 DEF Advances
<1>3. ASSUME NEW p \in PurchaseIds, Turn(d), d.purchase = p, ~RacedPurchase(p)
      PROVE  /\ purchases[p].status = "AUSENTE" => purchases'[p].status = "AUSENTE"
             /\ purchases'[p].expiraEm = purchases[p].expiraEm
  BY <1>2, <1>3, PurchaseSteps
<1>4. ASSUME d.op = "purchase", d.step \in {"createCharge", "createPurchase"}
      PROVE  d.purchase # 0 /\ purchases'[d.purchase].status = "AUSENTE"
  <2>1. d.purchase # 0 /\ purchases[d.purchase].status = "AUSENTE" /\ d.purchase \in PurchaseIds
    BY <1>1, <1>4 DEF PurchaseOK, Task
  <2>2. Turn(d)
    BY <1>4, <2>1 DEF Turn
  <2>3. ~RacedPurchase(d.purchase)
    BY <2>1 DEF RacedPurchase, PurchaseRowsOK, BillingInv, TypeOK
  <2> QED
    BY <1>3, <2>1, <2>2, <2>3
<1>5. ASSUME \/ d.op = "purchase" /\ d.step = "createInvoice"
             \/ d.op \in {"webhook", "renewPurchase"} /\ d.purchase # 0
      PROVE  purchases'[d.purchase].status # "AUSENTE"
  <2>1. purchases[d.purchase].status # "AUSENTE" /\ d.purchase # 0
    BY <1>5 DEF PurchaseOK
  <2>2. d.purchase \in PurchaseIds
    BY <1>1, <2>1 DEF Task
  <2> QED
    BY <2>1, <2>2, PurchaseSteps
<1>6. ASSUME d.op = "webhook" PROVE now' = now
  BY <1>6, ClockSteps DEF Tick, Free, Idle
<1>7. ASSUME d.op = "webhook", d.step = "activatePurchase"
      PROVE  /\ d.purchase # 0
             /\ ~RacedPurchase(d.purchase)' =>
                  d.date = renewedPurchaseExpiry(purchases[d.purchase].expiraEm, now)'
  <2> SUFFICES ASSUME ~RacedPurchase(d.purchase)'
               PROVE  d.date = renewedPurchaseExpiry(purchases[d.purchase].expiraEm, now)'
    BY <1>7 DEF PurchaseOK
  <2>1. ~RacedPurchase(d.purchase)
    BY RacedStays
  <2>2. /\ d.purchase # 0 /\ d.purchase \in PurchaseIds
        /\ d.date = renewedPurchaseExpiry(purchases[d.purchase].expiraEm, now)
    BY <1>1, <1>7, <2>1 DEF PurchaseOK, Task
  <2>3. Turn(d)
    BY <1>7, <2>2 DEF Turn
  <2> QED
    BY <1>3, <1>6, <1>7, <2>1, <2>2, <2>3
<1>8. ASSUME Unwritten(d) PROVE invoices'[d.invoice].pagoEm = now'
  <2>1. PICK i : i = d.invoice
    OBVIOUS
  <2>2. /\ d.op = "webhook" /\ d.step \in {"activateOrigin", "activatePurchase"}
        /\ i \in InvoiceIds /\ invoices[i].status # "AUSENTE" /\ invoices[i].pagoEm = now
    BY <1>1, <1>8, <2>1, WorkerTask DEF Unwritten, PurchaseOK, HandlerConsistent
  <2>3. ASSUME NEW v \in Workers, CreateInvoice(v), task[v].invoice = i PROVE FALSE
    BY <2>2, <2>3, WorkerTask DEF CreateInvoice, Opening, HandlerConsistent
  <2>4. ASSUME NEW v \in Workers, MarkPaid(v), task[v].invoice = i
        PROVE  invoices'[i].pagoEm = now
    BY <2>2, <2>4 DEF MarkPaid, BillingInv, TypeOK, Invoice
  <2> QED
    BY <1>6, <2>1, <2>2, <2>3, <2>4, InvoiceColumns
<1> QED
  BY <1>4, <1>5, <1>7, <1>8 DEF PurchaseOK, Unwritten

\* What the handler knows of its purchase after a call that returned.
LEMMA PurchaseOKGoes ==
  ASSUME BillingInv, BillingInv', PaymentsInv, PurchaseRowsOK, [Next]_vars,
         NEW w \in Workers, Step(w), NEW k, k = task[w], PurchaseOK(k), NEW d, d = task'[w]
  PROVE  PurchaseOK(d)'
<1>1. CASE Ends(w)
  BY <1>1 DEF Ends, PurchaseOK, Unwritten
<1>2. CASE ~Ends(w)
  <2>1. /\ d.op = k.op /\ d.invoice = k.invoice /\ ArrivesBy(w, d.step)
        /\ FindInvoice(w) \/ CreateSubscription(w) \/ d.subscription = k.subscription
        /\ FindInvoice(w) \/ d.purchase = k.purchase
    BY <1>2, GoesOn DEF Turns
  <2>2. /\ k \in Task /\ d \in Task /\ HandlerConsistent(w) /\ HandlerConsistent(w)'
    BY WorkerTask DEF BillingInv, TypeOK, HandlersConsistent
  <2>3. ASSUME d.op = "purchase" PROVE d.purchase # 0
    BY <2>1, <2>3 DEF PurchaseOK, FindInvoice, At
  <2>4. ASSUME d.op = "purchase", d.step \in {"createCharge", "createPurchase"}
        PROVE  purchases'[d.purchase].status = "AUSENTE"
    <3>1. CreateCharge(w)
      BY <2>1, <2>4 DEF ArrivesBy, CreateSubscription, At
    <3>2. k.step = "createCharge" /\ UNCHANGED purchases /\ d.purchase = k.purchase
      BY <2>1, <2>4, <3>1 DEF CreateCharge, tables, FindInvoice, At
    <3> QED
      BY <2>1, <2>4, <3>2 DEF PurchaseOK
  <2>5. ASSUME d.op = "purchase", d.step = "createInvoice"
        PROVE  purchases'[d.purchase].status # "AUSENTE"
    <3>1. CreatePurchase(w)
      <4>1. ~CreateCharge(w)
        <5>1. ASSUME CreateCharge(w) PROVE Goto(w, "createPurchase")
          BY <2>1, <2>5, <5>1 DEF CreateCharge
        <5> QED
          BY <2>5, <5>1, GotoAdvances DEF Advances, Steps
      <4> QED
        BY <2>1, <2>5, <4>1 DEF ArrivesBy
    <3>2. d.purchase = k.purchase /\ d.purchase \in PurchaseIds
      BY <2>1, <2>2, <2>3, <2>5 DEF FindInvoice, At, Task
    <3> QED
      BY <3>1, <3>2 DEF CreatePurchase, BillingInv, TypeOK
  <2>6. ASSUME d.op \in {"webhook", "renewPurchase"}, d.purchase # 0
        PROVE  purchases'[d.purchase].status # "AUSENTE"
    <3>1. d.purchase \in PurchaseIds
      BY <2>2, <2>6 DEF Task
    <3>2. CASE FindInvoice(w)
      <4>1. d.op = "webhook" /\ d.step # "findInvoice" /\ UNCHANGED <<invoices, purchases>>
        BY <2>1, <3>2 DEF FindInvoice, At, ArrivesBy, tables
      <4>2. d.invoice \in InvoiceIds /\ invoices[d.invoice].purchase = d.purchase
        <5>1. k.op = "webhook"
          BY <2>1, <4>1
        <5>2. k.invoice \in InvoiceIds
          BY <5>1, WorkerTask
        <5> QED
          BY <2>1, <2>2, <4>1, <5>2 DEF HandlerConsistent
      <4>3. purchases[d.purchase].status # "AUSENTE"
        BY <3>1, <4>2 DEF PurchaseRowsOK
      <4> QED
        BY <4>1, <4>3
    <3>3. CASE d.purchase = k.purchase
      <4>1. purchases[d.purchase].status # "AUSENTE"
        BY <2>1, <2>6, <3>3 DEF PurchaseOK
      <4> QED
        BY <3>1, <4>1, PurchaseSteps
    <3> QED
      BY <2>1, <3>2, <3>3
  <2>7. ASSUME d.step \in {"createSubscription", "createCharge", "createPurchase", "createInvoice"},
               d.purchase # 0
        PROVE  d.op \in {"purchase", "renewPurchase"} /\ d.subscription = 0
    <3>1. ~FindInvoice(w)
      BY <2>7, <1>2, FindInvoiceTurns, FinishEnds DEF Turns
    <3>2. k.step \in {"createSubscription", "createCharge", "createPurchase"}
      BY <2>1, <2>7 DEF ArrivesBy, CreateSubscription, CreateCharge, CreatePurchase, At
    <3>3. k.op \in {"purchase", "renewPurchase"} /\ k.subscription = 0
      BY <2>1, <2>7, <3>1, <3>2 DEF PurchaseOK
    <3>4. ~CreateSubscription(w)
      BY <3>3 DEF CreateSubscription, At
    <3> QED
      BY <2>1, <3>1, <3>3, <3>4
  <2>8. ASSUME d.op = "webhook", d.step = "activatePurchase"
        PROVE  /\ d.purchase # 0
               /\ d.date = renewedPurchaseExpiry(purchases[d.purchase].expiraEm, now)'
    <3>1. ReadPurchase(w)
      BY <2>1, <2>8 DEF ArrivesBy
    <3>2. UNCHANGED <<purchases, now>> /\ k.purchase # 0
      BY <3>1 DEF ReadPurchase, tables, clock
    <3>3. d.purchase = k.purchase
          /\ d.date = renewedPurchaseExpiry(purchases[k.purchase].expiraEm, now)
      BY <3>1, ReadPurchaseTurns
    <3> QED
      BY <3>2, <3>3
  <2>9. ASSUME Unwritten(d) PROVE invoices'[d.invoice].pagoEm = now'
    <3>1. d.invoice \in InvoiceIds
      BY <2>1, <2>9, WorkerTask DEF Unwritten
    <3>2. CASE MarkPaid(w)
      BY <2>1, <3>1, <3>2 DEF MarkPaid, BillingInv, TypeOK, Invoice, clock
    <3>3. CASE ReadPurchase(w)
      <4>1. UNCHANGED <<invoices, now>> /\ Unwritten(k)
        BY <3>3 DEF ReadPurchase, tables, clock, Unwritten, At
      <4> QED
        BY <2>1, <4>1 DEF PurchaseOK
    <3> QED
      BY <2>1, <2>9, <3>2, <3>3 DEF Unwritten, ArrivesBy
  <2> QED
    BY <2>3, <2>4, <2>5, <2>6, <2>7, <2>8, <2>9 DEF PurchaseOK, Unwritten
<1> QED
  BY <1>1, <1>2

\* What a handler that starts knows of its purchase.
LEMMA PurchaseOKStarts ==
  ASSUME BillingInv, PurchaseRowsOK, [Next]_vars, NEW w \in Workers, Starts(w),
         NEW d, d = task'[w], d # task[w]
  PROVE  PurchaseOK(d)'
<1>1. ASSUME NEW t, task' = [task EXCEPT ![w] = t] PROVE d = t
  BY <1>1, Begins
<1>2. ASSUME NEW t, task' = [task EXCEPT ![w] = t],
             t.op \in {"subscribe", "changePlan", "renewSubscription", "cancelPurchase",
                       "expirePurchase", "requestRefund", "resolveRefund", "webhook"},
             t.purchase \in {0}
      PROVE  PurchaseOK(d)'
  <2>1. d.op # "purchase" /\ d.op # "renewPurchase" /\ d.purchase = 0
    BY <1>1, <1>2
  <2>2. d.step \in FirstSteps
    BY StartsFresh, <1>2
  <2> QED
    BY <2>1, <2>2 DEF PurchaseOK, Unwritten, FirstSteps
<1>3. ASSUME NEW t, task' = [task EXCEPT ![w] = t],
             t.op \in {"cancelPurchase", "expirePurchase", "resolveRefund"},
             t.step \in {"cancel", "rescheduleExpiry", "expire", "gatewayRefund", "refuse"}
      PROVE  PurchaseOK(d)'
  <2>1. /\ d.op \in {"cancelPurchase", "expirePurchase", "resolveRefund"}
        /\ d.step \in {"cancel", "rescheduleExpiry", "expire", "gatewayRefund", "refuse"}
    BY <1>1, <1>3
  <2> QED
    BY <2>1 DEF PurchaseOK, Unwritten
<1>4. ASSUME NEW u, NEW p, Subscribe(w, u, p) \/ ChangePlan(w, u, p) PROVE PurchaseOK(d)'
  BY <1>2, <1>4 DEF Subscribe, ChangePlan, Idle
<1>5. ASSUME NEW u, StartCancelPurchase(w, u) PROVE PurchaseOK(d)'
  BY <1>3, <1>5 DEF StartCancelPurchase, Idle
<1>6. ASSUME NEW i, RequestRefund(w, i) PROVE PurchaseOK(d)'
  BY <1>2, <1>6 DEF RequestRefund, Idle
<1>7. ASSUME NEW r, NEW aprovar \in BOOLEAN, ResolveRefund(w, r, aprovar) PROVE PurchaseOK(d)'
  BY <1>3, <1>7 DEF ResolveRefund, Idle
<1>8. ASSUME NEW s, RenewSubscription(w, s) PROVE PurchaseOK(d)'
  BY <1>2, <1>8 DEF RenewSubscription, Idle
<1>9. ASSUME NEW p, ExpirePurchase(w, p) PROVE PurchaseOK(d)'
  <2>1. CASE purchases[p].expiraEm > now
    BY <1>3, <1>9, <2>1 DEF ExpirePurchase, Idle
  <2>2. CASE ~(purchases[p].expiraEm > now)
    BY <1>3, <1>9, <2>2 DEF ExpirePurchase, Idle
  <2> QED
    BY <2>1, <2>2
<1>10. ASSUME NEW i, NEW tipo, Webhook(w, i, tipo) PROVE PurchaseOK(d)'
  <2>1. task' # task
    OBVIOUS
  <2> QED
    BY <1>2, <1>10, <2>1 DEF Webhook, Idle
<1>11. ASSUME NEW u, StartPurchase(w, u) PROVE PurchaseOK(d)'
  <2>1. PICK i \in InvoiceIds, p \in FreePurchases :
          task' = [task EXCEPT ![w] =
            [Idle EXCEPT !.op = "purchase", !.step = "createCharge", !.user = u,
                         !.purchase = p, !.invoice = i, !.date = nextCharge(now)]]
    BY <1>11 DEF StartPurchase, First
  <2>2. /\ d.op = "purchase" /\ d.step = "createCharge" /\ d.purchase = p /\ d.subscription = 0
    BY <1>1, <2>1 DEF Idle
  <2>3. purchases'[p].status = "AUSENTE" /\ p # 0
    BY <1>11, <2>1, BoundsAssumption DEF StartPurchase, tables, FreePurchases, PurchaseIds
  <2> QED
    BY <2>2, <2>3 DEF PurchaseOK, Unwritten
<1>12. ASSUME NEW p \in PurchaseIds, RenewPurchase(w, p) PROVE PurchaseOK(d)'
  <2>1. d.op = "renewPurchase" /\ d.purchase = p /\ d.subscription = 0
    <3>1. CASE task' = [task EXCEPT ![w] =
                 [Idle EXCEPT !.op = "renewPurchase", !.step = "completeJob", !.purchase = p]]
      BY <1>1, <3>1 DEF Idle
    <3>2. ASSUME NEW i, task' = [task EXCEPT ![w] =
                   [Idle EXCEPT !.op = "renewPurchase", !.step = "createCharge",
                                !.user = purchases[p].user, !.purchase = p,
                                !.invoice = i, !.date = purchases[p].expiraEm]]
          PROVE  d.op = "renewPurchase" /\ d.purchase = p /\ d.subscription = 0
      BY <1>1, <3>2 DEF Idle
    <3> QED
      BY <1>12, <3>1, <3>2 DEF RenewPurchase
  <2>2. purchases'[p].status # "AUSENTE"
    BY <1>12 DEF RenewPurchase, Due, tables, PurchaseRowsOK
  <2> QED
    BY <2>1, <2>2 DEF PurchaseOK, Unwritten
<1> QED
  BY <1>4, <1>5, <1>6, <1>7, <1>8, <1>9, <1>10, <1>11, <1>12 DEF Starts

\* What the handlers know of their purchases stays true.
LEMMA PurchasesKnown ==
  ASSUME BillingInv, BillingInv', PaymentsInv, TurnsExclude, PurchaseRowsOK, [Next]_vars,
         \A w \in Workers : ~Failure(w), \A w \in Workers : PurchaseOK(task[w]),
         NEW w \in Workers
  PROVE  PurchaseOK(task[w])'
<1>1. PICK d : d = task'[w]
  OBVIOUS
<1>2. PICK k : k = task[w]
  OBVIOUS
<1>3. PurchaseOK(k)
  BY <1>2
<1>4. PurchaseOK(d)'
  <2>1. CASE d = k
    BY <1>1, <1>2, <1>3, <2>1, PurchaseOKStays
  <2>2. CASE Step(w)
    BY <1>1, <1>2, <1>3, <2>2, PurchaseOKGoes
  <2>3. CASE Starts(w) /\ d # k
    BY <1>1, <1>2, <2>3, PurchaseOKStarts
  <2> QED
    BY <1>1, <1>2, <2>1, <2>2, <2>3, Movers
<1> QED
  BY <1>1, <1>4 DEF PurchaseOK, Unwritten

\* Rows of purchases and of their invoices.
LEMMA PurchaseRowsKept ==
  ASSUME BillingInv, PaymentsInv, PurchaseRowsOK, [Next]_vars,
         \A w \in Workers : ~Failure(w), \A w \in Workers : PurchaseOK(task[w])
  PROVE  PurchaseRowsOK'
<1>1. ASSUME NEW w \in Workers, NEW i \in InvoiceIds, CreateInvoice(w), task[w].invoice = i
      PROVE  /\ invoices'[i].subscription = 0 \/ invoices'[i].purchase = 0
             /\ ~Settled(i)'
             /\ invoices'[i].purchase # 0 =>
                  purchases[invoices'[i].purchase].status # "AUSENTE"
  <2>1. /\ invoices'[i].subscription = task[w].subscription
        /\ invoices'[i].purchase = task[w].purchase /\ invoices'[i].status = "PENDENTE"
    BY <1>1 DEF CreateInvoice, BillingInv, TypeOK
  <2>2. task[w].purchase # 0 =>
          /\ task[w].op \in {"purchase", "renewPurchase"} /\ task[w].subscription = 0
          /\ task[w].step = "createInvoice"
    BY <1>1 DEF CreateInvoice, PurchaseOK
  <2>3. task[w].purchase # 0 => purchases[task[w].purchase].status # "AUSENTE"
    BY <2>2 DEF PurchaseOK
  <2> QED
    BY <2>1, <2>2, <2>3 DEF Settled
<1>2. ASSUME NEW p \in PurchaseIds, purchases'[p].status = "AUSENTE"
      PROVE  /\ purchaseRenewJobs'[p].state = "absent" /\ purchases'[p].expiraEm = 0
             /\ \A i \in InvoiceIds : invoices'[i].purchase # p
  <2>1. purchases[p].status = "AUSENTE" /\ p # 0
    BY <1>2, PurchaseSteps, BoundsAssumption DEF PurchaseIds
  <2>2. /\ purchaseRenewJobs[p].state = "absent" /\ purchases[p].expiraEm = 0
        /\ \A i \in InvoiceIds : invoices[i].purchase # p
    BY <2>1 DEF PurchaseRowsOK
  <2>3. ASSUME NEW w \in Workers, SchedulePurchaseRenewal(w) \/ ActivatePurchase(w),
               task[w].purchase = p
        PROVE  FALSE
    <3>1. task[w].op = "webhook"
      BY <2>3 DEF SchedulePurchaseRenewal, ActivatePurchase, At
    <3> QED
      BY <2>1, <2>3, <3>1 DEF PurchaseOK
  <2>4. ~\E w \in Workers : RenewPurchase(w, p)
    BY <2>2 DEF RenewPurchase, Due
  <2>5. purchaseRenewJobs'[p].state = "absent"
    BY <2>2, <2>3, <2>4, PurchaseJobSteps
  <2>6. purchases'[p].expiraEm = 0
    BY <2>2, <2>3, PurchaseSteps
  <2>7. ASSUME NEW i \in InvoiceIds PROVE invoices'[i].purchase # p
    BY <1>1, <2>1, <2>2, InvoiceColumns
  <2> QED
    BY <2>5, <2>6, <2>7
<1>3. ASSUME NEW i \in InvoiceIds
      PROVE  /\ invoices'[i].subscription = 0 \/ invoices'[i].purchase = 0
             /\ Settled(i)' => invoices'[i].pagoEm <= now'
  <2>1. /\ invoices[i].subscription = 0 \/ invoices[i].purchase = 0
        /\ Settled(i) => invoices[i].pagoEm <= now
    BY DEF PurchaseRowsOK
  <2>2. now \in Nat /\ now' \in Nat /\ now <= now' /\ invoices[i].pagoEm \in Nat
    <3>1. now' = now \/ now' = now + 1
      BY ClockSteps DEF Tick
    <3> QED
      BY <3>1 DEF BillingInv, TypeOK, Invoice
  <2>3. ASSUME NEW w \in Workers, MarkPaid(w), task[w].invoice = i
        PROVE  invoices'[i].pagoEm = now'
    BY <2>3 DEF MarkPaid, BillingInv, TypeOK, Invoice, clock
  <2> QED
    BY <1>1, <2>1, <2>2, <2>3, InvoiceColumns
<1> QED
  BY <1>2, <1>3 DEF PurchaseRowsOK, Settled

\* A payment in the vigência stays there.
LEMMA WrittenStays ==
  ASSUME BillingInv, PaymentsInv, [Next]_vars, NEW p \in PurchaseIds, ~RacedPurchase(p),
         NEW i \in Written(p)
  PROVE  /\ i \in Written(p)' /\ i \in InvoiceIds
         /\ invoices'[i].pagoEm = invoices[i].pagoEm
<1>1. /\ i \in InvoiceIds /\ invoices[i].purchase = p /\ Settled(i)
      /\ invoices[i].status # "AUSENTE" /\ i \notin raced
  BY DEF Written, SettledOf, Settled, RacedPurchase
<1>2. Settled(i)' /\ invoices'[i].purchase = p
  BY <1>1, SettledForGood, InvoiceColumns
<1>3. ASSUME NEW w \in Workers, MarkPaid(w), task[w].invoice = i PROVE FALSE
  BY <1>1, <1>3 DEF MarkPaid, At, PaymentsInv, PaymentOK
<1>4. invoices'[i].pagoEm = invoices[i].pagoEm
  <2>1. ASSUME NEW w \in Workers, CreateInvoice(w), task[w].invoice = i PROVE FALSE
    BY <1>1, <2>1, WorkerTask DEF CreateInvoice, Opening, HandlerConsistent
  <2> QED
    BY <1>1, <1>3, <2>1, InvoiceColumns
<1>5. ASSUME NEW w \in Workers, Unwritten(task'[w]), task'[w].invoice = i PROVE FALSE
  <2>1. ~(Unwritten(task[w]) /\ task[w].invoice = i)
    BY DEF Written
  <2>2. task'[w].step \in {"activateOrigin", "activatePurchase"}
    BY <1>5 DEF Unwritten
  <2>3. CASE Step(w) \/ Failure(w)
    <3>1. ~Ends(w)
      BY <2>2 DEF Ends
    <3>2. task[w].invoice = i /\ (MarkPaid(w) \/ ReadPurchase(w))
      BY <1>5, <2>2, <2>3, <3>1, GoesOn DEF Turns, ArrivesBy
    <3>3. ReadPurchase(w)
      BY <1>3, <3>2
    <3> QED
      BY <2>1, <3>2, <3>3 DEF ReadPurchase, At, Unwritten
  <2> QED
    BY <1>5, <2>1, <2>2, <2>3, Movers DEF FirstSteps
<1> QED
  BY <1>1, <1>2, <1>4, <1>5 DEF Written, SettledOf, Unwritten

\* A payment comes into the vigência by activate.
LEMMA WrittenByActivation ==
  ASSUME BillingInv, PaymentsInv, PurchaseRowsOK, [Next]_vars, \A w \in Workers : ~Failure(w),
         NEW p \in PurchaseIds, NEW i \in Written(p)', i \notin Written(p)
  PROVE  \E w \in Workers :
           ActivatePurchase(w) /\ task[w].invoice = i /\ task[w].purchase = p
<1>1. /\ i \in InvoiceIds /\ invoices'[i].purchase = p /\ Settled(i)'
      /\ \A w \in Workers : ~(Unwritten(task'[w]) /\ task'[w].invoice = i)
  BY DEF Written, SettledOf, Unwritten
<1>2. p # 0
  BY BoundsAssumption DEF PurchaseIds
<1>3. ASSUME NEW w \in Workers, CreateInvoice(w), task[w].invoice = i PROVE FALSE
  BY <1>1, <1>3 DEF CreateInvoice, BillingInv, TypeOK, Settled
<1>4. ASSUME NEW w \in Workers, MarkPaid(w), task[w].invoice = i PROVE FALSE
  <2>1. Advances(w, "activateOrigin") /\ task[w].op = "webhook"
    BY <1>4, GotoAdvances DEF MarkPaid, Steps, At
  <2> QED
    BY <1>1, <1>4, <2>1 DEF Advances, Unwritten
<1>5. Settled(i) /\ invoices[i].purchase = p
  BY <1>1, <1>3, <1>4, InvoiceColumns
<1>6. PICK w \in Workers : Unwritten(task[w]) /\ task[w].invoice = i
  BY <1>1, <1>5 DEF Written, SettledOf
<1>7. task'[w] # task[w]
  BY <1>1, <1>6
<1>8. ~Starts(w)
  BY <1>6, StartsFree DEF Unwritten, Idle
<1>9. ActivateSubscription(w) \/ ReadPurchase(w) \/ ActivatePurchase(w)
  BY <1>6, <1>7, <1>8, Movers, UnwrittenSteps
<1>10. ~ReadPurchase(w)
  <2>1. ASSUME ReadPurchase(w) PROVE Unwritten(task'[w]) /\ task'[w].invoice = i
    BY <1>6, <2>1, ReadPurchaseTurns DEF Turns, Unwritten
  <2> QED
    BY <1>1, <2>1
<1>11. /\ invoices[i].subscription = task[w].subscription
       /\ invoices[i].purchase = task[w].purchase
  BY <1>6, WorkerTask DEF Unwritten, HandlerConsistent
<1>12. ~ActivateSubscription(w)
  BY <1>1, <1>2, <1>5, <1>11 DEF ActivateSubscription, PurchaseRowsOK
<1> QED
  BY <1>5, <1>6, <1>9, <1>10, <1>11, <1>12

\* One payment more.
LEMMA OneMore ==
  ASSUME NEW S \in SUBSET InvoiceIds, NEW j \in InvoiceIds, NEW T \in SUBSET (S \cup {j})
  PROVE  /\ Cardinality(S) \in Nat /\ Cardinality(T) \in Nat
         /\ Cardinality(T) <= Cardinality(S) + 1
<1>1. IsFiniteSet(InvoiceIds)
  BY FS_Interval, BoundsAssumption DEF InvoiceIds
<1>2. IsFiniteSet(S)
  BY <1>1, FS_Subset
<1>3. IsFiniteSet(S \cup {j}) /\ Cardinality(S \cup {j}) <= Cardinality(S) + 1
      /\ Cardinality(S) \in Nat /\ Cardinality(S \cup {j}) \in Nat
  <2>1. IsFiniteSet(S \cup {j})
    BY <1>2, FS_AddElement
  <2>2. Cardinality(S) \in Nat /\ Cardinality(S \cup {j}) \in Nat
    BY <1>2, <2>1, FS_CardinalityType
  <2>3. CASE j \in S
    BY <2>1, <2>2, <2>3, FS_AddElement, <1>2
  <2>4. CASE j \notin S
    BY <1>2, <2>1, <2>2, <2>4, FS_AddElement
  <2> QED
    BY <2>1, <2>2, <2>3, <2>4
<1>4. IsFiniteSet(T) /\ Cardinality(T) <= Cardinality(S \cup {j})
  BY <1>3, FS_Subset
<1>5. Cardinality(T) \in Nat
  BY <1>4, FS_CardinalityType
<1> QED
  BY <1>3, <1>4, <1>5

\* A payment credited by activate adds its validity to what was paid before.
LEMMA PaidTimeActivated ==
  ASSUME BillingInv, PaymentsInv, TurnsExclude, PurchaseRowsOK, PaidTimeIsWritten, [Next]_vars,
         \A w \in Workers : ~Failure(w), \A w \in Workers : PurchaseOK(task[w]),
         NEW p \in PurchaseIds, ~RacedPurchase(p),
         NEW w \in Workers, ActivatePurchase(w), task[w].purchase = p,
         NEW i \in Written(p)', NEW t, t = invoices'[i].pagoEm
  PROVE  purchases'[p].expiraEm >= t + PURCHASE_VALIDITY_DAYS * Cardinality(WrittenSince(p, t)')
<1>1. PICK V \in Nat : V = PURCHASE_VALIDITY_DAYS
  BY DaysAssumption
<1>2. PICK j \in InvoiceIds : j = task[w].invoice
  BY WorkerTask DEF ActivatePurchase, At
<1>3. PICK e \in Nat : e = purchases[p].expiraEm
  BY DEF BillingInv, TypeOK, Purchase
<1>4. PICK n \in Nat : n = now
  BY DEF BillingInv, TypeOK
<1>5. PICK f \in Nat : f = purchases'[p].expiraEm
  BY BillingStep DEF BillingInv, TypeOK, Purchase
<1>6. f >= e + V /\ f >= n + V
  <2>1. task[w].date = renewedPurchaseExpiry(purchases[p].expiraEm, now)
    BY DEF PurchaseOK, ActivatePurchase, At
  <2>2. purchases'[p].expiraEm = task[w].date
    BY DEF ActivatePurchase, BillingInv, TypeOK, Purchase
  <2>3. f = (IF e > n THEN e ELSE n) + V
    BY <1>1, <1>3, <1>4, <1>5, <2>1, <2>2 DEF renewedPurchaseExpiry
  <2> QED
    BY <2>3
<1>7. Written(p)' \subseteq Written(p) \cup {j}
  <2>1. ASSUME NEW k \in Written(p)', k \notin Written(p) PROVE k = j
    <3>1. PICK v \in Workers : ActivatePurchase(v) /\ task[v].invoice = k /\ task[v].purchase = p
      BY <2>1, WrittenByActivation
    <3>2. Turn(task[v]) /\ Turn(task[w])
      BY <3>1, TurnCalls, BoundsAssumption DEF PurchaseIds
    <3>3. v = w
      BY <3>1, <3>2 DEF TurnsExclude
    <3> QED
      BY <1>2, <3>1, <3>3
  <2> QED
    BY <2>1
<1>8. invoices'[j].pagoEm = n /\ t \in Nat
  <2>1. Unwritten(task[w]) /\ UNCHANGED invoices
    BY DEF ActivatePurchase, At, Unwritten
  <2>2. i \in InvoiceIds
    BY DEF Written, SettledOf
  <2> QED
    BY <1>2, <1>4, <2>1, <2>2 DEF PurchaseOK, BillingInv, TypeOK, Invoice
<1>9. WrittenSince(p, t) \in SUBSET InvoiceIds
      /\ WrittenSince(p, t)' \in SUBSET (WrittenSince(p, t) \cup {j})
  <2>1. \A k \in Written(p) : k \in InvoiceIds /\ invoices'[k].pagoEm = invoices[k].pagoEm
    BY WrittenStays
  <2> QED
    BY <1>7, <2>1 DEF WrittenSince
<1>10. PICK a \in Nat, b \in Nat :
         /\ a = Cardinality(WrittenSince(p, t)) /\ b = Cardinality(WrittenSince(p, t)')
         /\ b <= a + 1
  BY <1>2, <1>9, OneMore
<1>11. V * a \in Nat /\ V * b \in Nat /\ V * b <= V * a + V
  <2>1. PICK c \in Nat : c = a + 1
    OBVIOUS
  <2>2. V * b <= V * c
    BY <1>1, <1>10, <2>1, Validities
  <2>3. V * c = V * a + V
    BY <2>1
  <2>4. V * a \in Nat /\ V * b \in Nat
    BY <1>1, Validities
  <2>5. V * c \in Nat
    BY <1>1, <2>1, Validities
  <2> QED
    BY <2>2, <2>3, <2>4, <2>5
<1>12. ASSUME NEW k \in Written(p), invoices[k].pagoEm = t
       PROVE  e >= t + V * a
  BY <1>1, <1>3, <1>10, <1>12 DEF PaidTimeIsWritten
<1>13. f >= t + V * b
  <2>1. CASE i \in Written(p)
    <3>1. e >= t + V * a
      BY <1>12, <2>1, WrittenStays
    <3> QED
      BY <1>6, <1>8, <1>11, <3>1
  <2>2. CASE i \notin Written(p) /\ WrittenSince(p, t) # {}
    <3>1. t = n
      BY <1>7, <1>8, <2>2
    <3>2. PICK k \in Written(p) : invoices[k].pagoEm >= t
      BY <2>2 DEF WrittenSince
    <3>3. invoices[k].pagoEm = t
      <4>1. k \in InvoiceIds /\ Settled(k)
        BY <3>2 DEF Written, SettledOf
      <4>2. invoices[k].pagoEm <= n /\ invoices[k].pagoEm \in Nat
        BY <1>4, <4>1 DEF PurchaseRowsOK, BillingInv, TypeOK, Invoice
      <4> QED
        BY <1>8, <3>1, <3>2, <4>2
    <3>4. e >= t + V * a
      BY <1>12, <3>2, <3>3
    <3> QED
      BY <1>6, <1>8, <1>11, <3>4
  <2>3. CASE i \notin Written(p) /\ WrittenSince(p, t) = {}
    <3>1. t = n
      BY <1>7, <1>8, <2>3
    <3>2. a = 0
      BY <1>10, <2>3, FS_EmptySet
    <3>3. V * b <= V
      <4>1. V * a = 0
        BY <3>2
      <4> QED
        BY <1>11, <4>1
    <3> QED
      BY <1>6, <1>11, <3>1, <3>3
  <2> QED
    BY <2>1, <2>2, <2>3
<1> QED
  BY <1>1, <1>5, <1>10, <1>13

\* What is in the vigência lasts as long as was paid, after every step.
LEMMA PaidTimeKept ==
  ASSUME BillingInv, PaymentsInv, TurnsExclude, PurchaseRowsOK, PaidTimeIsWritten, [Next]_vars,
         \A w \in Workers : ~Failure(w), \A w \in Workers : PurchaseOK(task[w]),
         NEW p \in PurchaseIds, ~RacedPurchase(p),
         NEW i \in Written(p)', NEW t, t = invoices'[i].pagoEm
  PROVE  purchases'[p].expiraEm >= t + PURCHASE_VALIDITY_DAYS * Cardinality(WrittenSince(p, t)')
<1>1. CASE \E w \in Workers : ActivatePurchase(w) /\ task[w].purchase = p
  BY <1>1, PaidTimeActivated
<1>2. CASE ~\E w \in Workers : ActivatePurchase(w) /\ task[w].purchase = p
  <2>1. Written(p)' = Written(p) /\ i \in Written(p)
    BY <1>2, WrittenStays, WrittenByActivation
  <2>2. \A k \in Written(p) : invoices'[k].pagoEm = invoices[k].pagoEm
    BY WrittenStays
  <2>3. WrittenSince(p, t)' = WrittenSince(p, t)
    BY <2>1, <2>2 DEF WrittenSince
  <2>4. t = invoices[i].pagoEm
    BY <2>1, <2>2
  <2>5. purchases[p].expiraEm
          >= t + PURCHASE_VALIDITY_DAYS * Cardinality(WrittenSince(p, t))
    BY <2>1, <2>4 DEF PaidTimeIsWritten
  <2>6. purchases'[p].expiraEm = purchases[p].expiraEm
    <3>1. purchases[p].status # "AUSENTE"
      BY <2>1 DEF PurchaseRowsOK, Written, SettledOf
    <3>2. ASSUME NEW w \in Workers, CreatePurchase(w), task[w].purchase = p PROVE FALSE
      BY <3>1, <3>2 DEF CreatePurchase, At, PurchaseOK
    <3> QED
      BY <1>2, <3>2, PurchaseSteps
  <2> QED
    BY <2>3, <2>5, <2>6
<1> QED
  BY <1>1, <1>2

\* No purchase, no invoice at first.
LEMMA GrantInit == Init => GrantInv
<1> SUFFICES ASSUME Init PROVE GrantInv
  OBVIOUS
<1>1. ASSUME NEW w \in Workers PROVE ~Turn(task[w]) /\ PurchaseOK(task[w])
  BY DEF Init, Idle, Turn, PurchaseOK, Unwritten
<1>2. ASSUME NEW i \in InvoiceIds
      PROVE  ~Open(i) /\ ~Settled(i) /\ invoices[i].purchase = 0 /\ invoices[i].subscription = 0
  BY DEF Init, Open, Settled
<1>3. ASSUME NEW p \in PurchaseIds
      PROVE  purchaseRenewJobs[p].state = "absent" /\ purchases[p].expiraEm = 0 /\ p # 0
  BY BoundsAssumption DEF Init, EmptyQueue, NoJob, PurchaseIds
<1>4. TurnsExclude
  BY <1>1, <1>2 DEF TurnsExclude
<1>5. PurchaseRowsOK
  BY <1>2, <1>3 DEF PurchaseRowsOK
<1>6. PaidTimeIsWritten
  BY <1>2 DEF PaidTimeIsWritten, Written, SettledOf
<1> QED
  BY <1>1, <1>4, <1>5, <1>6 DEF GrantInv

\* GrantInv after every step.
LEMMA GrantKept ==
  ASSUME BillingInv, BillingInv', PaymentsInv, GrantInv, [Next]_vars
  PROVE  GrantInv'
<1> SUFFICES ASSUME failures' = 0
             PROVE  /\ TurnsExclude' /\ PurchaseRowsOK' /\ PaidTimeIsWritten'
                    /\ \A w \in Workers : PurchaseOK(task[w])'
  BY DEF GrantInv
<1>1. failures = 0 /\ \A w \in Workers : ~Failure(w)
  BY NothingFailed
<1>2. /\ TurnsExclude /\ PurchaseRowsOK /\ PaidTimeIsWritten
      /\ \A w \in Workers : PurchaseOK(task[w])
  BY <1>1 DEF GrantInv
<1>3. TurnsExclude'
  BY <1>1, <1>2, TurnsExcludeKept
<1>4. PurchaseRowsOK'
  BY <1>1, <1>2, PurchaseRowsKept
<1>5. ASSUME NEW w \in Workers PROVE PurchaseOK(task[w])'
  BY <1>1, <1>2, PurchasesKnown
<1>6. PaidTimeIsWritten'
  <2>1. ASSUME NEW p \in PurchaseIds, ~RacedPurchase(p)', NEW i \in Written(p)'
        PROVE  purchases'[p].expiraEm >=
                 invoices'[i].pagoEm +
                   PURCHASE_VALIDITY_DAYS * Cardinality(WrittenSince(p, invoices[i].pagoEm)')
    <3>1. PICK t : t = invoices'[i].pagoEm
      OBVIOUS
    <3>2. ~RacedPurchase(p)
      BY <2>1, RacedStays
    <3>3. purchases'[p].expiraEm
            >= t + PURCHASE_VALIDITY_DAYS * Cardinality(WrittenSince(p, t)')
      BY <1>1, <1>2, <3>1, <3>2, PaidTimeKept
    <3> QED
      BY <3>1, <3>3 DEF WrittenSince
  <2> QED
    BY <2>1 DEF PaidTimeIsWritten
<1> QED
  BY <1>3, <1>4, <1>5, <1>6

--------------------------------------------------------------------------------
(* The end of a purchase *)

\* Money is sent back by one call, of one invoice.
LEMMA ReversalSteps ==
  ASSUME BillingInv, [Next]_vars, NEW i \in InvoiceIds
  PROVE  \/ reversals'[i] = reversals[i]
         \/ \E w \in Workers :
              GatewayRefund(w) /\ task[w].invoice = i /\ reversals'[i] = reversals[i] + 1
<1> DEFINE Sent ==
      \E w \in Workers :
        GatewayRefund(w) /\ task[w].invoice = i /\ reversals'[i] = reversals[i] + 1
<1>1. reversals \in [InvoiceIds -> Nat]
  BY DEF BillingInv, TypeOK
<1>2. ASSUME NEW w \in Workers, GatewayRefund(w) PROVE reversals'[i] = reversals[i] \/ Sent
  <2>1. CASE task[w].invoice = i
    BY <1>1, <1>2, <2>1 DEF GatewayRefund
  <2>2. CASE task[w].invoice # i
    BY <1>1, <1>2, <2>2 DEF GatewayRefund
  <2> QED
    BY <2>1, <2>2
<1> HIDE DEF Sent
<1>3. ASSUME NEW w \in Workers, Step(w) \/ Failure(w)
      PROVE  reversals'[i] = reversals[i] \/ Sent
  BY <1>2, <1>3
  DEF Step, CreateSubscription, CreateCharge, CreatePurchase, CreateInvoice, ScheduleInvoiceDue,
      SetProximaCobranca, ScheduleSubscriptionRenewal, SetProfessionalPlano, UpdatePlan,
      FindInvoice, MarkPaid, ActivateSubscription, ReadPurchase, ActivatePurchase,
      SetContractorPlano, SchedulePurchaseExpiry, SchedulePurchaseRenewal, CancelPurchase,
      CreateRefund, RefuseRefund, MarkReversed, RevokeOrigin, RevokePlano, ConcludeRefund,
      RescheduleExpiry, Expire, CompleteJob, Failure, gateway
<1>4. ASSUME \/ Request
             \/ \E s \in SubscriptionIds : StartRenewSubscription(s)
             \/ \E q \in PurchaseIds : StartRenewPurchase(q) \/ StartExpirePurchase(q)
             \/ \E j \in InvoiceIds, tipo \in EventTypes : Deliver(j, tipo)
             \/ \E j \in InvoiceIds : ExpireInvoice(j) \/ FailDueJob(j) \/ ConfirmPayment(j)
             \/ Tick \/ UNCHANGED vars
      PROVE  UNCHANGED reversals
  BY <1>4 DEF Request, Subscribe, ChangePlan, StartPurchase, CancelSubscription,
    StartCancelPurchase, RequestRefund, ResolveRefund, StartRenewSubscription, RenewSubscription,
    StartRenewPurchase, RenewPurchase, StartExpirePurchase, ExpirePurchase, Deliver, Webhook,
    ExpireInvoice, FailDueJob, ConfirmPayment, Tick, vars, gateway
<1> QED
  BY <1>3, <1>4 DEF Next, Sent

\* A purchase is marked expired by its job or by a refund, and the end of its
\* vigência stays where it is.
LEMMA ExpiredSteps ==
  ASSUME BillingInv, [Next]_vars, NEW p \in PurchaseIds, purchases'[p].status = "EXPIRADO"
  PROVE  /\ purchases'[p].expiraEm = purchases[p].expiraEm
         /\ \/ purchases[p].status = "EXPIRADO"
            \/ \E w \in Workers : Expire(w) /\ task[w].purchase = p
            \/ \E w \in Workers : RevokeOrigin(w) /\ task[w].purchase = p
<1> DEFINE Kept == purchases[p].status = "EXPIRADO"
           Expired == \E w \in Workers : Expire(w) /\ task[w].purchase = p
           Revoked == \E w \in Workers : RevokeOrigin(w) /\ task[w].purchase = p
<1>1. purchases \in [PurchaseIds -> Purchase]
  BY DEF BillingInv, TypeOK
<1>2. ASSUME UNCHANGED purchases PROVE Kept
  BY <1>2
<1>3. ASSUME NEW w \in Workers, CreatePurchase(w) \/ ActivatePurchase(w)
      PROVE  Kept /\ task[w].purchase # p
  <2>1. \/ \E r \in Purchase : r.status # "EXPIRADO" /\
               purchases' = [purchases EXCEPT ![task[w].purchase] = r]
        \/ \E e : purchases' = [purchases EXCEPT ![task[w].purchase].status = "ATIVO",
                                                 ![task[w].purchase].expiraEm = e]
    <3>1. CASE CreatePurchase(w)
      <4> DEFINE r == [user |-> task[w].user, status |-> "PENDENTE", expiraEm |-> 0]
      <4>1. r \in Purchase /\ r.status # "EXPIRADO"
        BY WorkerTask DEF Task, Purchase
      <4> QED
        BY <3>1, <4>1 DEF CreatePurchase
    <3>2. CASE ActivatePurchase(w)
      BY <3>2 DEF ActivatePurchase
    <3> QED
      BY <1>3, <3>1, <3>2
  <2> QED
    BY <1>1, <2>1 DEF Purchase
<1>4. ASSUME NEW w \in Workers, CancelPurchase(w) PROVE Kept
  BY <1>1, <1>4 DEF CancelPurchase, Purchase
<1>5. ASSUME NEW w \in Workers, Expire(w) PROVE Kept \/ Expired
  BY <1>1, <1>5 DEF Expire, Purchase
<1>6. ASSUME NEW w \in Workers, RevokeOrigin(w) PROVE Kept \/ Revoked
  <2>1. CASE task[w].purchase = p
    BY <1>6, <2>1
  <2>2. CASE task[w].purchase # p
    <3>1. \/ UNCHANGED purchases
          \/ purchases' = [purchases EXCEPT ![task[w].purchase].status = "EXPIRADO"]
      BY <1>6 DEF RevokeOrigin
    <3> QED
      BY <1>1, <2>2, <3>1
  <2> QED
    BY <2>1, <2>2
<1> HIDE DEF Kept, Expired, Revoked
<1>7. ASSUME NEW w \in Workers, Step(w) \/ Failure(w) PROVE Kept \/ Expired \/ Revoked
  BY <1>2, <1>3, <1>4, <1>5, <1>6, <1>7
  DEF Step, CreateSubscription, CreateCharge, CreateInvoice, ScheduleInvoiceDue,
      SetProximaCobranca, ScheduleSubscriptionRenewal, SetProfessionalPlano, UpdatePlan,
      FindInvoice, MarkPaid, ActivateSubscription, ReadPurchase, SetContractorPlano,
      SchedulePurchaseExpiry, SchedulePurchaseRenewal, CreateRefund,
      RefuseRefund, GatewayRefund, MarkReversed, RevokePlano, ConcludeRefund,
      RescheduleExpiry, CompleteJob, Failure, tables
<1>8. ASSUME \/ Request
             \/ \E s \in SubscriptionIds : StartRenewSubscription(s)
             \/ \E q \in PurchaseIds : StartRenewPurchase(q) \/ StartExpirePurchase(q)
             \/ \E j \in InvoiceIds, tipo \in EventTypes : Deliver(j, tipo)
             \/ \E j \in InvoiceIds : ExpireInvoice(j) \/ FailDueJob(j) \/ ConfirmPayment(j)
             \/ Tick \/ UNCHANGED vars
      PROVE  UNCHANGED purchases
  BY <1>8 DEF Request, Subscribe, ChangePlan, StartPurchase, CancelSubscription,
    StartCancelPurchase, RequestRefund, ResolveRefund, StartRenewSubscription, RenewSubscription,
    StartRenewPurchase, RenewPurchase, StartExpirePurchase, ExpirePurchase, Deliver, Webhook,
    ExpireInvoice, FailDueJob, ConfirmPayment, Tick, vars, tables
<1>9. Kept \/ Expired \/ Revoked
  BY <1>2, <1>7, <1>8 DEF Next
<1>10. purchases'[p].expiraEm = purchases[p].expiraEm
  BY <1>3, PurchaseSteps
<1> QED
  BY <1>9, <1>10 DEF Kept, Expired, Revoked

\* A payment that was sent back stays so.
LEMMA ReversedStays ==
  ASSUME BillingInv, PaymentsInv, ExpiryInv, [Next]_vars, NEW p, Reversed(p)
  PROVE  Reversed(p)'
<1>1. PICK i \in InvoiceIds : invoices[i].purchase = p /\ reversals[i] > 0
  BY DEF Reversed
<1>2. reversals[i] \in Nat
  BY DEF BillingInv, TypeOK
<1>3. reversals'[i] > 0
  BY <1>1, <1>2, ReversalSteps
<1>4. invoices[i].status # "AUSENTE"
  BY <1>1 DEF ExpiryInv, Settled
<1>5. invoices'[i].purchase = p
  BY <1>1, <1>4, InvoiceColumns
<1> QED
  BY <1>3, <1>5 DEF Reversed

\* Nothing is sent back but what was paid.
LEMMA ReversedIsSettled ==
  ASSUME BillingInv, PaymentsInv, ExpiryInv, [Next]_vars, NEW i \in InvoiceIds, reversals'[i] > 0
  PROVE  Settled(i)'
<1>1. Settled(i)
  <2>1. CASE reversals'[i] = reversals[i]
    BY <2>1 DEF ExpiryInv
  <2>2. ASSUME NEW w \in Workers, GatewayRefund(w), task[w].invoice = i PROVE Settled(i)
    <3>1. task[w].op = "resolveRefund"
      BY <2>2 DEF GatewayRefund, At
    <3>2. /\ task[w].refund \in RefundIds /\ refunds[task[w].refund].status # "AUSENTE"
          /\ refunds[task[w].refund].invoice = i
      BY <2>2, <3>1, WorkerTask DEF HandlerConsistent, PaymentsInv, PaymentOK
    <3> QED
      BY <3>2 DEF PaymentsInv, PaymentRowsOK
  <2> QED
    BY <2>1, <2>2, ReversalSteps
<1> QED
  BY <1>1, SettledForGood

\* What a handler knows of the end of its purchase stays true, unless a payment
\* moves it.
LEMMA ExpiryOKStays ==
  ASSUME BillingInv, PaymentsInv, ExpiryInv, [Next]_vars,
         NEW w \in Workers, NEW d, d = task[w], ExpiryOK(d)
  PROVE  ExpiryOK(d)'
<1>1. ASSUME d.op = "expirePurchase", d.step = "expire"
      PROVE  /\ d.purchase \in PurchaseIds
             /\ d.purchase \in overtaken' \/ purchases'[d.purchase].expiraEm <= now'
  <2>1. /\ d.purchase \in PurchaseIds
        /\ d.purchase \in overtaken \/ purchases[d.purchase].expiraEm <= now
    BY <1>1 DEF ExpiryOK
  <2>2. PICK n \in Nat, m \in Nat : n = now /\ m = now' /\ n <= m
    <3>1. now' = now \/ now' = now + 1
      BY ClockSteps DEF Tick
    <3> QED
      BY <3>1 DEF BillingInv, TypeOK
  <2>3. CASE d.purchase \in overtaken
    BY <2>1, <2>3, ClockSteps
  <2>4. ASSUME NEW v \in Workers, ActivatePurchase(v), task[v].purchase = d.purchase
        PROVE  d.purchase \in overtaken'
    <3>1. AboutToExpire(d.purchase)
      BY <1>1 DEF AboutToExpire, At
    <3> QED
      BY <2>4, <3>1 DEF ActivatePurchase
  <2>5. CASE purchases'[d.purchase].expiraEm = 0
    BY <2>1, <2>2, <2>5
  <2>6. CASE /\ purchases'[d.purchase].expiraEm = purchases[d.purchase].expiraEm
             /\ purchases[d.purchase].expiraEm <= now
    <3>1. purchases[d.purchase].expiraEm \in Nat
      BY <2>1 DEF BillingInv, TypeOK, Purchase
    <3> QED
      BY <2>1, <2>2, <2>6, <3>1
  <2> QED
    BY <2>1, <2>3, <2>4, <2>5, <2>6, PurchaseSteps
<1>2. ASSUME d.op = "resolveRefund" PROVE invoices'[d.invoice].purchase = d.purchase
  <2>1. d.invoice \in InvoiceIds /\ invoices[d.invoice].purchase = d.purchase
    BY <1>2, WorkerTask DEF ExpiryOK
  <2>2. invoices[d.invoice].status # "AUSENTE"
    <3>1. /\ d.refund \in RefundIds /\ refunds[d.refund].status # "AUSENTE"
          /\ refunds[d.refund].invoice = d.invoice
      BY <1>2, WorkerTask DEF HandlerConsistent, PaymentsInv, PaymentOK
    <3> QED
      BY <3>1 DEF PaymentsInv, PaymentRowsOK, Settled
  <2> QED
    BY <2>1, <2>2, InvoiceColumns
<1> QED
  BY <1>1, <1>2 DEF ExpiryOK

\* What it knows after a call.
LEMMA ExpiryOKGoes ==
  ASSUME BillingInv, PaymentsInv, ExpiryInv, [Next]_vars,
         NEW w \in Workers, Step(w) \/ Failure(w), NEW d, d = task'[w]
  PROVE  ExpiryOK(d)'
<1>1. CASE Ends(w)
  BY <1>1 DEF Ends, ExpiryOK
<1>2. CASE ~Ends(w)
  <2>1. /\ d.op = task[w].op /\ d.invoice = task[w].invoice
        /\ FindInvoice(w) \/ d.purchase = task[w].purchase
    BY <1>2, GoesOn DEF Turns
  <2>2. d.step # "expire"
    BY <1>2, GoesOn DEF ArrivesBy
  <2>3. ASSUME d.op = "resolveRefund" PROVE invoices'[d.invoice].purchase = d.purchase
    <3>1. PICK k : k = task[w]
      OBVIOUS
    <3>2. ExpiryOK(k)'
      BY <3>1, ExpiryOKStays DEF ExpiryInv
    <3>3. d.purchase = k.purchase
      BY <2>1, <2>3, <3>1 DEF FindInvoice, At
    <3> QED
      BY <2>1, <2>3, <3>1, <3>2, <3>3 DEF ExpiryOK
  <2> QED
    BY <2>2, <2>3 DEF ExpiryOK
<1> QED
  BY <1>1, <1>2

\* What a handler that starts knows.
LEMMA ExpiryOKStarts ==
  ASSUME BillingInv, [Next]_vars, NEW w \in Workers, Starts(w),
         NEW d, d = task'[w], d # task[w]
  PROVE  ExpiryOK(d)'
<1>1. ASSUME NEW t, task' = [task EXCEPT ![w] = t] PROVE d = t
  BY <1>1, Begins
<1>2. ASSUME NEW t, task' = [task EXCEPT ![w] = t],
             t.op \in {"subscribe", "changePlan", "purchase", "cancelPurchase", "requestRefund",
                       "renewSubscription", "renewPurchase", "webhook"}
      PROVE  ExpiryOK(d)'
  <2>1. d.op # "expirePurchase" /\ d.op # "resolveRefund"
    BY <1>1, <1>2
  <2> QED
    BY <2>1 DEF ExpiryOK
<1>3. ASSUME NEW u, NEW p, Subscribe(w, u, p) \/ ChangePlan(w, u, p) PROVE ExpiryOK(d)'
  BY <1>2, <1>3 DEF Subscribe, ChangePlan, Idle
<1>4. ASSUME NEW u, StartPurchase(w, u) \/ StartCancelPurchase(w, u) PROVE ExpiryOK(d)'
  BY <1>2, <1>4 DEF StartPurchase, StartCancelPurchase, Idle
<1>5. ASSUME NEW i, RequestRefund(w, i) PROVE ExpiryOK(d)'
  BY <1>2, <1>5 DEF RequestRefund, Idle
<1>6. ASSUME NEW r, NEW aprovar \in BOOLEAN, ResolveRefund(w, r, aprovar) PROVE ExpiryOK(d)'
  <2>1. PICK i : i = refunds[r].invoice
    OBVIOUS
  <2> DEFINE t == [Idle EXCEPT !.op = "resolveRefund",
                               !.step = IF aprovar THEN "gatewayRefund" ELSE "refuse",
                               !.refund = r, !.invoice = i,
                               !.subscription = invoices[i].subscription,
                               !.purchase = invoices[i].purchase]
  <2>2. task' = [task EXCEPT ![w] = t] /\ UNCHANGED invoices
    BY <1>6, <2>1 DEF ResolveRefund, tables
  <2>3. t.op = "resolveRefund" /\ t.invoice = i /\ t.purchase = invoices[i].purchase
    BY DEF Idle
  <2> HIDE DEF t
  <2>4. d = t
    BY <1>1, <2>2
  <2> QED
    BY <2>2, <2>3, <2>4 DEF ExpiryOK
<1>7. ASSUME NEW s, RenewSubscription(w, s) PROVE ExpiryOK(d)'
  BY <1>2, <1>7 DEF RenewSubscription, Idle
<1>8. ASSUME NEW p, RenewPurchase(w, p) PROVE ExpiryOK(d)'
  BY <1>2, <1>8 DEF RenewPurchase, Idle
<1>9. ASSUME NEW p \in PurchaseIds, ExpirePurchase(w, p) PROVE ExpiryOK(d)'
  <2> DEFINE t == [Idle EXCEPT !.op = "expirePurchase",
                     !.step = IF purchases[p].expiraEm > now THEN "rescheduleExpiry"
                                                             ELSE "expire",
                     !.purchase = p, !.date = purchases[p].expiraEm]
  <2>1. task' = [task EXCEPT ![w] = t] /\ UNCHANGED <<purchases, now>>
    BY <1>9 DEF ExpirePurchase, tables, clock
  <2>2. /\ t.op = "expirePurchase" /\ t.purchase = p
        /\ t.step = "expire" => ~(purchases[p].expiraEm > now)
    BY DEF Idle
  <2> HIDE DEF t
  <2>3. d = t
    BY <1>1, <2>1
  <2>4. purchases[p].expiraEm \in Nat /\ now \in Nat
    BY DEF BillingInv, TypeOK, Purchase
  <2> QED
    BY <2>1, <2>2, <2>3, <2>4 DEF ExpiryOK
<1>10. ASSUME NEW i, NEW tipo, Webhook(w, i, tipo) PROVE ExpiryOK(d)'
  <2>1. task' # task
    OBVIOUS
  <2> QED
    BY <1>2, <1>10, <2>1 DEF Webhook, Idle
<1> QED
  BY <1>3, <1>4, <1>5, <1>6, <1>7, <1>8, <1>9, <1>10 DEF Starts

\* ExpiryInv at first and after every step.
LEMMA ExpiryInit == Init => ExpiryInv
BY DEF Init, Idle, ExpiryInv, ExpiryOK, ExpiredOnlyWhenOver

LEMMA ExpiryKept ==
  ASSUME BillingInv, BillingInv', PaymentsInv, ExpiryInv, [Next]_vars
  PROVE  ExpiryInv'
<1>1. ASSUME NEW w \in Workers PROVE ExpiryOK(task[w])'
  <2>1. PICK k : k = task[w]
    OBVIOUS
  <2>2. PICK d : d = task'[w]
    OBVIOUS
  <2>3. ExpiryOK(d)'
    <3>1. CASE d = k
      BY <2>1, <2>2, <3>1, ExpiryOKStays DEF ExpiryInv
    <3>2. CASE Step(w) \/ Failure(w)
      BY <2>2, <3>2, ExpiryOKGoes
    <3>3. CASE Starts(w) /\ d # k
      BY <2>1, <2>2, <3>3, ExpiryOKStarts
    <3> QED
      BY <2>1, <2>2, <3>1, <3>2, <3>3, Movers
  <2> QED
    BY <2>2, <2>3 DEF ExpiryOK
<1>2. ASSUME NEW i \in InvoiceIds, reversals'[i] > 0 PROVE Settled(i)'
  BY <1>2, ReversedIsSettled
<1>3. ASSUME NEW p \in PurchaseIds, purchases'[p].status = "EXPIRADO", p \notin overtaken'
      PROVE  purchases'[p].expiraEm <= now' \/ Reversed(p)'
  <2>1. p \notin overtaken /\ purchases'[p].expiraEm = purchases[p].expiraEm
    BY <1>3, ClockSteps, ExpiredSteps
  <2>2. purchases[p].expiraEm <= now \/ Reversed(p)
    <3>1. CASE purchases[p].status = "EXPIRADO"
      BY <2>1, <3>1 DEF ExpiryInv, ExpiredOnlyWhenOver
    <3>2. ASSUME NEW w \in Workers, Expire(w), task[w].purchase = p
          PROVE  purchases[p].expiraEm <= now
      BY <2>1, <3>2 DEF Expire, At, ExpiryInv, ExpiryOK
    <3>3. ASSUME NEW w \in Workers, RevokeOrigin(w), task[w].purchase = p
          PROVE  Reversed(p)
      <4>1. task[w].op = "resolveRefund" /\ task[w].step = "revokeOrigin"
        BY <3>3 DEF RevokeOrigin, At
      <4>2. /\ task[w].invoice \in InvoiceIds /\ reversals[task[w].invoice] > 0
            /\ invoices[task[w].invoice].purchase = p
        BY <3>3, <4>1, WorkerTask DEF PaymentsInv, PaymentOK, ExpiryInv, ExpiryOK
      <4> QED
        BY <4>2 DEF Reversed
    <3> QED
      BY <1>3, <3>1, <3>2, <3>3, ExpiredSteps
  <2>3. CASE Reversed(p)
    BY <2>3, ReversedStays
  <2>4. CASE purchases[p].expiraEm <= now
    <3>1. now' = now \/ now' = now + 1
      BY ClockSteps DEF Tick
    <3>2. now \in Nat /\ purchases[p].expiraEm \in Nat
      BY DEF BillingInv, TypeOK, Purchase
    <3> QED
      BY <2>1, <2>4, <3>1, <3>2
  <2> QED
    BY <2>2, <2>3, <2>4
<1> QED
  BY <1>1, <1>2, <1>3 DEF ExpiryInv, ExpiredOnlyWhenOver, Reversed, Settled

\* A purchase is not marked expired before its end, unless it was refunded or a
\* payment extended it between the two calls of its expiry job
\* (expirePurchaseIfActive, resolveRefund).
THEOREM ExpiryInvariance == Spec => []ExpiryInv
<1>1. BillingInv /\ BillingInv' /\ PaymentsInv /\ ExpiryInv /\ [Next]_vars => ExpiryInv'
  BY ExpiryKept
<1> QED
  BY <1>1, ExpiryInit, BillingInvariance, PaymentsInvariance, PTL DEF Spec

\* Access lasts as long as was paid: no payment of a purchase, early or late,
\* costs a day of another one, and the expiry job of an earlier end does not
\* take the extended access away (renewedPurchaseExpiry, handleWebhook,
\* expirePurchaseIfActive).  As PaidTimeIsGranted says, of the purchases whose
\* payments no two confirmations raced for, and whose expiry no payment overtook.
THEOREM PaidTimeIsGrantedAlways == Spec => []PaidTimeIsGranted
<1>1. Init => GrantInv
  BY GrantInit
<1>2. BillingInv /\ BillingInv' /\ PaymentsInv /\ GrantInv /\ [Next]_vars => GrantInv'
  BY GrantKept
<1>3. BillingInv /\ GrantInv /\ ExpiryInv => PaidTimeIsGranted
  <2> SUFFICES ASSUME GrantInv, Quiet, failures = 0, NEW p \in PurchaseIds, ~RacedPurchase(p),
                      NEW i \in SettledOf(p)
               PROVE  purchases[p].expiraEm >= invoices[i].pagoEm + PURCHASE_VALIDITY_DAYS *
                        Cardinality({j \in SettledOf(p) :
                                       invoices[j].pagoEm >= invoices[i].pagoEm})
    BY DEF PaidTimeIsGranted, PaidTimeIsAdded, ExpiryInv
  <2>1. Written(p) = SettledOf(p)
    BY DEF Quiet, Free, Idle, Written, Unwritten
  <2> QED
    BY <2>1 DEF GrantInv, PaidTimeIsWritten, WrittenSince
<1> QED
  BY <1>1, <1>2, <1>3, BillingInvariance, PaymentsInvariance, ExpiryInvariance, PTL DEF Spec

===============================================================================
