------------------------------- MODULE MCBilling -------------------------------
(***************************************************************************)
(* Instances of Billing for TLC: days are scaled down (a period or a       *)
(* validity of 30 days becomes 1 or 2, the windows and the lead 1) and     *)
(* workers are symmetric.  Scenario is the constraint of the safety run:   *)
(* TLC goes no further than the states of one of four stories.             *)
(***************************************************************************)
EXTENDS BillingInvariant, TLC

CONSTANTS prof, cont, INICIANTE, PRO, nobody, none, w1, w2

OneWorker == {w1}
TwoWorkers == {w1, w2}
OneConfirmation == {"PAYMENT_RECEIVED"}
BothConfirmations == {"PAYMENT_CONFIRMED", "PAYMENT_RECEIVED"}
NoAnnouncement == {}
Announcement == {"PAYMENT_CREATED"}
BothPlans == {INICIANTE, PRO}

WorkersSymmetry == Permutations(Workers)

Buying == \E w \in Workers : task[w].op = "purchase"
Subscribed == \E s \in SubscriptionIds : subscriptions[s].status # "AUSENTE"
Bought == Buying \/ \E p \in PurchaseIds : purchases[p].status # "AUSENTE"
Billed(n) == charges \cup {task[w].invoice : w \in Workers} \subseteq 0 .. n
Unannounced == \A i \in InvoiceIds : <<i, "PAYMENT_CREATED">> \notin events

\* The two confirmations of a charge are handled alike: one order is enough.
InOrder ==
  \A i \in InvoiceIds : <<i, "PAYMENT_RECEIVED">> \in events => <<i, "PAYMENT_CONFIRMED">> \in events

SecondEvent == \E i \in InvoiceIds : <<i, "PAYMENT_RECEIVED">> \in events
Refunding == refunds[1].status # "AUSENTE" \/ \E w \in Workers : task[w].refund # 0

\* Where a second confirmation comes after a second charge was made, nothing
\* fails and there is no refund.
SecondOfOne == SecondEvent => Billed(1) \/ (failures = 0 /\ ~Refunding)

\* Two subscriptions of a professional within a day, two handlers at a time.
SubscriptionDay == ~Bought /\ now = 0 /\ Billed(2) /\ Unannounced /\ SecondOfOne

\* A purchase and its renewal over two days, two handlers at a time.  After
\* the first day, either a refund or a failure.
PurchaseCycle ==
  /\ ~Subscribed /\ now <= 2 /\ Billed(2) /\ SecondOfOne
  /\ now > 0 => failures = 0 \/ ~Refunding

\* One handler at a time, none fails, no refund.
OneByOne == (\E w \in Workers : Free(w)) /\ ~Refunding /\ failures = 0

\* A subscription, or a purchase, over three days and several renewals.
SubscriptionYear == OneByOne /\ ~Bought /\ subscriptions[2].status = "AUSENTE" /\ Unannounced
PurchaseYear == OneByOne /\ ~Subscribed /\ Unannounced

Scenario == InOrder /\ (SubscriptionDay \/ PurchaseCycle \/ SubscriptionYear \/ PurchaseYear)

===============================================================================
