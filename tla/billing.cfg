SPECIFICATION Spec
CONSTANTS
  prof = prof
  cont = cont
  INICIANTE = INICIANTE
  PRO = PRO
  nobody = nobody
  none = none
  w1 = w1
  w2 = w2
  Workers <- TwoWorkers
  Confirmations <- BothConfirmations
  Announcements <- Announcement
  Plans <- BothPlans
  Professionals = {prof}
  Contractors = {cont}
  Iniciante = INICIANTE
  NoUser = nobody
  NoPlan = none
  TRIAL_DAYS = 1
  FIRST_PAYMENT_WINDOW_DAYS = 1
  BILLING_PERIOD_DAYS = 2
  PURCHASE_VALIDITY_DAYS = 2
  PURCHASE_RENEWAL_LEAD_DAYS = 1
  MaxSubscriptions = 2
  MaxPurchases = 1
  MaxInvoices = 3
  MaxRefunds = 1
  MaxTime = 3
  MaxFailures = 1
SYMMETRY WorkersSymmetry
CONSTRAINT Scenario
INVARIANT OneLiveSubscriptionPerUser
INVARIANT ActivatedOnlyIfPaid
INVARIANT ConcludedIsReversed
INVARIANT AccessWithinPayments
INVARIANT PaidTimeIsGranted
INVARIANT NeverBilledTwiceAPeriod
PROPERTY InvoiceMachine
CHECK_DEADLOCK FALSE
