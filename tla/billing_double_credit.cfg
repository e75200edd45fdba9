SPECIFICATION Spec
CONSTANTS
  prof = prof
  cont = cont
  INICIANTE = INICIANTE
  PRO = PRO
  nobody = nobody
  none = none
  w1 = w1
  w2 = w2
  Workers <- TwoWorkers
  Confirmations <- BothConfirmations
  Announcements <- NoAnnouncement
  Plans <- BothPlans
  Professionals = {}
  Contractors = {cont}
  Iniciante = INICIANTE
  NoUser = nobody
  NoPlan = none
  TRIAL_DAYS = 1
  FIRST_PAYMENT_WINDOW_DAYS = 1
  BILLING_PERIOD_DAYS = 2
  PURCHASE_VALIDITY_DAYS = 2
  PURCHASE_RENEWAL_LEAD_DAYS = 1
  MaxSubscriptions = 0
  MaxPurchases = 1
  MaxInvoices = 1
  MaxRefunds = 0
  MaxTime = 0
  MaxFailures = 0
INVARIANT CreditedOnce
CHECK_DEADLOCK FALSE
