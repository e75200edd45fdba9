SPECIFICATION Spec
CONSTANTS
  prof = prof
  cont = cont
  INICIANTE = INICIANTE
  PRO = PRO
  nobody = nobody
  none = none
  w1 = w1
  w2 = w2
  Workers <- OneWorker
  Confirmations <- OneConfirmation
  Announcements <- NoAnnouncement
  Plans <- BothPlans
  Professionals = {prof}
  Contractors = {}
  Iniciante = INICIANTE
  NoUser = nobody
  NoPlan = none
  TRIAL_DAYS = 1
  FIRST_PAYMENT_WINDOW_DAYS = 1
  BILLING_PERIOD_DAYS = 2
  PURCHASE_VALIDITY_DAYS = 2
  PURCHASE_RENEWAL_LEAD_DAYS = 1
  MaxSubscriptions = 1
  MaxPurchases = 0
  MaxInvoices = 2
  MaxRefunds = 0
  MaxTime = 4
  MaxFailures = 0
INVARIANT RenewalGoesOn
CHECK_DEADLOCK FALSE
