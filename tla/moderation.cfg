SPECIFICATION Spec
CONSTANTS
  c1 = c1
  c2 = c2
  p1 = p1
  nobody = nobody
  w1 = w1
  w2 = w2
  m1 = m1
  m2 = m2
  Contractors = {c1, c2}
  Professionals = {p1}
  NoUser = nobody
  Bookings <- TwoBookings
  Notas = {1, 5}
  Workers <- TwoWorkers
  Moderators <- TwoModerators
  REVIEW_WINDOW_DAYS = 1
  RESPONSE_WINDOW_DAYS = 1
  BEM_AVALIADO_MIN_TOTAL = 1
  VETERANO_MIN_TOTAL = 2
  HIDE_WINDOW_HOURS = 1
  AUTO_SUSPEND_THRESHOLD = 1
  SUSPENSION_DAYS = 1
  MaxReports = 1
  MaxSuspensions = 2
  MaxTime = 2
  MaxFailures = 1
SYMMETRY StaffSymmetry
CONSTRAINT Scenario
CHECK_DEADLOCK FALSE
INVARIANT TypeOK
INVARIANT RevealedBlindly
INVARIANT RevealedTogether
INVARIANT PendingIsScheduled
INVARIANT SuspensionHasLiftJob
INVARIANT ClosedOnlyWhileSuspended
