SPECIFICATION Spec
CONSTANTS
  prof = prof
  cont = cont
  nobody = nobody
  w1 = w1
  w2 = w2
  Professionals = {prof}
  Contractors = {cont}
  NoUser = nobody
  Workers <- TwoWorkers
  Dates <- ThreeDates
  DEFAULT_SERVICE_DURATION_HOURS = 2
  BOOKING_EXPIRY_HOURS = 1
  MAX_PENDING_PER_ESPECIALIDADE = 1
  MaxBookings = 3
  MaxTime = 1
  MaxFailures = 1
  MaxProposals = 1
SYMMETRY WorkersSymmetry
CONSTRAINT Scenario
INVARIANT ApprovedHoldsItsSlot
INVARIANT UnmovedDontOverlap
INVARIANT EndedFreesAgenda
INVARIANT PenalisedOnce
INVARIANT NeverOverPenalised
INVARIANT PendingNearLimit
CHECK_DEADLOCK FALSE
