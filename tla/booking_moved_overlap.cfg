SPECIFICATION Spec
CONSTANTS
  prof = prof
  cont = cont
  nobody = nobody
  w1 = w1
  w2 = w2
  Professionals = {prof}
  Contractors = {cont}
  NoUser = nobody
  Workers <- TwoWorkers
  Dates <- ThreeDates
  DEFAULT_SERVICE_DURATION_HOURS = 2
  BOOKING_EXPIRY_HOURS = 1
  MAX_PENDING_PER_ESPECIALIDADE = 2
  MaxBookings = 2
  MaxTime = 0
  MaxFailures = 0
  MaxProposals = 1
SYMMETRY WorkersSymmetry
INVARIANT ApprovedDontOverlap
CHECK_DEADLOCK FALSE
