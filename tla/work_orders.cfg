SPECIFICATION Spec
CONSTANTS
  acme = acme
  pa = pa
  pb = pb
  nobody = nobody
  w1 = w1
  w2 = w2
  Companies = {acme}
  Professionals <- TwoBidders
  Contractors = {}
  Listable = {pa}
  NoUser = nobody
  Valores <- HighAndLow
  Workers <- TwoWorkers
  URGENCY_DEADLINE_HOURS = {1}
  MIN_BIDS_FOR_FLOOR = 2
  MAX_WORK_ORDER_PHOTOS = 1
  MaxOrders = 1
  MaxTime = 1
  MaxFailures = 1
  MaxMembers = 1
INVARIANT TypeOK
INVARIANT OneWinner
INVARIANT AwardedByOwnSide
INVARIANT OpenHasExpiryJob
CONSTRAINT Cases
SYMMETRY WorkersSymmetry
PROPERTY PromiseSpec
CHECK_DEADLOCK FALSE
