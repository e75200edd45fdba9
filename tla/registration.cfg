SPECIFICATION Spec
CONSTANTS
  ana = ana
  beto = beto
  nobody = nobody
  k1 = k1
  k2 = k2
  nocode = nocode
  promo = promo
  w1 = w1
  w2 = w2
  Users <- TwoUsers
  NoUser = nobody
  Codes <- TwoCodes
  NoCode = nocode
  Promos = {promo}
  Workers <- TwoWorkers
  MaxFailures = 1
INVARIANT TypeOK
INVARIANT CodeIsKept
INVARIANT UsesAreCounted
INVARIANT BonusNeverBlocks
SYMMETRY RegistrationSymmetry
CONSTRAINT Scenario
CHECK_DEADLOCK FALSE
