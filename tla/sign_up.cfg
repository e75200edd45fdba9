SPECIFICATION Spec
CONSTANTS
  t1 = t1
  t2 = t2
  w1 = w1
  w2 = w2
  Tabs <- TwoTabs
  Workers <- TwoWorkers
  OTP_MAX_ATTEMPTS = 2
  MaxCodes = 2
  MaxFailures = 1
INVARIANT WizardFollowsAccount
INVARIANT GuessesAreBounded
INVARIANT PerfilCanProceed
CONSTRAINT Cases
SYMMETRY SignUpSymmetry
CHECK_DEADLOCK FALSE
