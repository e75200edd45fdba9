SPECIFICATION Spec
CONSTANTS
  ana = ana
  chrome = chrome
  r1 = r1
  r2 = r2
  Accounts = {ana}
  Browsers = {chrome}
  Requests <- TwoRequests
  MaxTokens = 4
  MaxTime = 2
  MaxFailures = 1
  ACCESS_TTL = 1
  REFRESH_TTL = 2
INVARIANT TypeOK
INVARIANT SuspendedIsOutSoon
INVARIANT RotatedAtEachUse
INVARIANT LostOnlyToPages
SYMMETRY SessionsSymmetry
CONSTRAINT Scenario
CHECK_DEADLOCK FALSE
