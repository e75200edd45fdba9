SPECIFICATION Spec
CONSTANTS
  a1 = a1
  a2 = a2
  other = other
  none = none
  nobody = nobody
  w1 = w1
  w2 = w2
  w3 = w3
  Workers <- ThreeWorkers
  Entries <- ThreeEntries
  Aceites <- TwoAceites
  NoEntry = none
  NoWorker = nobody
  MaxSeq = 5
  MaxFailures = 2
INVARIANT ChainIsLinear
INVARIANT RecordedOnce
PROPERTY AppendOnly
SYMMETRY TermsSymmetry
CHECK_DEADLOCK FALSE
