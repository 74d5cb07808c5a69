SPECIFICATION ScanSpec
CONSTANTS
  Runner = {r1, r2}
  Session = {s1, s2}
  Proc = {p1, p2}
  NumBuckets = 2
  QueryLimit = 1
  UrlOf <- OwnUrl
  Faults = {"abort", "crash", "slowHealth"}
  None = None
SYMMETRY Symmetry
INVARIANTS TypeOK OneRunnerPerSession Disposable DeleteHitsOwnSession
PROPERTIES ImplementsPool NoFalseExhaustion
CHECK_DEADLOCK FALSE
