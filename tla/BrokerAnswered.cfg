SPECIFICATION FairSpec
CONSTANTS
  Runner = {r1, r2}
  Session = {s1}
  Proc = {p1}
  NumBuckets = 2
  QueryLimit = 2
  UrlOf <- OwnUrl
  Faults = {"abort", "crash", "slowHealth", "assignLost"}
  None = None
PROPERTY EveryRequestAnswered
CHECK_DEADLOCK FALSE
