SPECIFICATION Spec
CONSTANTS
  Runner = {r1, r2}
  Session = {s1, s2}
  Proc = {p1, p2}
  NumBuckets = 1
  QueryLimit = 2
  UrlOf <- OwnUrl
  Faults = {"slowHealth", "registerRetry", "latePut", "putReplyLost"}
  None = None
SYMMETRY Symmetry
INVARIANTS OneRunnerPerSession 
CHECK_DEADLOCK FALSE
