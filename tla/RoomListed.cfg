SPECIFICATION Spec
CONSTANTS
  Conn = {c1, c2, c3}
  Presenter = {c1}
  Page = {0, 1}
  Proc = {p1, p2}
  Faults = {"hurry", "stale", "abort", "disconnectLost"}
  None = None
SYMMETRY Symmetry
VIEW WithoutPages
INVARIANTS StaysListed
CHECK_DEADLOCK FALSE
