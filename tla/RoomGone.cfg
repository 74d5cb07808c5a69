SPECIFICATION Spec
CONSTANTS
  Conn = {c1, c2}
  Presenter = {c1}
  Page = {0, 1}
  Proc = {p1, p2}
  Faults = {"crowd"}
  None = None
SYMMETRY Symmetry
INVARIANTS StaysListed
CHECK_DEADLOCK FALSE
