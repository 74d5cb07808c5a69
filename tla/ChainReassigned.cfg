SPECIFICATION Spec
CONSTANTS
  Runner = {r1, r2}
  Session <- Sessions
  Slot = {q1}
  MaxMounts = 1
  MaxLate = 0
  Faults = {"crash"}
  None = None
INVARIANT ReassignmentIsTold
CHECK_DEADLOCK FALSE
