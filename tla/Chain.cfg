SPECIFICATION FairSpec
CONSTANTS
  Runner = {r1, r2}
  Session <- Sessions
  Slot = {q1, q2}
  MaxMounts = 2
  MaxLate = 1
  Faults = {"crash", "slowHealth", "reload"}
  None = None
INVARIANTS TypeOK ReadyHasShell
  
CHECK_DEADLOCK FALSE
