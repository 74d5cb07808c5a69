SPECIFICATION FairSpec
CONSTANTS
  Req = {r1, r2}
  Closer = {d1, d2}
  Command <- Commands
  None = None
INVARIANTS TypeOK OwnOutput OwnResult InStepOrBroken LeavingIsHarmless ClosedOnce
PROPERTIES ImplementsSession EveryCallReturns
CHECK_DEADLOCK FALSE
