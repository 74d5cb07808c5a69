SPECIFICATION CountSpec
CONSTANTS
  Conn = {c1, c2, c3}
  Presenter = {c1}
  Page = {0, 1}
  Proc = {p1, p2}
  Faults = {}
  None = None
SYMMETRY Symmetry
VIEW WithoutUnread
INVARIANTS  ReachesEveryViewer NoGhost CountIsRight
CHECK_DEADLOCK FALSE
