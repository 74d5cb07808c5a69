SPECIFICATION RoomSpec
CONSTANTS
  Visitor = {v1, v2, v3}
  Presenter = {v1}
  Person = {x1, x2}
  Choice = {a, b}
  Offer <- OneOffer
  Proc = {p1, p2}
  Faults = {"abort", "expire"}
  None = None
SYMMETRY Symmetry
VIEW WithoutUnread
CONSTRAINT Small
INVARIANTS RoomTypeOK  OwnAnswerIsTrue EveryoneToldOfResult
