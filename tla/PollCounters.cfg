SPECIFICATION Spec
CONSTANTS
  Visitor = {v1, v2}
  Presenter = {v1}
  Choice = {a, b}
  Offer <- TwoOffers
  Proc = {p1, p2}
  Faults = {"overlap", "stale", "abort"}
  None = None
SYMMETRY Symmetry
VIEW WithoutAnswers
INVARIANTS CountersMatchRecords VotesAreForOptions
PROPERTY ImplementsBallot
