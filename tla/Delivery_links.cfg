SPECIFICATION Spec
CONSTANTS
  Msgs = {m1, m2}
  Links = {l1, l2}
  None = None
  HasMailbox = FALSE
  HistoryCap = 500
  Plans <- LinksPlans
SYMMETRY Symmetry
VIEW Seen
INVARIANTS TypeOK SendingIsCarried
