SPECIFICATION Spec
CONSTANTS
  Msgs = {m1}
  Links = {l1}
  None = None
  HasMailbox = TRUE
  HistoryCap = 500
  Plans <- WaysPlans
VIEW Seen
INVARIANTS DeliveredWasStored CleanIsSaved
PROPERTIES TypedStaysReadable KeepsPromise
