SPECIFICATION FairSpec
CONSTANTS
  Msgs = {m1}
  Links = {l1}
  None = None
  HasMailbox = FALSE
  HistoryCap = 500
  Plans <- LivePlans
PROPERTIES EventuallySettled EventuallyDelivered
