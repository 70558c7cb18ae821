SPECIFICATION Spec
CONSTANTS
  Addrs = {a1}
  Fps = {k1}
  Ids = {i1}
  Links = {l1, l2}
  MaxStrangers = 1
  MaxAuto = 0
  StrangerMsgs = 1
  HistoryCap = 1
  MaxDials = 0
  MaxMoves = 2
  None = None
  Loopback = Loopback
INVARIANTS BoundIsUp
