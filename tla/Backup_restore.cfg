SPECIFICATION Spec
CONSTANTS
  Hosts = {"a", "s"}
  Strangers = {"s"}
  Keys = {1, 2}
  Rooms = {"r"}
  Msgs = {"m"}
  MaxKills = 1
  None = None
INVARIANT KeepsHistory
CHECK_DEADLOCK FALSE
