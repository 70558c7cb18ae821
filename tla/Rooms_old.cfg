SPECIFICATION Spec
CONSTANTS
  Daemons = {a, b}
  Founder = a
  Reachable = {a}
  MaxMembers = 2
  MaxRoomMsgs = 1
  Keep = 2
  Overlap = 1
  ReplyLimit = 2
  EndOfTime = 6
  MaxLinks = 1
  MaxCrashes = 0
  None = None
PROPERTIES ReadsFromThenOn
