SPECIFICATION Spec
CONSTANTS
  r1 = r1  r2 = r2  r3 = r3  a = a  b = b
  Fps <- TwoFps
  Ids <- OneId
  Size <- SizeOfOne
  MaxBlob = 1
  MaxPerRecipient = 1
  MaxTotal = 2
  MaxRecipients = 2
  Ttl = 2
  EndOfTime = 2
  None = None
PROPERTIES ShutdownFlushes
