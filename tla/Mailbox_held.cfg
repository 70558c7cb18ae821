SPECIFICATION Spec
CONSTANTS
  r1 = r1  r2 = r2  r3 = r3  a = a  b = b
  Fps <- ThreeFps
  Ids <- TwoIds
  Size <- SizesOfTwo
  MaxBlob = 2
  MaxPerRecipient = 2
  MaxTotal = 3
  MaxRecipients = 2
  Ttl = 2
  EndOfTime = 2
  None = None
SYMMETRY Alike
PROPERTIES MailIsHeld
