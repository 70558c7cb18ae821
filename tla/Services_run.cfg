SPECIFICATION ServicesSpec
CONSTANTS
  Methods = {"upnp", "natpmp"}
  LeaseSeconds = 3600
  OnlyPermanent = TRUE
  Picky = TRUE
  OthersMap = 1
  MaxFaults = 2
  Ports = 2
  HasPassword = TRUE
  MaxKills = 2
  Kinds = {"deb", "windows"}
  Calls = {c1, c2}
  Newest = 2
  Sups = {"s1", "s2"}
  Processes = {"d1", "d2"}
  Commands = {"c1"}
  Races = FALSE
  Backoff = 0
  MaxBackoff = 0
  StableTime = 0
  CrashLimit = 1
  Window = 0
  EndOfTime = 0
  MaxSupKills = 1
  Ids = {1, 2, 3}
  From <- Sender
  Text <- Message
  Known = {"contact"}
  Before = {"another"}
  PAGE = 2
  BATCH = 1
  MAX_STRANGERS = 1
  MaxLosses = 1
  None = None
INVARIANTS ServicesTypeOK OneAddress OneAttempt NothingForImpostors LeavesNothing InstallsOnlyWhole NoneLost
PROPERTIES StopLeavesNone ComesUpAgain RunsItsCourse
