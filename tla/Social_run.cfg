SPECIFICATION SocialSpec
CONSTANTS
  ann = ann  ben = ben  cat = cat  p1 = p1  p2 = p2  p3 = p3
  Daemons = {ann, ben, cat}
  Founder = ann
  Reachable = {ann, ben}
  MaxMembers = 3
  MaxRoomMsgs = 1
  Keep = 4
  Overlap = 1
  ReplyLimit = 2
  EndOfTime = 5
  MaxLinks = 2
  MaxCrashes = 1
  Posts = {p1, p2, p3}
  Author <- Writer
  Trusts <- AllThree
  MaxPosts = 1
  TrimTo = 0
  MaxPerAuthor = 1
  MaxPerAuthorDay = 2
  EvictedCap = 10
  PerFrame = 25
  PostsReplyLimit = 100
  LinkMaxPosts = 2
  Minute = 1
  PostsOverlap = 1
  Day = 1
  Week = 1
  PostsKeep = 1
  PostsEnd = 3
  MaxPostLinks = 3
  Killed = {ann}
  MaxPostKills = 1
  MaxUnfollows = 1
  Msgs = {m1, m2}
  Passphrases = {pass1, pass2, pass3}
  Calls = {c1, c2}
  OneSet = TRUE
  MaxKeys = 2
  VaultKills = 2
  KillsEnd = 4
  RoundEnd = 2
  Bystanders = {cat}
  None = None
INVARIANTS SocialTypeOK InOnlyIfWanted NeverInClear OpensWithTold
PROPERTIES LatestWordKept OwnStays TravelsOnce
