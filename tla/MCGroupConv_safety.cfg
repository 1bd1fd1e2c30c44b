SPECIFICATION Spec
CONSTANTS
  g1 = g1
  g2 = g2
  u1 = u1
  u2 = u2
  p1 = p1
  c1 = c1
  NoGroup = NoGroup
  NoUser = NoUser
  NoWrap = NoWrap
  Groups <- TwoGroups
  Users <- TwoMembers
  Members <- OneInBoth
  Workers <- OneWorker
  Unknown <- OneUnknown
  Clearers <- OneClearer
  MaxMsgs = 2
  ClearsRead = FALSE
VIEW HeldView
INVARIANTS
  TypeOK
  ListedOnce
  NoHole
  HotCoversRecent
  NoPhantomUnread
CHECK_DEADLOCK FALSE
