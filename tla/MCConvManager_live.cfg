SPECIFICATION FairSpec
CONSTANTS
  u1 = u1
  u2 = u2
  p1 = p1
  p2 = p2
  c1 = c1
  c2 = c2
  NoUser = NoUser
  NoWorker = NoWorker
  Users <- TwoMembers
  Workers <- TwoWorkers
  Clearers <- TwoClearers
  MaxMsgs = 3
  MaxCrashes = 1
VIEW LiveView
PROPERTIES
  SendEnds
  AckedIsCounted
CHECK_DEADLOCK FALSE
