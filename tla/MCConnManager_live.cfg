SPECIFICATION FairSpec
CONSTANTS
  c1 = c1
  c2 = c2
  u1 = u1
  u2 = u2
  p1 = p1
  p2 = p2
  phone = phone
  web = web
  NoConn = NoConn
  NoUid = NoUid
  Conns <- OneConn
  Users <- TwoUsers
  Workers <- TwoWorkers
  CTypes <- Webs
  MasterTypes <- None
  MaxSlaveConns = 1
PROPERTIES
  UnauthedIsKicked
  SilentIsKicked
  CloseIsCleaned
CHECK_DEADLOCK FALSE
