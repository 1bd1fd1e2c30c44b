SPECIFICATION Spec
CONSTANTS
  c1 = c1
  c2 = c2
  u1 = u1
  u2 = u2
  p1 = p1
  p2 = p2
  phone = phone
  web = web
  NoConn = NoConn
  NoUid = NoUid
  Conns <- TwoConns
  Users <- OneUser
  Workers <- OneWorker
  CTypes <- BothTypes
  MasterTypes <- Phones
  MaxSlaveConns = 1
INVARIANTS
  NoGhostConn
CHECK_DEADLOCK FALSE
