SPECIFICATION Spec
CONSTANTS
  c1 = c1
  c2 = c2
  u1 = u1
  u2 = u2
  p1 = p1
  p2 = p2
  phone = phone
  web = web
  NoConn = NoConn
  NoUid = NoUid
  Conns <- TwoConns
  Users <- TwoUsers
  Workers <- TwoWorkers
  CTypes <- BothTypes
  MasterTypes <- Phones
  MaxSlaveConns = 1
SYMMETRY Symmetry
VIEW LiveView
INVARIANTS
  ConnsOfOwnUserOnly
  AuthTimeoutFinal
  PingCheckPending
  ListedOnce
  DeviceLimit
  NoEmptyWrap
PROPERTIES
  LifeCycle
  ImplementsLists
CHECK_DEADLOCK FALSE
