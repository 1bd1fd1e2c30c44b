SPECIFICATION Spec
CONSTANTS
  o = o
  m = m
  x = x
  p1 = p1
  p2 = p2
  NoUser = NoUser
  NoWorker = NoWorker
  Users <- ThreeUsers
  Founders <- TwoFounders
  Creator = o
  Lists <- OneOrTwo
  Workers <- TwoWorkers
CHECK_DEADLOCK FALSE
INVARIANTS
  KickedCannotSend
