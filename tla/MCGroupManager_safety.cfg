SPECIFICATION Spec
CONSTANTS
  o = o
  m = m
  x = x
  p1 = p1
  p2 = p2
  NoUser = NoUser
  NoWorker = NoWorker
  Users <- ThreeUsers
  Founders <- TwoFounders
  Creator = o
  Lists <- OneOrTwo
  Workers <- TwoWorkers
SYMMETRY Symmetry
INVARIANTS
  TypeOK
  MemFollowsDb
  NoMemberForgotten
  MembersAreReached
CHECK_DEADLOCK FALSE
