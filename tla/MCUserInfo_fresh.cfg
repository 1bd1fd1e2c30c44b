SPECIFICATION Spec
CONSTANTS
  u1 = u1
  u2 = u2
  p1 = p1
  p2 = p2
  NoCaller = NoCaller
  Users <- TwoUsers
  Callers <- TwoCallers
  MinTtl = 1
  MaxTtl = 2
  CallSpan = 1
SYMMETRY Symmetry
INVARIANTS
  StaleAtMost
  NoFalseAbsence
