SPECIFICATION FairSpec
CONSTANTS
  d1 = d1
  d2 = d2
  Devices <- TwoDevices
  MaxFrames = 2
INVARIANTS
  PushedIsStored
  ForwardedOnce
  AckedInOrder
  NoSilentLoss
  ReachableGotIt
PROPERTIES
  ImplementsDelivery
  Drains
CHECK_DEADLOCK FALSE
