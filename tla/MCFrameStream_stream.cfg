SPECIFICATION FairSpec
CONSTANTS
  Magic = 99
  Version = 1
  MaxPayload = 3
  BatchRead = 2
  Crc <- SumCrc
  Writes <- SomeWrites
  MaxWrites = 4
  Window = 16
INVARIANTS
  HandledInOrder
PROPERTIES
  ImplementsChannel
  ArrivedIsDecoded
CHECK_DEADLOCK FALSE
