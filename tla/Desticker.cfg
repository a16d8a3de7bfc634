SPECIFICATION Spec
CONSTANTS
  Length = {2, 4}
  Header = 2
  Deadline = 1
  MaxPackets = 3
INVARIANTS
  PacketsAsWritten
PROPERTIES
  EveryPacketIsReturned
  DiscardsNoWholePacket
