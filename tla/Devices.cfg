SPECIFICATION Spec
CONSTANTS
  a = a
  b = b
  Address = {a, b}
  Interfaces <- MCInterfaces
  PcapDevs <- MCPcapDevs
  None = None
INVARIANTS
  UnambiguousDevsAreFound
  StartsWithGateway
CHECK_DEADLOCK FALSE
