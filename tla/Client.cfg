SPECIFICATION Spec
CONSTANTS
  i1 = i1
  i2 = i2
  h1 = h1
  h2 = h2
  zero = zero
  eth0 = eth0
  eth1 = eth1
  lo = lo
  IP = {i1, i2}
  HardwareAddr = {h1, h2, zero}
  Conn = {eth0, eth1, lo}
  LoopConn = {lo}
  Frame <- MCFrame
  Capacity = 1
  MaxCaptures = 3
  MaxFragments = 2
  None = None
INVARIANTS
  TypeOK
  NatFollowsAddress
  RepliesStayTogether
PROPERTIES
  ForwardsInOrder
  EveryPacketIsHandled
