SPECIFICATION Spec
CONSTANTS
  Length = {2, 3}
  Mss = 2
  SeqWrap = 100
  IdWrap = 100
  Faults = {"lose", "reorder", "duplicate", "writeError", "reset"}
  Restartable = {"client", "server"}
  Multicast = {FALSE, TRUE}
  MaxEvents = 3
  NoConn = NoConn
INVARIANTS
  AckWithinSent
  PacketsAreDistinguishable
CHECK_DEADLOCK FALSE
