SPECIFICATION Spec
CONSTANTS
  Length = {1, 2}
  Mss = 2
  SeqWrap = 4
  IdWrap = 4
  Faults = {}
  Restartable = {"client"}
  Multicast = {FALSE}
  MaxEvents = 4
  NoConn = NoConn
INVARIANTS
  AckIsNewestRead
PROPERTY Connects
CHECK_DEADLOCK FALSE
