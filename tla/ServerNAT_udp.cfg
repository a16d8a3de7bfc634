SPECIFICATION Spec
CONSTANTS
  a1 = a1
  a2 = a2
  a3 = a3
  c1 = c1
  c2 = c2
  c3 = c3
  Addr = {a1, a2, a3}
  Client = {c1, c2, c3}
  Protocol <- UDPProtocol
  Flow <- UDPFlow
  PoolSize <- UDPPool
  CounterWrap = 4
  KeepAlive = 1
  OuterId = {0}
  NoPort = NoPort
  NoEntry = NoEntry
  NoFlow = NoFlow
  NoPacket = NoPacket
SYMMETRY UDPSymmetry
INVARIANTS
  TypeOK
  SharedOnlyAfterRecycle
  RepliesReachTheirSource
  PoolTracksUse
  MissOnlyBeforeRecord
PROPERTY RefusedOnlyWhenAllInUse
