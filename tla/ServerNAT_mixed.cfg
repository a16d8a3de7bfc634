SPECIFICATION Spec
CONSTANTS
  a1 = a1
  a2 = a2
  a3 = a3
  c1 = c1
  c2 = c2
  c3 = c3
  Addr = {a1, a2, a3}
  Client = {c1, c2, c3}
  Protocol <- MixedProtocol
  Flow <- MixedFlow
  PoolSize <- MixedPool
  CounterWrap = 2
  KeepAlive = 0
  OuterId = {0, 1}
  NoPort = NoPort
  NoEntry = NoEntry
  NoFlow = NoFlow
  NoPacket = NoPacket
SYMMETRY MixedSymmetry
INVARIANTS
  RepliesReachTheirSource
