SPECIFICATION CreateFragmentPackets
CONSTANTS
  IPv4MaxSize = 65535
  PayloadSize <- SmallPayloads
  FragmentSize <- SmallSizes
  IPv4Header = 20
  TCPHeader = 20
  Seq0 = 250
  Id0 = 14
  SeqWrap = 256
  IdWrap = 16
INVARIANTS
  TypeOK
  Contiguous
  Placeable
  FitsSize
  AtLeastEightBytes
  SegmentIdsDiffer
PROPERTY Terminates
CHECK_DEADLOCK FALSE
