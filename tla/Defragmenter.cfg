SPECIFICATION Spec
CONSTANTS
  d1 = d1
  d2 = d2
  d3 = d3
  l1 = l1
  l2 = l2
  h1 = h1
  h2 = h2
  Datagram = {d1, d2, d3}
  FragFlow = {l1, l2}
  HostKey = {h1, h2}
  FlowOf <- Flows
  KeyOf <- Keys
  Cut <- Cuts
  Deadline = 2
  LengthWrap = 8
  MaxDuplicates = 2
  NoIndicator = NoIndicator
INVARIANTS
  ReassembledExactly
  NoneWaitsWhenWhole
